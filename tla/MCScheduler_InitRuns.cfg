CONSTANTS
    TIME_SLICE <- MC_TIME_SLICE
    SleepMs <- MC_SleepMs
    WaitPids <- MC_WaitPids
SPECIFICATION Spec
PROPERTY InitRuns
