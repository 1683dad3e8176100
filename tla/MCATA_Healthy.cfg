\* A healthy drive: total_blocks() counts sectors, not 4 KiB blocks.
CONSTANTS
    SECTORS = 4
    SPB = 2
    Vals <- MC_Vals
    MAX_OPS = 3
    FAULTS = FALSE
    SLOW = FALSE
SPECIFICATION Spec
INVARIANT HealthyCallsSucceed
