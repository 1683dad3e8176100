CONSTANTS
    Callers <- MC_Callers
    Pid <- MC_Pid
    SEM_INIT <- MC_SEM_INIT
    COUNT <- MC_COUNT
    MAX_DEPTH <- MC_MAX_DEPTH
    MAX_ROUNDS <- MC_MAX_ROUNDS
SPECIFICATION Spec
INVARIANT BinaryBounded
