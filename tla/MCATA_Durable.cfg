\* FLUSH CACHE written while the drive still stores the last sector.
CONSTANTS
    SECTORS = 4
    SPB = 2
    Vals <- MC_Vals
    MAX_OPS = 3
    FAULTS = FALSE
    SLOW = FALSE
SPECIFICATION Spec
INVARIANT WritesDurable
