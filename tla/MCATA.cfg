\* Block I/O against a drive that may fail a command, hang, or finish late.
CONSTANTS
    SECTORS = 4
    SPB = 2
    Vals <- MC_Vals
    MAX_OPS = 3
    FAULTS = TRUE
    SLOW = TRUE
SPECIFICATION Spec
PROPERTY CallsReturn
