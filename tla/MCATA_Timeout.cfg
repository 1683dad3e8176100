\* A drive that answers after the poll loop has given up.
CONSTANTS
    SECTORS = 4
    SPB = 2
    Vals <- MC_Vals
    MAX_OPS = 3
    FAULTS = FALSE
    SLOW = TRUE
SPECIFICATION Spec
PROPERTY ReadsReturnDisk
