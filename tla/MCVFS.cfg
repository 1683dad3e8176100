\* fs::remove of a directory that still has an entry: RamFS unlink drops it whole.
CONSTANTS
    Inputs <- MC_Inputs
    Data <- MC_Data
    HOSTNAME <- MC_HOSTNAME
    VERSION <- MC_VERSION
    MAX_OPS = 3
SPECIFICATION Spec
PROPERTY FileTreeSpec
