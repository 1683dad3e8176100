\* RamInode::create and ::mkdir each number inodes from their own NEXT_INO,
\* both starting at 1000.
CONSTANTS
    Inputs <- MC_Inputs
    Data <- MC_Data
    HOSTNAME <- MC_HOSTNAME
    VERSION <- MC_VERSION
    MAX_OPS = 3
SPECIFICATION Spec
INVARIANT InoUnique
