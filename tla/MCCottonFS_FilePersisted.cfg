CONSTANTS
    a = a
    b = b
    MAX_INODES <- MC_MAX_INODES
    NBLOCKS <- MC_NBLOCKS_OVER
    DIRECT_BLOCKS <- MC_DIRECT_BLOCKS
    CELLS <- MC_CELLS
    Names <- MC_Names
    Vals <- MC_Vals_Data
    MAX_FILE <- MC_MAX_FILE_OVER
SYMMETRY MC_Symmetry
SPECIFICATION Spec
CONSTRAINT MC_FreeInodesBound
INVARIANT FilePersisted
