CONSTANTS
    a = a
    b = b
    MAX_INODES <- MC_MAX_INODES
    NBLOCKS <- MC_NBLOCKS
    DIRECT_BLOCKS <- MC_DIRECT_BLOCKS
    CELLS <- MC_CELLS
    Names <- MC_Names
    Vals <- MC_Vals
    MAX_FILE <- MC_MAX_FILE
SYMMETRY MC_Symmetry
SPECIFICATION Spec
CONSTRAINT MC_FreeInodesBound
INVARIANTS
    MetadataWriteThrough
    BlockAccounting
    RefsAllocated
    BlocksExclusive
