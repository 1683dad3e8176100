------------------------------ MODULE MCCottonFS ------------------------------
(* Inode slots 0..3 (root 1, so two inodes to hand out), two data blocks, *)
(* two direct pointers of one cell each: two entries fill a directory (and *)
(* the disk), so directories grow and shrink across a block boundary and  *)
(* allocations fail for lack of space.  Writes stay within a file's two   *)
(* cells, except in the run that writes past them (MC_MAX_FILE_OVER).     *)
EXTENDS CottonFS

CONSTANTS a, b

MC_MAX_INODES == 4
MC_NBLOCKS == 2
MC_DIRECT_BLOCKS == 2
MC_CELLS == 1
MC_Names == {a, b}
\* the block-level properties do not look at file bytes: callers write
\* zero bytes, and only lengths and block pointers vary
MC_Vals == {0}
\* the run about file contents writes a non-zero byte
MC_Vals_Data == {1}
MC_MAX_FILE == 2
\* writes one cell past a file's DIRECT_BLOCKS blocks
MC_MAX_FILE_OVER == 3
\* room for the root directory's block and both of the file's
MC_NBLOCKS_OVER == 3
MC_Symmetry == Permutations(MC_Names)

\* free_inode counts an inode free every time a stale entry naming it is
\* unlinked, so free_inodes grows without bound; stop at its initial value
\* (a double free still shows as a count above the clear bits)
MC_FreeInodesBound == sb.free_inodes <= MAX_INODES - 1
=============================================================================
