------------------------------ MODULE MCMemory ------------------------------
(* Eight frames: frame 0 is low memory, frame 1 the kernel image, 2..7    *)
(* Available.  Virtual pages 0..7 are the identity-mapped first 4 GiB     *)
(* (PML4[0]: two PDs of two 2 MiB pages of two frames), 8..15 the rest of  *)
(* the space, which needs fresh PDPT, PD and PT frames.  The .cfg sets    *)
(* the kernel range of find_free_region to 1..3 (1 MiB to 1 GiB), the     *)
(* user range to 4..9, the heap to page 2 (one page, at most two), and   *)
(* lets kernel code make six calls after boot, enough to fill memory, to  *)
(* unmap and reuse, and to run out of frames inside map_page.             *)
EXTENDS Memory

MC_MAX_PAGES == 8
MC_Available == {1, 2, 3, 4, 5, 6, 7}
MC_LowMemory == {0}
MC_KernelImage == {1}
MC_Counts == {1, 2}
MC_Sizes == {1, 2}
=============================================================================
