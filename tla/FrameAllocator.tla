---------------------------- MODULE FrameAllocator ----------------------------
(***************************************************************************)
(* The bitmap frame allocator of src/kernel/src/mm/physical.rs.           *)
(*                                                                         *)
(* A page is a number in 0..MAX_PAGES-1; the bitmap is the set of pages    *)
(* whose bit is 1 (allocated).  first_free, total_pages and free_pages are *)
(* the struct's counters.  The global FRAME_ALLOCATOR is a spin::Mutex     *)
(* taken for the whole of each call (alloc_frame, alloc_frames,           *)
(* free_frame, free_frames), so every call is one atomic step.            *)
(*                                                                         *)
(* held is the set of blocks the callers own: [start, count] as returned  *)
(* by alloc_frame / alloc_frames.  Callers free only what they hold        *)
(* (virtual_mem.rs unmap_region frees the frames it mapped).  last is the *)
(* result of the latest allocation call, NoFrame for None.                *)
(***************************************************************************)
EXTENDS Naturals, FiniteSets, FiniteSetsExt

CONSTANTS
    MAX_PAGES,      \* pages the bitmap covers (4 GiB / 4 KiB in the code)
    Available,      \* pages inside the Available regions of the memory map
    LowMemory,      \* pages below 1 MiB, reserved by init
    KernelImage,    \* pages of kernel_start..kernel_end, reserved by init
    Counts          \* frame counts callers pass to alloc_frames (1, 2, 4)

ASSUME Counts \subseteq 1..MAX_PAGES

Pages == 0..(MAX_PAGES - 1)
NoFrame == MAX_PAGES            \* the None of Option<u64>
NoCall == [count |-> 0, res |-> NoFrame]

VARIABLES bitmap, first_free, total_pages, free_pages, held, last
vars == <<bitmap, first_free, total_pages, free_pages, held, last>>

\* pages start .. start+count-1
Block(start, count) == start..(start + count - 1)

\* is_allocated: a page beyond the bitmap counts as allocated
IsAllocatedNoBound(p) == p \in bitmap
IsAllocated(p) == p \notin Pages \/ p \in bitmap

\* how many times mark_allocated decrements free_pages when it is applied
\* to the pages ps over the bitmap bm: once per page whose bit was clear
MarkAllocatedCountNoCheck(bm, ps) == Cardinality(ps \cap Pages)
MarkAllocatedCount(bm, ps) == Cardinality((ps \cap Pages) \ bm)

\* mark_allocated over a set of pages (free_pages saturates at 0)
MarkAllocated(ps) ==
    /\ bitmap' = bitmap \cup (ps \cap Pages)
    /\ free_pages' = IF free_pages >= MarkAllocatedCount(bitmap, ps)
                     THEN free_pages - MarkAllocatedCount(bitmap, ps) ELSE 0

\* mark_free over a set of pages: only set bits are cleared and counted;
\* total_pages becomes the highest freed page + 1
MarkFree(ps) ==
    LET fresh == ps \cap bitmap
    IN  /\ bitmap' = bitmap \ fresh
        /\ free_pages' = free_pages + Cardinality(fresh)
        /\ total_pages' = IF fresh = {} THEN total_pages
                          ELSE Max({total_pages, Max(fresh) + 1})

\* init: everything allocated, the Available pages freed one by one by
\* mark_free, then LowMemory and KernelImage re-marked allocated, then
\* first_free set to the lowest clear bit (0 if there is none)
Init ==
    LET avail == Available \cap Pages
        afterFree == Pages \ avail
        reserved == LowMemory \cup KernelImage
    IN  /\ bitmap = afterFree \cup (reserved \cap Pages)
        /\ free_pages = Cardinality(avail)
                          - MarkAllocatedCount(afterFree, reserved)
        /\ total_pages = IF avail = {} THEN 0 ELSE Max(avail) + 1
        /\ first_free = IF Pages \subseteq bitmap THEN 0
                        ELSE Min(Pages \ bitmap)
        /\ held = {}
        /\ last = NoCall

\* alloc: scan first_free..MAX_PAGES, then wrap to 0..first_free; the hint
\* moves past the page found
AllocPage ==
    LET up == {p \in Pages : p >= first_free /\ ~IsAllocated(p)}
        low == {p \in Pages : p < first_free /\ ~IsAllocated(p)}
        page == IF up # {} THEN Min(up) ELSE Min(low)
    IN  IF up \cup low = {}
        THEN /\ last' = [count |-> 1, res |-> NoFrame]
             /\ UNCHANGED <<bitmap, first_free, total_pages, free_pages, held>>
        ELSE /\ MarkAllocated({page})
             /\ first_free' = page + 1
             /\ held' = held \cup {[start |-> page, count |-> 1]}
             /\ last' = [count |-> 1, res |-> page]
             /\ UNCHANGED total_pages

\* the lowest start >= from of count free pages, scanning up to MAX_PAGES
\* and restarting the run at every allocated page
FreeRunsNoReset(from, count) ==
    {s \in Pages : s >= from /\ ~IsAllocated(s)
                   /\ Cardinality({p \in Pages : p >= s /\ ~IsAllocated(p)}) >= count
                   /\ \A q \in Pages : q >= from /\ q < s => IsAllocated(q)}
FreeRuns(from, count) ==
    {s \in Pages : s >= from /\ \A p \in Block(s, count) : ~IsAllocated(p)}

\* alloc_contiguous(count) for count >= 2: no wrap and no hint update
AllocContiguous(count) ==
    LET runs == FreeRuns(first_free, count)
    IN  IF runs = {}
        THEN /\ last' = [count |-> count, res |-> NoFrame]
             /\ UNCHANGED <<bitmap, first_free, total_pages, free_pages, held>>
        ELSE /\ MarkAllocated(Block(Min(runs), count))
             /\ held' = held \cup {[start |-> Min(runs), count |-> count]}
             /\ last' = [count |-> count, res |-> Min(runs)]
             /\ UNCHANGED <<first_free, total_pages>>

\* alloc_frames(count): count 1 is alloc()
AllocFrames(count) ==
    IF count = 1 THEN AllocPage ELSE AllocContiguous(count)

\* free_frame(addr) of a frame the caller got from alloc_frame
FreeNoHint(h) ==
    /\ h \in held /\ h.count = 1
    /\ IsAllocated(h.start)
    /\ MarkFree({h.start})
    /\ held' = held \ {h}
    /\ last' = NoCall
    /\ UNCHANGED first_free
FreeFrame(h) ==
    /\ h \in held /\ h.count = 1
    /\ IsAllocated(h.start)
    /\ MarkFree({h.start})
    /\ first_free' = IF h.start < first_free THEN h.start ELSE first_free
    /\ held' = held \ {h}
    /\ last' = NoCall

\* free_frames(addr, count): every page through mark_free, then the hint
FreeFrames(h) ==
    /\ h \in held
    /\ MarkFree(Block(h.start, h.count) \cap Pages)
    /\ first_free' = IF h.start < first_free THEN h.start ELSE first_free
    /\ held' = held \ {h}
    /\ last' = NoCall

Next ==
    \/ \E c \in Counts : AllocFrames(c)
    \/ \E h \in held : FreeFrame(h)
    \/ \E h \in held : FreeFrames(h)

Spec == Init /\ [][Next]_vars

-----------------------------------------------------------------------------
Reserved == (Pages \ Available) \cup ((LowMemory \cup KernelImage) \cap Pages)
HeldPages == UNION {Block(h.start, h.count) : h \in held}

TypeOK ==
    /\ bitmap \subseteq Pages
    /\ first_free \in 0..MAX_PAGES
    /\ total_pages \in 0..MAX_PAGES
    /\ free_pages \in Nat
    /\ held \subseteq [start : Pages, count : Counts]
    /\ last \in [count : Counts \cup {0}, res : Pages \cup {NoFrame}]

\* free_pages, which stats() and free_frames_count() report, is the number
\* of clear bits: mark_allocated / mark_free count only bits they flip,
\* from init on through every alloc and free.
FreeCountAccurate == free_pages = Cardinality(Pages \ bitmap)

\* No frame is handed out twice and none is lost: the allocated bits are
\* exactly the reserved pages plus the blocks callers hold, and those
\* blocks never overlap (alloc_contiguous restarts its run at every
\* allocated page).
FramesConserved ==
    /\ bitmap = Reserved \cup HeldPages
    /\ \A h1, h2 \in held :
          h1 # h2 => Block(h1.start, h1.count) \cap Block(h2.start, h2.count) = {}
    /\ HeldPages \cap Reserved = {}

\* alloc_frame / alloc_frames return None only when no run of that many
\* free pages exists anywhere: alloc_contiguous never wraps below the
\* first_free hint, so this holds only if free and free_contiguous lower the
\* hint whenever they clear a bit below it.
AllocCompleteness ==
    last.res = NoFrame /\ last.count > 0 => FreeRuns(0, last.count) = {}
=============================================================================
