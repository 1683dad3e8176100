------------------------------- MODULE Memory -------------------------------
(***************************************************************************)
(* Paging, virtual memory and the kernel heap of CottonOS, over the frame  *)
(* allocator: arch/x86_64/paging.rs (the kernel page tables, map_page,     *)
(* unmap_page, translate), mm/virtual_mem.rs (the kernel AddressSpace and  *)
(* its regions, kernel_alloc, unmap_region), mm/heap.rs (init and          *)
(* extend_heap) and the stack allocations of proc/process.rs and thread.rs.*)
(*                                                                         *)
(* Addresses are page numbers.  A virtual page v has one index bit per     *)
(* level (PML4, PDPT, PD, PT), so 16 virtual pages stand for the 48-bit    *)
(* space; each table has two entries.  paging::init identity-maps all of   *)
(* physical memory under PML4[0] with huge PD entries, each covering two   *)
(* frames (a 2 MiB page).  A table is named by the frame it lives in; the  *)
(* static tables of the kernel image have negative names.  A frame that is *)
(* used as a table starts out zeroed.                                      *)
(*                                                                         *)
(* One thread of control runs these calls: boot (virtual_mem::init, then   *)
(* heap::init), then any sequence of calls from kernel code.  map_page is  *)
(* split into its table levels, the steps at which it may allocate.        *)
(***************************************************************************)
EXTENDS Integers, SequencesExt

CONSTANTS
    MAX_PAGES, Available, LowMemory, KernelImage, Counts,  \* as FrameAllocator
    KERNEL_START, KERNEL_END,  \* find_free_region's kernel range (1 MiB, 1 GiB)
    USER_START, USER_END,      \* and its user range (256 MiB, end of user space)
    HEAP_START,                \* 32 MiB
    HEAP_PAGES,                \* HEAP_SIZE / PAGE_SIZE
    MAX_HEAP_PAGES,            \* MAX_HEAP_SIZE / PAGE_SIZE
    Sizes,                     \* region sizes, in pages, callers ask for
    MAX_CALLS                  \* bound on the calls kernel code makes after boot

VARIABLES bitmap, first_free, total_pages, free_pages, held, last
faVars == <<bitmap, first_free, total_pages, free_pages, held, last>>

FA == INSTANCE FrameAllocator

VARIABLES
    mem,        \* the contents of every page table: table -> index -> entry
    kas,        \* KERNEL_ADDRESS_SPACE is Some
    regions,    \* its regions: [start, end] in pages
    heapEnd,    \* HEAP_END
    pc,         \* the running call: [op, start, n, i]
    walk,       \* map_page in progress: [virt, phys, lvl, tbl], or NoWalk
    heapFrames, \* the frames heap::init and extend_heap took for the heap
    calls       \* how many calls kernel code has made after boot

vars == <<faVars, mem, kas, regions, heapEnd, pc, walk, heapFrames, calls>>

Pages == FA!Pages
VPages == 0..15
Idx == 0..1
PML4 == -1
PDPT == -2
PD(k) == -3 - k
Tables == {PML4, PDPT, PD(0), PD(1)} \cup Pages
NoMap == -100
NoWalk == [virt |-> -1, phys |-> -1, lvl |-> 0, tbl |-> 0]
Idle == [op |-> "idle", start |-> 0, n |-> 0, i |-> 0]

\* PageTableEntry: empty(), new(table, PRESENT | WRITABLE), new(phys, flags)
\* and the huge entries of paging::init.
Empty == [p |-> FALSE, huge |-> FALSE, addr |-> 0]
Ptr(t) == [p |-> TRUE, huge |-> FALSE, addr |-> t]
Huge(f) == [p |-> TRUE, huge |-> TRUE, addr |-> f]
EmptyTable == [i \in Idx |-> Empty]

\* PageTableIndices::from_addr: the index of v at level 1 (PML4) .. 4 (PT).
Index(v, lvl) == (v \div (2 ^ (4 - lvl))) % 2

\* paging::init: PML4[0] -> PDPT, PDPT[k] -> PD k, PD k entry j a huge page
\* at frame 2 * (2k + j); the other tables are frames, zero until used.
InitMem ==
    [t \in Tables |->
        CASE t = PML4 -> [EmptyTable EXCEPT ![0] = Ptr(PDPT)]
          [] t = PDPT -> [i \in Idx |-> Ptr(PD(i))]
          [] t \in {PD(0), PD(1)} -> [j \in Idx |-> Huge(2 * (2 * (-3 - t) + j))]
          [] OTHER -> EmptyTable]

\* translate: the walk, with 1 GiB and 2 MiB pages resolved at their level.
Translate(v) ==
    LET e1 == mem[PML4][Index(v, 1)]
        e2 == mem[e1.addr][Index(v, 2)]
        e3 == mem[e2.addr][Index(v, 3)]
        e4 == mem[e3.addr][Index(v, 4)]
    IN  CASE ~e1.p -> NoMap
          [] ~e2.p -> NoMap
          [] e2.huge -> e2.addr + (v % 4)
          [] ~e3.p -> NoMap
          [] e3.huge -> e3.addr + (v % 2)
          [] ~e4.p -> NoMap
          [] OTHER -> e4.addr

\* physical::free_frame: a page below MAX_PAGES whose bit is set is
\* cleared, and the hint lowered to it.
FreeFrameAtNoHint(p) ==
    /\ IF p \in Pages /\ FA!IsAllocated(p)
         THEN /\ FA!MarkFree({p})
              /\ UNCHANGED first_free
         ELSE UNCHANGED <<bitmap, free_pages, total_pages, first_free>>
    /\ held' = held \ {[start |-> p, count |-> 1]}
    /\ last' = FA!NoCall
FreeFrameAt(p) ==
    /\ IF p \in Pages /\ FA!IsAllocated(p)
         THEN /\ FA!MarkFree({p})
              /\ first_free' = IF p < first_free THEN p ELSE first_free
         ELSE UNCHANGED <<bitmap, free_pages, total_pages, first_free>>
    /\ held' = held \ {[start |-> p, count |-> 1]}
    /\ last' = FA!NoCall

\* Where control goes when map_page returns: heap::init ignores the
\* result, extend_heap and map_region return on Err.
AfterMap(ok) ==
    IF ok \/ pc.op = "heap_init" THEN [pc EXCEPT !.i = @ + 1] ELSE Idle

(***************************************************************************)
(* map_page, one table level per step.  At the PML4, PDPT and PD levels a  *)
(* missing entry gets a fresh zeroed table from alloc_frame (or the call   *)
(* fails); a present entry is followed, huge or not.  At the PT level the  *)
(* entry is written.                                                       *)
(***************************************************************************)
MapLevel ==
    /\ walk # NoWalk
    /\ LET i == Index(walk.virt, walk.lvl)
           e == mem[walk.tbl][i]
       IN  CASE walk.lvl = 4 ->
                  /\ mem' = [mem EXCEPT ![walk.tbl][i] = [p |-> TRUE, huge |-> FALSE, addr |-> walk.phys]]
                  /\ walk' = NoWalk /\ pc' = AfterMap(TRUE)
                  /\ UNCHANGED faVars
             [] e.p ->
                  /\ walk' = [walk EXCEPT !.lvl = @ + 1, !.tbl = e.addr]
                  /\ UNCHANGED <<faVars, mem, pc>>
             [] OTHER ->
                  /\ FA!AllocPage
                  /\ IF last'.res = FA!NoFrame
                       THEN walk' = NoWalk /\ pc' = AfterMap(FALSE) /\ UNCHANGED mem
                       ELSE LET t == last'.res IN
                            /\ mem' = [mem EXCEPT ![walk.tbl][i] = Ptr(t), ![t] = EmptyTable]
                            /\ walk' = [walk EXCEPT !.lvl = @ + 1, !.tbl = t]
                            /\ UNCHANGED pc
    /\ UNCHANGED <<kas, regions, heapEnd, heapFrames, calls>>

StartWalk(v, f) == walk' = [virt |-> v, phys |-> f, lvl |-> 1, tbl |-> PML4]

(***************************************************************************)
(* Boot.  virtual_mem::init: AddressSpace::new(0) takes a frame for its    *)
(* page table root and zeroes it; the root is recorded and never used.    *)
(***************************************************************************)
VmInit ==
    /\ pc.op = "vm_init"
    /\ FA!AllocPage
    /\ kas' = (last'.res # FA!NoFrame)
    /\ mem' = IF kas' THEN [mem EXCEPT ![last'.res] = EmptyTable] ELSE mem
    /\ pc' = [op |-> "heap_init", start |-> HEAP_START, n |-> HEAP_PAGES, i |-> 0]
    /\ UNCHANGED <<regions, heapEnd, walk, heapFrames, calls>>

\* The page loops of heap::init, extend_heap and map_region: alloc_frame,
\* then map_page.  heap::init panics without a frame (expect); the others
\* return Err.  At the end heap::init and extend_heap move HEAP_END.
PageLoop ==
    /\ pc.op \in {"heap_init", "extend", "map_region"} /\ walk = NoWalk
    /\ IF pc.i = pc.n
         THEN /\ heapEnd' = CASE pc.op = "heap_init" -> HEAP_START + HEAP_PAGES
                              [] pc.op = "extend" -> heapEnd + pc.n
                              [] OTHER -> heapEnd
              /\ pc' = Idle
              /\ UNCHANGED <<faVars, walk, heapFrames>>
         ELSE /\ FA!AllocPage
              /\ IF last'.res = FA!NoFrame
                   THEN /\ pc' = IF pc.op = "heap_init" THEN [Idle EXCEPT !.op = "panic"] ELSE Idle
                        /\ UNCHANGED <<walk, heapFrames>>
                   ELSE /\ StartWalk(pc.start + pc.i, last'.res)
                        /\ heapFrames' = IF pc.op = "map_region" THEN heapFrames
                                         ELSE heapFrames \cup {last'.res}
                        /\ UNCHANGED pc
              /\ UNCHANGED heapEnd
    /\ UNCHANGED <<mem, kas, regions, calls>>

\* extend_heap(additional): refused past MAX_HEAP_SIZE, else the page loop
\* from HEAP_END.
ExtendHeap(a) ==
    /\ pc = Idle /\ calls < MAX_CALLS
    /\ calls' = calls + 1
    /\ IF heapEnd - HEAP_START + a > MAX_HEAP_PAGES
         THEN UNCHANGED pc
         ELSE pc' = [op |-> "extend", start |-> heapEnd, n |-> a, i |-> 0]
    /\ UNCHANGED <<faVars, mem, kas, regions, heapEnd, walk, heapFrames>>

(***************************************************************************)
(* kernel_alloc(size, flags): find_free_region, then map_region: the       *)
(* overlap check, the region pushed, then the page loop.                   *)
(***************************************************************************)
\* The scan over the regions sorted by start: the first gap from current
\* that holds size pages, or the space after the last region.
RECURSIVE FindFrom(_, _, _, _)
FindFrom(rs, current, size, end) ==
    IF rs = {}
      THEN IF current + size <= end THEN current ELSE NoMap
    ELSE LET r == CHOOSE x \in rs : \A y \in rs : x.start <= y.start IN
         IF r.start >= current /\ r.start - current >= size
           THEN current
         ELSE FindFrom(rs \ {r}, r.end, size, end)

\* find_free_region: from the start of the kernel or the user range.
FindFreeRegion(size, user) ==
    FindFrom(regions, IF user THEN USER_START ELSE KERNEL_START, size,
             IF user THEN USER_END ELSE KERNEL_END)

Overlaps(start, end) == \E r \in regions : start < r.end /\ end > r.start

KernelAlloc(size, user) ==
    /\ pc = Idle /\ kas /\ calls < MAX_CALLS
    /\ calls' = calls + 1
    /\ LET virt == FindFreeRegion(size, user) IN
       IF virt = NoMap \/ Overlaps(virt, virt + size)
         THEN UNCHANGED <<regions, pc>>
         ELSE /\ regions' = regions \cup {[start |-> virt, end |-> virt + size]}
              /\ pc' = [op |-> "map_region", start |-> virt, n |-> size, i |-> 0]
    /\ UNCHANGED <<faVars, mem, kas, heapEnd, walk, heapFrames>>

\* paging::unmap_page's walk: the entry it clears, or NoMap where a level
\* is missing.  No level is checked for a huge entry.
PteOf(v) ==
    LET e1 == mem[PML4][Index(v, 1)]
        e2 == mem[e1.addr][Index(v, 2)]
        e3 == mem[e2.addr][Index(v, 3)]
        e4 == mem[e3.addr][Index(v, 4)]
    IN  IF e1.p /\ e2.p /\ e3.p /\ e4.p
          THEN [tbl |-> e3.addr, i |-> Index(v, 4), phys |-> e4.addr]
          ELSE [tbl |-> NoMap, i |-> 0, phys |-> NoMap]

\* unmap_region(start) on the kernel address space: Err when no region
\* starts there; otherwise the region is removed from the list, then its
\* pages are unmapped in order.
UnmapRegion(start) ==
    /\ pc = Idle /\ kas
    /\ IF \E r \in regions : r.start = start
         THEN LET r == CHOOSE x \in regions : x.start = start IN
              /\ calls < MAX_CALLS /\ calls' = calls + 1
              /\ regions' = regions \ {r}
              /\ pc' = [op |-> "unmap_region", start |-> start, n |-> r.end - r.start, i |-> 0]
         ELSE UNCHANGED <<regions, pc, calls>>
    /\ UNCHANGED <<faVars, mem, kas, heapEnd, walk, heapFrames>>

UnmapLoopKeepEntry ==
    /\ pc.op = "unmap_region"
    /\ IF pc.i = pc.n
         THEN pc' = Idle /\ UNCHANGED <<faVars, mem>>
         ELSE LET pte == PteOf(pc.start + pc.i) IN
              IF pte.tbl = NoMap
                THEN pc' = Idle /\ UNCHANGED <<faVars, mem>>
                ELSE /\ UNCHANGED mem
                     /\ FreeFrameAt(pte.phys)
                     /\ pc' = [pc EXCEPT !.i = @ + 1]
    /\ UNCHANGED <<kas, regions, heapEnd, walk, heapFrames, calls>>

\* AddressSpace::unmap_page: paging::unmap_page clears the entry and
\* returns its frame, which free_frame gives back; an Err ends the loop.
UnmapLoop ==
    /\ pc.op = "unmap_region"
    /\ IF pc.i = pc.n
         THEN pc' = Idle /\ UNCHANGED <<faVars, mem>>
         ELSE LET pte == PteOf(pc.start + pc.i) IN
              IF pte.tbl = NoMap
                THEN pc' = Idle /\ UNCHANGED <<faVars, mem>>
                ELSE /\ mem' = [mem EXCEPT ![pte.tbl][pte.i] = Empty]
                     /\ FreeFrameAt(pte.phys)
                     /\ pc' = [pc EXCEPT !.i = @ + 1]
    /\ UNCHANGED <<kas, regions, heapEnd, walk, heapFrames, calls>>

\* Process::new and Thread::new: kernel and user stacks from alloc_frames,
\* and a process's AddressSpace::new, whose root frame is zeroed.  None of
\* them is ever freed.
AllocStack(c) ==
    /\ pc = Idle /\ calls < MAX_CALLS
    /\ FA!AllocContiguous(c)
    /\ calls' = calls + 1
    /\ UNCHANGED <<mem, kas, regions, heapEnd, pc, walk, heapFrames>>

NewAddressSpace ==
    /\ pc = Idle /\ calls < MAX_CALLS
    /\ FA!AllocPage
    /\ mem' = IF last'.res # FA!NoFrame THEN [mem EXCEPT ![last'.res] = EmptyTable] ELSE mem
    /\ calls' = calls + 1
    /\ UNCHANGED <<kas, regions, heapEnd, pc, walk, heapFrames>>

\* physical::init has run (FrameAllocator's Init); paging::init has set up
\* the identity map.
Init ==
    /\ FA!Init
    /\ mem = InitMem
    /\ kas = FALSE
    /\ regions = {}
    /\ heapEnd = HEAP_START
    /\ pc = [Idle EXCEPT !.op = "vm_init"]
    /\ walk = NoWalk
    /\ heapFrames = {}
    /\ calls = 0

Next ==
    \/ VmInit \/ PageLoop \/ MapLevel \/ UnmapLoop \/ NewAddressSpace
    \/ \E a \in 1..(MAX_HEAP_PAGES - HEAP_PAGES) : ExtendHeap(a)
    \/ \E size \in Sizes, user \in BOOLEAN : KernelAlloc(size, user)
    \/ \E v \in VPages : UnmapRegion(v)
    \/ \E c \in Counts \ {1} : AllocStack(c)

Spec == Init /\ [][Next]_vars

(***************************************************************************)
(* Properties                                                              *)
(***************************************************************************)

\* The frame allocator's invariants (FrameAllocator) under its real
\* callers: free_pages counts the clear bits; the set bits are exactly the
\* reserved pages and the blocks alloc_frame / alloc_frames handed out,
\* which never overlap, so unmap_region's free_frame only ever returns a
\* frame a caller held; and alloc_frames(2) fails only when no two free
\* frames are adjacent, though free_frame moves the first_free hint.
FreeCountAccurate == FA!FreeCountAccurate
FramesConserved == FA!FramesConserved
AllocCompleteness == FA!AllocCompleteness

RegionPages == UNION {r.start..(r.end - 1) : r \in regions}
HeapPages == HEAP_START..(heapEnd - 1)

\* heap::init and extend_heap take a frame from alloc_frame for each heap
\* page and map the page to it, so the heap's memory is those frames:
\* translate of every heap page is a frame the heap took.
HeapBacked == \A v \in HeapPages : Translate(v) \in heapFrames

\* A frame that the page-table entry of a live region page or heap page
\* still names is never free in the bitmap: unmap_region clears each
\* entry before free_frame hands its frame back, whatever kernel_alloc,
\* unmap_region, extend_heap and the stack allocations did before.
MappedFramesAllocated ==
    \A v \in RegionPages \cup HeapPages :
        PteOf(v).tbl # NoMap => PteOf(v).phys \in bitmap

\* kernel_alloc never hands out virtual pages of the heap, which
\* heap::init mapped without a region.
RegionsAvoidHeap == RegionPages \cap HeapPages = {}

TypeOK ==
    /\ regions \subseteq [start : VPages, end : 0..16]
    /\ heapFrames \subseteq Pages
    /\ walk.lvl \in 0..4

====
