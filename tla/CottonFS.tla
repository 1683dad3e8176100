------------------------------- MODULE CottonFS -------------------------------
(***************************************************************************)
(* CottonFS, src/kernel/src/fs/cottonfs.rs: the on-disk filesystem and    *)
(* its in-memory superblock, bitmaps and inode cache.                      *)
(*                                                                         *)
(* Disk state (d-prefixed) is what the block device holds: the superblock *)
(* counters, the inode and data bitmaps, the inode table and the data     *)
(* blocks.  Memory state is the CottonFS struct: superblock, bitmaps and  *)
(* inode_cache, whose entries carry the CottonInode caches (disk_inode,    *)
(* dir_entries, file_data, dirty).                                        *)
(*                                                                         *)
(* The filesystem is driven only from the kernel main loop (shell and GUI *)
(* commands through fs/mod.rs); no interrupt handler touches it, so each  *)
(* Inode method is one atomic step.  Block I/O is assumed to succeed; the *)
(* failures modelled are those of the allocators ("No free blocks", "No   *)
(* free inodes").  Reboot discards memory and mounts the disk again.      *)
(*                                                                         *)
(* Data abstraction: a block holds CELLS cells.  A cell is one directory  *)
(* entry slot of a directory block or one unit of a file's bytes; the     *)
(* same record shape serves both, as the same bytes do on the disk.       *)
(* Block b in 1..NBLOCKS stands for DATA_BLOCKS_START + b - 1, pointer 0  *)
(* is "no block".  Sizes count cells.                                     *)
(***************************************************************************)
EXTENDS Naturals, Sequences, FiniteSets, SequencesExt

CONSTANTS
    MAX_INODES,      \* inode slots 0..MAX_INODES-1 (2048 in the code)
    NBLOCKS,         \* data blocks, total_blocks - DATA_BLOCKS_START
    DIRECT_BLOCKS,   \* direct pointers per inode (12 in the code)
    CELLS,           \* entries (or file units) per block
    Names,           \* file names
    Vals,            \* byte values callers write
    MAX_FILE         \* largest offset + length a caller writes

ROOT_INODE == 1
Inodes == 0..(MAX_INODES - 1)
Blocks == 1..NBLOCKS
FREE == 0
REG == 1
DIR == 2
NoName == "none"

EmptyCell == [ino |-> 0, name |-> NoName, val |-> 0]
Entry(ino, name) == [ino |-> ino, name |-> name, val |-> 0]
DataCell(v) == [ino |-> 0, name |-> NoName, val |-> v]
ZeroBlock == [k \in 1..CELLS |-> EmptyCell]

\* DiskInode::new_file / new_dir, and the all-zero slot of a fresh table
NewDiskInode(t) == [type |-> t, size |-> 0, direct |-> [i \in 1..DIRECT_BLOCKS |-> 0]]

VARIABLES
    dsb, dibm, ddbm, dinode, dblock,   \* the device
    sb, ibm, dbm, cache                \* the mounted CottonFS
vars == <<dsb, dibm, ddbm, dinode, dblock, sb, ibm, dbm, cache>>

\* an inode_cache entry as load_inode_internal creates it
Fresh(di) == [di |-> di, dirLoaded |-> FALSE, entries |-> <<>>,
              dataLoaded |-> FALSE, data |-> <<>>, dirty |-> FALSE]

-----------------------------------------------------------------------------
(* Reading inode contents from the disk.                                   *)

BlocksNeeded(n) == (n + CELLS - 1) \div CELLS

\* the number of leading non-zero direct pointers
Leading(di) ==
    CHOOSE k \in 0..DIRECT_BLOCKS :
        /\ \A i \in 1..k : di.direct[i] # 0
        /\ k < DIRECT_BLOCKS => di.direct[k + 1] = 0

BlockCells(di, k) == FlattenSeq([i \in 1..k |-> dblock[di.direct[i]]])

\* load_dir_entries: every block up to the first null pointer, whatever the
\* size; slots with inode 0 are skipped
LoadDirEntries(di) == SelectSeq(BlockCells(di, Leading(di)), LAMBDA e : e.ino # 0)

\* load_file_data: blocks while bytes remain and the pointer is non-zero
LoadFileData(di) ==
    LET cells == BlockCells(di, Leading(di))
    IN  [k \in 1..Min({di.size, Len(cells)}) |-> cells[k].val]

WithDirLoaded(c) ==
    IF c.dirLoaded THEN c
    ELSE [c EXCEPT !.dirLoaded = TRUE, !.entries = LoadDirEntries(c.di)]
WithDataLoaded(c) ==
    IF c.dataLoaded THEN c
    ELSE [c EXCEPT !.dataLoaded = TRUE, !.data = LoadFileData(c.di)]

-----------------------------------------------------------------------------
(* Writing inode contents.  A save threads a record through the block    *)
(* loop: the inode image being updated, the data bitmap, free_blocks, the *)
(* blocks, whether alloc_block / free_block synced the metadata, and ok.  *)

Ctx == [dbm |-> dbm, free_blocks |-> sb.free_blocks, dblock |-> dblock]
Start(di, ctx) == [ok |-> TRUE, synced |-> FALSE, di |-> di, dbm |-> ctx.dbm,
                   free_blocks |-> ctx.free_blocks, dblock |-> ctx.dblock]

\* cells (i-1)*CELLS+1 .. i*CELLS of the serialized data, zero padded
Chunk(cells, i) ==
    [k \in 1..CELLS |-> IF (i - 1) * CELLS + k <= Len(cells)
                        THEN cells[(i - 1) * CELLS + k] ELSE EmptyCell]

CanAllocBlock(s) == s.free_blocks # 0 /\ \E b \in Blocks : b \notin s.dbm

\* alloc_block: lowest clear bit, set, free_blocks - 1, bitmap and
\* superblock synced; the block becomes direct pointer i
AllocBlockNoSet(s, i) ==
    LET b == Min({x \in Blocks : x \notin s.dbm})
    IN  [s EXCEPT !.di.direct[i] = b, !.free_blocks = @ - 1, !.synced = TRUE]
AllocBlockSetNext(s, i) ==
    LET b == Min({x \in Blocks : x \notin s.dbm})
    IN  [s EXCEPT !.di.direct[i] = b, !.dbm = @ \cup {b + 1},
                  !.free_blocks = @ - 1, !.synced = TRUE]
AllocBlock(s, i) ==
    LET b == Min({x \in Blocks : x \notin s.dbm})
    IN  [s EXCEPT !.di.direct[i] = b, !.dbm = @ \cup {b},
                  !.free_blocks = @ - 1, !.synced = TRUE]

\* the loop "for i in 0..blocks_needed.min(DIRECT_BLOCKS)" of
\* save_dir_entries and save_file_data; a failed alloc_block returns early,
\* keeping the pointers and blocks already written
RECURSIVE WriteBlocks(_, _, _, _)
WriteBlocks(i, n, cells, s) ==
    IF i > n THEN s
    ELSE IF s.di.direct[i] = 0 /\ ~CanAllocBlock(s)
    THEN [s EXCEPT !.ok = FALSE]
    ELSE LET s1 == IF s.di.direct[i] = 0 THEN AllocBlock(s, i) ELSE s
         IN  WriteBlocks(i + 1, n, cells,
                 [s1 EXCEPT !.dblock[s1.di.direct[i]] = Chunk(cells, i)])

\* save_file_data's "free extra blocks if file shrunk": free_block on each
\* non-null pointer from blocks_needed on ("Already free" is a no-op), and
\* the pointer nulled
FreeTailNoSync(s, needed) ==
    LET gone == {s.di.direct[i] : i \in {j \in (needed + 1)..DIRECT_BLOCKS : s.di.direct[j] # 0}}
    IN  [s EXCEPT !.di.direct = [i \in 1..DIRECT_BLOCKS |-> IF i > needed THEN 0 ELSE @[i]],
                  !.dbm = @ \ gone,
                  !.free_blocks = @ + Cardinality(gone \cap s.dbm)]
FreeTailKeepPtr(s, needed) ==
    LET gone == {s.di.direct[i] : i \in {j \in (needed + 1)..DIRECT_BLOCKS : s.di.direct[j] # 0}}
    IN  [s EXCEPT !.dbm = @ \ gone,
                  !.free_blocks = @ + Cardinality(gone \cap s.dbm),
                  !.synced = @ \/ gone \cap s.dbm # {}]
FreeTail(s, needed) ==
    LET gone == {s.di.direct[i] : i \in {j \in (needed + 1)..DIRECT_BLOCKS : s.di.direct[j] # 0}}
    IN  [s EXCEPT !.di.direct = [i \in 1..DIRECT_BLOCKS |-> IF i > needed THEN 0 ELSE @[i]],
                  !.dbm = @ \ gone,
                  !.free_blocks = @ + Cardinality(gone \cap s.dbm),
                  !.synced = @ \/ gone \cap s.dbm # {}]

\* save_dir_entries: serialize, write ceil(n/CELLS) blocks (at most
\* DIRECT_BLOCKS), size := n; blocks a shrunken directory no longer
\* needs keep their pointers and their old entries
SaveDirEntries(c, ctx) ==
    LET n == Len(c.entries)
        s == WriteBlocks(1, Min({BlocksNeeded(n), DIRECT_BLOCKS}), c.entries, Start(c.di, ctx))
    IN  IF s.ok THEN [s EXCEPT !.di.size = n] ELSE s

\* save_file_data: write min(needed, DIRECT_BLOCKS) blocks, free the rest,
\* size := data.len even when it exceeds what the blocks hold
SaveFileData(c, ctx) ==
    LET n == Len(c.data)
        cells == [k \in 1..n |-> DataCell(c.data[k])]
        s == WriteBlocks(1, Min({BlocksNeeded(n), DIRECT_BLOCKS}), cells, Start(c.di, ctx))
    IN  IF s.ok THEN [FreeTail(s, BlocksNeeded(n)) EXCEPT !.di.size = n] ELSE s

\* the variables a save changes: the bitmap, the blocks, the metadata the
\* syncs of alloc_block / free_block (or of an earlier alloc_inode,
\* metaSynced) wrote, and write_disk_inode over the table on success
Saved(ino, s, table, freeInodes, metaSynced) ==
    /\ dbm' = s.dbm
    /\ sb' = [free_blocks |-> s.free_blocks, free_inodes |-> freeInodes]
    /\ dblock' = s.dblock
    /\ ddbm' = IF s.synced THEN s.dbm ELSE ddbm
    /\ dsb' = IF s.synced \/ metaSynced THEN sb' ELSE dsb
    /\ dinode' = IF s.ok THEN [table EXCEPT ![ino] = s.di] ELSE table

\* the cache entry after a save: its image, and dirty cleared on success
AfterSave(c, s) == [c EXCEPT !.di = s.di, !.dirty = IF s.ok THEN FALSE ELSE @]

-----------------------------------------------------------------------------
(* The inode cache and what callers can reach.                            *)

\* load_inode_internal: a cached inode is returned as it is; otherwise the
\* disk image is read and cached unless its type is 0 ("Inode is not
\* allocated")
Cached(ino) == ino \in DOMAIN cache
LoadInode(c, ino, table) ==
    IF ino \in DOMAIN c \/ table[ino].type = FREE THEN c
    ELSE [j \in DOMAIN c \cup {ino} |-> IF j = ino THEN Fresh(table[ino]) ELSE c[j]]

\* free_inode's cache.remove(&ino)
ForgetInode(c, ino) == [j \in DOMAIN c \ {ino} |-> c[j]]

SetEntry(ino, c) == [cache EXCEPT ![ino] = c]

\* Callers reach inodes by lookup from the root (fs/mod.rs resolve_path):
\* a cached inode named by a loaded entry of a reachable directory.
Links(x, y) ==
    /\ Cached(x) /\ cache[x].dirLoaded
    /\ \E k \in 1..Len(cache[x].entries) : cache[x].entries[k].ino = y
RECURSIVE Closure(_)
Closure(S) ==
    LET S1 == S \cup {y \in DOMAIN cache : \E x \in S : Links(x, y)}
    IN  IF S1 = S THEN S ELSE Closure(S1)
Reach == Closure({ROOT_INODE})
Dirs == {d \in Reach : cache[d].di.type = DIR}
Files == {f \in Reach : cache[f].di.type = REG}

HasName(c, name) == \E k \in 1..Len(c.entries) : c.entries[k].name = name
FirstPos(c, name) == Min({k \in 1..Len(c.entries) : c.entries[k].name = name})

-----------------------------------------------------------------------------
(* Operations.                                                           *)

\* Inode::lookup(name): load the entries, take the first match, load it
Lookup(d, name) ==
    LET c == WithDirLoaded(cache[d])
        cache1 == SetEntry(d, c)
    IN  /\ cache' = IF HasName(c, name)
                    THEN LoadInode(cache1, c.entries[FirstPos(c, name)].ino, dinode)
                    ELSE cache1
        /\ UNCHANGED <<dsb, dibm, ddbm, dinode, dblock, sb, ibm, dbm>>

\* readdir / read: materialize the caches
Readdir(d) ==
    /\ cache' = SetEntry(d, WithDirLoaded(cache[d]))
    /\ UNCHANGED <<dsb, dibm, ddbm, dinode, dblock, sb, ibm, dbm>>
Read(f) ==
    /\ cache' = SetEntry(f, WithDataLoaded(cache[f]))
    /\ UNCHANGED <<dsb, dibm, ddbm, dinode, dblock, sb, ibm, dbm>>

\* alloc_inode: "No free inodes" when free_inodes is 0 or no bit above 0
\* is clear; otherwise the lowest clear bit above 0
CanAllocInode == sb.free_inodes # 0 /\ \E i \in 1..(MAX_INODES - 1) : i \notin ibm
NextIno == Min({i \in 1..(MAX_INODES - 1) : i \notin ibm})

\* create(name) and mkdir(name), type t: load the entries (errors
\* ignored), "File exists", alloc_inode (lowest clear bit above 0, bitmap
\* and superblock synced), write_disk_inode, push the entry, mark dirty,
\* save_dir_entries, load_inode
CreateNode(d, name, t) ==
    LET c == WithDirLoaded(cache[d])
    IN  IF HasName(c, name) \/ ~CanAllocInode
        THEN /\ cache' = SetEntry(d, c)
             /\ UNCHANGED <<dsb, dibm, ddbm, dinode, dblock, sb, ibm, dbm>>
        ELSE LET ino == NextIno
                 table == [dinode EXCEPT ![ino] = NewDiskInode(t)]
                 c1 == [c EXCEPT !.entries = Append(@, Entry(ino, name)), !.dirty = TRUE]
                 s == SaveDirEntries(c1, Ctx)
             IN  /\ ibm' = ibm \cup {ino}
                 /\ dibm' = ibm'
                 /\ Saved(d, s, table, sb.free_inodes - 1, TRUE)
                 /\ cache' = LET cache1 == SetEntry(d, AfterSave(c1, s))
                             IN  IF s.ok THEN LoadInode(cache1, ino, table) ELSE cache1

Create(d, name) == CreateNode(d, name, REG)
Mkdir(d, name) == CreateNode(d, name, DIR)


\* unlink(name): load the entries, remove the first match ("File not
\* found"), mark dirty, save_dir_entries, then free_inode: it refuses the
\* root, clears the bit and counts the inode free without looking at the
\* bit, drops the cache entry and syncs bitmap and superblock.  Neither
\* the disk image (type, pointers) nor the data blocks are released.
Unlink(d, name) ==
    LET c == WithDirLoaded(cache[d])
    IN  IF ~HasName(c, name)
        THEN /\ cache' = SetEntry(d, c)
             /\ UNCHANGED <<dsb, dibm, ddbm, dinode, dblock, sb, ibm, dbm>>
        ELSE LET ino == c.entries[FirstPos(c, name)].ino
                 c1 == [c EXCEPT !.entries = RemoveAt(@, FirstPos(c, name)), !.dirty = TRUE]
                 s == SaveDirEntries(c1, Ctx)
                 cache1 == SetEntry(d, AfterSave(c1, s))
                 freed == s.ok /\ ino # ROOT_INODE
             IN  /\ Saved(d, s, dinode, IF freed THEN sb.free_inodes + 1 ELSE sb.free_inodes, freed)
                 /\ ibm' = IF freed THEN ibm \ {ino} ELSE ibm
                 /\ dibm' = IF freed THEN ibm' ELSE dibm
                 /\ cache' = IF freed THEN ForgetInode(cache1, ino) ELSE cache1

\* write(offset, buf): load the data (errors ignored), grow with zeros to
\* offset + len if shorter, copy, mark dirty, save_file_data
Write(f, off, buf) ==
    LET c == WithDataLoaded(cache[f])
        n == IF off + Len(buf) > Len(c.data) THEN off + Len(buf) ELSE Len(c.data)
        data == [k \in 1..n |-> IF off < k /\ k <= off + Len(buf) THEN buf[k - off]
                                ELSE IF k <= Len(c.data) THEN c.data[k] ELSE 0]
        c1 == [c EXCEPT !.data = data, !.dirty = TRUE]
        s == SaveFileData(c1, Ctx)
    IN  /\ Saved(f, s, dinode, sb.free_inodes, FALSE)
        /\ cache' = SetEntry(f, AfterSave(c1, s))
        /\ UNCHANGED <<ibm, dibm>>

\* truncate(size): load (errors ignored), resize with zeros, mark dirty,
\* save_file_data
Truncate(f, size) ==
    LET c == WithDataLoaded(cache[f])
        c1 == [c EXCEPT !.data = [k \in 1..size |-> IF k <= Len(c.data) THEN c.data[k] ELSE 0],
                        !.dirty = TRUE]
        s == SaveFileData(c1, Ctx)
    IN  /\ Saved(f, s, dinode, sb.free_inodes, FALSE)
        /\ cache' = SetEntry(f, AfterSave(c1, s))
        /\ UNCHANGED <<ibm, dibm>>

\* Inode::sync: nothing unless dirty; then the save of its kind
SaveInode(c, ctx) == IF c.di.type = REG THEN SaveFileData(c, ctx) ELSE SaveDirEntries(c, ctx)

InodeSync(i) ==
    /\ cache[i].dirty
    /\ LET s == SaveInode(cache[i], Ctx)
       IN  /\ Saved(i, s, dinode, sb.free_inodes, FALSE)
           /\ cache' = SetEntry(i, AfterSave(cache[i], s))
           /\ UNCHANGED <<ibm, dibm>>

\* FileSystem::sync: every dirty cached inode in inode order, stopping at
\* the first error; then superblock, inode bitmap and data bitmap
RECURSIVE SyncInodes(_, _)
SyncInodes(todo, st) ==
    IF todo = {} THEN st
    ELSE LET i == Min(todo)
             s == SaveInode(st.cache[i], st)
             st1 == [st EXCEPT !.cache[i] = AfterSave(st.cache[i], s), !.dbm = s.dbm,
                               !.free_blocks = s.free_blocks, !.dblock = s.dblock,
                               !.synced = @ \/ s.synced]
         IN  IF s.ok THEN SyncInodes(todo \ {i}, [st1 EXCEPT !.table[i] = s.di])
             ELSE [st1 EXCEPT !.ok = FALSE]

FsSync ==
    LET st == SyncInodes({i \in DOMAIN cache : cache[i].dirty},
                         [ok |-> TRUE, synced |-> FALSE, cache |-> cache, table |-> dinode,
                          dbm |-> dbm, free_blocks |-> sb.free_blocks, dblock |-> dblock])
    IN  /\ cache' = st.cache
        /\ dinode' = st.table
        /\ dbm' = st.dbm
        /\ dblock' = st.dblock
        /\ sb' = [sb EXCEPT !.free_blocks = st.free_blocks]
        /\ dsb' = IF st.ok \/ st.synced THEN sb' ELSE dsb
        /\ ddbm' = IF st.ok \/ st.synced THEN dbm' ELSE ddbm
        /\ dibm' = IF st.ok THEN ibm ELSE dibm
        /\ UNCHANGED ibm

\* a restart: memory is lost; CottonFS::new finds a valid superblock, reads
\* it and both bitmaps, starts with an empty inode cache and loads the root
Reboot ==
    /\ sb' = dsb
    /\ ibm' = dibm
    /\ dbm' = ddbm
    /\ cache' = [j \in {ROOT_INODE} |-> Fresh(dinode[ROOT_INODE])]
    /\ UNCHANGED <<dsb, dibm, ddbm, dinode, dblock>>

\* Superblock::new: every data block free; MAX_INODES - 1 inodes free,
\* counting slot 0, which alloc_inode never hands out
NewSuperblock == [free_blocks |-> NBLOCKS, free_inodes |-> MAX_INODES - 1]

\* CottonFS::new on a zeroed device: no magic, so Superblock::new and
\* format(): root bit set, metadata written, root inode a fresh directory
Init ==
    /\ sb = NewSuperblock
    /\ ibm = {ROOT_INODE}
    /\ dbm = {}
    /\ dsb = sb
    /\ dibm = ibm
    /\ ddbm = dbm
    /\ dinode = [i \in Inodes |-> NewDiskInode(IF i = ROOT_INODE THEN DIR ELSE FREE)]
    /\ dblock = [b \in Blocks |-> ZeroBlock]
    /\ cache = [j \in {ROOT_INODE} |-> Fresh(dinode[ROOT_INODE])]

Next ==
    \/ \E d \in Dirs, name \in Names :
          \/ Lookup(d, name) \/ Create(d, name) \/ Mkdir(d, name) \/ Unlink(d, name)
    \/ \E d \in Dirs : Readdir(d)
    \/ \E f \in Files :
          \/ Read(f)
          \/ \E size \in 0..MAX_FILE : Truncate(f, size)
          \/ \E off \in 0..(MAX_FILE - 1), len \in 0..MAX_FILE :
                /\ off + len <= MAX_FILE
                /\ \E buf \in [1..len -> Vals] : Write(f, off, buf)
    \/ \E i \in Reach : InodeSync(i)
    \/ FsSync
    \/ Reboot

Spec == Init /\ [][Next]_vars

-----------------------------------------------------------------------------
DiskInodes == [type : {FREE, REG, DIR}, size : Nat, direct : [1..DIRECT_BLOCKS -> 0..NBLOCKS]]

TypeOK ==
    /\ sb \in [free_blocks : 0..NBLOCKS, free_inodes : Nat]
    /\ dsb \in [free_blocks : 0..NBLOCKS, free_inodes : Nat]
    /\ ibm \subseteq Inodes /\ dibm \subseteq Inodes
    /\ dbm \subseteq Blocks /\ ddbm \subseteq Blocks
    /\ \A i \in Inodes : dinode[i] \in DiskInodes
    /\ DOMAIN dblock = Blocks
    /\ DOMAIN cache \subseteq Inodes /\ ROOT_INODE \in DOMAIN cache
    /\ \A i \in DOMAIN cache : cache[i].di \in DiskInodes /\ cache[i].dirty \in BOOLEAN

\* Write-through metadata: after every operation, including one that
\* failed half-way for lack of space, the superblock and both bitmaps on
\* disk equal the in-memory ones (alloc_inode, alloc_block, free_block and
\* free_inode each sync what they changed before returning).
MetadataWriteThrough == dsb = sb /\ dibm = ibm /\ ddbm = dbm

\* free_blocks counts the clear data-bitmap bits, in memory and therefore
\* on disk (spec invariant 7 for blocks): alloc_block and free_block each
\* flip one bit and count it, free_block ignoring a bit already clear.
BlockAccounting == sb.free_blocks + Cardinality(dbm) = NBLOCKS

\* Every block pointer of an allocated inode, in its on-disk image and in
\* every cached image, is set in the data bitmap (spec invariant 6): the
\* shrink path of save_file_data frees a block only together with nulling
\* its pointer.
RefsAllocated ==
    /\ \A i \in dibm : dinode[i].type # FREE =>
          \A k \in 1..DIRECT_BLOCKS : dinode[i].direct[k] # 0 => dinode[i].direct[k] \in ddbm
    /\ \A i \in DOMAIN cache : \A k \in 1..DIRECT_BLOCKS :
          cache[i].di.direct[k] # 0 => cache[i].di.direct[k] \in dbm

\* No data block belongs to two places: among the inodes the inode bitmap
\* holds, no two direct pointers, in the on-disk images or the cached ones,
\* name the same block.  alloc_block hands out a block only while its bit
\* is clear and sets that bit; a block whose pointer survives its
\* free_block, or a bit set for the wrong block, lets a later alloc_block
\* give it to a second file, whose writes then overwrite the first's data.
Images(i) == {dinode[i]} \cup (IF i \in DOMAIN cache THEN {cache[i].di} ELSE {})
BlocksExclusive ==
    \A i, j \in ibm, k, l \in 1..DIRECT_BLOCKS :
        <<i, k>> # <<j, l>> =>
            \A x \in Images(i), y \in Images(j) :
                x.direct[k] # 0 => x.direct[k] # y.direct[l]

\* Spec invariant 5: an inode slot is free in the bitmap exactly when its
\* disk image has type 0.  free_inode clears the bit but never rewrites
\* the image.
FreeInodeTyped == \A i \in Inodes : (dinode[i].type = FREE) <=> (i \notin dibm)

\* free_inodes counts the clear inode-bitmap bits (spec invariant 7 for
\* inodes); free_inode adds one even when the bit was already clear.
InodeAccounting == sb.free_inodes = Cardinality(Inodes \ ibm)

\* A clean cached directory is what the disk holds: mounting again and
\* reading it (load_dir_entries) yields the same entries.  A directory
\* that shrinks keeps its no longer needed blocks, old entries included.
DirPersisted ==
    \A d \in DOMAIN cache :
        cache[d].di.type = DIR /\ cache[d].dirLoaded /\ ~cache[d].dirty
            => LoadDirEntries(dinode[d]) = cache[d].entries

\* A clean cached file is what the disk holds (the write / remount / read
\* round trip, spec S1): load_file_data yields the cached bytes.
\* save_file_data records size = data.len but writes at most DIRECT_BLOCKS
\* blocks.
FilePersisted ==
    \A f \in DOMAIN cache :
        cache[f].di.type = REG /\ cache[f].dataLoaded /\ ~cache[f].dirty
            => LoadFileData(dinode[f]) = cache[f].data
=============================================================================
