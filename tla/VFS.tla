-------------------------------- MODULE VFS --------------------------------
(***************************************************************************)
(* The VFS path layer of CottonOS (fs/mod.rs) over the RAM-only root       *)
(* filesystem that fs::init mounts at "/" when no disk is usable, with     *)
(* DevFS (fs/devfs.rs) mounted at "/dev".                                   *)
(*                                                                         *)
(* Filesystem calls come only from main-line code (the shell, the GUI,     *)
(* system calls), one after another, so each call is one action.  A path   *)
(* is the sequence of its components between slashes: "/" is <<"">>,      *)
(* "/a/" is <<"a", "">>, "/a/./b" is <<"a", ".", "b">>.                     *)
(*                                                                         *)
(* RamFS inodes are kept in `ram`, a sequence indexed by node id; DevFS's  *)
(* fixed inodes have negative ids.  Each call is an operator from the      *)
(* state record [ram, inoFile, inoDir, out] to the next, so that fs::init  *)
(* can be built from the same operators as the calls.                       *)
(***************************************************************************)
EXTENDS Integers, Sequences, FiniteSets, TLC

CONSTANTS
    Inputs,     \* the paths callers pass
    Data,       \* the byte strings they write
    HOSTNAME,   \* the bytes create_system_files writes to /etc/hostname
    VERSION,    \* ... and to /etc/version
    MAX_OPS     \* bound on the calls that change the filesystem

NoNode == 0
Root == 1                                   \* RamInode::new_dir(1, None)
DevRoot == -1                               \* DevDir::new(1)
DevNames == {"null", "zero", "random", "console", "tty"}
DevNode == [null |-> -2, zero |-> -3, random |-> -4, console |-> -5, tty |-> -6]
DevMount == "dev"                           \* mount("/dev", DevFS)

Empty == [x \in {} |-> NoNode]
NewDir(ino) == [type |-> "dir", ino |-> ino, entries |-> Empty, data |-> <<>>, parent |-> NoNode]
NewFile(ino) == [type |-> "file", ino |-> ino, entries |-> Empty, data |-> <<>>, parent |-> NoNode]

IsRamDir(r, n) == n > 0 /\ r[n].type = "dir"
IsRamFile(r, n) == n > 0 /\ r[n].type = "file"
IsDevice(n) == n < DevRoot

\* Results, tagged so that TLC can compare any two.
R_OK == [tag |-> "ok"]
R_ERR == [tag |-> "err"]
R_NONE == [tag |-> "none"]
Bytes(d) == [tag |-> "data", bytes |-> d]
Names(S) == [tag |-> "names", names |-> S]

Err(s) == [s EXCEPT !.out = R_ERR]
Ok(s) == [s EXCEPT !.out = R_OK]

(***************************************************************************)
(* Path resolution                                                         *)
(***************************************************************************)

\* Inode::lookup.  RamInode answers "." with None and ".." with its parent
\* link (None for every node); DevDir answers both with None; files and
\* devices have no lookup.  resolve_path turns None and Err alike into an
\* error.
\* DevDir::lookup: None for "." and "..", else the device of that name.
DevLookup(name) == IF name \in DevNames THEN DevNode[name] ELSE NoNode

NodeLookup(r, n, name) ==
    CASE IsRamDir(r, n) ->
             IF name = "." THEN NoNode
             ELSE IF name = ".." THEN r[n].parent
             ELSE IF name \in DOMAIN r[n].entries THEN r[n].entries[name] ELSE NoNode
      [] n = DevRoot -> DevLookup(name)
      [] OTHER -> NoNode

\* resolve_path: walk the components, skipping empty ones and ".".
RECURSIVE ResolveFrom(_, _, _)
ResolveFrom(r, n, comps) ==
    IF comps = <<>> \/ n = NoNode THEN n
    ELSE IF Head(comps) \in {"", "."} THEN ResolveFrom(r, n, Tail(comps))
    ELSE ResolveFrom(r, NodeLookup(r, n, Head(comps)), Tail(comps))

\* lookup: "/" is the root; the mount table is tried newest first, so
\* "/dev" and everything under it resolve in DevFS once it is mounted.
\* The "/" mount matches only paths starting "//" and, like the fallback,
\* resolves the rest from the root.
Lookup(r, comps, mounted) ==
    IF comps = <<"">> THEN Root
    ELSE IF mounted /\ comps[1] = DevMount
      THEN IF Len(comps) = 1 \/ comps = <<DevMount, "">> THEN DevRoot
           ELSE ResolveFrom(r, DevRoot, Tail(comps))
    ELSE ResolveFrom(r, Root, comps)

\* split_path: the parent is everything before the last slash ("/" when
\* that is the first character), the name everything after it.
SplitPath(comps) ==
    IF Len(comps) = 1 THEN [dir |-> <<"">>, name |-> comps[1]]
    ELSE [dir |-> SubSeq(comps, 1, Len(comps) - 1), name |-> comps[Len(comps)]]

(***************************************************************************)
(* Inode operations                                                        *)
(***************************************************************************)

Link(r, n, name, id) == [r EXCEPT ![n].entries = (name :> id) @@ @]

\* RamInode::mkdir and ::create: refuse a name in use, take an inode
\* number from the function's own NEXT_INO counter, link a new parentless
\* inode.  Any other inode refuses ("Not a directory").
InodeMkdir(s, n, name) ==
    IF ~IsRamDir(s.ram, n) \/ name \in DOMAIN s.ram[n].entries THEN Err(s)
    ELSE [s EXCEPT !.ram = Append(Link(@, n, name, Len(@) + 1), NewDir(s.inoDir)),
                   !.inoDir = @ + 1, !.out = R_OK]

InodeCreate(s, n, name) ==
    IF ~IsRamDir(s.ram, n) \/ name \in DOMAIN s.ram[n].entries THEN Err(s)
    ELSE [s EXCEPT !.ram = Append(Link(@, n, name, Len(@) + 1), NewFile(s.inoFile)),
                   !.inoFile = @ + 1, !.out = R_OK]

\* RamInode::unlink drops the entry, if there is one, whatever it names.
InodeUnlink(s, n, name) ==
    IF ~IsRamDir(s.ram, n) THEN Err(s)
    ELSE [s EXCEPT !.ram[n].entries = [x \in DOMAIN @ \ {name} |-> @[x]], !.out = R_OK]

\* RamInode::write at offset 0: grow the file to fit, copy the bytes over
\* the start.  Every device takes and drops the bytes.
Overlay(d, old) == d \o SubSeq(old, Len(d) + 1, Len(old))
InodeWrite(s, n, d) ==
    CASE IsRamFile(s.ram, n) -> [s EXCEPT !.ram[n].data = Overlay(d, @), !.out = R_OK]
      [] IsDevice(n)         -> Ok(s)
      [] OTHER               -> Err(s)

\* RamInode::truncate(0); write_file ignores its error.
Truncate0(s, n) ==
    IF IsRamFile(s.ram, n) THEN [s EXCEPT !.ram[n].data = <<>>] ELSE s

(***************************************************************************)
(* The path API                                                            *)
(***************************************************************************)

\* fs::mkdir, fs::create, fs::remove: look up the parent, ask it.
Mkdir(s, comps, m) ==
    LET sp == SplitPath(comps)
        p == Lookup(s.ram, sp.dir, m)
    IN  IF p = NoNode THEN Err(s) ELSE InodeMkdir(s, p, sp.name)

Create(s, comps, m) ==
    LET sp == SplitPath(comps)
        p == Lookup(s.ram, sp.dir, m)
    IN  IF p = NoNode THEN Err(s) ELSE InodeCreate(s, p, sp.name)

Remove(s, comps, m) ==
    LET sp == SplitPath(comps)
        p == Lookup(s.ram, sp.dir, m)
    IN  IF p = NoNode THEN Err(s) ELSE InodeUnlink(s, p, sp.name)

\* Open the file at the path, or create it when lookup fails; then write
\* at offset 0.  write_file truncates an existing file first (and syncs,
\* which RamFS and DevFS accept); the shell's `write` does not.
WriteVia(s, comps, d, m, truncate) ==
    LET n == Lookup(s.ram, comps, m)
        t == IF n = NoNode THEN Create(s, comps, m)
             ELSE IF truncate THEN Truncate0(s, n) ELSE s
        f == IF n = NoNode THEN Len(t.ram) ELSE n
    IN  IF n = NoNode /\ t.out = R_ERR THEN t ELSE InodeWrite(t, f, d)

WriteFileNoTruncate(s, comps, d, m) == WriteVia(s, comps, d, m, FALSE)

WriteFile(s, comps, d, m) == WriteVia(s, comps, d, m, TRUE)
ShellWrite(s, comps, d, m) == WriteVia(s, comps, d, m, FALSE)

\* read_file: size a buffer by stat and read into it.  A device reports
\* size 0, so nothing is read; directories refuse the read.
ReadFile(s, comps, m) ==
    LET n == Lookup(s.ram, comps, m)
    IN  CASE IsRamFile(s.ram, n) -> [s EXCEPT !.out = Bytes(s.ram[n].data)]
          [] IsDevice(n)         -> [s EXCEPT !.out = Bytes(<<>>)]
          [] OTHER               -> Err(s)

\* RamInode::readdir and DevDir::readdir: "." and "..", then the entries.
RamListing(r, n) == {".", ".."} \cup DOMAIN r[n].entries
DevListing == {".", ".."} \cup DevNames

\* fs::readdir: look the path up, list it.
ReadDir(s, comps, m) ==
    LET n == Lookup(s.ram, comps, m)
    IN  CASE IsRamDir(s.ram, n) -> [s EXCEPT !.out = Names(RamListing(s.ram, n))]
          [] n = DevRoot        -> [s EXCEPT !.out = Names(DevListing)]
          [] OTHER              -> Err(s)

(***************************************************************************)
(* fs::init without a disk                                                  *)
(***************************************************************************)

InitDirs == << <<"bin">>, <<"dev">>, <<"etc">>, <<"home">>, <<"home", "user">>,
               <<"tmp">>, <<"var">>, <<"var", "log">> >>

\* create_directory_structure: mkdir each directory lookup does not find.
RECURSIVE MkdirAll(_, _)
MkdirAll(s, dirs) ==
    IF dirs = <<>> THEN s
    ELSE MkdirAll(IF Lookup(s.ram, Head(dirs), FALSE) # NoNode THEN s
                  ELSE Mkdir(s, Head(dirs), FALSE), Tail(dirs))

\* create_system_files: write each file lookup does not find.
WriteIfMissing(s, comps, d) ==
    IF Lookup(s.ram, comps, FALSE) # NoNode THEN s ELSE WriteFile(s, comps, d, FALSE)

Boot ==
    LET fresh == [ram |-> <<NewDir(1)>>, inoFile |-> 1000, inoDir |-> 1000, out |-> R_NONE]
        dirs == MkdirAll(fresh, InitDirs)
        files == WriteIfMissing(WriteIfMissing(dirs, <<"etc", "hostname">>, HOSTNAME),
                                <<"etc", "version">>, VERSION)
    IN  [files EXCEPT !.out = R_NONE]

(***************************************************************************)
(* What callers see through lookup                                         *)
(***************************************************************************)

\* The names lookup can reach: resolve_path skips "" and "." and never
\* gets past "..", and the /dev mount hides the root's own "dev" entry.
Reachable(n, x) == x \notin {"", ".", ".."} /\ ~(n = Root /\ x = DevMount)

\* The RamFS nodes lookup reaches, as <<path, node>> pairs.
RECURSIVE Subtree(_, _, _)
Subtree(r, n, p) ==
    {<<p, n>>} \cup UNION {Subtree(r, r[n].entries[x], p \o <<x>>) :
                               x \in {y \in DOMAIN r[n].entries : Reachable(n, y)}}

Visible(r) ==
    Subtree(r, Root, <<>>) \cup {<<<<DevMount>>, DevRoot>>}
        \cup {<<<<DevMount, x>>, DevNode[x]>> : x \in DevNames}

AbsNode(r, n) ==
    CASE IsRamDir(r, n)  -> [type |-> "dir", data |-> <<>>]
      [] IsRamFile(r, n) -> [type |-> "file", data |-> r[n].data]
      [] n = DevRoot       -> [type |-> "dir", data |-> <<>>]
      [] OTHER             -> [type |-> "dev", data |-> <<>>]

\* The tree of paths callers see.
VisibleTree(r) ==
    LET V == Visible(r)
    IN  [p \in {e[1] : e \in V} |-> AbsNode(r, (CHOOSE e \in V : e[1] = p)[2])]

\* An input path with "" and "." dropped.
Normal(c) == SelectSeq(c, LAMBDA x : x \notin {"", "."})

VARIABLES
    ram,      \* the RamFS inodes, by node id
    inoFile,  \* RamInode::create's NEXT_INO
    inoDir,   \* RamInode::mkdir's NEXT_INO
    out,      \* the latest call: [op, path, res]
    ops,      \* how many calls changed the filesystem
    view      \* VisibleTree(ram), kept to map the state onto FileTree

vars == <<ram, inoFile, inoDir, out, ops, view>>

Cur == [ram |-> ram, inoFile |-> inoFile, inoDir |-> inoDir, out |-> R_NONE]

\* Take the state the call left; record what it was asked and returned.
Apply(op, c, t) ==
    /\ ram' = t.ram /\ inoFile' = t.inoFile /\ inoDir' = t.inoDir
    /\ out' = [op |-> op, path |-> Normal(c), res |-> t.out]
    /\ view' = VisibleTree(t.ram)

\* fs::init, then DevFS is mounted.
Init ==
    /\ ram = Boot.ram /\ inoFile = Boot.inoFile /\ inoDir = Boot.inoDir
    /\ out = [op |-> "none", path |-> <<>>, res |-> Boot.out] /\ ops = 0 /\ view = VisibleTree(Boot.ram)

Update(op, c, t) == ops < MAX_OPS /\ Apply(op, c, t) /\ ops' = ops + 1
Query(op, c, t) == Apply(op, c, t) /\ UNCHANGED ops

FsMkdir == \E c \in Inputs : Update("mkdir", c, Mkdir(Cur, c, TRUE))
FsCreate == \E c \in Inputs : Update("create", c, Create(Cur, c, TRUE))
FsRemove == \E c \in Inputs : Update("remove", c, Remove(Cur, c, TRUE))
FsWriteFile == \E c \in Inputs, d \in Data : Update("write_file", c, WriteFile(Cur, c, d, TRUE))
FsShellWrite == \E c \in Inputs, d \in Data : Update("write", c, ShellWrite(Cur, c, d, TRUE))
\* Reads also name "/" (`ls /`).
Queried == Inputs \cup {<<"">>}

FsReadFile == \E c \in Queried : Query("read_file", c, ReadFile(Cur, c, TRUE))
FsReadDir == \E c \in Queried : Query("readdir", c, ReadDir(Cur, c, TRUE))

Next == FsMkdir \/ FsCreate \/ FsRemove \/ FsWriteFile \/ FsShellWrite
        \/ FsReadFile \/ FsReadDir

Spec == Init /\ [][Next]_vars

(***************************************************************************)
(* Properties                                                              *)
(***************************************************************************)

FT == INSTANCE FileTree WITH tree <- view, out <- out,
                             Paths <- {Normal(c) : c \in Queried}, Data <- Data

\* Every call of the path API, seen through lookup, either fails with no
\* visible effect or does what FileTree says: mkdir and create add a new
\* empty node under an existing directory, remove takes away a file or an
\* empty directory ("Remove file or empty directory"), write_file and the shell's write store the bytes,
\* read_file returns them and readdir lists exactly the children.
FileTreeSpec == FT!Spec

\* Distinct RamFS inodes have distinct inode numbers (an inode is the
\* identity of a (filesystem, inode number) pair).
InoUnique ==
    \A i, j \in 1..Len(ram) : i # j => ram[i].ino # ram[j].ino

TypeOK ==
    /\ \A n \in 1..Len(ram) : ram[n].type \in {"dir", "file"}
    /\ ops \in 0..MAX_OPS

====
