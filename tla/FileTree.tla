------------------------------ MODULE FileTree ------------------------------
(***************************************************************************)
(* What the path API of the VFS (fs::mkdir, create, remove, write_file,    *)
(* read_file, readdir, and the shell's `write`, which writes at offset 0)  *)
(* promises its callers, over normalised paths: a tree of directories,     *)
(* regular files and character devices, each call either failing with no   *)
(* effect or having the effect its name says.                              *)
(*                                                                         *)
(* A path is a sequence of names; <<>> is the root.  A call may always     *)
(* fail (a missing parent, a name in use, a filesystem that refuses the    *)
(* operation); this module says what a successful call did.                *)
(***************************************************************************)
EXTENDS Naturals, Sequences, FiniteSets

CONSTANTS
    Paths,  \* the paths callers name
    Data    \* the byte strings they write

VARIABLES
    tree,   \* path -> [type |-> "dir" | "file" | "dev", data |-> bytes]
    out     \* the latest call: [op, path, res]

vars == <<tree, out>>

R_OK == [tag |-> "ok"]
R_ERR == [tag |-> "err"]
Bytes(d) == [tag |-> "data", bytes |-> d]
Names(S) == [tag |-> "names", names |-> S]

\* The latest call was op on p and returned res.
Did(op, p, res) == out' = [op |-> op, path |-> p, res |-> res]

Parent(p) == SubSeq(p, 1, Len(p) - 1)
IsDir(p) == p \in DOMAIN tree /\ tree[p].type = "dir"

\* Every node but the root hangs under a directory.
IsTree(t) ==
    /\ <<>> \in DOMAIN t /\ t[<<>>].type = "dir"
    /\ \A p \in DOMAIN t \ {<<>>} : Parent(p) \in DOMAIN t /\ t[Parent(p)].type = "dir"

\* The nodes at p and below it.
Below(p) == {q \in DOMAIN tree : Len(q) >= Len(p) /\ SubSeq(q, 1, Len(p)) = p}

\* The names a directory listing shows: "." and ".." and the children.
Listing(p) ==
    {".", ".."} \cup {q[Len(q)] : q \in {r \in DOMAIN tree \ {<<>>} : Parent(r) = p}}

With(p, node) == [q \in DOMAIN tree \cup {p} |-> IF q = p THEN node ELSE tree[q]]

Dir == [type |-> "dir", data |-> <<>>]
File(d) == [type |-> "file", data |-> d]

\* A write at offset 0 that does not truncate: the new bytes, then what
\* lies beyond them of the old contents.
Overlay(d, old) == d \o SubSeq(old, Len(d) + 1, Len(old))

Init == IsTree(tree) /\ out.op = "none"

Mkdir(p) ==
    /\ Did("mkdir", p, R_OK)
    /\ p # <<>> /\ p \notin DOMAIN tree /\ IsDir(Parent(p))
    /\ tree' = With(p, Dir)

Create(p) ==
    /\ Did("create", p, R_OK)
    /\ p # <<>> /\ p \notin DOMAIN tree /\ IsDir(Parent(p))
    /\ tree' = With(p, File(<<>>))

\* "Remove file or empty directory" (fs::remove): p is a file, a device,
\* an empty directory or absent, and afterwards it is gone.
Remove(p) ==
    /\ Did("remove", p, R_OK)
    /\ p # <<>> /\ Below(p) \subseteq {p}
    /\ tree' = [q \in DOMAIN tree \ {p} |-> tree[q]]

\* Store bytes in a file, created if absent; a device takes and drops them.
Store(op, p, f(_)) ==
    /\ Did(op, p, R_OK)
    /\ \/ p \in DOMAIN tree /\ tree[p].type = "file" /\ tree' = With(p, File(f(tree[p].data)))
       \/ p \in DOMAIN tree /\ tree[p].type = "dev" /\ UNCHANGED tree
       \/ p # <<>> /\ p \notin DOMAIN tree /\ IsDir(Parent(p)) /\ tree' = With(p, File(f(<<>>)))

WriteFile(p, d) == LET Replace(old) == d IN Store("write_file", p, Replace)
WriteAt0(p, d)  == LET Over(old) == Overlay(d, old) IN Store("write", p, Over)

\* Reading a file yields its bytes; a character device, sized 0, none.
ReadFile(p) ==
    /\ p \in DOMAIN tree /\ tree[p].type \in {"file", "dev"}
    /\ Did("read_file", p, Bytes(tree[p].data)) /\ UNCHANGED tree

ReadDir(p) ==
    /\ IsDir(p) /\ Did("readdir", p, Names(Listing(p))) /\ UNCHANGED tree

Ops == {"mkdir", "create", "remove", "write_file", "write", "read_file", "readdir"}

\* Any call may fail, and then changes nothing.
Fail(op, p) == Did(op, p, R_ERR) /\ UNCHANGED tree

Next ==
    \E p \in Paths :
          \/ \E op \in Ops : Fail(op, p)
          \/ Mkdir(p) \/ Create(p) \/ Remove(p) \/ ReadFile(p) \/ ReadDir(p)
          \/ \E d \in Data : WriteFile(p, d) \/ WriteAt0(p, d)

Spec == Init /\ [][Next]_vars

====
