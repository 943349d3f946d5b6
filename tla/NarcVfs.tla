----------------------------- MODULE NarcVfs -----------------------------
(***************************************************************************)
(* The calls of kernel/fs/vfs.c as the system calls make them: with paths. *)
(* A path is the sequence of its components; empty components, and so      *)
(* trailing slashes, are skipped by walk and lookup_parent alike.  A call  *)
(* that is refused changes nothing and is no action here; which calls are  *)
(* refused is in the guards.                                               *)
(***************************************************************************)
EXTENDS VfsTree

CONSTANTS
    Path,           \* the paths that programs use
    TooLong         \* names of VFS_NAME_MAX characters or more

Dot == "."
DotDot == ".."

ASSUME PathAssumption ==
    /\ TooLong \subseteq Name /\ {Dot, DotDot} \cap Name = {}
    /\ Path \subseteq Seq(Name \cup {Dot, DotDot})

-----------------------------------------------------------------------------
(* Lookups. *)

Found(v) == [status |-> "OK", at |-> v]
Error(e) == [status |-> e, at |-> NoNode]

\* One round of the loop in walk.
Step(here, c) ==
    CASE here.status # "OK" -> here
      [] here.status = "OK" /\ kind[here.at] # "DIR" -> Error("NOT_DIRECTORY")
      [] here.status = "OK" /\ kind[here.at] = "DIR" ->
            CASE c = Dot -> here
              [] c = DotDot -> IF parent[here.at] # NoNode
                               THEN Found(parent[here.at]) ELSE here
              [] OTHER -> IF child_named(here.at, c) # NoNode
                          THEN Found(child_named(here.at, c)) ELSE Error("NOT_FOUND")

walk(path) ==
    LET reached[i \in 0..Len(path)] ==
            IF i = 0 THEN Found(Root) ELSE Step(reached[i - 1], path[i])
    IN  reached[Len(path)]

\* Mutant of lookup_parent: a file passes for a directory.
LookupUnchecked(path) ==
    IF path = <<>> \/ path[Len(path)] \in {Dot, DotDot} \cup TooLong THEN Error("INVALID")
    ELSE walk(SubSeq(path, 1, Len(path) - 1))

\* lookup_parent: the directory that holds, or would hold, the last component.
lookup_parent(path) ==
    LET last == path[Len(path)]
        dir == walk(SubSeq(path, 1, Len(path) - 1))
    IN  IF path = <<>> \/ last \in {Dot, DotDot} \cup TooLong THEN Error("INVALID")
        ELSE IF dir.status = "OK" /\ kind[dir.at] # "DIR" THEN Error("NOT_DIRECTORY")
        ELSE dir

\* Where the paths lead: a directory and a name in it.
Places == {[dir |-> lookup_parent(p).at, entry |-> p[Len(p)]] :
              p \in {q \in Path : lookup_parent(q).status = "OK"}}

\* The vnodes that the paths lead to.
Lookups == {walk(p).at : p \in {q \in Path : walk(q).status = "OK"}}

\* The paths that vfs_open finds missing.
Missing == {[dir |-> lookup_parent(p).at, entry |-> p[Len(p)]] :
               p \in {q \in Path : walk(q).status = "NOT_FOUND" /\ lookup_parent(q).status = "OK"}}

-----------------------------------------------------------------------------
(* Calls. *)

\* vfs_open; flags tell whether a missing file is to be created, an existing
\* one refused, a directory required, or a file to be written.
Flags == SUBSET {"CREATE", "EXCLUSIVE", "DIRECTORY", "WRITE"}

\* The path leads to a vnode.
vfs_open(f) ==
    \E v \in Lookups, flags \in Flags :
        /\ ~({"CREATE", "EXCLUSIVE"} \subseteq flags)
        /\ "DIRECTORY" \in flags => kind[v] = "DIR"
        /\ "WRITE" \in flags => kind[v] # "DIR"
        /\ Open(f, v)

\* It does not, and the file is created.  With DIRECTORY it is created too, and
\* the call refused afterwards.
vfs_open_create(f) ==
    \E m \in Missing, v \in Vnode :
        \/ OpenNew(f, m.dir, m.entry, v)
        \/ fnode[f] = NoNode /\ Create(m.dir, m.entry, v, "REG")

vfs_mkdir ==
    \E p \in Places, v \in Vnode :
        /\ child_named(p.dir, p.entry) = NoNode
        /\ Create(p.dir, p.entry, v, "DIR")

vfs_unlink(remove_directory) ==
    \E p \in Places :
        LET v == child_named(p.dir, p.entry)
        IN  /\ v # NoNode
            /\ remove_directory <=> kind[v] = "DIR"
            /\ Unlink(v)

vfs_rename ==
    \E p, q \in Places :
        LET v == child_named(p.dir, p.entry)
        IN  /\ v # NoNode
            /\ Rename(v, q.dir, q.entry) \/ RenameOver(v, q.dir, q.entry)

Calls ==
    \/ \E f \in File : vfs_open(f) \/ vfs_open_create(f) \/ Close(f) \/ ReadDir(f)
    \/ vfs_mkdir
    \/ \E remove_directory \in BOOLEAN : vfs_unlink(remove_directory)
    \/ vfs_rename

Spec == Init /\ [][Calls]_vars

-----------------------------------------------------------------------------
(* Properties. *)

\* Every call is an operation on the tree: the paths lead to linked vnodes and
\* directories only, also through ".." and below what has just been renamed, and
\* a name that walk has not found is free in the directory of lookup_parent.
ImplementsTree == TreeSpec

\* Programs see a function from paths to files: names come and go one at a
\* time, vfs_rename moves whole subtrees, and neither vfs_unlink nor vfs_rename
\* nor the reuse of vnodes changes which file a handle refers to.
PathTo[v \in Vnode] ==
    IF parent[v] = NoNode THEN <<>> ELSE Append(PathTo[parent[v]], name[v])
NodeAt(p) == CHOOSE v \in Linked : PathTo[v] = p

N == INSTANCE FileNames WITH
        Id <- Vnode, RootId <- Root, NoId <- NoNode, Component <- Name, Handle <- File,
        fs <- [p \in {PathTo[v] : v \in Linked} |->
                  [id |-> NodeAt(p), kind |-> kind[NodeAt(p)]]],
        handle <- fnode

ImplementsFileNames == N!NSpec
=============================================================================
