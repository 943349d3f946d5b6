----------------------------- MODULE VfsTree -----------------------------
(***************************************************************************)
(* The vnodes of kernel/fs/vfs.c and the open files that refer to them:    *)
(* links, names, reference counts and lifetimes.  Here an operation is     *)
(* given the vnode that its path leads to: Next says which it may be given, *)
(* and NarcVfs finds it.  What is in a file is left to VfsData.            *)
(*                                                                         *)
(* Vnode is the set of addresses at which the heap can hand out a struct   *)
(* vnode, File that of the struct file objects that callers provide.  The  *)
(* kernel runs with interrupts off, so every call is one action.           *)
(***************************************************************************)
EXTENDS Integers, Sequences, FiniteSets

CONSTANTS
    Vnode,          \* addresses of struct vnode
    Root,           \* the root directory, never freed
    NoNode,         \* the null pointer
    Name,           \* names of directory entries
    NoName,         \* the name of the root and of a free vnode
    File            \* struct file objects

ASSUME NodeAssumption == Root \in Vnode /\ NoNode \notin Vnode /\ IsFiniteSet(Vnode)
ASSUME FileAssumption == IsFiniteSet(File) /\ NoName \notin Name

VARIABLES
    parent, children, name, kind, linked, refs,     \* fields of struct vnode
    fnode,          \* struct file: node
    offset          \* struct file: offset, of an open directory

node == <<parent, children, name, kind, linked, refs>>
file == <<fnode, offset>>
vars == <<parent, children, name, kind, linked, refs, fnode, offset>>

Entries(d) == {children[d][i] : i \in 1..Len(children[d])}
Linked == {v \in Vnode : linked[v]}
Dirs == {v \in Linked : kind[v] = "DIR"}
Openers(v) == {f \in File : fnode[f] = v}

\* Mutant of child_named: the loop ends after the first entry.
FirstNamed(d, n) == IF children[d] # <<>> /\ name[children[d][1]] = n
                    THEN children[d][1] ELSE NoNode

\* child_named
child_named(d, n) == IF \E v \in Entries(d) : name[v] = n
                     THEN CHOOSE v \in Entries(d) : name[v] = n ELSE NoNode

\* Mutant of Ancestors: only the directory itself is compared.
OnlySelf(v) == {v}

\* v and everything above it: the loop over ancestors in vfs_rename.
Ancestors(v) ==
    {u \in Vnode : \A S \in SUBSET Vnode :
        (v \in S /\ \A x \in S : parent[x] # NoNode => parent[x] \in S) => u \in S}

-----------------------------------------------------------------------------
(* Links. *)

\* attach puts a vnode behind the last entry of the directory.
attach(ch, d, v) == [ch EXCEPT ![d] = Append(@, v)]

\* Mutant of Without: the link behind v is dropped with it.
WithoutRest(s, v) ==
    LET at == CHOOSE i \in 1..Len(s) : s[i] = v
    IN  [i \in 1..(at - 1) |-> s[i]]

\* detach takes it out again.
Without(s, v) ==
    LET at == CHOOSE i \in 1..Len(s) : s[i] = v
    IN  [i \in 1..(Len(s) - 1) |-> IF i < at THEN s[i] ELSE s[i + 1]]
detach(ch, v) == [ch EXCEPT ![parent[v]] = Without(@, v)]

\* Mutant of Kept: an unlinked vnode is freed although it is open.
KeptNever(v) == FALSE

\* remove_node: an unlinked vnode is kept while it is open.
Kept(v) == refs[v] # 0

\* release_node gives the vnode back to the heap.
release_node(v) == /\ kind' = [kind EXCEPT ![v] = "FREE"]
                   /\ name' = [name EXCEPT ![v] = NoName]

-----------------------------------------------------------------------------
\* vfs_init: the root directory.  The entries of the archive are made by
\* new_node, as those of later calls are.
Init ==
    /\ parent = [v \in Vnode |-> NoNode]
    /\ children = [v \in Vnode |-> <<>>]
    /\ name = [v \in Vnode |-> NoName]
    /\ kind = [v \in Vnode |-> IF v = Root THEN "DIR" ELSE "FREE"]
    /\ linked = [v \in Vnode |-> v = Root]
    /\ refs = [v \in Vnode |-> 0]
    /\ fnode = [f \in File |-> NoNode]
    /\ offset = [f \in File |-> 0]

\* new_node, when the heap has room for it.
new_node(d, n, v, k) ==
    /\ kind[v] = "FREE"
    /\ kind' = [kind EXCEPT ![v] = k]
    /\ name' = [name EXCEPT ![v] = n]
    /\ parent' = [parent EXCEPT ![v] = d]
    /\ linked' = [linked EXCEPT ![v] = TRUE]
    /\ children' = attach(children, d, v)

\* vfs_open fills in the struct file and counts it.
opened(f, v) ==
    /\ fnode' = [fnode EXCEPT ![f] = v]
    /\ offset' = [offset EXCEPT ![f] = 0]
    /\ refs' = [refs EXCEPT ![v] = @ + 1]

\* A directory (vfs_mkdir), or a file that is made and not opened.
Create(d, n, v, k) ==
    /\ new_node(d, n, v, k)
    /\ UNCHANGED <<refs, fnode, offset>>

\* vfs_open of a vnode that is there.
Open(f, v) ==
    /\ fnode[f] = NoNode
    /\ opened(f, v)
    /\ UNCHANGED <<parent, children, name, kind, linked>>

\* vfs_open of a new file.
OpenNew(f, d, n, v) ==
    /\ fnode[f] = NoNode
    /\ new_node(d, n, v, "REG")
    /\ opened(f, v)

\* vfs_close: the last close frees a vnode that is no longer linked.
Close(f) ==
    /\ fnode[f] # NoNode
    /\ refs' = [refs EXCEPT ![fnode[f]] = @ - 1]
    /\ IF linked[fnode[f]] \/ refs'[fnode[f]] # 0
       THEN UNCHANGED <<kind, name>>
       ELSE release_node(fnode[f])
    /\ fnode' = [fnode EXCEPT ![f] = NoNode]
    /\ offset' = [offset EXCEPT ![f] = 0]
    /\ UNCHANGED <<parent, children, linked>>

\* vfs_readdir: the entry at the offset is returned.
ReadDir(f) ==
    /\ fnode[f] # NoNode /\ kind[fnode[f]] = "DIR"
    /\ offset[f] < Len(children[fnode[f]])
    /\ offset' = [offset EXCEPT ![f] = @ + 1]
    /\ UNCHANGED <<parent, children, name, kind, linked, refs, fnode>>

\* vfs_unlink of a file or of an empty directory.
Unlink(v) ==
    /\ children[v] = <<>>
    /\ children' = detach(children, v)
    /\ parent' = [parent EXCEPT ![v] = NoNode]
    /\ linked' = [linked EXCEPT ![v] = FALSE]
    /\ IF Kept(v) THEN UNCHANGED <<kind, name>> ELSE release_node(v)
    /\ UNCHANGED <<refs, fnode, offset>>

\* vfs_rename of v to a name that is free.
Rename(v, d, n) ==
    /\ v \notin Ancestors(d)
    /\ child_named(d, n) = NoNode
    /\ children' = attach(detach(children, v), d, v)
    /\ parent' = [parent EXCEPT ![v] = d]
    /\ name' = [name EXCEPT ![v] = n]
    /\ UNCHANGED <<kind, linked, refs, fnode, offset>>

\* Mutant of Replaceable: the target may have entries.
ReplaceableFull(target, v) == (kind[target] = "DIR") = (kind[v] = "DIR")

\* What vfs_rename may replace: a file by a file, an empty directory by a
\* directory.
Replaceable(target, v) ==
    /\ (kind[target] = "DIR") = (kind[v] = "DIR")
    /\ children[target] = <<>>

\* vfs_rename of v to a name that is taken: the target is removed first.
RenameOver(v, d, n) ==
    /\ v \notin Ancestors(d)
    /\ LET target == child_named(d, n)
       IN  /\ target \notin {NoNode, v}
           /\ Replaceable(target, v)
           /\ children' = attach(detach(detach(children, target), v), d, v)
           /\ parent' = [parent EXCEPT ![target] = NoNode, ![v] = d]
           /\ linked' = [linked EXCEPT ![target] = FALSE]
           /\ kind' = [kind EXCEPT ![target] = IF Kept(target) THEN @ ELSE "FREE"]
           /\ name' = [name EXCEPT ![target] = IF Kept(target) THEN @ ELSE NoName,
                                   ![v] = n]
    /\ UNCHANGED <<refs, fnode, offset>>

Next ==
    \/ \E d \in Dirs, n \in Name, v \in Vnode :
        /\ child_named(d, n) = NoNode
        /\ \/ \E k \in {"REG", "DIR"} : Create(d, n, v, k)
           \/ \E f \in File : OpenNew(f, d, n, v)
    \/ \E v \in Linked, f \in File : Open(f, v)
    \/ \E v \in Linked \ {Root} :
        \/ Unlink(v)
        \/ \E d \in Dirs, n \in Name : Rename(v, d, n) \/ RenameOver(v, d, n)
    \/ \E f \in File : Close(f) \/ ReadDir(f)

TreeSpec == Init /\ [][Next]_vars

-----------------------------------------------------------------------------
(* Properties. *)

\* No open file refers to freed memory and no vnode leaks: the count of a vnode
\* is the number of its open files, whatever was unlinked or replaced meanwhile,
\* and a vnode is on the heap's side exactly when it is neither linked nor open.
LifetimesCounted ==
    \A v \in Vnode :
        /\ refs[v] = Cardinality(Openers(v))
        /\ kind[v] = "FREE" <=> ~linked[v] /\ Openers(v) = {}

\* The two sides of every link agree: the entries of a directory are the linked
\* vnodes whose parent it is, each once, only directories have entries, and a
\* vnode that is not linked has none.
LinksAgree ==
    \A d \in Vnode :
        /\ Entries(d) = {v \in Linked \ {Root} : parent[v] = d}
        /\ \A i, j \in 1..Len(children[d]) : children[d][i] = children[d][j] => i = j
        /\ Entries(d) # {} => d \in Dirs
        /\ d \notin Linked \ {Root} => parent[d] = NoNode

\* No two entries of a directory have the same name, so a path leads to one
\* vnode at most.
NamesUnique ==
    \A d \in Vnode : \A v, w \in Entries(d) : name[v] = name[w] => v = w

\* The linked vnodes form one tree below the root: whatever contains the root
\* and with a directory its entries contains them all.  So vfs_rename never
\* makes a cycle, which would cut off a subtree that no path leads to.
OneTree ==
    \A S \in SUBSET Linked :
        (Root \in S /\ \A v \in Linked : parent[v] \in S => v \in S) => Linked \subseteq S
=============================================================================
