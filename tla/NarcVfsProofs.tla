-------------------------- MODULE NarcVfsProofs --------------------------
(***************************************************************************)
(* Proofs about the tree of vnodes, for any finite set of vnodes and of    *)
(* open files: TreeSpec keeps the counts, the links, the names and the one *)
(* tree.  Then about the calls with paths and the start from the archive,  *)
(* for any paths and archives: every step is an operation on the tree, so  *)
(* the same holds of the file system.                                      *)
(***************************************************************************)
EXTENDS NarcTar, NaturalLemmas, FiniteSetTheorems

\* The fields of the structs.
Types ==
    /\ parent \in [Vnode -> Vnode \cup {NoNode}]
    /\ children \in [Vnode -> Seq(Vnode)]
    /\ name \in [Vnode -> Name \cup {NoName}]
    /\ kind \in [Vnode -> {"FREE", "REG", "DIR"}]
    /\ linked \in [Vnode -> BOOLEAN]
    /\ refs \in [Vnode -> Nat]
    /\ fnode \in [File -> Vnode \cup {NoNode}]
    /\ offset \in [File -> Nat]

\* The root is a linked directory, and every other linked vnode has a parent.
Rooted ==
    /\ Root \in Dirs
    /\ \A v \in Linked \ {Root} : parent[v] \in Vnode

\* The inductive invariant.
Inv == Types /\ Rooted /\ LifetimesCounted /\ LinksAgree /\ NamesUnique /\ OneTree

-----------------------------------------------------------------------------
(* The list of the children of a directory. *)

\* The elements of a list of links.
Elements(s) == {s[i] : i \in 1..Len(s)}

\* No link occurs twice.
Distinct(s) == \A i, j \in 1..Len(s) : s[i] = s[j] => i = j

\* attach: appending a vnode that is not in the list adds it once.
LEMMA AppendElements ==
    ASSUME NEW s \in Seq(Vnode), Distinct(s), NEW v \in Vnode, v \notin Elements(s)
    PROVE  /\ Append(s, v) \in Seq(Vnode)
           /\ Distinct(Append(s, v))
           /\ Elements(Append(s, v)) = Elements(s) \cup {v}
<1> DEFINE t == Append(s, v)
<1>1. Len(s) \in Nat /\ Len(t) = Len(s) + 1 /\ t \in Seq(Vnode)
  OBVIOUS
<1>2. /\ \A i \in 1..Len(s) : t[i] = s[i] /\ s[i] \in Vnode
      /\ t[Len(s) + 1] = v
  OBVIOUS
<1>3. \A i \in 1..Len(t) : i \in 1..Len(s) \/ i = Len(s) + 1
  BY <1>1
<1>4. Distinct(t)
  BY <1>1, <1>2, <1>3 DEF Distinct, Elements
<1>5. Elements(t) = Elements(s) \cup {v}
  <2>1. Elements(t) \subseteq Elements(s) \cup {v}
    BY <1>2, <1>3 DEF Elements
  <2>2. Elements(s) \subseteq Elements(t)
    BY <1>1, <1>2 DEF Elements
  <2>3. v \in Elements(t)
    BY <1>1, <1>2 DEF Elements
  <2> QED
    BY <2>1, <2>2, <2>3
<1> QED
  BY <1>1, <1>4, <1>5

\* detach: Without takes out the one link to v.
LEMMA WithoutElements ==
    ASSUME NEW s \in Seq(Vnode), Distinct(s), NEW v \in Elements(s)
    PROVE  /\ Without(s, v) \in Seq(Vnode)
           /\ Distinct(Without(s, v))
           /\ Elements(Without(s, v)) = Elements(s) \ {v}
<1> DEFINE n == Len(s)
           place == CHOOSE i \in 1..n : s[i] = v
           t == Without(s, v)
<1>1. place \in 1..n /\ s[place] = v
  BY DEF Elements
<1>2. n \in Nat /\ \A i \in 1..n : s[i] \in Vnode
  OBVIOUS
<1> HIDE DEF place
<1>3. t = [i \in 1..(n - 1) |-> IF i < place THEN s[i] ELSE s[i + 1]]
  BY DEF Without, place
<1> HIDE DEF t
<1>4. \A i \in 1..(n - 1) : /\ i \in 1..n /\ i + 1 \in 1..n
                            /\ t[i] = IF i < place THEN s[i] ELSE s[i + 1]
  BY <1>2, <1>3
<1>5. t \in Seq(Vnode) /\ Len(t) = n - 1
  <2>1. n - 1 \in Nat
    BY <1>1, <1>2
  <2>2. t \in [1..(n - 1) -> Vnode]
    BY <1>1, <1>2, <1>3
  <2> QED
    BY <2>1, <2>2
<1>6. Distinct(t)
  BY <1>1, <1>2, <1>4, <1>5 DEF Distinct
<1>7. Elements(t) \subseteq Elements(s) \ {v}
  BY <1>1, <1>2, <1>4, <1>5 DEF Distinct, Elements
<1>8. ASSUME NEW u \in Elements(s) \ {v}
      PROVE  u \in Elements(t)
  <2>1. PICK i \in 1..n : s[i] = u
    BY DEF Elements
  <2>2. CASE i < place
    <3>1. i \in 1..Len(t) /\ t[i] = u
      BY <1>1, <1>2, <1>4, <1>5, <2>1, <2>2
    <3> QED
      BY <3>1 DEF Elements
  <2>3. CASE i > place
    <3>1. i - 1 \in 1..Len(t) /\ t[i - 1] = u
      BY <1>1, <1>2, <1>4, <1>5, <2>1, <2>3
    <3> QED
      BY <3>1 DEF Elements
  <2> QED
    BY <1>1, <1>2, <1>8, <2>1, <2>2, <2>3
<1> QED
  BY <1>5, <1>6, <1>7, <1>8 DEF t

\* The lists of all directories.
Lists(ch) == ch \in [Vnode -> Seq(Vnode)] /\ \A d \in Vnode : Distinct(ch[d])

\* attach changes the list of one directory.
LEMMA AttachLists ==
    ASSUME NEW ch, Lists(ch), NEW d \in Vnode, NEW v \in Vnode, v \notin Elements(ch[d])
    PROVE  /\ Lists(attach(ch, d, v))
           /\ \A x \in Vnode : Elements(attach(ch, d, v)[x]) =
                IF x = d THEN Elements(ch[d]) \cup {v} ELSE Elements(ch[x])
<1>1. /\ Append(ch[d], v) \in Seq(Vnode)
      /\ Distinct(Append(ch[d], v))
      /\ Elements(Append(ch[d], v)) = Elements(ch[d]) \cup {v}
  BY AppendElements DEF Lists
<1>2. /\ attach(ch, d, v) \in [Vnode -> Seq(Vnode)]
      /\ \A x \in Vnode : attach(ch, d, v)[x] = IF x = d THEN Append(ch[d], v) ELSE ch[x]
  BY <1>1 DEF Lists, attach
<1> QED
  BY <1>1, <1>2 DEF Lists

\* So does detach.
LEMMA DetachLists ==
    ASSUME NEW ch, Lists(ch), NEW v \in Vnode, parent[v] \in Vnode,
           v \in Elements(ch[parent[v]])
    PROVE  /\ Lists(detach(ch, v))
           /\ \A x \in Vnode : Elements(detach(ch, v)[x]) =
                IF x = parent[v] THEN Elements(ch[x]) \ {v} ELSE Elements(ch[x])
<1> DEFINE p == parent[v]
<1>1. /\ Without(ch[p], v) \in Seq(Vnode)
      /\ Distinct(Without(ch[p], v))
      /\ Elements(Without(ch[p], v)) = Elements(ch[p]) \ {v}
  BY WithoutElements DEF Lists
<1>2. /\ detach(ch, v) \in [Vnode -> Seq(Vnode)]
      /\ \A x \in Vnode : detach(ch, v)[x] = IF x = p THEN Without(ch[p], v) ELSE ch[x]
  BY <1>1 DEF Lists, detach
<1> QED
  BY <1>1, <1>2 DEF Lists

\* LinksAgree in terms of the lists.
LEMMA LinksAsLists ==
    ASSUME Types
    PROVE  LinksAgree <=>
             /\ Lists(children)
             /\ \A d \in Vnode :
                  /\ Elements(children[d]) = {v \in Linked \ {Root} : parent[v] = d}
                  /\ Elements(children[d]) # {} => d \in Dirs
                  /\ d \notin Linked \ {Root} => parent[d] = NoNode
BY DEF Types, LinksAgree, Lists, Distinct, Elements, Entries

-----------------------------------------------------------------------------
(* What the invariant says of a vnode. *)

\* A linked vnode other than the root is an entry of its parent, which is
\* another linked directory's list.
LEMMA ChildOfParent ==
    ASSUME Inv, NEW v \in Linked \ {Root}
    PROVE  /\ parent[v] \in Dirs
           /\ v \in Elements(children[parent[v]])
<1>1. parent[v] \in Vnode
  BY DEF Inv, Rooted
<1>2. Elements(children[parent[v]]) = {w \in Linked \ {Root} : parent[w] = parent[v]}
  BY <1>1, LinksAsLists DEF Inv
<1>3. v \in Elements(children[parent[v]])
  BY <1>2
<1> QED
  BY <1>1, <1>3, LinksAsLists DEF Inv

\* A vnode that the heap holds is in nobody's list and has none of its own.
LEMMA FreeIsUnused ==
    ASSUME Inv, NEW v \in Vnode, kind[v] = "FREE"
    PROVE  /\ v \notin Linked
           /\ v # Root
           /\ refs[v] = 0
           /\ Openers(v) = {}
           /\ parent[v] = NoNode
           /\ Elements(children[v]) = {}
           /\ \A d \in Vnode : v \notin Elements(children[d])
<1>1. v \notin Linked /\ Openers(v) = {} /\ refs[v] = 0
  BY FS_EmptySet DEF Inv, LifetimesCounted, Linked
<1>2. v # Root
  BY DEF Inv, Rooted, Dirs
<1> QED
  BY <1>1, <1>2, LinksAsLists DEF Inv, Dirs

\* The list of a vnode is empty when nothing has it as parent.
LEMMA EmptyList ==
    ASSUME Inv, NEW v \in Vnode, children[v] = <<>>
    PROVE  Elements(children[v]) = {} /\ \A w \in Linked : parent[w] # v
<1>1. Elements(children[v]) = {}
  BY DEF Elements
<1>2. parent[Root] # v
  BY NodeAssumption, LinksAsLists DEF Inv
<1> QED
  BY <1>1, <1>2, LinksAsLists DEF Inv

\* child_named: no vnode means no entry of that name, and a vnode is one.
LEMMA ChildNamed ==
    ASSUME Inv, NEW d \in Vnode, NEW n
    PROVE  /\ child_named(d, n) = NoNode => \A v \in Elements(children[d]) : name[v] # n
           /\ child_named(d, n) # NoNode => /\ child_named(d, n) \in Elements(children[d])
                                            /\ name[child_named(d, n)] = n
<1>1. Elements(children[d]) = Entries(d)
  BY DEF Elements, Entries
<1>2. Elements(children[d]) \subseteq Vnode
  BY LinksAsLists DEF Inv, Linked
<1> QED
  BY <1>1, <1>2, NodeAssumption DEF child_named

-----------------------------------------------------------------------------
(* One tree. *)

\* The ancestors of the parent of w are ancestors of w, which is one itself.
LEMMA AncestorsClosed ==
    ASSUME NEW w \in Vnode
    PROVE  /\ w \in Ancestors(w)
           /\ parent[w] \in Vnode /\ parent[w] # NoNode =>
                Ancestors(parent[w]) \subseteq Ancestors(w)
BY DEF Ancestors

\* A vnode that has no entries may leave the tree, others may be moved below a
\* directory that is not below them: what is left is one tree.
LEMMA MoveKeepsTree ==
    ASSUME Inv, NEW v \in Linked \ {Root}, NEW d \in Linked, v \notin Ancestors(d),
           NEW R \in SUBSET Linked, Root \notin R, v \notin R, d \notin R,
           \A w \in Linked : parent[w] \notin R,
           Linked' = Linked \ R,
           \A w \in Linked \ R : parent'[w] = IF w = v THEN d ELSE parent[w]
    PROVE  OneTree'
<1> SUFFICES ASSUME NEW S \in SUBSET (Linked'), Root \in S,
                    \A w \in Linked' : parent'[w] \in S => w \in S
             PROVE  Linked' \subseteq S
  BY DEF OneTree
<1> DEFINE Below == {w \in Linked : v \in Ancestors(w)}
           T == S \cup R \cup Below
<1>0. Linked \subseteq Vnode /\ NoNode \notin Linked /\ parent[Root] = NoNode
  BY NodeAssumption, LinksAsLists DEF Inv, Linked
<1>1. ASSUME NEW w \in Linked, parent[w] \in T
      PROVE  w \in T
  <2>1. CASE parent[w] \in Below
    BY <1>0, <2>1, AncestorsClosed
  <2>2. CASE parent[w] \in S /\ w # v /\ w \notin R
    BY <2>2
  <2>3. CASE w = v
    BY <1>0, <2>3, AncestorsClosed
  <2> QED
    BY <1>1, <2>1, <2>2, <2>3
<1>2. Linked \subseteq T
  <2>1. T \in SUBSET Linked /\ Root \in T
    OBVIOUS
  <2> QED
    BY <1>1, <2>1 DEF Inv, OneTree
<1>3. d \in S
  BY <1>2
<1>4. v \in S
  BY <1>3
<1>5. Linked \subseteq S \cup R
  <2>1. S \cup R \in SUBSET Linked /\ Root \in S \cup R
    OBVIOUS
  <2>2. \A w \in Linked : parent[w] \in S \cup R => w \in S \cup R
    BY <1>4
  <2> QED
    BY <2>1, <2>2 DEF Inv, OneTree
<1> QED
  BY <1>5

-----------------------------------------------------------------------------
(* One lemma for each action. *)

\* LinksAgree after a step, from the lists after it.
LEMMA LinksFromLists ==
    ASSUME Types', Lists(children'),
           \A d \in Vnode :
              /\ Elements(children'[d]) = {v \in Linked' \ {Root} : parent'[v] = d}
              /\ Elements(children'[d]) # {} => d \in Dirs'
              /\ d \notin Linked' \ {Root} => parent'[d] = NoNode
    PROVE  LinksAgree'
BY DEF Types, LinksAgree, Lists, Distinct, Elements, Entries

\* NamesUnique after a step, from the lists after it.
LEMMA NamesFromLists ==
    ASSUME \A d \in Vnode : \A v, w \in Elements(children'[d]) :
              name'[v] = name'[w] => v = w
    PROVE  NamesUnique'
BY DEF NamesUnique, Entries, Elements

\* A step that leaves the links alone, and perhaps the names.
LEMMA TreeUnchanged ==
    ASSUME Inv, Linked' = Linked, Dirs' = Dirs, UNCHANGED <<parent, children>>
    PROVE  Rooted' /\ LinksAgree' /\ OneTree' /\ (name' = name => NamesUnique')
<1>1. Rooted' /\ OneTree'
  BY DEF Inv, Rooted, OneTree
<1>2. \A d \in Vnode : Entries(d)' = Entries(d)
  BY DEF Entries
<1>3. LinksAgree'
  BY <1>2 DEF Inv, LinksAgree
<1>4. name' = name => NamesUnique'
  BY <1>2 DEF Inv, NamesUnique
<1> QED
  BY <1>1, <1>3, <1>4

\* new_node puts a vnode of the heap into a directory that has no such name:
\* the parts of the invariant that are not about open files.
LEMMA NewNode ==
    ASSUME Inv, Types', NEW d \in Dirs, NEW n \in Name, NEW v \in Vnode,
           NEW k \in {"REG", "DIR"}, child_named(d, n) = NoNode, new_node(d, n, v, k)
    PROVE  /\ Linked' = Linked \cup {v}
           /\ Rooted' /\ LinksAgree' /\ NamesUnique' /\ OneTree'
<1>1. d \in Vnode /\ d \in Linked /\ d # v
  BY FreeIsUnused DEF Dirs, Linked, new_node
<1>2. /\ v \notin Linked /\ v # Root /\ parent[v] = NoNode
      /\ Elements(children[v]) = {}
      /\ \A x \in Vnode : v \notin Elements(children[x])
  BY FreeIsUnused DEF new_node
<1>3. Linked' = Linked \cup {v}
  BY DEF Inv, Types, Linked, new_node
<1>4. /\ \A w \in Vnode : parent'[w] = IF w = v THEN d ELSE parent[w]
      /\ \A w \in Vnode : kind'[w] = IF w = v THEN k ELSE kind[w]
      /\ \A w \in Vnode : name'[w] = IF w = v THEN n ELSE name[w]
  BY DEF Inv, Types, new_node
<1>5. Dirs \subseteq Dirs'
  BY <1>2, <1>3, <1>4 DEF Dirs, Linked
<1>6. /\ Lists(children')
      /\ \A x \in Vnode : Elements(children'[x]) =
           IF x = d THEN Elements(children[d]) \cup {v} ELSE Elements(children[x])
  <2>1. Lists(children) /\ children' = attach(children, d, v)
    BY LinksAsLists DEF Inv, new_node
  <2>2. /\ Lists(attach(children, d, v))
        /\ \A x \in Vnode : Elements(attach(children, d, v)[x]) =
             IF x = d THEN Elements(children[d]) \cup {v} ELSE Elements(children[x])
    BY <1>1, <1>2, <2>1, AttachLists, ZenonT(60)
  <2> QED
    BY <2>1, <2>2
<1>7. Rooted'
  BY <1>1, <1>3, <1>4, <1>5 DEF Inv, Rooted, Linked
<1>8. LinksAgree'
  <2>1. ASSUME NEW x \in Vnode
        PROVE  /\ Elements(children'[x]) = {w \in Linked' \ {Root} : parent'[w] = x}
               /\ Elements(children'[x]) # {} => x \in Dirs'
               /\ x \notin Linked' \ {Root} => parent'[x] = NoNode
    <3>1. /\ Elements(children[x]) = {w \in Linked \ {Root} : parent[w] = x}
          /\ Elements(children[x]) # {} => x \in Dirs
          /\ x \notin Linked \ {Root} => parent[x] = NoNode
      BY LinksAsLists DEF Inv
    <3> QED
      BY <1>1, <1>2, <1>3, <1>4, <1>5, <1>6, <3>1 DEF Linked
  <2> QED
    BY <1>6, <2>1, LinksFromLists
<1>9. NamesUnique'
  <2>1. \A w \in Elements(children[d]) : name[w] # n
    BY <1>1, ChildNamed
  <2>2. ASSUME NEW x \in Vnode, NEW u \in Elements(children'[x]),
               NEW w \in Elements(children'[x]), name'[u] = name'[w]
        PROVE  u = w
    <3>1. Elements(children[x]) \subseteq Vnode
      BY LinksAsLists DEF Inv, Linked
    <3>2. \A y, z \in Elements(children[x]) : name[y] = name[z] => y = z
      BY DEF Inv, NamesUnique, Entries, Elements
    <3> QED
      BY <1>2, <1>4, <1>6, <2>1, <2>2, <3>1, <3>2
  <2> QED
    BY <2>2, NamesFromLists
<1>10. OneTree'
  <2> SUFFICES ASSUME NEW S \in SUBSET (Linked'), Root \in S,
                      \A w \in Linked' : parent'[w] \in S => w \in S
               PROVE  Linked' \subseteq S
    BY DEF OneTree
  <2>1. Root \in S \ {v} /\ S \ {v} \in SUBSET Linked
    BY <1>2, <1>3
  <2>2. \A w \in Linked : parent[w] \in S \ {v} => w \in S \ {v}
    BY <1>2, <1>3, <1>4 DEF Linked
  <2>3. Linked \subseteq S \ {v}
    BY <2>1, <2>2 DEF Inv, OneTree
  <2>4. v \in S
    BY <1>1, <1>3, <1>4, <2>3
  <2> QED
    BY <1>3, <2>3, <2>4
<1> QED
  BY <1>3, <1>7, <1>8, <1>9, <1>10

\* vfs_mkdir, and a file that is made and not opened.
LEMMA CreateStep ==
    ASSUME Inv, NEW d \in Dirs, NEW n \in Name, NEW v \in Vnode,
           NEW k \in {"REG", "DIR"}, child_named(d, n) = NoNode, Create(d, n, v, k)
    PROVE  Inv'
<1>1. d \in Vnode
  BY DEF Dirs, Linked
<1>2. children' \in [Vnode -> Seq(Vnode)]
  BY <1>1, FreeIsUnused, AttachLists, LinksAsLists DEF Inv, Create, new_node, Lists
<1>3. Types'
  BY <1>1, <1>2 DEF Inv, Types, Create, new_node
<1>4. Linked' = Linked \cup {v} /\ Rooted' /\ LinksAgree' /\ NamesUnique' /\ OneTree'
  BY <1>3, NewNode DEF Create
<1>5. LifetimesCounted'
  <2> SUFFICES ASSUME NEW w \in Vnode
               PROVE  /\ refs'[w] = Cardinality(Openers(w)')
                      /\ kind'[w] = "FREE" <=> w \notin Linked' /\ Openers(w)' = {}
    BY DEF LifetimesCounted, Linked
  <2>1. Openers(w)' = Openers(w) /\ refs' = refs
    BY DEF Openers, Create
  <2>2. kind'[w] = IF w = v THEN k ELSE kind[w]
    BY DEF Inv, Types, Create, new_node
  <2> QED
    BY <1>4, <2>1, <2>2 DEF Inv, LifetimesCounted, Linked
<1> QED
  BY <1>3, <1>4, <1>5 DEF Inv

\* vfs_open counts the struct file that it fills in.
LEMMA OpenedCounts ==
    ASSUME Inv, NEW f \in File, NEW v \in Vnode, fnode[f] = NoNode, opened(f, v)
    PROVE  /\ fnode' \in [File -> Vnode \cup {NoNode}]
           /\ offset' \in [File -> Nat]
           /\ refs' \in [Vnode -> Nat]
           /\ \A w \in Vnode : /\ refs'[w] = Cardinality(Openers(w)')
                               /\ Openers(w)' = IF w = v THEN Openers(v) \cup {f} ELSE Openers(w)
<1>1. /\ fnode' \in [File -> Vnode \cup {NoNode}]
      /\ offset' \in [File -> Nat]
      /\ refs' \in [Vnode -> Nat]
  BY DEF Inv, Types, opened
<1>2. \A w \in Vnode : Openers(w)' = IF w = v THEN Openers(v) \cup {f} ELSE Openers(w)
  BY NodeAssumption DEF Inv, Types, opened, Openers
<1>3. f \notin Openers(v) /\ IsFiniteSet(Openers(v))
  BY NodeAssumption, FileAssumption, FS_Subset DEF Openers
<1>4. Cardinality(Openers(v) \cup {f}) = Cardinality(Openers(v)) + 1
  BY <1>3, FS_AddElement
<1>5. \A w \in Vnode : refs'[w] = IF w = v THEN refs[v] + 1 ELSE refs[w]
  BY DEF Inv, Types, opened
<1> QED
  BY <1>1, <1>2, <1>4, <1>5 DEF Inv, LifetimesCounted

\* vfs_open of a new file.
LEMMA OpenNewStep ==
    ASSUME Inv, NEW d \in Dirs, NEW n \in Name, NEW v \in Vnode, NEW f \in File,
           child_named(d, n) = NoNode, OpenNew(f, d, n, v)
    PROVE  Inv'
<1>1. d \in Vnode
  BY DEF Dirs, Linked
<1>2. children' \in [Vnode -> Seq(Vnode)]
  BY <1>1, FreeIsUnused, AttachLists, LinksAsLists DEF Inv, OpenNew, new_node, Lists
<1>3. /\ fnode' \in [File -> Vnode \cup {NoNode}]
      /\ offset' \in [File -> Nat]
      /\ refs' \in [Vnode -> Nat]
      /\ \A w \in Vnode : /\ refs'[w] = Cardinality(Openers(w)')
                          /\ Openers(w)' = IF w = v THEN Openers(v) \cup {f} ELSE Openers(w)
  BY OpenedCounts DEF OpenNew
<1>4. Types'
  BY <1>1, <1>2, <1>3 DEF Inv, Types, OpenNew, new_node
<1>5. Linked' = Linked \cup {v} /\ Rooted' /\ LinksAgree' /\ NamesUnique' /\ OneTree'
  BY <1>4, NewNode DEF OpenNew
<1>6. LifetimesCounted'
  <2> SUFFICES ASSUME NEW w \in Vnode
               PROVE  /\ refs'[w] = Cardinality(Openers(w)')
                      /\ kind'[w] = "FREE" <=> w \notin Linked' /\ Openers(w)' = {}
    BY DEF LifetimesCounted, Linked
  <2>1. kind'[w] = IF w = v THEN "REG" ELSE kind[w]
    BY DEF Inv, Types, OpenNew, new_node
  <2> QED
    BY <1>3, <1>5, <2>1 DEF Inv, LifetimesCounted, Linked
<1> QED
  BY <1>4, <1>5, <1>6 DEF Inv

\* vfs_open of a vnode that is there.
LEMMA OpenStep ==
    ASSUME Inv, NEW f \in File, NEW v \in Linked, Open(f, v)
    PROVE  Inv'
<1>1. v \in Vnode
  BY DEF Linked
<1>2. /\ fnode' \in [File -> Vnode \cup {NoNode}]
      /\ offset' \in [File -> Nat]
      /\ refs' \in [Vnode -> Nat]
      /\ \A w \in Vnode : /\ refs'[w] = Cardinality(Openers(w)')
                          /\ Openers(w)' = IF w = v THEN Openers(v) \cup {f} ELSE Openers(w)
  BY <1>1, OpenedCounts DEF Open
<1>3. Types'
  BY <1>2 DEF Inv, Types, Open
<1>4. Linked' = Linked /\ Dirs' = Dirs
  BY DEF Linked, Dirs, Open
<1>5. Rooted' /\ LinksAgree' /\ NamesUnique' /\ OneTree'
  BY <1>4, TreeUnchanged DEF Open
<1>6. LifetimesCounted'
  <2> SUFFICES ASSUME NEW w \in Vnode
               PROVE  /\ refs'[w] = Cardinality(Openers(w)')
                      /\ kind'[w] = "FREE" <=> w \notin Linked' /\ Openers(w)' = {}
    BY DEF LifetimesCounted, Linked
  <2>1. kind' = kind
    BY DEF Open
  <2> QED
    BY <1>2, <1>4, <2>1 DEF Inv, LifetimesCounted, Linked
<1> QED
  BY <1>3, <1>5, <1>6 DEF Inv

\* vfs_close: the last close of an unlinked vnode gives it back.
LEMMA CloseStep ==
    ASSUME Inv, NEW f \in File, Close(f)
    PROVE  Inv'
<1>0. PICK v \in Vnode : v = fnode[f]
  BY DEF Inv, Types, Close
<1> DEFINE freed == v \notin Linked /\ refs'[v] = 0
<1>1. f \in Openers(v)
  BY <1>0 DEF Openers
<1>2. IsFiniteSet(Openers(v)) /\ Cardinality(Openers(v) \ {f}) = Cardinality(Openers(v)) - 1
  BY <1>1, FileAssumption, FS_Subset, FS_RemoveElement DEF Openers
<1>3. \A w \in Vnode : Openers(w)' = IF w = v THEN Openers(v) \ {f} ELSE Openers(w)
  BY <1>0, NodeAssumption DEF Inv, Types, Close, Openers
<1>4. /\ \A w \in Vnode : refs'[w] = IF w = v THEN refs[v] - 1 ELSE refs[w]
      /\ refs[v] = Cardinality(Openers(v))
  BY <1>0 DEF Inv, Types, LifetimesCounted, Close
<1>5. /\ \A w \in Vnode : refs'[w] = Cardinality(Openers(w)')
      /\ refs'[v] \in Nat
  <2>1. Cardinality(Openers(v) \ {f}) \in Nat
    BY <1>2, FS_Difference, FS_CardinalityType
  <2> QED
    BY <1>1, <1>2, <1>3, <1>4, <2>1 DEF Inv, LifetimesCounted
<1>6. Linked' = Linked /\ parent' = parent /\ children' = children
  BY DEF Linked, Close
<1>7. /\ \A w \in Vnode : kind'[w] = IF w = v /\ freed THEN "FREE" ELSE kind[w]
      /\ \A w \in Vnode : name'[w] = IF w = v /\ freed THEN NoName ELSE name[w]
      /\ kind' \in [Vnode -> {"FREE", "REG", "DIR"}]
      /\ name' \in [Vnode -> Name \cup {NoName}]
  BY <1>0 DEF Inv, Types, Linked, Close, release_node
<1>8. Types'
  <2>1. refs' \in [Vnode -> Nat]
    BY <1>4, <1>5 DEF Inv, Types, Close
  <2> QED
    BY <1>6, <1>7, <2>1 DEF Inv, Types, Close
<1>9. Dirs' = Dirs
  BY <1>6, <1>7 DEF Dirs, Linked
<1>10. Rooted' /\ LinksAgree' /\ OneTree'
  BY <1>6, <1>9, TreeUnchanged
<1>11. NamesUnique'
  <2>1. ASSUME NEW d \in Vnode, NEW u \in Elements(children'[d]),
               NEW w \in Elements(children'[d]), name'[u] = name'[w]
        PROVE  u = w
    <3>1. Elements(children[d]) \subseteq Linked
      BY LinksAsLists DEF Inv
    <3>2. u \in Linked /\ w \in Linked /\ u \in Vnode /\ w \in Vnode
      BY <1>6, <3>1 DEF Linked
    <3>3. name'[u] = name[u] /\ name'[w] = name[w]
      BY <1>7, <3>2
    <3>4. \A y, z \in Elements(children[d]) : name[y] = name[z] => y = z
      BY DEF Inv, NamesUnique, Entries, Elements
    <3> QED
      BY <1>6, <2>1, <3>3, <3>4
  <2> QED
    BY <2>1, NamesFromLists
<1>12. LifetimesCounted'
  <2> SUFFICES ASSUME NEW w \in Vnode
               PROVE  kind'[w] = "FREE" <=> w \notin Linked' /\ Openers(w)' = {}
    BY <1>5 DEF LifetimesCounted, Linked
  <2>1. kind[w] = "FREE" <=> w \notin Linked /\ Openers(w) = {}
    BY DEF Inv, LifetimesCounted, Linked
  <2>2. refs'[v] = 0 <=> Openers(v)' = {}
    <3>1. IsFiniteSet(Openers(v)')
      BY <1>1, <1>2, <1>3, FS_Difference
    <3> QED
      BY <1>1, <1>5, <3>1, FS_EmptySet
  <2> QED
    BY <1>1, <1>3, <1>6, <1>7, <2>1, <2>2
<1> QED
  BY <1>8, <1>10, <1>11, <1>12 DEF Inv

\* vfs_readdir moves an offset.
LEMMA ReadDirStep ==
    ASSUME Inv, NEW f \in File, ReadDir(f)
    PROVE  Inv'
<1>1. Types'
  BY DEF Inv, Types, ReadDir
<1>2. Linked' = Linked /\ Dirs' = Dirs
  BY DEF Linked, Dirs, ReadDir
<1>3. Rooted' /\ LinksAgree' /\ NamesUnique' /\ OneTree'
  BY <1>2, TreeUnchanged DEF ReadDir
<1>4. LifetimesCounted'
  BY <1>2 DEF Inv, LifetimesCounted, Openers, Linked, ReadDir
<1> QED
  BY <1>1, <1>3, <1>4 DEF Inv

\* The count of a vnode is zero when no file has it open.
LEMMA NoOpeners ==
    ASSUME NEW w
    PROVE  Cardinality(Openers(w)) = 0 <=> Openers(w) = {}
BY FileAssumption, FS_Subset, FS_EmptySet DEF Openers

\* vfs_unlink: the vnode leaves the tree and, unless it is open, goes back to
\* the heap.
LEMMA UnlinkStep ==
    ASSUME Inv, NEW v \in Linked \ {Root}, Unlink(v)
    PROVE  Inv'
<1>0. PICK p \in Vnode : p = parent[v] /\ p \in Dirs
  BY ChildOfParent DEF Dirs, Linked
<1>1. v \in Vnode /\ v \in Elements(children[p])
  BY <1>0, ChildOfParent DEF Linked
<1>2. Elements(children[v]) = {} /\ \A w \in Linked : parent[w] # v
  BY <1>1, EmptyList DEF Unlink
<1>3. Linked' = Linked \ {v}
  BY <1>1 DEF Inv, Types, Linked, Unlink
<1>4. /\ \A w \in Vnode : parent'[w] = IF w = v THEN NoNode ELSE parent[w]
      /\ \A w \in Vnode : kind'[w] = IF w = v /\ refs[v] = 0 THEN "FREE" ELSE kind[w]
      /\ \A w \in Vnode : name'[w] = IF w = v /\ refs[v] = 0 THEN NoName ELSE name[w]
  BY <1>1 DEF Inv, Types, Unlink, Kept, release_node
<1>5. Dirs' = Dirs \ {v}
  BY <1>3, <1>4 DEF Dirs, Linked
<1>6. /\ Lists(children')
      /\ \A x \in Vnode : Elements(children'[x]) =
           IF x = p THEN Elements(children[x]) \ {v} ELSE Elements(children[x])
  <2>1. Lists(children) /\ children' = detach(children, v)
    BY LinksAsLists DEF Inv, Unlink
  <2>2. parent[v] \in Vnode /\ v \in Elements(children[parent[v]])
    BY <1>0, <1>1
  <2>3. /\ Lists(detach(children, v))
        /\ \A x \in Vnode : Elements(detach(children, v)[x]) =
             IF x = parent[v] THEN Elements(children[x]) \ {v} ELSE Elements(children[x])
    BY <1>1, <2>1, <2>2, DetachLists
  <2> QED
    BY <1>0, <2>1, <2>3
<1>7. Types'
  <2>1. children' \in [Vnode -> Seq(Vnode)]
    BY <1>6 DEF Lists
  <2>2. /\ kind' \in [Vnode -> {"FREE", "REG", "DIR"}]
        /\ name' \in [Vnode -> Name \cup {NoName}]
    BY DEF Inv, Types, Unlink, release_node
  <2> QED
    BY <2>1, <2>2 DEF Inv, Types, Unlink
<1>8. Rooted'
  BY <1>3, <1>4, <1>5 DEF Inv, Rooted, Linked
<1>9. LinksAgree'
  <2>1. ASSUME NEW x \in Vnode
        PROVE  /\ Elements(children'[x]) = {w \in Linked' \ {Root} : parent'[w] = x}
               /\ Elements(children'[x]) # {} => x \in Dirs'
               /\ x \notin Linked' \ {Root} => parent'[x] = NoNode
    <3>1. /\ Elements(children[x]) = {w \in Linked \ {Root} : parent[w] = x}
          /\ Elements(children[x]) # {} => x \in Dirs
          /\ x \notin Linked \ {Root} => parent[x] = NoNode
      BY LinksAsLists DEF Inv
    <3>2. Elements(children'[x]) = {w \in Linked' \ {Root} : parent'[w] = x}
      <4>1. Elements(children'[x]) = Elements(children[x]) \ {v}
        BY <1>0, <1>6, <3>1
      <4>2. \A w \in Linked' : w # v /\ parent'[w] = parent[w]
        BY <1>3, <1>4 DEF Linked
      <4> QED
        BY <1>3, <3>1, <4>1, <4>2
    <3>3. Elements(children'[x]) # {} => x \in Dirs'
      BY <1>2, <1>5, <1>6, <3>1
    <3>4. x \notin Linked' \ {Root} => parent'[x] = NoNode
      BY <1>3, <1>4, <3>1
    <3> QED
      BY <3>2, <3>3, <3>4
  <2> QED
    BY <1>6, <1>7, <2>1, LinksFromLists
<1>10. NamesUnique'
  <2>1. ASSUME NEW x \in Vnode, NEW u \in Elements(children'[x]),
               NEW w \in Elements(children'[x]), name'[u] = name'[w]
        PROVE  u = w
    <3>1. Elements(children[x]) = {y \in Linked \ {Root} : parent[y] = x}
      BY LinksAsLists DEF Inv
    <3>2. u # v /\ w # v /\ u \in Elements(children[x]) /\ w \in Elements(children[x])
      BY <1>0, <1>6, <3>1
    <3>3. name'[u] = name[u] /\ name'[w] = name[w]
      BY <1>4, <3>1, <3>2 DEF Linked
    <3>4. \A y, z \in Elements(children[x]) : name[y] = name[z] => y = z
      BY DEF Inv, NamesUnique, Entries, Elements
    <3> QED
      BY <2>1, <3>2, <3>3, <3>4
  <2> QED
    BY <2>1, NamesFromLists
<1>11. OneTree'
  <2> SUFFICES ASSUME NEW S \in SUBSET (Linked'), Root \in S,
                      \A w \in Linked' : parent'[w] \in S => w \in S
               PROVE  Linked' \subseteq S
    BY DEF OneTree
  <2>1. S \cup {v} \in SUBSET Linked /\ Root \in S \cup {v}
    BY <1>3
  <2>2. \A w \in Linked : parent[w] \in S \cup {v} => w \in S \cup {v}
    BY <1>2, <1>3, <1>4 DEF Linked
  <2>3. Linked \subseteq S \cup {v}
    BY <2>1, <2>2 DEF Inv, OneTree
  <2> QED
    BY <1>3, <2>3
<1>12. LifetimesCounted'
  <2> SUFFICES ASSUME NEW w \in Vnode
               PROVE  /\ refs'[w] = Cardinality(Openers(w)')
                      /\ kind'[w] = "FREE" <=> w \notin Linked' /\ Openers(w)' = {}
    BY DEF LifetimesCounted, Linked
  <2>1. Openers(w)' = Openers(w) /\ refs' = refs
    BY DEF Openers, Unlink
  <2>2. /\ refs[w] = Cardinality(Openers(w))
        /\ kind[w] = "FREE" <=> w \notin Linked /\ Openers(w) = {}
    BY DEF Inv, LifetimesCounted, Linked
  <2>3. refs[w] = 0 <=> Openers(w) = {}
    BY <2>2, NoOpeners
  <2> QED
    BY <1>3, <1>4, <2>1, <2>2, <2>3
<1> QED
  BY <1>7, <1>8, <1>9, <1>10, <1>11, <1>12 DEF Inv

\* vfs_rename to a free name.
LEMMA RenameStep ==
    ASSUME Inv, NEW v \in Linked \ {Root}, NEW d \in Dirs, NEW n \in Name,
           Rename(v, d, n)
    PROVE  Inv'
<1>0. PICK p \in Vnode : p = parent[v] /\ p \in Dirs
  BY ChildOfParent DEF Dirs, Linked
<1>1. /\ v \in Vnode /\ v \in Elements(children[p])
      /\ d \in Vnode /\ d \in Linked
  BY <1>0, ChildOfParent DEF Dirs, Linked
<1>2. Linked' = Linked /\ Dirs' = Dirs
  BY DEF Linked, Dirs, Rename
<1>3. /\ \A w \in Vnode : parent'[w] = IF w = v THEN d ELSE parent[w]
      /\ \A w \in Vnode : name'[w] = IF w = v THEN n ELSE name[w]
  BY DEF Inv, Types, Rename
<1>4. \A x \in Vnode : /\ Elements(children[x]) = {w \in Linked \ {Root} : parent[w] = x}
                       /\ Elements(children[x]) # {} => x \in Dirs
                       /\ x \notin Linked \ {Root} => parent[x] = NoNode
  BY LinksAsLists DEF Inv
<1>5. /\ Lists(children')
      /\ \A x \in Vnode : Elements(children'[x]) =
           IF x = d THEN Elements(children[d]) \cup {v} ELSE Elements(children[x]) \ {v}
  <2> DEFINE c1 == detach(children, v)
  <2>1. Lists(children) /\ children' = attach(c1, d, v)
    BY LinksAsLists DEF Inv, Rename
  <2>2. parent[v] \in Vnode /\ v \in Elements(children[parent[v]])
    BY <1>0, <1>1
  <2>3. /\ Lists(detach(children, v))
        /\ \A x \in Vnode : Elements(detach(children, v)[x]) =
             IF x = parent[v] THEN Elements(children[x]) \ {v} ELSE Elements(children[x])
    BY <1>1, <2>1, <2>2, DetachLists
  <2>4. Lists(c1) /\ \A x \in Vnode : Elements(c1[x]) = Elements(children[x]) \ {v}
    BY <1>4, <2>3
  <2> HIDE DEF c1
  <2>5. v \notin Elements(c1[d])
    BY <1>1, <2>4
  <2>6. /\ Lists(attach(c1, d, v))
        /\ \A x \in Vnode : Elements(attach(c1, d, v)[x]) =
             IF x = d THEN Elements(c1[d]) \cup {v} ELSE Elements(c1[x])
    BY <1>1, <2>4, <2>5, AttachLists
  <2> QED
    BY <1>1, <2>1, <2>4, <2>6
<1>6. Types'
  <2>1. children' \in [Vnode -> Seq(Vnode)]
    BY <1>5 DEF Lists
  <2> QED
    BY <1>1, <2>1 DEF Inv, Types, Rename
<1>7. Rooted'
  BY <1>1, <1>2, <1>3 DEF Inv, Rooted, Linked
<1>8. LinksAgree'
  <2>1. ASSUME NEW x \in Vnode
        PROVE  /\ Elements(children'[x]) = {w \in Linked' \ {Root} : parent'[w] = x}
               /\ Elements(children'[x]) # {} => x \in Dirs'
               /\ x \notin Linked' \ {Root} => parent'[x] = NoNode
    <3>1. Elements(children'[x]) = {w \in Linked' \ {Root} : parent'[w] = x}
      <4>1. /\ Elements(children[x]) = {w \in Linked \ {Root} : parent[w] = x}
            /\ x = d => Elements(children'[x]) = Elements(children[x]) \cup {v}
            /\ x # d => Elements(children'[x]) = Elements(children[x]) \ {v}
        BY <1>4, <1>5
      <4>2. \A w \in Linked : parent'[w] = IF w = v THEN d ELSE parent[w]
        BY <1>3 DEF Linked
      <4>3. CASE x = d
        BY <1>2, <4>1, <4>2, <4>3
      <4>4. CASE x # d
        BY <1>2, <4>1, <4>2, <4>4
      <4> QED
        BY <4>3, <4>4
    <3>2. Elements(children'[x]) # {} => x \in Dirs'
      BY <1>2, <1>4, <1>5
    <3>3. x \notin Linked' \ {Root} => parent'[x] = NoNode
      BY <1>2, <1>3, <1>4
    <3> QED
      BY <3>1, <3>2, <3>3
  <2> QED
    BY <1>5, <1>6, <2>1, LinksFromLists
<1>9. NamesUnique'
  <2>1. \A w \in Elements(children[d]) : name[w] # n
    BY <1>1, ChildNamed DEF Rename
  <2>2. ASSUME NEW x \in Vnode, NEW u \in Elements(children'[x]),
               NEW w \in Elements(children'[x]), name'[u] = name'[w]
        PROVE  u = w
    <3>1. Elements(children[x]) \subseteq Vnode
      BY <1>4 DEF Linked
    <3>2. \A y, z \in Elements(children[x]) : name[y] = name[z] => y = z
      BY DEF Inv, NamesUnique, Entries, Elements
    <3>3. /\ u \in Elements(children[x]) \/ (x = d /\ u = v)
          /\ w \in Elements(children[x]) \/ (x = d /\ w = v)
          /\ x # d => u # v /\ w # v
      BY <1>5
    <3>4. CASE u = v
      BY <1>1, <1>3, <2>1, <2>2, <3>1, <3>3, <3>4
    <3>5. CASE w = v
      BY <1>1, <1>3, <2>1, <2>2, <3>1, <3>3, <3>5
    <3>6. CASE u # v /\ w # v
      BY <1>3, <2>2, <3>1, <3>2, <3>3, <3>6
    <3> QED
      BY <3>4, <3>5, <3>6
  <2> QED
    BY <2>2, NamesFromLists
<1>10. OneTree'
  <2>1. v \notin Ancestors(d)
    BY DEF Rename
  <2>2. PICK R \in SUBSET Linked : R = {}
    OBVIOUS
  <2>3. /\ Root \notin R /\ v \notin R /\ d \notin R
        /\ \A w \in Linked : parent[w] \notin R
        /\ Linked' = Linked \ R
        /\ \A w \in Linked \ R : parent'[w] = IF w = v THEN d ELSE parent[w]
    BY <1>2, <1>3, <2>2 DEF Linked
  <2> HIDE <2>2
  <2> QED
    BY <1>1, <2>1, <2>3, MoveKeepsTree
<1>11. LifetimesCounted'
  <2>1. \A w \in Vnode : Openers(w)' = Openers(w)
    BY DEF Openers, Rename
  <2> QED
    BY <2>1 DEF Inv, LifetimesCounted, Rename
<1> QED
  BY <1>6, <1>7, <1>8, <1>9, <1>10, <1>11 DEF Inv

\* vfs_rename over a target: the target leaves the tree as in vfs_unlink, and
\* then the vnode takes its place.
LEMMA RenameOverStep ==
    ASSUME Inv, NEW v \in Linked \ {Root}, NEW d \in Dirs, NEW n \in Name,
           RenameOver(v, d, n)
    PROVE  Inv'
<1>0. PICK p \in Vnode : p = parent[v] /\ p \in Dirs
  BY ChildOfParent DEF Dirs, Linked
<1>1. /\ v \in Vnode /\ v \in Elements(children[p])
      /\ d \in Vnode /\ d \in Linked
  BY <1>0, ChildOfParent DEF Dirs, Linked
<1>2. \A x \in Vnode : /\ Elements(children[x]) = {w \in Linked \ {Root} : parent[w] = x}
                       /\ Elements(children[x]) # {} => x \in Dirs
                       /\ x \notin Linked \ {Root} => parent[x] = NoNode
  BY LinksAsLists DEF Inv
<1>3. PICK t : t = child_named(d, n) /\ t # NoNode /\ t # v
  BY DEF RenameOver
<1>4. /\ t \in Elements(children[d]) /\ name[t] = n
      /\ t \in Vnode /\ t \in Linked /\ t # Root /\ parent[t] = d
  <2>1. t \in Elements(children[d]) /\ name[t] = n
    BY <1>1, <1>3, ChildNamed
  <2> QED
    BY <1>1, <1>2, <2>1 DEF Linked
<1>5. Elements(children[t]) = {} /\ \A w \in Linked : parent[w] # t
  BY <1>3, <1>4, EmptyList DEF RenameOver, Replaceable
<1>6. d # t /\ p # t
  BY <1>1, <1>4, <1>5
<1>7. Linked' = Linked \ {t}
  BY <1>3, <1>4 DEF Inv, Types, Linked, RenameOver
<1>8. /\ \A w \in Vnode : parent'[w] = IF w = t THEN NoNode ELSE IF w = v THEN d ELSE parent[w]
      /\ \A w \in Vnode : kind'[w] = IF w = t /\ refs[t] = 0 THEN "FREE" ELSE kind[w]
      /\ \A w \in Vnode : w # t => name'[w] = IF w = v THEN n ELSE name[w]
  BY <1>1, <1>3, <1>4 DEF Inv, Types, RenameOver, Kept
<1>9. Dirs' = Dirs \ {t}
  BY <1>7, <1>8 DEF Dirs, Linked
<1>10. /\ Lists(children')
       /\ \A x \in Vnode : Elements(children'[x]) =
            IF x = d THEN (Elements(children[d]) \ {t}) \cup {v}
                     ELSE Elements(children[x]) \ {v}
  <2> DEFINE c1 == detach(children, t)
             c2 == detach(c1, v)
  <2>1. Lists(children) /\ children' = attach(c2, d, v)
    BY <1>3, LinksAsLists DEF Inv, RenameOver
  <2>2. /\ Lists(c1)
        /\ \A x \in Vnode : Elements(c1[x]) = Elements(children[x]) \ {t}
    <3>1. parent[t] \in Vnode /\ t \in Elements(children[parent[t]])
      BY <1>1, <1>4
    <3>2. /\ Lists(detach(children, t))
          /\ \A x \in Vnode : Elements(detach(children, t)[x]) =
               IF x = parent[t] THEN Elements(children[x]) \ {t} ELSE Elements(children[x])
      BY <1>4, <2>1, <3>1, DetachLists
    <3> QED
      BY <1>2, <3>2
  <2> HIDE DEF c1
  <2>3. /\ Lists(c2)
        /\ \A x \in Vnode : Elements(c2[x]) = Elements(children[x]) \ {t, v}
    <3>1. parent[v] \in Vnode /\ v \in Elements(c1[parent[v]])
      BY <1>0, <1>1, <1>3, <2>2
    <3>2. /\ Lists(detach(c1, v))
          /\ \A x \in Vnode : Elements(detach(c1, v)[x]) =
               IF x = parent[v] THEN Elements(c1[x]) \ {v} ELSE Elements(c1[x])
      BY <1>1, <2>2, <3>1, DetachLists
    <3>3. \A x \in Vnode : x # parent[v] => v \notin Elements(children[x])
      BY <1>2
    <3>4. ASSUME NEW x \in Vnode
          PROVE  Elements(detach(c1, v)[x]) = Elements(children[x]) \ {t, v}
      BY <2>2, <3>2, <3>3
    <3> QED
      BY <3>2, <3>4
  <2> HIDE DEF c2
  <2>4. v \notin Elements(c2[d])
    BY <1>1, <2>3
  <2>5. /\ Lists(attach(c2, d, v))
        /\ \A x \in Vnode : Elements(attach(c2, d, v)[x]) =
             IF x = d THEN Elements(c2[d]) \cup {v} ELSE Elements(c2[x])
    BY <1>1, <2>3, <2>4, AttachLists
  <2>6. \A x \in Vnode : x # d => t \notin Elements(children[x])
    BY <1>2, <1>4
  <2> QED
    BY <1>1, <1>3, <2>1, <2>3, <2>5, <2>6, ZenonT(60)
<1>11. Types'
  <2>1. children' \in [Vnode -> Seq(Vnode)]
    BY <1>10 DEF Lists
  <2>2. /\ parent' \in [Vnode -> Vnode \cup {NoNode}]
        /\ kind' \in [Vnode -> {"FREE", "REG", "DIR"}]
        /\ name' \in [Vnode -> Name \cup {NoName}]
        /\ linked' \in [Vnode -> BOOLEAN]
    BY <1>1 DEF Inv, Types, RenameOver
  <2> QED
    BY <2>1, <2>2 DEF Inv, Types, RenameOver
<1>12. Rooted'
  BY <1>1, <1>4, <1>7, <1>8, <1>9 DEF Inv, Rooted, Linked
<1>13. LinksAgree'
  <2>1. ASSUME NEW x \in Vnode
        PROVE  /\ Elements(children'[x]) = {w \in Linked' \ {Root} : parent'[w] = x}
               /\ Elements(children'[x]) # {} => x \in Dirs'
               /\ x \notin Linked' \ {Root} => parent'[x] = NoNode
    <3>1. Elements(children'[x]) = {w \in Linked' \ {Root} : parent'[w] = x}
      <4>1. /\ Elements(children[x]) = {w \in Linked \ {Root} : parent[w] = x}
            /\ x = d => Elements(children'[x]) = (Elements(children[x]) \ {t}) \cup {v}
            /\ x # d => Elements(children'[x]) = Elements(children[x]) \ {v}
        BY <1>2, <1>10
      <4>2. \A w \in Linked' : parent'[w] = IF w = v THEN d ELSE parent[w]
        BY <1>7, <1>8 DEF Linked
      <4>3. CASE x = d
        BY <1>3, <1>7, <4>1, <4>2, <4>3
      <4>4. CASE x # d
        BY <1>4, <1>7, <4>1, <4>2, <4>4
      <4> QED
        BY <4>3, <4>4
    <3>2. Elements(children'[x]) # {} => x \in Dirs'
      <4>1. CASE x = t
        BY <1>4, <1>5, <1>6, <1>10, <4>1
      <4>2. CASE x # t
        BY <1>2, <1>9, <1>10, <4>2
      <4> QED
        BY <4>1, <4>2
    <3>3. x \notin Linked' \ {Root} => parent'[x] = NoNode
      BY <1>2, <1>7, <1>8
    <3> QED
      BY <3>1, <3>2, <3>3
  <2> QED
    BY <1>10, <1>11, <2>1, LinksFromLists
<1>14. NamesUnique'
  <2>1. \A w \in Elements(children[d]) : name[w] = n => w = t
    BY <1>1, <1>4 DEF Inv, NamesUnique, Entries, Elements
  <2>2. ASSUME NEW x \in Vnode, NEW u \in Elements(children'[x]),
               NEW w \in Elements(children'[x]), name'[u] = name'[w]
        PROVE  u = w
    <3>1. Elements(children[x]) \subseteq Vnode
      BY <1>2 DEF Linked
    <3>2. \A y, z \in Elements(children[x]) : name[y] = name[z] => y = z
      BY DEF Inv, NamesUnique, Entries, Elements
    <3>3. /\ u \in Elements(children[x]) \/ (x = d /\ u = v)
          /\ w \in Elements(children[x]) \/ (x = d /\ w = v)
          /\ x # d => u # v /\ w # v
          /\ u # t /\ w # t
      <4>1. x # d => t \notin Elements(children[x])
        BY <1>2, <1>4
      <4>2. /\ x = d => Elements(children'[x]) = (Elements(children[x]) \ {t}) \cup {v}
            /\ x # d => Elements(children'[x]) = Elements(children[x]) \ {v}
        BY <1>10
      <4> QED
        BY <1>3, <4>1, <4>2
    <3>4. CASE u = v
      BY <1>1, <1>8, <2>1, <2>2, <3>1, <3>3, <3>4
    <3>5. CASE w = v
      BY <1>1, <1>8, <2>1, <2>2, <3>1, <3>3, <3>5
    <3>6. CASE u # v /\ w # v
      BY <1>8, <2>2, <3>1, <3>2, <3>3, <3>6
    <3> QED
      BY <3>4, <3>5, <3>6
  <2> QED
    BY <2>2, NamesFromLists
<1>15. OneTree'
  <2>1. v \notin Ancestors(d)
    BY DEF RenameOver
  <2>2. PICK R \in SUBSET Linked : R = {t}
    BY <1>4
  <2>3. /\ Root \notin R /\ v \notin R /\ d \notin R
        /\ \A w \in Linked : parent[w] \notin R
        /\ Linked' = Linked \ R
        /\ \A w \in Linked \ R : parent'[w] = IF w = v THEN d ELSE parent[w]
    BY <1>3, <1>4, <1>5, <1>6, <1>7, <1>8, <2>2 DEF Linked
  <2> HIDE <2>2
  <2> QED
    BY <1>1, <2>1, <2>3, MoveKeepsTree
<1>16. LifetimesCounted'
  <2> SUFFICES ASSUME NEW w \in Vnode
               PROVE  /\ refs'[w] = Cardinality(Openers(w)')
                      /\ kind'[w] = "FREE" <=> w \notin Linked' /\ Openers(w)' = {}
    BY DEF LifetimesCounted, Linked
  <2>1. Openers(w)' = Openers(w) /\ refs' = refs
    BY DEF Openers, RenameOver
  <2>2. /\ refs[w] = Cardinality(Openers(w))
        /\ kind[w] = "FREE" <=> w \notin Linked /\ Openers(w) = {}
    BY DEF Inv, LifetimesCounted, Linked
  <2>3. refs[w] = 0 <=> Openers(w) = {}
    BY <2>2, NoOpeners
  <2> QED
    BY <1>7, <1>8, <2>1, <2>2, <2>3
<1> QED
  BY <1>11, <1>12, <1>13, <1>14, <1>15, <1>16 DEF Inv

-----------------------------------------------------------------------------
(* The theorems. *)

\* The root directory alone is a tree.
LEMMA InitInv == Init => Inv
<1> SUFFICES ASSUME Init PROVE Inv
  OBVIOUS
<1>1. Types
  BY NodeAssumption DEF Init, Types
<1>2. Linked = {Root} /\ Dirs = {Root}
  BY NodeAssumption DEF Init, Linked, Dirs
<1>3. \A v \in Vnode : Openers(v) = {} /\ Entries(v) = {}
  BY NodeAssumption DEF Init, Openers, Entries
<1>4. LifetimesCounted
  BY <1>3, FS_EmptySet DEF Init, LifetimesCounted
<1>5. LinksAgree
  BY <1>2, <1>3 DEF Init, LinksAgree
<1>6. Rooted /\ NamesUnique /\ OneTree
  BY <1>2, <1>3 DEF Rooted, NamesUnique, OneTree
<1> QED
  BY <1>1, <1>4, <1>5, <1>6 DEF Inv

\* Every call of the file system preserves the invariant.
LEMMA NextInv == Inv /\ [Next]_vars => Inv'
<1> SUFFICES ASSUME Inv, [Next]_vars PROVE Inv'
  OBVIOUS
<1>1. CASE \E d \in Dirs, n \in Name, v \in Vnode :
              /\ child_named(d, n) = NoNode
              /\ \E k \in {"REG", "DIR"} : Create(d, n, v, k)
  BY <1>1, CreateStep
<1>2. CASE \E d \in Dirs, n \in Name, v \in Vnode :
              /\ child_named(d, n) = NoNode
              /\ \E f \in File : OpenNew(f, d, n, v)
  BY <1>2, OpenNewStep
<1>3. CASE \E v \in Linked, f \in File : Open(f, v)
  BY <1>3, OpenStep
<1>4. CASE \E v \in Linked \ {Root} : Unlink(v)
  BY <1>4, UnlinkStep
<1>5. CASE \E v \in Linked \ {Root} : \E d \in Dirs, n \in Name : Rename(v, d, n)
  BY <1>5, RenameStep
<1>6. CASE \E v \in Linked \ {Root} : \E d \in Dirs, n \in Name : RenameOver(v, d, n)
  BY <1>6, RenameOverStep
<1>7. CASE \E f \in File : Close(f)
  BY <1>7, CloseStep
<1>8. CASE \E f \in File : ReadDir(f)
  BY <1>8, ReadDirStep
<1>9. CASE UNCHANGED vars
  <2>1. Types'
    BY <1>9 DEF Inv, Types, vars
  <2>2. Linked' = Linked /\ Dirs' = Dirs
    BY <1>9 DEF Linked, Dirs, vars
  <2>3. Rooted' /\ LinksAgree' /\ NamesUnique' /\ OneTree'
    BY <1>9, <2>2, TreeUnchanged DEF vars
  <2>4. LifetimesCounted'
    BY <1>9 DEF Inv, LifetimesCounted, Openers, vars
  <2> QED
    BY <2>1, <2>3, <2>4 DEF Inv
<1> QED
  BY <1>1, <1>2, <1>3, <1>4, <1>5, <1>6, <1>7, <1>8, <1>9 DEF Next

\* The invariant holds in every behaviour of the tree.
THEOREM TreeInv == TreeSpec => []Inv
BY InitInv, NextInv, PTL DEF TreeSpec

\* No open file refers to freed memory and no vnode leaks, whatever vfs_unlink
\* and vfs_rename remove while it is open.
THEOREM TreeLifetimesCounted == TreeSpec => []LifetimesCounted
<1>1. Inv => LifetimesCounted
  BY DEF Inv
<1> QED
  BY <1>1, TreeInv, PTL

\* The list of every directory and the parent pointers of its entries agree
\* after every call of attach and detach.
THEOREM TreeLinksAgree == TreeSpec => []LinksAgree
<1>1. Inv => LinksAgree
  BY DEF Inv
<1> QED
  BY <1>1, TreeInv, PTL

\* No directory has two entries of one name.
THEOREM TreeNamesUnique == TreeSpec => []NamesUnique
<1>1. Inv => NamesUnique
  BY DEF Inv
<1> QED
  BY <1>1, TreeInv, PTL

\* The linked vnodes are one tree below the root, so the ancestor check of
\* vfs_rename is enough to keep it from making a cycle.
THEOREM TreeOneTree == TreeSpec => []OneTree
<1>1. Inv => OneTree
  BY DEF Inv
<1> QED
  BY <1>1, TreeInv, PTL

-----------------------------------------------------------------------------
(* Paths. *)

\* What a lookup can come to: a linked vnode, or an error.
Results == {Found(v) : v \in Linked} \cup {Error(e) : e \in {"NOT_FOUND", "NOT_DIRECTORY"}}

\* A result says whether there is a vnode, and which.
LEMMA ResultFields ==
    ASSUME NEW r \in Results
    PROVE  /\ r.status \in {"OK", "NOT_FOUND", "NOT_DIRECTORY"}
           /\ r.status = "OK" => r.at \in Linked /\ r = Found(r.at)
BY DEF Results, Found, Error

\* The entries and the parent of a linked directory are linked.
LEMMA LinkedAround ==
    ASSUME Inv, NEW v \in Linked
    PROVE  /\ v \in Vnode
           /\ parent[v] # NoNode => parent[v] \in Linked
           /\ \A n : child_named(v, n) # NoNode => child_named(v, n) \in Linked \ {Root}
<1>1. v \in Vnode
  BY DEF Linked
<1>2. parent[v] # NoNode => parent[v] \in Linked
  <2>1. v \notin Linked \ {Root} => parent[v] = NoNode
    BY <1>1, LinksAsLists DEF Inv
  <2> QED
    BY <2>1, ChildOfParent DEF Dirs
<1>3. \A n : child_named(v, n) # NoNode => child_named(v, n) \in Linked \ {Root}
  <2>1. Elements(children[v]) \subseteq Linked \ {Root}
    BY <1>1, LinksAsLists DEF Inv
  <2> QED
    BY <1>1, <2>1, ChildNamed
<1> QED
  BY <1>1, <1>2, <1>3

\* A round of walk goes from a result to a result.
LEMMA StepResult ==
    ASSUME Inv, NEW r \in Results, NEW c
    PROVE  Step(r, c) \in Results
<1>1. CASE r.status # "OK"
  BY <1>1 DEF Step
<1>2. CASE r.status = "OK" /\ kind[r.at] # "DIR"
  BY <1>2 DEF Step, Results
<1>3. CASE r.status = "OK" /\ kind[r.at] = "DIR"
  <2>1. /\ r.at \in Linked
        /\ parent[r.at] # NoNode => parent[r.at] \in Linked
        /\ child_named(r.at, c) # NoNode => child_named(r.at, c) \in Linked
    BY <1>3, ResultFields, LinkedAround
  <2>2. CASE c = Dot
    BY <1>3, <2>2 DEF Step, Dot, DotDot
  <2>3. CASE c # Dot /\ c = DotDot
    <3>1. Step(r, c) = IF parent[r.at] # NoNode THEN Found(parent[r.at]) ELSE r
      BY <1>3, <2>3 DEF Step
    <3> QED
      BY <2>1, <3>1 DEF Results
  <2>4. CASE c # Dot /\ c # DotDot
    <3>1. Step(r, c) = IF child_named(r.at, c) # NoNode
                       THEN Found(child_named(r.at, c)) ELSE Error("NOT_FOUND")
      BY <1>3, <2>4 DEF Step
    <3> QED
      BY <2>1, <3>1 DEF Results
  <2> QED
    BY <2>2, <2>3, <2>4
<1> QED
  BY <1>1, <1>2, <1>3

\* The rounds of walk.
Walk(path) == [i \in 1..Len(path) |-> [r \in Results |-> Step(r, path[i])]]

\* walk goes through these rounds.
LEMMA WalkRounds ==
    ASSUME Inv, NEW path, Len(path) \in Nat
    PROVE  \E g \in [0..Len(path) -> Results] :
              Rounds(g, Found(Root), Walk(path), Len(path)) /\ walk(path) = g[Len(path)]
<1> DEFINE n == Len(path)
           Is(f) == f = [i \in 0..n |-> IF i = 0 THEN Found(Root) ELSE Step(f[i - 1], path[i])]
           f == CHOOSE f : Is(f)
<1>1. Found(Root) \in Results /\ Walk(path) \in [1..n -> [Results -> Results]]
  BY StepResult DEF Inv, Rooted, Dirs, Results, Walk
<1>2. PICK g \in [0..n -> Results] : Rounds(g, Found(Root), Walk(path), n)
  BY <1>1, RoundsExist
<1>3. ASSUME NEW i \in 0..n
      PROVE  g[i] = IF i = 0 THEN Found(Root) ELSE Step(g[i - 1], path[i])
  <2>1. CASE i = 0
    BY <1>2, <2>1 DEF Rounds
  <2>2. CASE i # 0
    <3>1. i \in 1..n /\ g[i - 1] \in Results
      BY <1>2, <2>2
    <3>2. g[i] = Walk(path)[i][g[i - 1]]
      BY <1>2, <2>2 DEF Rounds
    <3> QED
      BY <2>2, <3>1, <3>2 DEF Walk
  <2> QED
    BY <2>1, <2>2
<1>4. Is(g)
  BY <1>2, <1>3
<1>5. Is(f)
  BY <1>4
<1>6. walk(path) = f[n]
  BY DEF walk
<1> HIDE DEF f
<1>7. f[n] = g[n]
  <2> DEFINE S == {i \in Nat : i <= n => f[i] = g[i]}
  <2>1. 0 \in S
    BY <1>3, <1>5
  <2>2. ASSUME NEW i \in Nat, i \in S
        PROVE  i + 1 \in S
    <3>1. CASE i + 1 <= n
      <4>1. i + 1 \in 0..n /\ i + 1 # 0 /\ (i + 1) - 1 = i /\ f[i] = g[i]
        BY <2>2, <3>1
      <4>2. f[i + 1] = Step(f[i], path[i + 1])
        BY <1>5, <4>1
      <4>3. g[i + 1] = Step(g[i], path[i + 1])
        BY <1>3, <4>1
      <4> QED
        BY <4>1, <4>2, <4>3
    <3>2. CASE ~(i + 1 <= n)
      BY <3>2
    <3> QED
      BY <3>1, <3>2
  <2>3. Nat \subseteq S
    <3> HIDE DEF S
    <3> QED
      BY <2>1, <2>2, SetInduction
  <2> QED
    BY <2>3
<1> QED
  BY <1>2, <1>6, <1>7

\* walk comes to a linked vnode or to an error, and the last component takes it
\* one round from where the path before that component leads.
LEMMA WalkResult ==
    ASSUME Inv, NEW C, NEW path \in Seq(C)
    PROVE  /\ walk(path) \in Results
           /\ path # <<>> => /\ walk(SubSeq(path, 1, Len(path) - 1)) \in Results
                             /\ walk(path) = Step(walk(SubSeq(path, 1, Len(path) - 1)), path[Len(path)])
<1> DEFINE n == Len(path)
<1>0. n \in Nat
  OBVIOUS
<1>1. PICK g \in [0..n -> Results] : Rounds(g, Found(Root), Walk(path), n) /\ walk(path) = g[n]
  BY <1>0, WalkRounds
<1>2. walk(path) \in Results
  BY <1>0, <1>1
<1>3. ASSUME path # <<>>
      PROVE  /\ walk(SubSeq(path, 1, n - 1)) \in Results
             /\ walk(path) = Step(walk(SubSeq(path, 1, n - 1)), path[n])
  <2> DEFINE front == SubSeq(path, 1, n - 1)
             m == n - 1
  <2>1. m \in Nat /\ Len(front) = m /\ m <= n /\ n \in 1..n
    BY <1>3
  <2>2. \A i \in 1..m : front[i] = path[i]
    BY <1>3
  <2>3. PICK h \in [0..m -> Results] : Rounds(h, Found(Root), Walk(front), m) /\ walk(front) = h[m]
    BY <2>1, WalkRounds
  <2>4. \A i \in 1..m : Walk(front)[i] = Walk(path)[i]
    BY <2>1, <2>2 DEF Walk
  <2>5. h[m] = g[m]
    BY <1>0, <1>1, <2>1, <2>3, <2>4, RoundsAgree
  <2>6. walk(front) \in Results
    BY <2>1, <2>3
  <2>7. g[n] = Walk(path)[n][g[m]]
    <3>1. n \in 0..n /\ n # 0
      BY <2>1
    <3> HIDE DEF n
    <3> QED
      BY <1>1, <3>1 DEF Rounds
  <2> QED
    BY <1>1, <2>1, <2>3, <2>5, <2>6, <2>7 DEF Walk
<1> QED
  BY <1>2, <1>3

\* lookup_parent comes to a directory of the tree and a name in it.
LEMMA ParentResult ==
    ASSUME Inv, NEW path \in Path, lookup_parent(path).status = "OK"
    PROVE  /\ path # <<>>
           /\ path[Len(path)] \in Name
           /\ lookup_parent(path) = walk(SubSeq(path, 1, Len(path) - 1))
           /\ lookup_parent(path).at \in Dirs
<1>1. path \in Seq(Name \cup {Dot, DotDot})
  BY PathAssumption
<1>2. /\ path # <<>> /\ path[Len(path)] \notin {Dot, DotDot}
      /\ lookup_parent(path) = walk(SubSeq(path, 1, Len(path) - 1))
      /\ kind[lookup_parent(path).at] = "DIR"
  BY DEF lookup_parent, Error
<1>3. Len(path) \in 1..Len(path)
  BY <1>1, <1>2
<1>4. path[Len(path)] \in Name
  BY <1>1, <1>2, <1>3
<1>5. lookup_parent(path) \in Results
  BY <1>1, <1>2, WalkResult
<1> QED
  BY <1>2, <1>4, <1>5, ResultFields DEF Dirs

\* The places of the paths, those of the missing files among them.
LEMMA PlacesInTree ==
    ASSUME Inv
    PROVE  /\ \A p \in Places : p.dir \in Dirs /\ p.entry \in Name
           /\ \A v \in Lookups : v \in Linked
           /\ \A m \in Missing : /\ m.dir \in Dirs /\ m.entry \in Name
                                 /\ child_named(m.dir, m.entry) = NoNode
<1>1. ASSUME NEW p \in Places
      PROVE  p.dir \in Dirs /\ p.entry \in Name
  <2>1. PICK q \in Path : /\ lookup_parent(q).status = "OK"
                          /\ p = [dir |-> lookup_parent(q).at, entry |-> q[Len(q)]]
    BY DEF Places
  <2> QED
    BY <2>1, ParentResult
<1>2. ASSUME NEW v \in Lookups
      PROVE  v \in Linked
  <2>1. PICK q \in Path : walk(q).status = "OK" /\ v = walk(q).at
    BY DEF Lookups
  <2>2. walk(q) \in Results
    BY PathAssumption, WalkResult
  <2> QED
    BY <2>1, <2>2, ResultFields
<1>3. ASSUME NEW m \in Missing
      PROVE  /\ m.dir \in Dirs /\ m.entry \in Name
             /\ child_named(m.dir, m.entry) = NoNode
  <2>1. PICK q \in Path : /\ walk(q).status = "NOT_FOUND" /\ lookup_parent(q).status = "OK"
                          /\ m = [dir |-> lookup_parent(q).at, entry |-> q[Len(q)]]
    BY DEF Missing
  <2> DEFINE r == lookup_parent(q)
             c == q[Len(q)]
  <2>2. q # <<>> /\ c \in Name /\ r = walk(SubSeq(q, 1, Len(q) - 1)) /\ r.at \in Dirs
    BY <2>1, ParentResult
  <2>3. q \in Seq(Name \cup {Dot, DotDot})
    BY PathAssumption
  <2>4. walk(q) = Step(r, c)
    BY <2>2, <2>3, WalkResult
  <2>5. c # Dot /\ c # DotDot
    BY <2>2, PathAssumption
  <2>6. r.status = "OK" /\ kind[r.at] = "DIR"
    BY <2>1, <2>2 DEF Dirs
  <2>7. Step(r, c) = IF child_named(r.at, c) # NoNode
                     THEN Found(child_named(r.at, c)) ELSE Error("NOT_FOUND")
    BY <2>5, <2>6 DEF Step
  <2>8. child_named(r.at, c) = NoNode
    BY <2>1, <2>4, <2>7 DEF Found
  <2> QED
    BY <2>1, <2>2, <2>8
<1> QED
  BY <1>1, <1>2, <1>3

-----------------------------------------------------------------------------
(* The calls. *)

\* Every call with paths is an operation on the tree.
LEMMA CallsAreTreeSteps ==
    ASSUME Inv, Calls
    PROVE  Next
<1>1. ASSUME NEW f \in File, vfs_open(f)
      PROVE  Next
  BY <1>1, PlacesInTree DEF vfs_open, Next
<1>2. ASSUME NEW f \in File, vfs_open_create(f)
      PROVE  Next
  BY <1>2, PlacesInTree DEF vfs_open_create, Next
<1>3. ASSUME NEW f \in File, Close(f) \/ ReadDir(f)
      PROVE  Next
  BY <1>3 DEF Next
<1>4. ASSUME vfs_mkdir
      PROVE  Next
  BY <1>4, PlacesInTree DEF vfs_mkdir, Next
<1>5. ASSUME NEW remove_directory \in BOOLEAN, vfs_unlink(remove_directory)
      PROVE  Next
  <2>1. PICK p \in Places : /\ child_named(p.dir, p.entry) # NoNode
                            /\ Unlink(child_named(p.dir, p.entry))
    BY <1>5 DEF vfs_unlink
  <2>2. child_named(p.dir, p.entry) \in Linked \ {Root}
    BY <2>1, PlacesInTree, LinkedAround DEF Dirs
  <2> QED
    BY <2>1, <2>2 DEF Next
<1>6. ASSUME vfs_rename
      PROVE  Next
  <2>1. PICK p \in Places, q \in Places :
           LET v == child_named(p.dir, p.entry)
           IN  /\ v # NoNode
               /\ Rename(v, q.dir, q.entry) \/ RenameOver(v, q.dir, q.entry)
    BY <1>6 DEF vfs_rename
  <2>2. child_named(p.dir, p.entry) \in Linked \ {Root}
    BY <2>1, PlacesInTree, LinkedAround DEF Dirs
  <2>3. q.dir \in Dirs /\ q.entry \in Name
    BY PlacesInTree
  <2> QED
    BY <2>1, <2>2, <2>3 DEF Next
<1> QED
  BY <1>1, <1>2, <1>3, <1>4, <1>5, <1>6 DEF Calls

\* The calls with paths implement the tree.
THEOREM CallsImplementTree == Spec => ImplementsTree
<1>1. Inv /\ [Calls]_vars => [Next]_vars
  BY CallsAreTreeSteps
<1>2. Inv /\ [Calls]_vars => Inv'
  BY <1>1, NextInv
<1> QED
  BY <1>1, <1>2, InitInv, PTL DEF Spec, TreeSpec, ImplementsTree

-----------------------------------------------------------------------------
(* The archive. *)

\* The positions of the headers.
Heads(tar) == CHOOSE P \in SUBSET (0..Len(tar)) : HeadersAt(tar, P)

\* While vfs_init reads, it is at a header; tar_node is at a linked vnode and
\* within the path of that header.
TarInv ==
    /\ Inv
    /\ archive \in Archive
    /\ phase \in {"boot", "header", "path", "ready", "halted"}
    /\ phase \in {"boot", "header", "path"} => at \in Heads(archive)
    /\ phase = "path" => /\ header_at
                         /\ here \in Linked
                         /\ cursor \in 0..Len(header.path)

\* A header is what the archive has at these positions, and the position behind
\* its data is one of them.
LEMMA HeaderThere ==
    ASSUME TarInv, phase \in {"header", "path"}, header_at
    PROVE  /\ header \in Headers
           /\ next_offset \in Heads(archive)
<1> DEFINE P == Heads(archive)
<1>1. P \in SUBSET (0..Len(archive)) /\ HeadersAt(archive, P)
  BY ArchiveAssumption DEF TarInv, Heads
<1> HIDE DEF P
<1>2. at \in P /\ at < Len(archive) /\ archive[at + 1] # Zero
  BY DEF TarInv, header_at, header, P
<1> QED
  BY <1>1, <1>2 DEF HeadersAt, header_at, header, next_offset, P

\* The component that tar_node adds is a name.
LEMMA ComponentIsName ==
    ASSUME TarInv, phase = "path", ~AtEnd
    PROVE  /\ cursor + 1 \in 0..Len(header.path)
           /\ component \notin {Dot, DotDot} => component \in Name
<1>1. header \in Headers
  BY HeaderThere DEF TarInv
<1>2. header.path \in Seq(Name \cup {Dot, DotDot})
  BY <1>1 DEF Headers
<1>3. cursor \in 0..Len(header.path) /\ cursor # Len(header.path)
  BY DEF TarInv, AtEnd
<1>4. cursor + 1 \in 1..Len(header.path)
  BY <1>2, <1>3
<1> QED
  BY <1>2, <1>4 DEF component

\* The vfs_init steps that leave the tree alone keep its place in the archive.
LEMMA EntryKeepsPlace ==
    ASSUME TarInv, Inv', phase = "path", NEW v, NEW type, Entry(v, type)
    PROVE  TarInv'
<1>1. archive' = archive /\ phase' \in {"header", "halted"}
  BY DEF Entry, Fails
<1>2. CASE phase' = "halted"
  BY <1>1, <1>2 DEF TarInv
<1>3. CASE phase' = "header"
  <2>1. at' = next_offset
    BY <1>3 DEF Entry, Fails
  <2>2. next_offset \in Heads(archive)
    BY HeaderThere DEF TarInv
  <2>3. at' \in Heads(archive')
    BY <1>1, <2>1, <2>2
  <2> QED
    BY <1>1, <1>3, <2>3 DEF TarInv
<1> QED
  BY <1>1, <1>2, <1>3

\* tar_node goes on to the next component from a linked vnode.
LEMMA OnwardKeepsPlace ==
    ASSUME TarInv, Inv', phase = "path", ~AtEnd, NEW v \in Linked', Onward(v)
    PROVE  TarInv'
<1>1. UNCHANGED <<phase, archive, at>> /\ here' = v /\ cursor' = cursor + 1
  BY DEF Onward
<1>2. header' = header /\ (header_at' <=> header_at)
  BY <1>1 DEF header, header_at, next_offset
<1>3. cursor' \in 0..Len(header'.path)
  BY <1>1, <1>2, ComponentIsName
<1>4. Heads(archive)' = Heads(archive)
  BY <1>1 DEF Heads
<1> QED
  BY <1>1, <1>2, <1>3, <1>4 DEF TarInv

\* The invariant of the tree does not depend on what vfs_init reads.
LEMMA InvStable == Inv /\ UNCHANGED vars => Inv'
BY NextInv

\* Every step of vfs_init is a step of the tree or leaves it alone, and keeps
\* its place.
LEMMA InitSteps ==
    ASSUME TarInv, vfs_init
    PROVE  [Next]_vars /\ TarInv'
<1>1. ASSUME UNCHANGED vars PROVE Inv' /\ Linked' = Linked
  BY <1>1, InvStable DEF TarInv, Linked, vars
<1>2. CASE Begin
  <2>1. UNCHANGED vars /\ UNCHANGED <<archive, at>> /\ phase' \in {"header", "halted"} /\ phase = "boot"
    BY <1>2 DEF Begin, Fails
  <2>2. Heads(archive)' = Heads(archive)
    BY <2>1 DEF Heads
  <2> QED
    BY <1>1, <2>1, <2>2 DEF TarInv
<1>3. CASE ReadHeader
  <2>1. /\ UNCHANGED vars /\ UNCHANGED <<archive, at>> /\ phase' \in {"path", "halted"}
        /\ phase = "header" /\ header_at
        /\ phase' = "path" => here' = Root /\ cursor' = 0
    BY <1>3 DEF ReadHeader, Fails
  <2>2. Heads(archive)' = Heads(archive) /\ header' = header /\ (header_at' <=> header_at)
    BY <2>1 DEF Heads, header, header_at, next_offset
  <2>3. header.path \in Seq(Name \cup {Dot, DotDot})
    BY <2>1, HeaderThere DEF Headers
  <2>4. 0 \in 0..Len(header.path)
    BY <2>3
  <2>5. Root \in Linked'
    BY <1>1, <2>1 DEF TarInv, Inv, Rooted, Dirs
  <2> QED
    BY <1>1, <2>1, <2>2, <2>4, <2>5 DEF TarInv
<1>4. CASE EndOfArchive
  <2>1. UNCHANGED vars /\ UNCHANGED archive /\ phase' = "ready"
    BY <1>4 DEF EndOfArchive
  <2> QED
    BY <1>1, <2>1 DEF TarInv
<1>5. CASE PathEnds
  BY <1>1, <1>5, EntryKeepsPlace DEF PathEnds
<1>6. CASE PathDot
  <2>1. here \in Linked'
    BY <1>1, <1>6 DEF PathDot, TarInv
  <2> QED
    BY <1>1, <1>6, <2>1, OnwardKeepsPlace DEF PathDot
<1>7. CASE PathRefused
  <2>1. UNCHANGED vars /\ UNCHANGED archive /\ phase' = "halted"
    BY <1>7 DEF PathRefused, Fails
  <2> QED
    BY <1>1, <2>1 DEF TarInv
<1>8. CASE PathExists
  <2>1. UNCHANGED vars /\ phase = "path" /\ ~AtEnd /\ child # NoNode /\ here \in Linked
    BY <1>8 DEF PathExists, TarInv
  <2>2. child \in Linked'
    BY <1>1, <2>1, LinkedAround DEF TarInv, child
  <2>3. CASE Entry(child, kind[child])
    BY <1>1, <2>1, <2>3, EntryKeepsPlace
  <2>4. CASE Onward(child)
    BY <1>1, <2>1, <2>2, <2>4, OnwardKeepsPlace
  <2> QED
    BY <1>8, <2>1, <2>3, <2>4 DEF PathExists
<1>9. CASE PathMissing
  <2>1. /\ phase = "path" /\ ~AtEnd /\ component # Dot /\ ~Refused /\ child = NoNode
        /\ here \in Linked
    BY <1>9 DEF PathMissing, TarInv
  <2>2. here \in Dirs /\ component \in Name
    BY <2>1, ComponentIsName DEF Refused, Dirs
  <2>3. CASE UNCHANGED vars /\ Fails
    BY <1>1, <2>3 DEF TarInv, Fails
  <2>4. ASSUME NEW v \in Vnode,
               Create(here, component, v, IF last THEN header.type ELSE "DIR"),
               IF last THEN Entry(v, header.type) ELSE Onward(v)
        PROVE  [Next]_vars /\ TarInv'
    <3>1. (IF last THEN header.type ELSE "DIR") \in {"REG", "DIR"}
      BY <2>1, HeaderThere DEF TarInv, Headers
    <3>2. Next
      BY <2>1, <2>2, <2>4, <3>1 DEF Next, child
    <3>3. Inv'
      BY <3>2, NextInv DEF TarInv
    <3>4. v \in Linked'
      BY <2>4 DEF TarInv, Inv, Types, Linked, Create, new_node
    <3>5. CASE Entry(v, header.type)
      BY <2>1, <3>2, <3>3, <3>5, EntryKeepsPlace
    <3>6. CASE Onward(v)
      BY <2>1, <3>2, <3>3, <3>4, <3>6, OnwardKeepsPlace
    <3> QED
      BY <2>4, <3>5, <3>6
  <2> QED
    BY <1>9, <2>3, <2>4 DEF PathMissing
<1> QED
  BY <1>2, <1>3, <1>4, <1>5, <1>6, <1>7, <1>8, <1>9 DEF vfs_init, tar_node

\* Every step of the file system is an operation on the tree or leaves it alone.
LEMMA TarSteps ==
    ASSUME TarInv, [vfs_init \/ Running]_tarvars
    PROVE  [Next]_vars /\ TarInv'
<1>1. CASE vfs_init
  BY <1>1, InitSteps
<1>2. CASE Running
  <2>1. Next
    BY <1>2, CallsAreTreeSteps DEF Running, TarInv
  <2>2. Inv'
    BY <2>1, NextInv DEF TarInv
  <2>3. phase' = "ready" /\ archive' = archive
    BY <1>2 DEF Running, boot
  <2> QED
    BY <2>1, <2>2, <2>3 DEF TarInv
<1>3. CASE UNCHANGED tarvars
  <2>1. UNCHANGED vars /\ UNCHANGED <<phase, archive, at, here, cursor>>
    BY <1>3 DEF tarvars, boot
  <2>2. Inv' /\ Linked' = Linked
    BY <2>1, InvStable DEF TarInv, Linked, vars
  <2>3. /\ Heads(archive)' = Heads(archive) /\ header' = header
        /\ (header_at' <=> header_at)
    BY <2>1 DEF Heads, header, header_at, next_offset
  <2> QED
    BY <2>1, <2>2, <2>3 DEF TarInv
<1> QED
  BY <1>1, <1>2, <1>3

\* vfs_init starts at the first header.
LEMMA TarInitInv == TarInit => TarInv
<1> SUFFICES ASSUME TarInit PROVE TarInv
  OBVIOUS
<1>1. 0 \in Heads(archive)
  BY ArchiveAssumption DEF TarInit, Heads, HeadersAt
<1> QED
  BY <1>1, InitInv DEF TarInit, TarInv

\* The file system from its start on, with vfs_init and every later call,
\* implements the tree: the archive may hold any entries, the calls any paths.
THEOREM TarImplementsTree == TarSpec => ImplementsTree
<1>1. TarInit => Init
  BY DEF TarInit
<1> QED
  BY <1>1, TarInitInv, TarSteps, PTL DEF TarSpec, TreeSpec, ImplementsTree

\* So it keeps the counts, the links, the names and the one tree.
THEOREM TarInvariants ==
    TarSpec => [](LifetimesCounted /\ LinksAgree /\ NamesUnique /\ OneTree)
<1>1. Inv => LifetimesCounted /\ LinksAgree /\ NamesUnique /\ OneTree
  BY DEF Inv
<1> QED
  BY <1>1, TarImplementsTree, TreeInv, PTL DEF ImplementsTree

=============================================================================
