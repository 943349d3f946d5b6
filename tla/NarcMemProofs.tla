-------------------------- MODULE NarcMemProofs --------------------------
(***************************************************************************)
(* Proofs about the two components that keep their contents in physical    *)
(* pages.  NarcMem, for any number of pages and tasks and any layout of    *)
(* the tables: every page has one holder, the processor is always in a     *)
(* whole space of the current task, mappings never meet, and the memory of *)
(* a task is its own.  VfsData, for pages and files of any size and any    *)
(* number of openers: reads meet no missing page, nothing old shows behind *)
(* the end of a file, and the pages together are the sequence of bytes of  *)
(* ByteFile.                                                               *)
(***************************************************************************)
EXTENDS NarcMem, VfsData, NaturalLemmas, FiniteSetTheorems

-----------------------------------------------------------------------------
(* Entries. *)

\* Quotient and remainder are unique.
LEMMA DivisionUnique ==
    ASSUME NEW m \in Nat \ {0}, NEW a \in Nat, NEW b \in Nat, NEW r \in 0..(m - 1), NEW s \in 0..(m - 1),
           a * m + r = b * m + s
    PROVE  a = b /\ r = s
<1>1. ASSUME NEW x \in Nat, NEW y \in Nat, NEW v \in 0..(m - 1), NEW w \in 0..(m - 1),
             x * m + v = y * m + w
      PROVE  ~(x < y)
  <2> SUFFICES ASSUME x < y PROVE FALSE
    OBVIOUS
  <2>1. x + 1 <= y
    OBVIOUS
  <2>2. (x + 1) * m <= y * m
    BY <2>1, ProductGrows
  <2>3. (x + 1) * m = x * m + m /\ x * m \in Nat /\ y * m \in Nat
    OBVIOUS
  <2> QED
    BY <1>1, <2>2, <2>3
<1>2. a = b
  BY <1>1
<1>3. a * m \in Nat
  OBVIOUS
<1> QED
  BY <1>2, <1>3

\* The entries of tables and of pages are all different, and none is the root.
LEMMA EntryDistinct ==
    ASSUME NEW u \in Nat, NEW w \in Nat
    PROVE  /\ Table(u) \in Nat \ {0} /\ Leaf(u) \in Nat \ {0}
           /\ Leaf(u) # Table(w) /\ (Leaf(u) = Leaf(w) => u = w)
<1>1. PICK m \in Nat : m = PerTable + 1 /\ m \in Nat \ {0} /\ PerTable \in Nat \ {0}
  BY PageAssumption
<1>2. PICK a \in Nat : a = u \div PerTable
  BY <1>1, Division
<1>3. PICK b \in Nat : b = w \div PerTable
  BY <1>1, Division
<1>4. PICK r \in 0..(PerTable - 1) : r = u % PerTable
  BY <1>1, Division
<1>5. PICK s \in 0..(PerTable - 1) : s = w % PerTable
  BY <1>1, Division
<1>6. u = a * PerTable + r /\ w = b * PerTable + s
  BY <1>1, <1>2, <1>3, <1>4, <1>5, Division
<1>7. /\ Table(u) = (a + 1) * m + 0 /\ Table(w) = (b + 1) * m + 0
      /\ (a + 1) * m \in Nat \ {0} /\ (b + 1) * m \in Nat \ {0}
  <2>1. Table(u) = (a + 1) * m /\ Table(w) = (b + 1) * m
    BY <1>1, <1>2, <1>3 DEF Table
  <2>2. ASSUME NEW x \in Nat PROVE (x + 1) * m \in Nat \ {0}
    <3>1. 1 * m <= (x + 1) * m
      BY ProductGrows
    <3>2. (x + 1) * m \in Nat /\ 1 * m = m
      OBVIOUS
    <3> QED
      BY <1>1, <3>1, <3>2
  <2>3. (a + 1) * m \in Nat \ {0} /\ (b + 1) * m \in Nat \ {0}
    BY <2>2
  <2> QED
    BY <2>1, <2>3
<1>8. Leaf(u) = (a + 1) * m + (r + 1) /\ Leaf(w) = (b + 1) * m + (s + 1)
  <2>1. Leaf(u) = Table(u) + 1 + r /\ Leaf(w) = Table(w) + 1 + s
    BY <1>4, <1>5 DEF Leaf
  <2> QED
    BY <1>7, <2>1
<1>9. r + 1 \in 0..(m - 1) /\ s + 1 \in 0..(m - 1) /\ 0 \in 0..(m - 1) /\ a + 1 \in Nat /\ b + 1 \in Nat
  BY <1>1
<1>10. Leaf(u) # Table(w)
  <2> SUFFICES ASSUME (a + 1) * m + (r + 1) = (b + 1) * m + 0 PROVE FALSE
    BY <1>7, <1>8
  <2>1. r + 1 = 0
    BY <1>1, <1>9, DivisionUnique
  <2> QED
    BY <2>1
<1>11. ASSUME Leaf(u) = Leaf(w) PROVE u = w
  <2>1. a + 1 = b + 1 /\ r + 1 = s + 1
    BY <1>1, <1>8, <1>9, <1>11, DivisionUnique
  <2>2. a = b /\ r = s
    BY <2>1
  <2> QED
    BY <1>6, <2>2
<1>12. Table(u) \in Nat \ {0} /\ Leaf(u) \in Nat \ {0}
  BY <1>7, <1>8
<1> QED
  BY <1>10, <1>11, <1>12

\* There are finitely many entries.
LEMMA FiniteEntries ==
    /\ IsFiniteSet(Entry) /\ Entry \subseteq Nat
    /\ UserPage \subseteq Nat
<1>1. UserPage \subseteq Nat /\ IsFiniteSet(UserPage)
  BY LayoutAssumption, FS_Interval DEF UserPage
<1>2. IsFiniteSet({Table(u) : u \in UserPage})
  <2>1. PICK f : f = [u \in UserPage |-> Table(u)]
    OBVIOUS
  <2>2. f \in Surjection(UserPage, {Table(u) : u \in UserPage})
    BY <2>1 DEF Surjection
  <2> QED
    BY <1>1, <2>2, FS_Surjection
<1>6. IsFiniteSet({Leaf(u) : u \in UserPage})
  <2>1. PICK f : f = [u \in UserPage |-> Leaf(u)]
    OBVIOUS
  <2>2. f \in Surjection(UserPage, {Leaf(u) : u \in UserPage})
    BY <2>1 DEF Surjection
  <2> QED
    BY <1>1, <2>2, FS_Surjection
<1>3. IsFiniteSet({0} \cup {Table(u) : u \in UserPage} \cup {Leaf(u) : u \in UserPage})
  BY <1>2, <1>6, FS_Singleton, FS_Union
<1>4. Entry \subseteq Nat
  BY <1>1, EntryDistinct DEF Entry, Entries
<1>5. Entry = {0} \cup {Table(u) : u \in UserPage} \cup {Leaf(u) : u \in UserPage}
  BY DEF Entry, Entries
<1> QED
  BY <1>1, <1>3, <1>4, <1>5

-----------------------------------------------------------------------------
(* Allocating pages in order. *)

\* In a finite set of numbers, each rank up to its size is taken by one of them.
LEMMA RankTaken ==
    ASSUME NEW S, S \subseteq Nat, IsFiniteSet(S)
    PROVE  \A i \in Nat : i < Cardinality(S) => \E p \in S : Rank(S, p) = i + 1
<1>0. \A q \in S : q \in Nat
  OBVIOUS
<1> DEFINE I == {i \in Nat : i < Cardinality(S) => \E p \in S : Rank(S, p) = i + 1}
<1>1. 0 \in I
  <2> SUFFICES ASSUME 0 < Cardinality(S)
               PROVE  \E p \in S : Rank(S, p) = 1
    OBVIOUS
  <2>1. S # {}
    BY FS_EmptySet
  <2>2. PICK p \in S : \A q \in S : p <= q
    BY <2>1, LeastNatural
  <2>3. ASSUME NEW q \in S PROVE q <= p <=> q = p
    BY <1>0, <2>2
  <2>4. {q \in S : q <= p} = {p}
    BY <2>3, Zenon
  <2> QED
    BY <2>4, FS_Singleton DEF Rank
<1>2. ASSUME NEW i \in Nat, i \in I
      PROVE  i + 1 \in I
  <2> SUFFICES ASSUME i + 1 < Cardinality(S)
               PROVE  \E p \in S : Rank(S, p) = i + 2
    OBVIOUS
  <2>1. Cardinality(S) \in Nat
    BY FS_CardinalityType
  <2>2. PICK p \in S : Rank(S, p) = i + 1
    BY <1>2, <2>1
  <2>3. PICK B : B = {q \in S : q <= p}
    OBVIOUS
  <2>4. PICK A : A = {q \in S : q > p}
    OBVIOUS
  <2>5. IsFiniteSet(B) /\ Cardinality(B) = i + 1
    BY <2>2, <2>3, FS_Subset DEF Rank
  <2>6. A # {}
    <3> SUFFICES ASSUME A = {} PROVE FALSE
      OBVIOUS
    <3>1. \A q \in S : q <= p \/ q > p
      BY <1>0
    <3>2. S = B
      BY <2>3, <2>4, <3>1, Zenon
    <3> QED
      BY <2>1, <2>5, <3>2
  <2>7. A \subseteq Nat
    BY <2>4
  <2>8. PICK r \in A : \A q \in A : r <= q
    BY <2>6, <2>7, LeastNatural
  <2>9. r \in S /\ r \notin B
    BY <1>0, <2>3, <2>4
  <2>10. {q \in S : q <= r} = B \cup {r}
    <3>1. ASSUME NEW q \in S PROVE q <= r <=> q <= p \/ q = r
      <4>1. q \in Nat /\ p \in Nat /\ r \in Nat /\ r > p /\ (q > p => r <= q)
        BY <1>0, <2>4, <2>8
      <4> QED
        BY <4>1
    <3> QED
      BY <2>3, <2>9, <3>1, Zenon
  <2>11. Cardinality(B \cup {r}) = i + 2
    <3>1. Cardinality(B \cup {r}) = Cardinality(B) + 1
      BY <2>5, <2>9, FS_AddElement
    <3> QED
      BY <2>5, <3>1
  <2> QED
    BY <2>9, <2>10, <2>11 DEF Rank
<1>3. Nat \subseteq I
  <2> HIDE DEF I
  <2> QED
    BY <1>1, <1>2, SetInduction
<1> QED
  BY <1>3

\* The number of a given rank.
LEMMA LeastOf ==
    ASSUME NEW S, S \subseteq Nat, IsFiniteSet(S), NEW i \in 1..Cardinality(S)
    PROVE  Least(S, i) \in S /\ Rank(S, Least(S, i)) = i
<1>1. Cardinality(S) \in Nat
  BY FS_CardinalityType
<1>2. i - 1 \in Nat /\ i - 1 < Cardinality(S) /\ (i - 1) + 1 = i
  BY <1>1
<1>3. \E p \in S : Rank(S, p) = i
  BY <1>2, RankTaken
<1> QED
  BY <1>3 DEF Least

\* The rank of a number grows with the number.
LEMMA RankGrows ==
    ASSUME NEW E, E \subseteq Nat, IsFiniteSet(E), NEW k \in E
    PROVE  /\ Rank(E, k) \in 1..Cardinality(E)
           /\ \A l \in E : Rank(E, l) = Rank(E, k) => l = k
           /\ k = 0 => Rank(E, k) = 1
<1>0. \A l \in E : l \in Nat
  OBVIOUS
<1>1. Cardinality(E) \in Nat
  BY FS_CardinalityType
<1>2. ASSUME NEW l \in E
      PROVE  Rank(E, l) \in 1..Cardinality(E) /\ IsFiniteSet({j \in E : j <= l})
  <2>1. PICK B : B = {j \in E : j <= l}
    OBVIOUS
  <2>2. IsFiniteSet(B) /\ Cardinality(B) <= Cardinality(E) /\ l \in B
    BY <2>1, FS_Subset
  <2>3. Cardinality(B) \in Nat /\ Cardinality(B) # 0
    BY <2>2, FS_CardinalityType, FS_EmptySet
  <2>4. Rank(E, l) = Cardinality(B)
    BY <2>1 DEF Rank
  <2> QED
    BY <1>1, <2>1, <2>2, <2>3, <2>4
<1>3. ASSUME NEW x \in E, NEW y \in E, x < y
      PROVE  Rank(E, x) # Rank(E, y)
  <2>1. PICK B : B = {j \in E : j <= x}
    OBVIOUS
  <2>2. PICK C : C = {j \in E : j <= y}
    OBVIOUS
  <2>3. B \subseteq C /\ y \in C /\ y \notin B
    <3>1. ASSUME NEW j \in E, j <= x PROVE j <= y
      BY <1>0, <1>3, <3>1
    <3>2. y <= y /\ ~(y <= x)
      BY <1>0, <1>3
    <3> QED
      BY <2>1, <2>2, <3>1, <3>2, Zenon
  <2>4. IsFiniteSet(C) /\ B \in SUBSET C
    BY <1>2, <2>2, <2>3
  <2>5. Cardinality(C) # Cardinality(B)
    BY <2>3, <2>4, FS_Subset
  <2> QED
    BY <2>1, <2>2, <2>5 DEF Rank
<1>4. ASSUME k = 0 PROVE Rank(E, k) = 1
  <2>0. \A j \in E : j <= k <=> j = k
    BY <1>0, <1>4
  <2>1. {j \in E : j <= k} = {k}
    BY <2>0, Zenon
  <2> QED
    BY <2>1, FS_Singleton DEF Rank
<1>5. ASSUME NEW l \in E, Rank(E, l) = Rank(E, k) PROVE l = k
  <2>1. ~(l < k) /\ ~(k < l) /\ l \in Nat /\ k \in Nat
    BY <1>3, <1>5
  <2> QED
    BY <2>1
<1> QED
  BY <1>2, <1>4, <1>5

\* There are finitely many free pages.
LEMMA FiniteFree ==
    ASSUME free \subseteq Page
    PROVE  IsFiniteSet(free) /\ free \subseteq Nat /\ Cardinality(free) \in Nat
<1>1. IsFiniteSet(Page) /\ Page \subseteq Nat
  BY PageAssumption, FS_Interval DEF Page
<1> QED
  BY <1>1, FS_Subset, FS_CardinalityType

\* Whatever the order of the free list, pmm_alloc_page returns a free page, and
\* never the same one twice.
LEMMA NthPage ==
    ASSUME free \subseteq Page, NEW order \in Orders, NEW i \in 1..Cardinality(free)
    PROVE  /\ Nth(i, order) \in free
           /\ \A j \in 1..Cardinality(free) : Nth(j, order) = Nth(i, order) => j = i
<1>1. PICK n \in Nat : n = Cardinality(free) /\ IsFiniteSet(free) /\ free \subseteq Nat
  BY FiniteFree
<1>2. PICK A : A = free \cap stale
  OBVIOUS
<1>3. PICK B : B = free \ stale
  OBVIOUS
<1>4. PICK Q : Q = (1..n) \ order
  OBVIOUS
<1>5. /\ IsFiniteSet(A) /\ A \subseteq Nat /\ IsFiniteSet(B) /\ B \subseteq Nat
      /\ Cardinality(A) \in Nat /\ Cardinality(B) = n - Cardinality(A)
  <2>1. IsFiniteSet(A) /\ Cardinality(A) \in Nat
    BY <1>1, <1>2, FS_Subset, FS_CardinalityType
  <2>2. IsFiniteSet(free \ stale) /\ Cardinality(free \ stale) = Cardinality(free) - Cardinality(free \cap stale)
    BY <1>1, FS_Difference
  <2>3. IsFiniteSet(B) /\ Cardinality(B) = n - Cardinality(A)
    BY <1>1, <1>2, <1>3, <2>2
  <2> QED
    BY <1>1, <1>2, <1>3, <2>1, <2>3
<1>6. /\ order \subseteq 1..n /\ IsFiniteSet(order) /\ order \subseteq Nat
      /\ Cardinality(order) = Cardinality(A)
      /\ IsFiniteSet(Q) /\ Q \subseteq Nat /\ Cardinality(Q) = Cardinality(B)
  <2>1. order \subseteq 1..n /\ Cardinality(order) = Cardinality(A)
    BY <1>1, <1>2 DEF Orders
  <2>2. IsFiniteSet(1..n) /\ Cardinality(1..n) = n
    BY FS_Interval
  <2>3. IsFiniteSet(order)
    BY <2>1, <2>2, FS_Subset
  <2>4. (1..n) \cap order = order
    BY <2>1
  <2>5. IsFiniteSet((1..n) \ order)
        /\ Cardinality((1..n) \ order) = Cardinality(1..n) - Cardinality((1..n) \cap order)
    BY <2>2, FS_Difference
  <2>6. IsFiniteSet(Q) /\ Cardinality(Q) = Cardinality(B)
    BY <1>4, <1>5, <2>1, <2>2, <2>4, <2>5
  <2> QED
    BY <1>4, <2>1, <2>3, <2>6
<1>7. ASSUME NEW k \in 1..n
      PROVE  /\ k \in order => /\ Nth(k, order) \in A
                               /\ Rank(A, Nth(k, order)) = Rank(order, k)
             /\ k \notin order => /\ Nth(k, order) \in B
                                  /\ Rank(B, Nth(k, order)) = Rank(Q, k)
  <2>1. CASE k \in order
    <3>1. Rank(order, k) \in 1..Cardinality(A)
      BY <1>6, <2>1, RankGrows
    <3>2. Nth(k, order) = Least(A, Rank(order, k))
      BY <1>2, <2>1 DEF Nth
    <3> QED
      BY <1>5, <2>1, <3>1, <3>2, LeastOf
  <2>2. CASE k \notin order
    <3>1. Rank(Q, k) \in 1..Cardinality(B)
      BY <1>4, <1>6, <2>2, RankGrows
    <3>2. Nth(k, order) = Least(B, Rank(Q, k))
      BY <1>1, <1>3, <1>4, <2>2 DEF Nth
    <3> QED
      BY <1>5, <2>2, <3>1, <3>2, LeastOf
  <2> QED
    BY <2>1, <2>2
<1>8. i \in 1..n
  BY <1>1
<1>9. Nth(i, order) \in free
  BY <1>2, <1>3, <1>7, <1>8
<1>10. ASSUME NEW j \in 1..n, Nth(j, order) = Nth(i, order) PROVE j = i
  <2>1. A \cap B = {}
    BY <1>2, <1>3
  <2>2. CASE i \in order
    <3>1. j \in order /\ Rank(order, j) = Rank(order, i)
      BY <1>7, <1>8, <1>10, <2>1, <2>2
    <3> QED
      BY <1>6, <2>2, <3>1, RankGrows
  <2>3. CASE i \notin order
    <3>1. j \notin order /\ Rank(Q, j) = Rank(Q, i)
      BY <1>7, <1>8, <1>10, <2>1, <2>3
    <3>2. i \in Q /\ j \in Q
      BY <1>4, <1>8, <2>3, <3>1
    <3> QED
      BY <1>6, <3>1, <3>2, RankGrows
  <2> QED
    BY <2>2, <2>3
<1> QED
  BY <1>1, <1>9, <1>10

\* What allocating for a set of entries gives: different free pages, to all of
\* them when there are enough and else to the first.
LEMMA BuiltSpace ==
    ASSUME free \subseteq Page, NEW E, E \subseteq Nat, IsFiniteSet(E), NEW order \in Orders
    PROVE  /\ DOMAIN Built(E, order) \subseteq E
           /\ Built(E, order) \in [DOMAIN Built(E, order) -> free]
           /\ \A k, l \in DOMAIN Built(E, order) : Built(E, order)[k] = Built(E, order)[l] => k = l
           /\ Cardinality(E) <= Cardinality(free) => DOMAIN Built(E, order) = E
           /\ 0 \in E /\ free # {} => 0 \in DOMAIN Built(E, order)
           /\ free = {} => Built(E, order) = NoSpace
<1>1. IsFiniteSet(free) /\ Cardinality(free) \in Nat /\ Cardinality(E) \in Nat
  BY FiniteFree, FS_CardinalityType
<1>2. PICK D : D = Reached(E)
  OBVIOUS
<1>3. PICK sp : sp = Built(E, order)
  OBVIOUS
<1>4. sp = [k \in D |-> Nth(Rank(E, k), order)] /\ D \subseteq E
  BY <1>2, <1>3 DEF Built, Reached
<1>5. ASSUME NEW k \in D PROVE Rank(E, k) \in 1..Cardinality(free)
  <2>1. k \in E /\ Rank(E, k) <= Cardinality(free)
    BY <1>2 DEF Reached
  <2>2. Rank(E, k) \in 1..Cardinality(E)
    BY <2>1, RankGrows
  <2> QED
    BY <1>1, <2>1, <2>2
<1>6. DOMAIN sp = D /\ sp \in [D -> free]
  BY <1>4, <1>5, NthPage
<1>7. ASSUME NEW k \in D, NEW l \in D, sp[k] = sp[l]
      PROVE  k = l
  <2>1. Nth(Rank(E, k), order) = Nth(Rank(E, l), order)
    BY <1>4, <1>7
  <2>2. Rank(E, k) = Rank(E, l)
    BY <1>5, <2>1, NthPage
  <2> QED
    BY <1>4, <2>2, RankGrows
<1>8. ASSUME Cardinality(E) <= Cardinality(free) PROVE D = E
  <2>1. ASSUME NEW e \in E PROVE Rank(E, e) <= Cardinality(free)
    <3>1. Rank(E, e) \in 1..Cardinality(E)
      BY RankGrows
    <3> QED
      BY <1>1, <1>8, <3>1
  <2> QED
    BY <1>2, <2>1 DEF Reached
<1>9. ASSUME 0 \in E, free # {} PROVE 0 \in D
  <2>1. Rank(E, 0) = 1
    BY <1>9, RankGrows
  <2>2. Cardinality(free) # 0
    BY <1>1, <1>9, FS_EmptySet
  <2> QED
    BY <1>1, <1>2, <1>9, <2>1, <2>2 DEF Reached
<1>10. ASSUME free = {} PROVE sp = NoSpace
  <2>1. D = {}
    BY <1>6, <1>10
  <2> QED
    BY <1>4, <2>1 DEF NoSpace
<1> QED
  BY <1>3, <1>4, <1>6, <1>7, <1>8, <1>9, <1>10

-----------------------------------------------------------------------------
(* The inductive invariant. *)

\* An address space: different entries hold different pages.
AddressSpace(sp) ==
    /\ DOMAIN sp \subseteq Entry
    /\ sp \in [DOMAIN sp -> Page]
    /\ \A k, l \in DOMAIN sp : sp[k] = sp[l] => k = l

\* A space that a task can run in, with its mappings below n.
Whole(sp, n) ==
    /\ 0 \in DOMAIN sp
    /\ \A u \in Mapped(sp) : Table(u) \in DOMAIN sp /\ u < n

Contained == [Page -> Val \cup {Link}]

Typed ==
    /\ free \subseteq Page /\ kernel \subseteq Page /\ mem \in Contained
    /\ space = [t \in Task |-> space[t]]
    /\ \A t \in Task : AddressSpace(space[t])
    /\ mmap_next \in [Task -> MmapBase..MmapEnd]
    /\ current \in Task

\* No page is held twice.
Separate ==
    /\ free \cap kernel = {}
    /\ \A t \in Task :
        /\ free \cap Range(space[t]) = {} /\ kernel \cap Range(space[t]) = {}
        /\ \A s \in Task : s # t => Range(space[s]) \cap Range(space[t]) = {}

\* No page is lost.
Covered == \A p \in Page : p \in free \cup kernel \/ \E t \in Task : p \in Range(space[t])

AllWhole == \A t \in Task : space[t] = NoSpace \/ Whole(space[t], mmap_next[t])

Running == space[current] # NoSpace /\ cr3 = space[current][0]

\* A task asleep in wait keeps its space, with its status word.
Asleep(t) == t \in Task /\ t # current /\ space[t] # NoSpace /\ blocked[t] \subseteq Mapped(space[t])
Sleepers == \A t \in DOMAIN blocked : Asleep(t)

\* A step that changes the space of t or of no task and leaves the others asleep.
SleepOn(t) ==
    \A s \in DOMAIN blocked' :
        s \in DOMAIN blocked /\ s # t /\ s # current' /\ blocked'[s] = blocked[s]

Inv == Typed /\ Separate /\ Covered /\ AllWhole /\ Running /\ Sleepers

\* A space without entries is no space.
LEMMA EmptySpace ==
    /\ Range(NoSpace) = {} /\ AddressSpace(NoSpace) /\ DOMAIN NoSpace = {}
    /\ Mapped(NoSpace) = {} /\ \A n : ~Whole(NoSpace, n)
BY DEF NoSpace, Range, AddressSpace, Mapped, Whole

\* The image lies among the user pages, below the mappings.
LEMMA ImageLow ==
    /\ Image \subseteq UserPage /\ \A u \in Image : u < MmapBase
    /\ ImageEntries \subseteq Entry /\ IsFiniteSet(ImageEntries) /\ ImageEntries \subseteq Nat
    /\ 0 \in ImageEntries
<1>1. Image \subseteq UserPage /\ \A u \in Image : u < MmapBase
  BY LayoutAssumption DEF UserPage
<1>2. ImageEntries \subseteq Entry /\ 0 \in ImageEntries
  BY <1>1 DEF ImageEntries, Entry, Entries
<1> QED
  BY <1>1, <1>2, FiniteEntries, FS_Subset

\* Which user pages a set of entries maps.
LEMMA EntriesOf ==
    ASSUME NEW us, us \subseteq UserPage, NEW u \in UserPage
    PROVE  /\ Leaf(u) \in {0} \cup Entries(us) => u \in us
           /\ u \in us => Leaf(u) \in Entries(us) /\ Table(u) \in Entries(us)
           /\ Entries(us) \subseteq Entry
<1>1. ASSUME Leaf(u) \in {0} \cup Entries(us) PROVE u \in us
  <2>1. \A w \in UserPage : /\ Leaf(u) # Table(w) /\ (Leaf(u) = Leaf(w) => u = w)
                            /\ Leaf(u) # 0
    BY FiniteEntries, EntryDistinct
  <2> QED
    BY <1>1, <2>1 DEF Entries
<1> QED
  BY <1>1 DEF Entries, Entry

\* Contents stay typed.
LEMMA ContainedKept ==
    ASSUME mem \in Contained, NEW sp, NEW ps, NEW content, AddressSpace(sp),
           \A u \in Mapped(sp) : content[u] \in Val \cup {Link}
    PROVE  /\ pmm_alloc_page(sp) \in Contained
           /\ Filled(sp, content) \in Contained
           /\ \A m \in Contained : pmm_free_page(ps, m) \in Contained
<1>1. \A m \in Contained : pmm_free_page(ps, m) \in Contained
  BY DEF Contained, pmm_free_page
<1>2. pmm_alloc_page(sp) \in Contained
  BY ValAssumption DEF Contained, pmm_alloc_page
<1>3. ASSUME NEW p \in Page
      PROVE  Filled(sp, content)[p] \in Val \cup {Link}
  <2>1. CASE \E u \in Mapped(sp) : sp[Leaf(u)] = p
    <3>1. PICK w : w = CHOOSE u \in Mapped(sp) : sp[Leaf(u)] = p
      OBVIOUS
    <3>2. w \in Mapped(sp)
      BY <2>1, <3>1
    <3>3. Filled(sp, content)[p] = content[w]
      BY <2>1, <3>1 DEF Filled, Written
    <3> QED
      BY <3>2, <3>3
  <2>2. CASE ~ \E u \in Mapped(sp) : sp[Leaf(u)] = p
    <3>1. Filled(sp, content)[p] = pmm_alloc_page(sp)[p]
      BY <2>2 DEF Filled, Written
    <3> QED
      BY <1>2, <3>1 DEF Contained
  <2> QED
    BY <2>1, <2>2
<1>4. Filled(sp, content) = [p \in Page |-> Filled(sp, content)[p]]
  BY DEF Filled, Written
<1>5. Filled(sp, content) \in Contained
  BY <1>3, <1>4 DEF Contained
<1> QED
  BY <1>1, <1>2, <1>5

\* What a call allocates for some entries of a space.
LEMMA BuiltOf ==
    ASSUME Inv, NEW E, E \subseteq Entry, NEW order \in Orders
    PROVE  /\ AddressSpace(Built(E, order)) /\ Range(Built(E, order)) \subseteq free
           /\ DOMAIN Built(E, order) \subseteq E
           /\ Cardinality(E) <= Cardinality(free) => DOMAIN Built(E, order) = E
           /\ 0 \in E => vmm_space_destroy(Built(E, order), cr3) = Range(Built(E, order))
<1>1. free \subseteq Page /\ E \subseteq Nat /\ IsFiniteSet(E)
  BY FiniteEntries, FS_Subset DEF Inv, Typed
<1>2. PICK sp : sp = Built(E, order)
  OBVIOUS
<1>3. /\ DOMAIN sp \subseteq E
      /\ sp \in [DOMAIN sp -> free]
      /\ \A k, l \in DOMAIN sp : sp[k] = sp[l] => k = l
      /\ Cardinality(E) <= Cardinality(free) => DOMAIN sp = E
      /\ 0 \in E /\ free # {} => 0 \in DOMAIN sp
      /\ free = {} => sp = NoSpace
  BY <1>1, <1>2, BuiltSpace
<1>4. AddressSpace(sp)
  BY <1>1, <1>3 DEF AddressSpace
<1>5. Range(sp) \subseteq free
  BY <1>3 DEF Range
<1>6. ASSUME 0 \in E PROVE vmm_space_destroy(sp, cr3) = Range(sp)
  <2>1. CASE free = {}
    BY <1>3, <2>1, EmptySpace DEF vmm_space_destroy
  <2>2. CASE free # {}
    <3>1. sp[0] \in free /\ 0 \in DOMAIN sp
      BY <1>3, <1>6, <2>2
    <3>2. cr3 \in Range(space[current]) /\ current \in Task
      BY DEF Inv, Running, AllWhole, Whole, Typed, Range
    <3>3. sp[0] # cr3
      BY <3>1, <3>2 DEF Inv, Separate
    <3>4. sp # NoSpace
      BY <3>1, EmptySpace
    <3> QED
      BY <3>3, <3>4 DEF vmm_space_destroy
  <2> QED
    BY <2>1, <2>2
<1> QED
  BY <1>2, <1>3, <1>4, <1>5, <1>6

\* A call that gives task t another space, with pages that were free or its own.
LEMMA SpaceChanged ==
    ASSUME Inv, NEW t \in Task, NEW new, NEW m \in MmapBase..MmapEnd,
           AddressSpace(new), new = NoSpace \/ Whole(new, m),
           Range(new) \subseteq free \cup Range(space[t]),
           free' = (free \cup Range(space[t])) \ Range(new), kernel' = kernel,
           mem' \in Contained,
           space' = [space EXCEPT ![t] = new], mmap_next' = [mmap_next EXCEPT ![t] = m],
           current' \in Task, space'[current'] # NoSpace, cr3' = space'[current'][0],
           SleepOn(t)
    PROVE  Inv'
<1>1. /\ space'[t] = new /\ mmap_next'[t] = m
      /\ \A s \in Task : s # t => space'[s] = space[s] /\ mmap_next'[s] = mmap_next[s]
      /\ space' = [s \in Task |-> space'[s]] /\ mmap_next' \in [Task -> MmapBase..MmapEnd]
  BY DEF Inv, Typed
<1>2. \A s \in Task : Range(space'[s]) = IF s = t THEN Range(new) ELSE Range(space[s])
  BY <1>1
<1>3. \A s \in Task : AddressSpace(space[s]) /\ Range(space[s]) \subseteq Page
  BY DEF Inv, Typed, AddressSpace, Range
<1>4. Typed'
  <2>1. free' \subseteq Page /\ kernel' \subseteq Page
    BY <1>3 DEF Inv, Typed
  <2>2. \A s \in Task : AddressSpace(space'[s])
    BY <1>1, <1>3
  <2> QED
    BY <1>1, <2>1, <2>2 DEF Typed
<1>5. Separate'
  <2>1. PICK R : R = [s \in Task |-> Range(space[s])]
    OBVIOUS
  <2>2. PICK N : N = Range(new)
    OBVIOUS
  <2>3. \A s \in Task : Range(space[s]) = R[s] /\ Range(space'[s]) = IF s = t THEN N ELSE R[s]
    BY <1>2, <2>1, <2>2
  <2>4. /\ free \cap kernel = {}
        /\ \A s \in Task : free \cap R[s] = {} /\ kernel \cap R[s] = {}
        /\ \A r, s \in Task : r # s => R[r] \cap R[s] = {}
    BY <2>3 DEF Inv, Separate
  <2>5. N \subseteq free \cup R[t] /\ free' = (free \cup R[t]) \ N /\ kernel' = kernel
    BY <2>2, <2>3
  <2>6. /\ free' \cap kernel' = {}
        /\ \A s \in Task : s # t => free' \cap R[s] = {} /\ N \cap R[s] = {}
        /\ free' \cap N = {} /\ kernel' \cap N = {}
    BY <2>4, <2>5
  <2>7. \A s \in Task :
          /\ free' \cap Range(space'[s]) = {} /\ kernel' \cap Range(space'[s]) = {}
          /\ \A r \in Task : r # s => Range(space'[r]) \cap Range(space'[s]) = {}
    BY <2>3, <2>4, <2>5, <2>6
  <2> QED
    BY <2>6, <2>7 DEF Separate
<1>6. Covered'
  <2> SUFFICES ASSUME NEW p \in Page, p \notin free', p \notin kernel'
               PROVE  \E s \in Task : p \in Range(space'[s])
    BY DEF Covered
  <2>1. CASE p \in Range(new)
    BY <1>2, <2>1
  <2>2. CASE p \notin Range(new)
    <3>1. p \notin free /\ p \notin kernel /\ p \notin Range(space[t])
      BY <2>2
    <3>2. PICK s \in Task : p \in Range(space[s])
      BY <3>1 DEF Inv, Covered
    <3> QED
      BY <1>2, <3>1, <3>2
  <2> QED
    BY <2>1, <2>2
<1>7. AllWhole'
  BY <1>1 DEF Inv, AllWhole
<1>8. Running'
  BY DEF Running
<1>9. Sleepers'
  <2> SUFFICES ASSUME NEW s \in DOMAIN blocked' PROVE Asleep(s)'
    BY DEF Sleepers
  <2>1. s \in DOMAIN blocked /\ s # t /\ s # current' /\ blocked'[s] = blocked[s]
    BY DEF SleepOn
  <2>2. s \in Task /\ space[s] # NoSpace /\ blocked[s] \subseteq Mapped(space[s])
    BY <2>1 DEF Inv, Sleepers, Asleep
  <2>3. space'[s] = space[s]
    BY <1>1, <2>1, <2>2
  <2> QED
    BY <2>1, <2>2, <2>3 DEF Asleep
<1> QED
  BY <1>4, <1>5, <1>6, <1>7, <1>8, <1>9 DEF Inv

-----------------------------------------------------------------------------
(* Every step keeps the invariant. *)

\* user_start leaves init in a whole space.
LEMMA InitInv == Init => Inv
<1> SUFFICES ASSUME Init PROVE Inv
  OBVIOUS
<1>1. PICK sp : sp = [k \in ImageEntries |-> Rank(ImageEntries, k)]
  OBVIOUS
<1>2. /\ kernel = {} /\ current \in Task
      /\ space = [t \in Task |-> IF t = current THEN sp ELSE NoSpace]
      /\ free = Page \ Range(sp)
      /\ cr3 = sp[0]
      /\ mem = [p \in Page |->
            IF \E u \in Image : sp[Leaf(u)] = p
            THEN Program[CHOOSE u \in Image : sp[Leaf(u)] = p]
            ELSE IF p \in Range(sp) THEN 0 ELSE Link]
      /\ mmap_next = [t \in Task |-> MmapBase]
      /\ DOMAIN blocked = {}
  BY <1>1 DEF Init, Written
<1>3. Cardinality(ImageEntries) \in Nat /\ Pages \in Nat
  BY ImageLow, FS_CardinalityType, PageAssumption
<1>4. \A k \in ImageEntries : Rank(ImageEntries, k) \in Page
  <2> SUFFICES ASSUME NEW k \in ImageEntries PROVE Rank(ImageEntries, k) \in Page
    OBVIOUS
  <2>1. Rank(ImageEntries, k) \in 1..Cardinality(ImageEntries)
    BY ImageLow, RankGrows
  <2> QED
    BY <1>3, <2>1, MemoryAssumption DEF Page
<1>5. DOMAIN sp = ImageEntries /\ AddressSpace(sp)
  <2>1. sp \in [ImageEntries -> Page] /\ DOMAIN sp = ImageEntries
    BY <1>1, <1>4
  <2>2. \A k, l \in ImageEntries : sp[k] = sp[l] => k = l
    BY <1>1, ImageLow, RankGrows
  <2> QED
    BY <2>1, <2>2, ImageLow DEF AddressSpace
<1>6. Whole(sp, MmapBase)
  <2>1. \A u \in UserPage : Leaf(u) \in ImageEntries => u \in Image
    BY ImageLow, EntriesOf DEF ImageEntries
  <2>2. \A u \in Image : Leaf(u) \in ImageEntries /\ Table(u) \in ImageEntries
    BY ImageLow, EntriesOf DEF ImageEntries
  <2> QED
    BY <1>5, <2>1, <2>2, ImageLow DEF Whole, Mapped
<1>7. mem \in Contained
  <2>1. ASSUME NEW p \in Page PROVE mem[p] \in Val \cup {Link}
    <3>1. CASE \E u \in Image : sp[Leaf(u)] = p
      <4>1. PICK w : w = CHOOSE u \in Image : sp[Leaf(u)] = p
        OBVIOUS
      <4>2. w \in Image /\ mem[p] = Program[w]
        BY <1>2, <3>1, <4>1
      <4> QED
        BY <4>2, ValAssumption
    <3>2. CASE ~ \E u \in Image : sp[Leaf(u)] = p
      BY <1>2, <3>2, ValAssumption
    <3> QED
      BY <3>1, <3>2
  <2>2. mem = [p \in Page |-> mem[p]]
    BY <1>2
  <2> QED
    BY <2>1, <2>2 DEF Contained
<1>8. Range(sp) \subseteq Page
  BY <1>5 DEF AddressSpace, Range
<1>9. /\ space[current] = sp /\ \A t \in Task \ {current} : space[t] = NoSpace
      /\ space = [t \in Task |-> space[t]]
  BY <1>2
<1>10. \A t \in Task : Range(space[t]) = IF t = current THEN Range(sp) ELSE {}
  BY <1>9, EmptySpace
<1>11. Typed
  BY <1>2, <1>5, <1>7, <1>9, EmptySpace, LayoutAssumption DEF Typed
<1>12. Separate
  BY <1>2, <1>10 DEF Separate
<1>13. Covered
  BY <1>2, <1>10 DEF Covered
<1>14. AllWhole
  BY <1>2, <1>6, <1>9 DEF AllWhole
<1>15. Running
  BY <1>2, <1>6, <1>9, EmptySpace DEF Running
<1>16. Sleepers
  BY <1>2 DEF Sleepers
<1> QED
  BY <1>11, <1>12, <1>13, <1>14, <1>15, <1>16 DEF Inv

\* What the invariant says of the current task.
LEMMA CurrentSpace ==
    ASSUME Inv
    PROVE  /\ current \in Task /\ space[current] # NoSpace /\ AddressSpace(space[current])
           /\ Whole(space[current], mmap_next[current]) /\ cr3 = space[current][0]
           /\ cr3 \in Range(space[current])
           /\ mmap_next[current] \in MmapBase..MmapEnd
           /\ Range(space[current]) \cap free = {}
           /\ mem \in Contained
<1>1. Whole(space[current], mmap_next[current]) /\ current \in Task
  BY DEF Inv, Typed, AllWhole, Running
<1>2. cr3 \in Range(space[current])
  BY <1>1 DEF Inv, Running, Whole, Range
<1> QED
  BY <1>1, <1>2 DEF Inv, Typed, Running, Separate

\* A call of the current task leaves the tasks asleep.
LEMMA OwnCall ==
    ASSUME Inv, UNCHANGED <<current, blocked>>
    PROVE  SleepOn(current)
BY DEF Inv, Sleepers, Asleep, SleepOn

\* The contents of a space are those of pages.
LEMMA ContentsTyped ==
    ASSUME mem \in Contained, NEW sp, AddressSpace(sp), NEW u \in Mapped(sp)
    PROVE  sp[Leaf(u)] \in Page /\ Contents(sp)[u] = mem[sp[Leaf(u)]] /\ Contents(sp)[u] \in Val \cup {Link}
<1>1. Leaf(u) \in DOMAIN sp
  BY DEF Mapped
<1>2. sp[Leaf(u)] \in Page
  BY <1>1 DEF AddressSpace
<1> QED
  BY <1>2 DEF Contents, Contained

LEMMA ForkInv ==
    ASSUME Inv, NEW child \in Task, Fork(child)
    PROVE  Inv'
<1>0. PICK order \in Orders :
        LET sp == Built(DOMAIN space[current], order)
        IN  /\ DOMAIN sp = DOMAIN space[current]
            /\ free' = free \ Range(sp)
            /\ mem' = Filled(sp, Contents(space[current]))
            /\ space' = [space EXCEPT ![child] = sp]
  BY DEF Fork
<1>1. PICK sp : sp = Built(DOMAIN space[current], order)
  OBVIOUS
<1>2. PICK m : m = mmap_next[current]
  OBVIOUS
<1>3. /\ space[child] = NoSpace /\ DOMAIN sp = DOMAIN space[current] /\ free' = free \ Range(sp)
      /\ mem' = Filled(sp, Contents(space[current]))
      /\ space' = [space EXCEPT ![child] = sp]
      /\ mmap_next' = [mmap_next EXCEPT ![child] = m]
      /\ kernel' = kernel /\ current' = current /\ cr3' = cr3
  BY <1>0, <1>1, <1>2 DEF Fork, Live
<1>4. AddressSpace(sp) /\ Range(sp) \subseteq free
  <2>1. DOMAIN space[current] \subseteq Entry
    BY CurrentSpace DEF AddressSpace
  <2> QED
    BY <1>1, <2>1, BuiltOf
<1>5. Mapped(sp) = Mapped(space[current])
  BY <1>3 DEF Mapped
<1>6. Whole(sp, m) /\ m \in MmapBase..MmapEnd
  BY <1>2, <1>3, <1>5, CurrentSpace DEF Whole
<1>7. mem' \in Contained
  <2>1. \A u \in Mapped(sp) : Contents(space[current])[u] \in Val \cup {Link}
    BY <1>5, CurrentSpace, ContentsTyped
  <2> QED
    BY <1>3, <1>4, <2>1, CurrentSpace, ContainedKept
<1>8. free' = (free \cup Range(space[child])) \ Range(sp)
  BY <1>3, EmptySpace
<1>9. current # child /\ space'[current'] = space[current]
  BY <1>3, CurrentSpace DEF Inv, Typed
<1>10. current' \in Task /\ space'[current'] # NoSpace /\ cr3' = space'[current'][0]
  BY <1>3, <1>9, CurrentSpace
<1>11. Range(sp) \subseteq free \cup Range(space[child])
  BY <1>4
<1>12. SleepOn(child)
  <2>1. UNCHANGED <<current, blocked>>
    BY DEF Fork
  <2> QED
    BY <1>3, <2>1 DEF Inv, Sleepers, Asleep, SleepOn
<1> QED
  BY <1>3, <1>4, <1>6, <1>7, <1>8, <1>10, <1>11, <1>12, SpaceChanged

\* A call that only takes pages and gives them back.
LEMMA NoSpaceChanged ==
    ASSUME Inv, free' = free, mem' \in Contained,
           UNCHANGED <<kernel, space, mmap_next, current, cr3, blocked>>
    PROVE  Inv'
BY DEF Inv, Typed, Separate, Covered, AllWhole, Running, Sleepers, Asleep

LEMMA ForkFailsInv ==
    ASSUME Inv, ForkFails
    PROVE  Inv'
<1>0. PICK order \in Orders :
        LET sp == Built(DOMAIN space[current], order)
        IN  /\ free' = (free \ Range(sp)) \cup vmm_space_destroy(sp, cr3)
            /\ mem' = pmm_free_page(vmm_space_destroy(sp, cr3), Filled(sp, Contents(space[current])))
  BY DEF ForkFails
<1>1. PICK sp : sp = Built(DOMAIN space[current], order)
  OBVIOUS
<1>2. PICK gone : gone = vmm_space_destroy(sp, cr3)
  OBVIOUS
<1>3. /\ free' = (free \ Range(sp)) \cup gone
      /\ mem' = pmm_free_page(gone, Filled(sp, Contents(space[current])))
      /\ UNCHANGED <<kernel, space, mmap_next, current, cr3, blocked>>
  BY <1>0, <1>1, <1>2 DEF ForkFails
<1>4. /\ AddressSpace(sp) /\ Range(sp) \subseteq free /\ gone = Range(sp)
      /\ DOMAIN sp \subseteq DOMAIN space[current]
  <2>1. DOMAIN space[current] \subseteq Entry /\ 0 \in DOMAIN space[current]
    BY CurrentSpace DEF AddressSpace, Whole
  <2> QED
    BY <1>1, <1>2, <2>1, BuiltOf
<1>5. \A u \in Mapped(sp) : Contents(space[current])[u] \in Val \cup {Link}
  <2>1. Mapped(sp) \subseteq Mapped(space[current])
    BY <1>4 DEF Mapped
  <2> QED
    BY <2>1, CurrentSpace, ContentsTyped
<1>6. mem' \in Contained
  BY <1>3, <1>4, <1>5, CurrentSpace, ContainedKept
<1>7. free' = free
  BY <1>3, <1>4
<1> QED
  BY <1>3, <1>6, <1>7, NoSpaceChanged

LEMMA ExecInv ==
    ASSUME Inv, Exec
    PROVE  Inv'
<1>0. PICK order \in Orders :
        LET sp == Built(ImageEntries, order)
        IN  /\ DOMAIN sp = ImageEntries
            /\ free' = (free \ Range(sp)) \cup task_exec(sp)
            /\ mem' = pmm_free_page(task_exec(sp), Filled(sp, Program))
            /\ space' = [space EXCEPT ![current] = sp]
            /\ cr3' = sp[0] /\ stale' = {}
  BY DEF Exec
<1>1. PICK sp : sp = Built(ImageEntries, order)
  OBVIOUS
<1>2. PICK gone : gone = task_exec(sp)
  OBVIOUS
<1>3. PICK t \in Task : t = current
  BY CurrentSpace
<1>4. /\ DOMAIN sp = ImageEntries /\ free' = (free \ Range(sp)) \cup gone
      /\ mem' = pmm_free_page(gone, Filled(sp, Program))
      /\ space' = [space EXCEPT ![t] = sp] /\ cr3' = sp[0]
      /\ mmap_next' = [mmap_next EXCEPT ![t] = MmapBase]
      /\ kernel' = kernel /\ current' = t
  BY <1>0, <1>1, <1>2, <1>3 DEF Exec
<1>5. AddressSpace(sp) /\ Range(sp) \subseteq free
  BY <1>1, ImageLow, BuiltOf
<1>6. sp[0] \in Range(sp)
  BY <1>4, ImageLow DEF Range
<1>7. gone = Range(space[t])
  <2>1. sp[0] # cr3
    BY <1>5, <1>6, CurrentSpace
  <2> QED
    BY <1>2, <1>3, <2>1, CurrentSpace DEF task_exec, vmm_space_destroy
<1>8. Mapped(sp) = Image /\ Whole(sp, MmapBase)
  <2>1. \A u \in UserPage : Leaf(u) \in ImageEntries => u \in Image
    BY ImageLow, EntriesOf DEF ImageEntries
  <2>2. \A u \in Image : u \in UserPage /\ Leaf(u) \in ImageEntries /\ Table(u) \in ImageEntries
    BY ImageLow, EntriesOf DEF ImageEntries
  <2>3. Mapped(sp) = Image
    BY <1>4, <2>1, <2>2 DEF Mapped
  <2> QED
    BY <1>4, <2>2, <2>3, ImageLow DEF Whole
<1>9. mem' \in Contained
  <2>1. \A u \in Mapped(sp) : Program[u] \in Val \cup {Link}
    BY <1>8, ValAssumption
  <2> QED
    BY <1>4, <1>5, <2>1, CurrentSpace, ContainedKept
<1>10. free' = (free \cup Range(space[t])) \ Range(sp)
  BY <1>3, <1>4, <1>5, <1>7, CurrentSpace
<1>11. space'[current'] = sp
  BY <1>4 DEF Inv, Typed
<1>12. current' \in Task /\ space'[current'] # NoSpace /\ cr3' = space'[current'][0]
  BY <1>4, <1>8, <1>11, EmptySpace
<1>13. Range(sp) \subseteq free \cup Range(space[t]) /\ MmapBase \in MmapBase..MmapEnd
  BY <1>5, LayoutAssumption
<1>14. SleepOn(t)
  BY <1>3, OwnCall DEF Exec
<1> QED
  BY <1>4, <1>5, <1>8, <1>9, <1>10, <1>12, <1>13, <1>14, SpaceChanged

LEMMA ExecFailsInv ==
    ASSUME Inv, ExecFails
    PROVE  Inv'
<1>1. PICK us \in SUBSET Image, order \in Orders :
        LET sp == Built({0} \cup Entries(us), order)
        IN  /\ free' = (free \ Range(sp)) \cup vmm_space_destroy(sp, cr3)
            /\ mem' = pmm_free_page(vmm_space_destroy(sp, cr3), Filled(sp, Program))
  BY DEF ExecFails
<1>2. PICK sp : sp = Built({0} \cup Entries(us), order)
  OBVIOUS
<1>3. PICK gone : gone = vmm_space_destroy(sp, cr3)
  OBVIOUS
<1>4. /\ free' = (free \ Range(sp)) \cup gone
      /\ mem' = pmm_free_page(gone, Filled(sp, Program))
  BY <1>1, <1>2, <1>3
<1>5. us \subseteq UserPage /\ {0} \cup Entries(us) \subseteq Entry
  <2>1. us \subseteq UserPage
    BY ImageLow
  <2> QED
    BY <2>1 DEF Entry, Entries
<1>6. /\ AddressSpace(sp) /\ Range(sp) \subseteq free /\ gone = Range(sp)
      /\ DOMAIN sp \subseteq {0} \cup Entries(us)
  BY <1>2, <1>3, <1>5, BuiltOf
<1>7. \A u \in Mapped(sp) : Program[u] \in Val \cup {Link}
  <2>1. \A u \in Mapped(sp) : u \in UserPage /\ Leaf(u) \in {0} \cup Entries(us)
    BY <1>6 DEF Mapped
  <2>2. \A u \in Mapped(sp) : u \in us
    BY <1>5, <2>1, EntriesOf
  <2> QED
    BY <2>2, ValAssumption
<1>8. mem' \in Contained
  BY <1>4, <1>6, <1>7, CurrentSpace, ContainedKept
<1>9. free' = free
  BY <1>4, <1>6
<1>10. UNCHANGED <<kernel, space, mmap_next, current, cr3, blocked>>
  BY DEF ExecFails
<1> QED
  BY <1>8, <1>9, <1>10, NoSpaceChanged

\* What task_exit gives back: the space it leaves, which is not the next one's.
LEMMA ExitGone ==
    ASSUME Inv, NEW next \in Task, next # current, space[next] # NoSpace
    PROVE  /\ vmm_space_destroy(space[current], space[next][0]) = Range(space[current])
           /\ space[next][0] \in Range(space[next])
<1>1. Whole(space[next], mmap_next[next])
  BY DEF Inv, AllWhole
<1>2. space[next][0] \in Range(space[next])
  BY <1>1 DEF Whole, Range
<1>3. space[current][0] # space[next][0]
  BY <1>2, CurrentSpace DEF Inv, Separate
<1> QED
  BY <1>2, <1>3, CurrentSpace DEF vmm_space_destroy

LEMMA LeaveInv ==
    ASSUME Inv, NEW next \in Task, next # current, space[next] # NoSpace,
           NEW m \in Contained, Leave(next, m), SleepOn(current)
    PROVE  Inv'
<1>1. PICK t \in Task : t = current
  BY CurrentSpace
<1>2. PICK gone : gone = vmm_space_destroy(space[current], space[next][0])
  OBVIOUS
<1>3. /\ next # t
      /\ current' = next /\ cr3' = space[next][0]
      /\ free' = free \cup gone /\ mem' = pmm_free_page(gone, m)
      /\ space' = [space EXCEPT ![t] = NoSpace]
      /\ mmap_next' = [mmap_next EXCEPT ![t] = MmapBase]
      /\ kernel' = kernel
  BY <1>1, <1>2 DEF Leave, switch_to
<1>4. gone = Range(space[t])
  BY <1>1, <1>2, <1>3, ExitGone
<1>5. mem' \in Contained
  BY <1>3 DEF Contained, pmm_free_page
<1>6. space'[current'] = space[next]
  BY <1>3 DEF Inv, Typed
<1>7. current' \in Task /\ space'[current'] # NoSpace /\ cr3' = space'[current'][0]
  BY <1>3, <1>6
<1>8. /\ free' = (free \cup Range(space[t])) \ Range(NoSpace)
      /\ Range(NoSpace) \subseteq free \cup Range(space[t])
      /\ MmapBase \in MmapBase..MmapEnd /\ AddressSpace(NoSpace)
  BY <1>3, <1>4, EmptySpace, LayoutAssumption
<1>9. SleepOn(t)
  BY <1>1
<1> QED
  BY <1>3, <1>5, <1>7, <1>8, <1>9, SpaceChanged

LEMMA ExitInv ==
    ASSUME Inv, NEW next \in Task, Exit(next)
    PROVE  Inv'
<1>1. next # current /\ space[next] # NoSpace /\ Leave(next, mem) /\ blocked' = blocked
  BY DEF Exit, Ready, Live
<1>2. SleepOn(current)
  <2>1. current' = next /\ next \notin DOMAIN blocked
    BY DEF Exit, Ready, Leave, switch_to
  <2> QED
    BY <1>1, <2>1 DEF Inv, Sleepers, Asleep, SleepOn
<1> QED
  BY <1>1, <1>2, CurrentSpace, LeaveInv

\* What copy_status writes: the word of a task asleep, which is mapped.
LEMMA WordWritten ==
    ASSUME Inv, NEW parent \in DOMAIN blocked, NEW w \in [blocked[parent] -> Val]
    PROVE  /\ parent \in Task /\ parent # current /\ space[parent] # NoSpace
           /\ blocked[parent] \subseteq Mapped(space[parent])
           /\ copy_status(parent, w) = Written(space[parent], blocked[parent], w, mem)
           /\ copy_status(parent, w) \in Contained
<1>1. /\ parent \in Task /\ parent # current /\ space[parent] # NoSpace
      /\ blocked[parent] \subseteq Mapped(space[parent])
  BY DEF Inv, Sleepers, Asleep
<1>2. PICK us : us = blocked[parent]
  OBVIOUS
<1>3. w \in [us -> Val] /\ DOMAIN w = us /\ us \subseteq Mapped(space[parent])
  BY <1>1, <1>2
<1>4. copy_status(parent, w) = Written(space[parent], us, w, mem)
  BY <1>3 DEF copy_status
<1>5. ASSUME NEW p \in Page PROVE Written(space[parent], us, w, mem)[p] \in Val \cup {Link}
  <2>1. CASE \E u \in us : space[parent][Leaf(u)] = p
    <3>1. PICK x : x = CHOOSE u \in us : space[parent][Leaf(u)] = p
      OBVIOUS
    <3>2. x \in us
      BY <2>1, <3>1
    <3>3. Written(space[parent], us, w, mem)[p] = w[x]
      BY <2>1, <3>1 DEF Written
    <3> QED
      BY <1>3, <3>2, <3>3
  <2>2. CASE ~ \E u \in us : space[parent][Leaf(u)] = p
    <3>1. Written(space[parent], us, w, mem)[p] = mem[p]
      BY <2>2 DEF Written
    <3> QED
      BY <3>1, CurrentSpace DEF Contained
  <2> QED
    BY <2>1, <2>2
<1>6. Written(space[parent], us, w, mem)
        = [p \in Page |-> Written(space[parent], us, w, mem)[p]]
  BY DEF Written
<1>7. Written(space[parent], us, w, mem) \in Contained
  BY <1>5, <1>6 DEF Contained
<1> QED
  BY <1>1, <1>2, <1>4, <1>7

\* The tasks asleep once the parent is taken out.
LEMMA SleepersLeft ==
    ASSUME NEW parent, blocked' = Restrict(blocked, DOMAIN blocked \ {parent})
    PROVE  /\ DOMAIN blocked' = DOMAIN blocked \ {parent}
           /\ \A s \in DOMAIN blocked' : blocked'[s] = blocked[s]
BY DEF Restrict

LEMMA ExitWakesInv ==
    ASSUME Inv, NEW parent \in Task, NEW next \in Task, ExitWakes(parent, next)
    PROVE  Inv'
<1>1. PICK w \in [blocked[parent] -> Val] : Leave(next, copy_status(parent, w))
  BY DEF ExitWakes
<1>2. parent \in DOMAIN blocked /\ next \in Ready \cup {parent}
  BY DEF ExitWakes
<1>3. PICK m : m = copy_status(parent, w)
  OBVIOUS
<1>4. m \in Contained /\ parent # current /\ space[parent] # NoSpace
  BY <1>2, <1>3, WordWritten
<1>5. next # current /\ space[next] # NoSpace /\ Leave(next, m)
  BY <1>1, <1>2, <1>3, <1>4 DEF Ready, Live
<1>6. SleepOn(current)
  <2>1. current' = next
    BY <1>5 DEF Leave, switch_to
  <2>2. /\ DOMAIN blocked' = DOMAIN blocked \ {parent}
        /\ \A s \in DOMAIN blocked' : blocked'[s] = blocked[s]
    BY SleepersLeft DEF ExitWakes
  <2>3. \A s \in DOMAIN blocked \ {parent} : s # next /\ s # current
    BY <1>2 DEF Ready, Inv, Sleepers, Asleep
  <2> QED
    BY <2>1, <2>2, <2>3 DEF SleepOn
<1> QED
  BY <1>4, <1>5, <1>6, LeaveInv

-----------------------------------------------------------------------------
(* Mappings. *)

\* Adding entries for free pages to a space.
LEMMA ExtendedSpace ==
    ASSUME NEW sp, NEW more, AddressSpace(sp), AddressSpace(more),
           DOMAIN sp \cap DOMAIN more = {}, Range(sp) \cap Range(more) = {}
    PROVE  /\ AddressSpace(Extended(sp, more))
           /\ Range(Extended(sp, more)) = Range(sp) \cup Range(more)
           /\ Mapped(Extended(sp, more)) = Mapped(sp) \cup Mapped(more)
           /\ DOMAIN Extended(sp, more) = DOMAIN sp \cup DOMAIN more
           /\ \A k \in DOMAIN sp : Extended(sp, more)[k] = sp[k]
           /\ \A k \in DOMAIN more : Extended(sp, more)[k] = more[k]
<1>1. PICK x : x = Extended(sp, more)
  OBVIOUS
<1>2. /\ DOMAIN x = DOMAIN sp \cup DOMAIN more
      /\ \A k \in DOMAIN sp : x[k] = sp[k]
      /\ \A k \in DOMAIN more : x[k] = more[k]
      /\ x = [k \in DOMAIN x |-> x[k]]
  BY <1>1 DEF Extended
<1>3. Mapped(x) = Mapped(sp) \cup Mapped(more)
  BY <1>2 DEF Mapped
<1>4. Range(x) = Range(sp) \cup Range(more)
  BY <1>2 DEF Range
<1>5. AddressSpace(x)
  <2>1. DOMAIN x \subseteq Entry /\ x \in [DOMAIN x -> Page]
    BY <1>2 DEF AddressSpace
  <2>2. ASSUME NEW k \in DOMAIN x, NEW l \in DOMAIN x, x[k] = x[l]
        PROVE  k = l
    <3>1. \A i \in DOMAIN sp, j \in DOMAIN more : sp[i] # more[j]
      BY DEF Range
    <3> QED
      BY <1>2, <2>2, <3>1 DEF AddressSpace
  <2> QED
    BY <2>1, <2>2 DEF AddressSpace
<1> QED
  BY <1>1, <1>2, <1>3, <1>4, <1>5

\* The pages of a mapping that fits are user pages where nothing is mapped.
LEMMA WantedFree ==
    ASSUME Inv, NEW n \in 1..(MmapEnd - MmapBase), MapFits(n)
    PROVE  /\ Wanted(n) \subseteq UserPage /\ Wanted(n) \cap Mapped(space[current]) = {}
           /\ \A u \in Wanted(n) : u >= MmapBase /\ u < mmap_next[current] + n
           /\ mmap_next[current] + n \in MmapBase..MmapEnd
           /\ Needed(n) \subseteq Entry /\ Needed(n) \cap DOMAIN space[current] = {}
           /\ {Table(u) : u \in Wanted(n)} \subseteq Entry
<1>1. PICK m \in MmapBase..MmapEnd : m = mmap_next[current]
  BY CurrentSpace
<1>2. n <= MmapEnd - m
  BY <1>1 DEF MapFits
<1>3. Wanted(n) = m..(m + n - 1)
  BY <1>1 DEF Wanted
<1>4. /\ Wanted(n) \subseteq UserPage /\ m + n \in MmapBase..MmapEnd
      /\ \A u \in Wanted(n) : u >= MmapBase /\ u < m + n /\ ~(u < m)
  BY <1>2, <1>3, LayoutAssumption DEF UserPage
<1>5. \A u \in Mapped(space[current]) : u < m
  BY <1>1, CurrentSpace DEF Whole
<1>6. Wanted(n) \cap Mapped(space[current]) = {}
  BY <1>4, <1>5
<1>7. \A u \in Wanted(n) : Leaf(u) \in Entry /\ Table(u) \in Entry
  BY <1>4 DEF Entry, Entries
<1>8. \A u \in Wanted(n) : Leaf(u) \notin DOMAIN space[current]
  BY <1>4, <1>6 DEF Mapped
<1> QED
  BY <1>1, <1>4, <1>6, <1>7, <1>8 DEF Needed

LEMMA MapInv ==
    ASSUME Inv, NEW n \in 1..(MmapEnd - MmapBase), Map(n)
    PROVE  Inv'
<1>0. PICK order \in Orders :
        LET sp == Built(Needed(n), order)
        IN  /\ free' = free \ Range(sp)
            /\ mem' = pmm_alloc_page(sp)
            /\ space' = [space EXCEPT ![current] = Extended(@, sp)]
  BY DEF Map
<1>1. PICK more : more = Built(Needed(n), order)
  OBVIOUS
<1>2. PICK t \in Task : t = current
  BY CurrentSpace
<1>3. PICK sp : sp = space[t]
  OBVIOUS
<1>4. PICK m : m = mmap_next[t] + n
  OBVIOUS
<1>5. PICK new : new = Extended(sp, more)
  OBVIOUS
<1>6. /\ MapFits(n) /\ Cardinality(Needed(n)) <= Cardinality(free)
      /\ free' = free \ Range(more) /\ mem' = pmm_alloc_page(more)
      /\ space' = [space EXCEPT ![t] = new]
      /\ mmap_next' = [mmap_next EXCEPT ![t] = m]
      /\ kernel' = kernel /\ current' = t /\ cr3' = cr3
  BY <1>0, <1>1, <1>2, <1>3, <1>4, <1>5 DEF Map
<1>7. AddressSpace(more) /\ Range(more) \subseteq free /\ DOMAIN more = Needed(n)
  BY <1>1, <1>6, WantedFree, BuiltOf
<1>8. AddressSpace(sp) /\ Whole(sp, mmap_next[t]) /\ Range(sp) \cap free = {} /\ cr3 = sp[0]
  BY <1>2, <1>3, CurrentSpace
<1>9. /\ Needed(n) \cap DOMAIN sp = {} /\ m \in MmapBase..MmapEnd /\ Wanted(n) \subseteq UserPage
      /\ \A u \in Wanted(n) : u < m
  BY <1>2, <1>3, <1>4, <1>6, WantedFree
<1>10. /\ AddressSpace(new) /\ Range(new) = Range(sp) \cup Range(more)
       /\ Mapped(new) = Mapped(sp) \cup Mapped(more)
       /\ DOMAIN new = DOMAIN sp \cup DOMAIN more
       /\ \A k \in DOMAIN sp : new[k] = sp[k]
  <2>1. DOMAIN sp \cap DOMAIN more = {} /\ Range(sp) \cap Range(more) = {}
    BY <1>7, <1>8, <1>9
  <2> QED
    <3>1. /\ AddressSpace(Extended(sp, more))
          /\ Range(Extended(sp, more)) = Range(sp) \cup Range(more)
          /\ Mapped(Extended(sp, more)) = Mapped(sp) \cup Mapped(more)
          /\ DOMAIN Extended(sp, more) = DOMAIN sp \cup DOMAIN more
          /\ \A k \in DOMAIN sp : Extended(sp, more)[k] = sp[k]
      BY <1>7, <1>8, <2>1, ExtendedSpace
    <3> QED
      BY <1>5, <3>1
<1>11. \A u \in Mapped(more) : u \in Wanted(n)
  <2>1. ASSUME NEW u \in UserPage, Leaf(u) \in Needed(n) PROVE u \in Wanted(n)
    <3>1. \A w \in Wanted(n) : Leaf(u) # Table(w) /\ (Leaf(u) = Leaf(w) => u = w)
      BY <1>9, FiniteEntries, EntryDistinct
    <3> QED
      BY <2>1, <3>1 DEF Needed
  <2> QED
    BY <1>7, <2>1 DEF Mapped
<1>12. Whole(new, m)
  <2>1. 0 \in DOMAIN new
    BY <1>8, <1>10 DEF Whole
  <2>2. ASSUME NEW u \in Mapped(sp) PROVE Table(u) \in DOMAIN new /\ u < m
    <3>1. Table(u) \in DOMAIN new /\ u < mmap_next[t]
      BY <1>8, <1>10 DEF Whole
    <3>2. u \in Nat /\ mmap_next[t] \in Nat
      BY <1>2, FiniteEntries, CurrentSpace, LayoutAssumption DEF Mapped
    <3> QED
      BY <1>4, <3>1, <3>2
  <2>3. ASSUME NEW u \in Mapped(more) PROVE Table(u) \in DOMAIN new /\ u < m
    BY <1>2, <1>3, <1>7, <1>9, <1>10, <1>11 DEF Needed
  <2> QED
    BY <1>10, <2>1, <2>2, <2>3 DEF Whole
<1>13. mem' \in Contained
  BY <1>6, CurrentSpace, ValAssumption DEF Contained, pmm_alloc_page
<1>14. /\ free' = (free \cup Range(space[t])) \ Range(new)
       /\ Range(new) \subseteq free \cup Range(space[t])
  BY <1>3, <1>6, <1>7, <1>8, <1>10
<1>15. space'[current'] = new
  BY <1>6 DEF Inv, Typed
<1>16. current' \in Task /\ space'[current'] # NoSpace /\ cr3' = space'[current'][0]
  <2>1. new[0] = sp[0] /\ new # NoSpace
    BY <1>8, <1>10, <1>12, EmptySpace DEF Whole
  <2> QED
    BY <1>6, <1>8, <1>15, <2>1
<1>17. SleepOn(t)
  BY <1>2, OwnCall DEF Map
<1> QED
  BY <1>6, <1>9, <1>10, <1>12, <1>13, <1>14, <1>16, <1>17, SpaceChanged

\* What a mapping that fails leaves behind: tables, and no user page.
LEMMA KeptTables ==
    ASSUME Inv, NEW n \in 1..(MmapEnd - MmapBase), MapFits(n)
    PROVE  /\ Kept(n) \subseteq Entry /\ Kept(n) \cap DOMAIN space[current] = {}
           /\ \A u \in UserPage : Leaf(u) \notin Kept(n)
<1>1. Kept(n) \subseteq {Table(u) : u \in Wanted(n)}
  BY DEF Kept
<1>2. Kept(n) \cap DOMAIN space[current] = {}
  BY DEF Kept
<1>3. \A u \in UserPage : Leaf(u) \notin {Table(w) : w \in Wanted(n)}
  BY WantedFree, FiniteEntries, EntryDistinct
<1> QED
  BY <1>1, <1>2, <1>3, WantedFree

LEMMA MapFailsInv ==
    ASSUME Inv, NEW n \in 1..(MmapEnd - MmapBase), MapFails(n)
    PROVE  Inv'
<1>0. PICK order \in Orders :
        LET sp == Built(Kept(n), order)
        IN  /\ free' = free \ Range(sp)
            /\ mem' = pmm_alloc_page(sp)
            /\ space' = [space EXCEPT ![current] = Extended(@, sp)]
  BY DEF MapFails
<1>1. PICK more : more = Built(Kept(n), order)
  OBVIOUS
<1>2. PICK t \in Task : t = current
  BY CurrentSpace
<1>3. PICK sp : sp = space[t]
  OBVIOUS
<1>4. PICK m : m = mmap_next[t]
  OBVIOUS
<1>5. PICK new : new = Extended(sp, more)
  OBVIOUS
<1>6. /\ MapFits(n)
      /\ free' = free \ Range(more) /\ mem' = pmm_alloc_page(more)
      /\ space' = [space EXCEPT ![t] = new]
      /\ mmap_next' = mmap_next
      /\ kernel' = kernel /\ current' = t /\ cr3' = cr3
  BY <1>0, <1>1, <1>2, <1>3, <1>5 DEF MapFails
<1>7. AddressSpace(more) /\ Range(more) \subseteq free /\ DOMAIN more \subseteq Kept(n)
  BY <1>1, <1>6, KeptTables, BuiltOf
<1>8. /\ AddressSpace(sp) /\ Whole(sp, m) /\ Range(sp) \cap free = {} /\ cr3 = sp[0]
      /\ m \in MmapBase..MmapEnd
  BY <1>2, <1>3, <1>4, CurrentSpace
<1>9. /\ AddressSpace(new) /\ Range(new) = Range(sp) \cup Range(more)
      /\ Mapped(new) = Mapped(sp) \cup Mapped(more)
      /\ DOMAIN new = DOMAIN sp \cup DOMAIN more
      /\ \A k \in DOMAIN sp : new[k] = sp[k]
  <2>1. DOMAIN sp \cap DOMAIN more = {} /\ Range(sp) \cap Range(more) = {}
    BY <1>2, <1>3, <1>6, <1>7, <1>8, KeptTables
  <2> QED
    <3>1. /\ AddressSpace(Extended(sp, more))
          /\ Range(Extended(sp, more)) = Range(sp) \cup Range(more)
          /\ Mapped(Extended(sp, more)) = Mapped(sp) \cup Mapped(more)
          /\ DOMAIN Extended(sp, more) = DOMAIN sp \cup DOMAIN more
          /\ \A k \in DOMAIN sp : Extended(sp, more)[k] = sp[k]
      BY <1>7, <1>8, <2>1, ExtendedSpace
    <3> QED
      BY <1>5, <3>1
<1>10. Mapped(more) = {}
  BY <1>6, <1>7, KeptTables DEF Mapped
<1>11. Whole(new, m)
  BY <1>8, <1>9, <1>10 DEF Whole
<1>12. mem' \in Contained
  BY <1>6, CurrentSpace, ValAssumption DEF Contained, pmm_alloc_page
<1>13. /\ free' = (free \cup Range(space[t])) \ Range(new)
       /\ Range(new) \subseteq free \cup Range(space[t])
  BY <1>3, <1>6, <1>7, <1>8, <1>9
<1>14. mmap_next' = [mmap_next EXCEPT ![t] = m]
  BY <1>4, <1>6 DEF Inv, Typed
<1>15. space'[current'] = new
  BY <1>6 DEF Inv, Typed
<1>16. current' \in Task /\ space'[current'] # NoSpace /\ cr3' = space'[current'][0]
  <2>1. new[0] = sp[0] /\ new # NoSpace
    BY <1>8, <1>9, <1>11, EmptySpace DEF Whole
  <2> QED
    BY <1>6, <1>8, <1>15, <2>1
<1>17. SleepOn(t)
  BY <1>2, OwnCall DEF MapFails
<1> QED
  BY <1>6, <1>8, <1>9, <1>11, <1>12, <1>13, <1>14, <1>16, <1>17, SpaceChanged

\* Taking the entries of some user pages out of a space.
Without(sp, us) == Restrict(sp, DOMAIN sp \ {Leaf(u) : u \in us})
PagesOf(sp, us) == {sp[k] : k \in {Leaf(u) : u \in us}}

LEMMA RestrictedSpace ==
    ASSUME NEW sp, AddressSpace(sp), NEW us, us \subseteq Mapped(sp)
    PROVE  /\ AddressSpace(Without(sp, us))
           /\ DOMAIN Without(sp, us) = DOMAIN sp \ {Leaf(u) : u \in us}
           /\ \A k \in DOMAIN Without(sp, us) : Without(sp, us)[k] = sp[k]
           /\ Range(Without(sp, us)) = Range(sp) \ PagesOf(sp, us)
           /\ PagesOf(sp, us) \subseteq Range(sp)
           /\ Mapped(Without(sp, us)) = Mapped(sp) \ us
           /\ \A u \in UserPage : Table(u) \notin {Leaf(w) : w \in us}
           /\ 0 \notin {Leaf(u) : u \in us}
<1> PICK gone : gone = {Leaf(u) : u \in us}
  OBVIOUS
<1> PICK new : new = Without(sp, us) /\ new = Restrict(sp, DOMAIN sp \ gone)
  BY DEF Without
<1>1. DOMAIN new = DOMAIN sp \ gone /\ \A k \in DOMAIN new : new[k] = sp[k]
  BY DEF Restrict
<1>2. new = [k \in DOMAIN new |-> new[k]]
  BY DEF Restrict
<1>3. us \subseteq UserPage /\ UserPage \subseteq Nat /\ gone \subseteq DOMAIN sp
  BY FiniteEntries DEF Mapped
<1>4. AddressSpace(new)
  BY <1>1, <1>2 DEF AddressSpace
<1>5. Range(new) = Range(sp) \ {sp[k] : k \in gone} /\ {sp[k] : k \in gone} \subseteq Range(sp)
  <2>1. \A k, l \in DOMAIN sp : sp[k] = sp[l] => k = l
    BY DEF AddressSpace
  <2>2. \A k \in DOMAIN sp \ gone, l \in gone : sp[k] # sp[l]
    BY <1>3, <2>1
  <2> QED
    BY <1>1, <1>3, <2>2 DEF Range
<1>6. \A u \in UserPage : Leaf(u) \in gone <=> u \in us
  BY <1>3, EntryDistinct
<1>7. Mapped(new) = Mapped(sp) \ us
  BY <1>1, <1>6 DEF Mapped
<1>8. (\A u \in UserPage : Table(u) \notin gone) /\ 0 \notin gone
  BY <1>3, EntryDistinct
<1>9. PagesOf(sp, us) = {sp[k] : k \in gone}
  BY DEF PagesOf
<1> QED
  BY <1>1, <1>4, <1>5, <1>7, <1>8, <1>9

\* The addresses that handle_unmap goes through, and the pages they lead to.
Addresses(a, n) == {(a + i) % AddressPages : i \in 0..(n - 1)}
Lookups(a, n) == {lookup(v) : v \in Addresses(a, n)}

LEMMA UnmapInv ==
    ASSUME Inv, NEW a \in Address, NEW n \in Address, Unmap(a, n)
    PROVE  Inv'
<1>1. PICK t \in Task : t = current
  BY CurrentSpace
<1>2. PICK sp : sp = space[t]
  OBVIOUS
<1>3. PICK us : us = Lookups(a, n)
  OBVIOUS
<1>4. PICK gone : gone = {Leaf(u) : u \in us}
  OBVIOUS
<1>5. PICK old : old = PagesOf(sp, us)
  OBVIOUS
<1>6. PICK new : new = Without(sp, us)
  OBVIOUS
<1>7. PICK m : m = mmap_next[t]
  OBVIOUS
<1>8. /\ us \subseteq Mapped(sp)
      /\ free' = free \cup old /\ mem' = pmm_free_page(old, mem)
      /\ space' = [space EXCEPT ![t] = new]
      /\ kernel' = kernel /\ mmap_next' = mmap_next /\ current' = t /\ cr3' = cr3
  BY <1>1, <1>2, <1>3, <1>4, <1>5, <1>6 DEF Unmap, PagesOf, Without, Lookups, Addresses
<1>9. /\ AddressSpace(sp) /\ Whole(sp, m) /\ Range(sp) \cap free = {} /\ cr3 = sp[0]
      /\ m \in MmapBase..MmapEnd
  BY <1>1, <1>2, <1>7, CurrentSpace
<1>10. /\ AddressSpace(new) /\ DOMAIN new = DOMAIN sp \ gone
       /\ \A k \in DOMAIN new : new[k] = sp[k]
       /\ Range(new) = Range(sp) \ old /\ old \subseteq Range(sp)
       /\ Mapped(new) = Mapped(sp) \ us
       /\ \A u \in UserPage : Table(u) \notin gone
       /\ 0 \notin gone
  <2>1. /\ AddressSpace(Without(sp, us))
        /\ DOMAIN Without(sp, us) = DOMAIN sp \ {Leaf(u) : u \in us}
        /\ \A k \in DOMAIN Without(sp, us) : Without(sp, us)[k] = sp[k]
        /\ Range(Without(sp, us)) = Range(sp) \ PagesOf(sp, us)
        /\ PagesOf(sp, us) \subseteq Range(sp)
        /\ Mapped(Without(sp, us)) = Mapped(sp) \ us
        /\ \A u \in UserPage : Table(u) \notin {Leaf(w) : w \in us}
        /\ 0 \notin {Leaf(u) : u \in us}
    BY <1>8, <1>9, RestrictedSpace
  <2> QED
    BY <1>4, <1>5, <1>6, <2>1
<1>11. Whole(new, m)
  <2>1. Mapped(sp) \subseteq UserPage
    BY DEF Mapped
  <2> QED
    BY <1>9, <1>10, <2>1 DEF Whole
<1>12. mem' \in Contained
  BY <1>8, CurrentSpace DEF Contained, pmm_free_page
<1>13. /\ free' = (free \cup Range(space[t])) \ Range(new)
       /\ Range(new) \subseteq free \cup Range(space[t])
  BY <1>2, <1>8, <1>9, <1>10
<1>14. mmap_next' = [mmap_next EXCEPT ![t] = m]
  BY <1>7, <1>8 DEF Inv, Typed
<1>15. space'[current'] = new
  BY <1>8 DEF Inv, Typed
<1>16. current' \in Task /\ space'[current'] # NoSpace /\ cr3' = space'[current'][0]
  <2>1. new[0] = sp[0] /\ new # NoSpace
    BY <1>9, <1>10, <1>11, EmptySpace DEF Whole
  <2> QED
    BY <1>8, <1>9, <1>15, <2>1
<1>17. SleepOn(t)
  BY <1>1, OwnCall DEF Unmap
<1> QED
  BY <1>8, <1>9, <1>10, <1>11, <1>12, <1>13, <1>14, <1>16, <1>17, SpaceChanged

-----------------------------------------------------------------------------
(* The steps that change no space. *)

LEMMA StoreInv ==
    ASSUME Inv, NEW u \in UserPage, NEW v \in Val, Store(u, v)
    PROVE  Inv'
<1>1. mem' \in Contained
  BY CurrentSpace DEF Store, Contained
<1> QED
  BY <1>1, NoSpaceChanged DEF Store

LEMMA StaleStoreInv ==
    ASSUME Inv, NEW t \in Task, NEW u \in UserPage, NEW v \in Val, StaleStore(t, u, v)
    PROVE  Inv'
<1>1. mem' \in Contained
  BY CurrentSpace DEF StaleStore, Contained
<1> QED
  BY <1>1, NoSpaceChanged DEF StaleStore

\* Another task runs, with the tasks asleep that were asleep or the current one.
LEMMA SwitchedInv ==
    ASSUME Inv, NEW next \in Ready, switch_to(next), Sleepers',
           UNCHANGED <<free, kernel, mem, space, mmap_next>>
    PROVE  Inv'
<1>1. next \in Task /\ space[next] # NoSpace /\ current' = next /\ cr3' = space[next][0]
  BY DEF switch_to, Ready, Live
<1>2. Typed'
  BY <1>1 DEF Inv, Typed
<1>3. Separate' /\ Covered' /\ AllWhole' /\ Running'
  BY <1>1 DEF Inv, Separate, Covered, AllWhole, Running
<1> QED
  BY <1>2, <1>3 DEF Inv

LEMMA SwitchInv ==
    ASSUME Inv, NEW next \in Task, Switch(next)
    PROVE  Inv'
<1>1. next \in Ready /\ switch_to(next) /\ UNCHANGED <<free, kernel, mem, space, mmap_next, blocked>>
  BY DEF Switch
<1>2. current' = next /\ next \notin DOMAIN blocked
  BY <1>1 DEF switch_to, Ready
<1>3. Sleepers'
  BY <1>1, <1>2 DEF Inv, Sleepers, Asleep
<1> QED
  BY <1>1, <1>3, SwitchedInv

LEMMA WaitInv ==
    ASSUME Inv, NEW us, NEW next \in Task, Wait(us, next)
    PROVE  Inv'
<1>1. /\ us \subseteq Mapped(space[current]) /\ next \in Ready /\ switch_to(next)
      /\ DOMAIN blocked' = DOMAIN blocked \cup {current}
      /\ \A t \in DOMAIN blocked' : blocked'[t] = IF t = current THEN us ELSE blocked[t]
      /\ UNCHANGED <<free, kernel, mem, space, mmap_next>>
  BY DEF Wait
<1>2. current' = next /\ next \notin DOMAIN blocked /\ next # current
  BY <1>1 DEF switch_to, Ready
<1>3. Sleepers'
  <2> SUFFICES ASSUME NEW t \in DOMAIN blocked' PROVE Asleep(t)'
    BY DEF Sleepers
  <2>1. CASE t = current
    BY <1>1, <1>2, <2>1, CurrentSpace DEF Asleep
  <2>2. CASE t # current
    BY <1>1, <1>2, <2>2 DEF Inv, Sleepers, Asleep
  <2> QED
    BY <2>1, <2>2
<1> QED
  BY <1>1, <1>3, SwitchedInv

\* The page the kernel gets is a free one.
LEMMA KernelPage ==
    ASSUME Inv, KernelTakes
    PROVE  \E sp : /\ AddressSpace(sp) /\ Range(sp) \subseteq free
                   /\ kernel' = kernel \cup Range(sp) /\ free' = free \ Range(sp)
                   /\ mem' = pmm_alloc_page(sp)
<1>1. PICK order \in Orders :
        LET sp == Built({0}, order)
        IN  /\ kernel' = kernel \cup Range(sp)
            /\ free' = free \ Range(sp)
            /\ mem' = pmm_alloc_page(sp)
  BY DEF KernelTakes
<1>2. {0} \subseteq Entry
  BY DEF Entry
<1>3. AddressSpace(Built({0}, order)) /\ Range(Built({0}, order)) \subseteq free
  BY <1>2, BuiltOf
<1> QED
  BY <1>1, <1>3

LEMMA KernelTakesInv ==
    ASSUME Inv, KernelTakes
    PROVE  Inv'
<1>1. PICK sp : /\ AddressSpace(sp) /\ Range(sp) \subseteq free
                /\ kernel' = kernel \cup Range(sp) /\ free' = free \ Range(sp)
                /\ mem' = pmm_alloc_page(sp)
  BY KernelPage
<1>2. UNCHANGED <<space, mmap_next, current, cr3, blocked>>
  BY DEF KernelTakes
<1>3. mem' \in Contained
  BY <1>1, CurrentSpace, ValAssumption DEF pmm_alloc_page, Contained
<1>4. Typed'
  BY <1>1, <1>2, <1>3 DEF Inv, Typed
<1>5. Separate' /\ Covered'
  BY <1>1, <1>2 DEF Inv, Separate, Covered
<1> QED
  BY <1>2, <1>4, <1>5 DEF Inv, AllWhole, Running, Sleepers, Asleep

LEMMA KernelGivesInv ==
    ASSUME Inv, NEW p \in Page, KernelGives(p)
    PROVE  Inv'
<1>1. /\ p \in kernel /\ kernel' = kernel \ {p} /\ free' = free \cup {p}
      /\ UNCHANGED <<space, mmap_next, current, cr3, blocked>>
  BY DEF KernelGives
<1>2. mem' \in Contained
  BY CurrentSpace DEF KernelGives, pmm_free_page, Contained
<1>3. Typed'
  BY <1>1, <1>2 DEF Inv, Typed
<1>4. Separate' /\ Covered'
  BY <1>1 DEF Inv, Separate, Covered
<1> QED
  BY <1>1, <1>3, <1>4 DEF Inv, AllWhole, Running, Sleepers, Asleep

LEMMA StepInv == Inv /\ [Next]_vars => Inv'
<1> SUFFICES ASSUME Inv, [Next]_vars PROVE Inv'
  OBVIOUS
<1>1. CASE UNCHANGED vars
  BY <1>1 DEF vars, Inv, Typed, Separate, Covered, AllWhole, Running, Sleepers, Asleep
<1>2. ASSUME NEW u \in UserPage, NEW v \in Val, Store(u, v) PROVE Inv'
  BY <1>2, StoreInv
<1>3. ASSUME NEW next \in Task, Switch(next) PROVE Inv'
  BY <1>3, SwitchInv
<1>4. CASE KernelTakes
  BY <1>4, KernelTakesInv
<1>5. ASSUME NEW p \in Page, KernelGives(p) PROVE Inv'
  BY <1>5, KernelGivesInv
<1>6. ASSUME NEW child \in Task, Fork(child) PROVE Inv'
  BY <1>6, ForkInv
<1>7. CASE ForkFails
  BY <1>7, ForkFailsInv
<1>8. CASE Exec
  BY <1>8, ExecInv
<1>9. CASE ExecFails
  BY <1>9, ExecFailsInv
<1>10. ASSUME NEW next \in Task, Exit(next) PROVE Inv'
  BY <1>10, ExitInv
<1>11. ASSUME NEW n \in 1..(MmapEnd - MmapBase), Map(n) PROVE Inv'
  BY <1>11, MapInv
<1>12. ASSUME NEW n \in 1..(MmapEnd - MmapBase), MapFails(n) PROVE Inv'
  BY <1>12, MapFailsInv
<1>13. ASSUME NEW a \in Address, NEW n \in Address, Unmap(a, n) PROVE Inv'
  BY <1>13, UnmapInv
<1>14. ASSUME NEW t \in Task, NEW u \in UserPage, NEW v \in Val, StaleStore(t, u, v) PROVE Inv'
  BY <1>14, StaleStoreInv
<1>15. ASSUME NEW us \in Word, NEW next \in Task, Wait(us, next) PROVE Inv'
  BY <1>15, WaitInv
<1>16. ASSUME NEW parent \in Task, NEW next \in Task, ExitWakes(parent, next) PROVE Inv'
  BY <1>16, ExitWakesInv
<1> QED
  BY <1>1, <1>2, <1>3, <1>4, <1>5, <1>6, <1>7, <1>8, <1>9, <1>10, <1>11, <1>12, <1>13, <1>14, <1>15,
     <1>16 DEF Next, Calls

\* The inductive invariant holds always: pages typed, held once and none lost,
\* spaces whole, and the processor in the current one.
THEOREM MemInv == Spec => []Inv
<1>1. Init => Inv
  BY InitInv
<1>2. Inv /\ [Next]_vars => Inv'
  BY StepInv
<1> QED
  BY <1>1, <1>2, PTL DEF Spec

\* Separate and covered pages have one holder each.
LEMMA InvHeldOnce == Inv => PagesHeldOnce
<1> SUFFICES ASSUME Inv, NEW p \in Page PROVE Cardinality(Holders(p)) = 1
  BY DEF PagesHeldOnce
<1> DEFINE F == {x \in {"free"} : p \in free}
           K == {x \in {"kernel"} : p \in kernel}
           T == {x \in Task \X Entry : x[2] \in DOMAIN space[x[1]] /\ space[x[1]][x[2]] = p}
<1>1. Holders(p) = F \cup K \cup T
  BY DEF Holders
<1>2. \A x \in T : x[1] \in Task /\ p \in Range(space[x[1]])
  BY DEF Range
<1>3. CASE p \in free
  <2>1. K = {} /\ T = {} /\ F = {"free"}
    BY <1>2, <1>3 DEF Inv, Separate
  <2>2. Holders(p) = {"free"}
    BY <1>1, <2>1
  <2> QED
    BY <2>2, FS_Singleton
<1>4. CASE p \in kernel
  <2>1. F = {} /\ T = {} /\ K = {"kernel"}
    BY <1>2, <1>4 DEF Inv, Separate
  <2>2. Holders(p) = {"kernel"}
    BY <1>1, <2>1
  <2> QED
    BY <2>2, FS_Singleton
<1>5. ASSUME NEW t \in Task, p \in Range(space[t])
      PROVE  Cardinality(Holders(p)) = 1
  <2>1. F = {} /\ K = {}
    BY <1>5 DEF Inv, Separate
  <2>2. PICK k \in DOMAIN space[t] : space[t][k] = p
    BY <1>5 DEF Range
  <2>3. /\ DOMAIN space[t] \subseteq Entry
        /\ \A i, j \in DOMAIN space[t] : space[t][i] = space[t][j] => i = j
    BY DEF Inv, Typed, AddressSpace
  <2>4. <<t, k>> \in T
    BY <2>2, <2>3
  <2>5. ASSUME NEW x \in T PROVE x = <<t, k>>
    <3>1. PICK s \in Task, l \in Entry : x = <<s, l>>
      OBVIOUS
    <3>2. l \in DOMAIN space[s] /\ space[s][l] = p
      BY <3>1
    <3>3. s = t
      BY <1>5, <3>2 DEF Inv, Separate, Range
    <3>4. l = k
      BY <2>2, <2>3, <3>2, <3>3
    <3> QED
      BY <3>1, <3>3, <3>4
  <2>6. T = {<<t, k>>}
    BY <2>4, <2>5
  <2>7. Holders(p) = {<<t, k>>}
    BY <1>1, <2>1, <2>6
  <2> QED
    BY <2>7, FS_Singleton
<1> QED
  BY <1>3, <1>4, <1>5 DEF Inv, Covered

\* Every physical page has one holder, whatever fork, exec, exit and map calls
\* succeed or run out of memory half way.
THEOREM MemPagesHeldOnce == Spec => []PagesHeldOnce
BY MemInv, InvHeldOnce, PTL

\* The processor always uses the whole page table of the current task.
THEOREM MemRunsInItsSpace == Spec => []RunsInItsSpace
<1>1. Inv => RunsInItsSpace
  BY DEF Inv, RunsInItsSpace, Running, AllWhole, Whole, Live, Typed
<1> QED
  BY <1>1, MemInv, PTL

\* Nothing is mapped where a task's next mapping goes, which is in its window.
THEOREM MemNextIsFree == Spec => []NextIsFree
<1>1. Inv => NextIsFree
  BY DEF Inv, NextIsFree, AllWhole, Whole, Live, Typed
<1> QED
  BY <1>1, MemInv, PTL

-----------------------------------------------------------------------------
(* The memory of a task is its own. *)

\* Contents after pages were given back or handed out.
LEMMA FreedContents ==
    ASSUME NEW ps, NEW m, NEW p \in Page
    PROVE  pmm_free_page(ps, m)[p] = IF p \in ps THEN Link ELSE m[p]
BY DEF pmm_free_page

LEMMA AllocContents ==
    ASSUME NEW sp, NEW p \in Page
    PROVE  pmm_alloc_page(sp)[p] = IF p \in Range(sp) THEN 0 ELSE mem[p]
BY DEF pmm_alloc_page

\* Each user page of a space is filled with what belongs there.
LEMMA FilledContents ==
    ASSUME NEW sp, NEW content, AddressSpace(sp)
    PROVE  /\ \A u \in Mapped(sp) : Filled(sp, content)[sp[Leaf(u)]] = content[u]
           /\ \A p \in Page : p \notin Range(sp) => Filled(sp, content)[p] = mem[p]
<1>1. ASSUME NEW u \in Mapped(sp)
      PROVE  Filled(sp, content)[sp[Leaf(u)]] = content[u]
  <2>1. PICK p : p = sp[Leaf(u)]
    OBVIOUS
  <2>2. PICK w : w = CHOOSE x \in Mapped(sp) : sp[Leaf(x)] = p
    OBVIOUS
  <2>3. w \in Mapped(sp) /\ sp[Leaf(w)] = p
    BY <2>1, <2>2
  <2>4. \A x \in Mapped(sp) : x \in Nat /\ Leaf(x) \in DOMAIN sp
    BY FiniteEntries DEF Mapped
  <2>5. Leaf(w) = Leaf(u) /\ p \in Page
    BY <2>1, <2>3, <2>4 DEF AddressSpace
  <2>6. w = u
    BY <2>3, <2>4, <2>5, EntryDistinct
  <2>7. Filled(sp, content)[p] = content[w]
    BY <2>1, <2>2, <2>5 DEF Filled, Written
  <2> QED
    BY <2>1, <2>6, <2>7
<1>2. ASSUME NEW p \in Page, p \notin Range(sp)
      PROVE  Filled(sp, content)[p] = mem[p]
  <2>1. ~ \E u \in Mapped(sp) : sp[Leaf(u)] = p
    BY <1>2 DEF Mapped, Range
  <2>2. Filled(sp, content)[p] = pmm_alloc_page(sp)[p]
    BY <2>1 DEF Filled, Written
  <2> QED
    BY <1>2, <2>2, AllocContents
<1> QED
  BY <1>1, <1>2

\* The pages behind what a task sees.
LEMMA SeenPages ==
    ASSUME Inv, NEW s \in Task
    PROVE  /\ \A u \in Mapped(space[s]) : space[s][Leaf(u)] \in Range(space[s])
           /\ Range(space[s]) \subseteq Page
           /\ Range(space[s]) \cap free = {} /\ Range(space[s]) \cap kernel = {}
           /\ \A t \in Task : t # s => Range(space[s]) \cap Range(space[t]) = {}
<1>1. AddressSpace(space[s])
  BY DEF Inv, Typed
<1> QED
  BY <1>1 DEF Inv, Separate, AddressSpace, Mapped, Range

\* A task sees no change when its pages stay and keep their contents.
LEMMA ContentsKept ==
    ASSUME Inv, NEW s \in Task,
           Mapped(space'[s]) = Mapped(space[s]),
           \A u \in Mapped(space[s]) : space'[s][Leaf(u)] = space[s][Leaf(u)],
           \A p \in Page : p \in Range(space[s]) => mem'[p] = mem[p]
    PROVE  Memory'[s] = Memory[s]
<1>1. \A u \in Mapped(space[s]) : mem'[space'[s][Leaf(u)]] = mem[space[s][Leaf(u)]]
  BY SeenPages
<1>2. Memory[s] = [u \in Mapped(space[s]) |-> mem[space[s][Leaf(u)]]]
  BY DEF Memory, Contents
<1>3. Memory'[s] = [u \in Mapped(space'[s]) |-> mem'[space'[s][Leaf(u)]]]
  BY DEF Memory, Contents
<1> QED
  BY <1>1, <1>2, <1>3

\* The same for all tasks.
LEMMA MemoryKept ==
    ASSUME Inv, space' = space,
           \A p \in Page : p \notin free \cup kernel => mem'[p] = mem[p]
    PROVE  Memory' = Memory
<1>1. ASSUME NEW s \in Task PROVE Memory'[s] = Memory[s]
  <2>1. \A p \in Page : p \in Range(space[s]) => mem'[p] = mem[p]
    BY SeenPages
  <2> QED
    BY <2>1, ContentsKept
<1>2. Memory = [s \in Task |-> Memory[s]] /\ Memory' = [s \in Task |-> Memory'[s]]
  BY DEF Memory
<1> QED
  BY <1>1, <1>2

\* What one task sees, and that a task without a space sees nothing.
LEMMA MemoryOf ==
    ASSUME Inv, NEW s \in Task
    PROVE  /\ Memory[s] = [u \in Mapped(space[s]) |-> mem[space[s][Leaf(u)]]]
           /\ Memory = [t \in Task |-> Memory[t]]
           /\ space[s] = NoSpace => Memory[s] = PM!Nothing
<1>1. Memory[s] = [u \in Mapped(space[s]) |-> mem[space[s][Leaf(u)]]] /\ Memory = [t \in Task |-> Memory[t]]
  BY DEF Memory, Contents
<1>2. ASSUME space[s] = NoSpace PROVE Memory[s] = PM!Nothing
  <2>1. Mapped(space[s]) = {}
    BY <1>2, EmptySpace
  <2> QED
    BY <1>1, <2>1 DEF PM!Nothing
<1> QED
  BY <1>1, <1>2

\* Which tasks are alive after one space has changed.
LEMMA LiveChanged ==
    ASSUME Inv, NEW t \in Task, NEW new, space' = [space EXCEPT ![t] = new]
    PROVE  Live' = IF new = NoSpace THEN Live \ {t} ELSE Live \cup {t}
<1>1. space'[t] = new /\ \A s \in Task : s # t => space'[s] = space[s]
  BY DEF Inv, Typed
<1> QED
  BY <1>1 DEF Live

\* A new space in place of another.
LEMMA LiveKept ==
    ASSUME Inv, NEW t \in Task, NEW new, space' = [space EXCEPT ![t] = new],
           t \in Live, new # NoSpace
    PROVE  Live' = Live
<1>1. Live' = IF new = NoSpace THEN Live \ {t} ELSE Live \cup {t}
  BY LiveChanged
<1> QED
  BY <1>1

\* Init's image is the program.
LEMMA InitMemory == Init => PM!Init
<1> SUFFICES ASSUME Init PROVE PM!Init
  OBVIOUS
<1>1. PICK sp : sp = [k \in ImageEntries |-> Rank(ImageEntries, k)]
  OBVIOUS
<1>2. /\ current \in Task
      /\ space = [t \in Task |-> IF t = current THEN sp ELSE NoSpace]
      /\ mem = [p \in Page |->
            IF \E u \in Image : sp[Leaf(u)] = p
            THEN Program[CHOOSE u \in Image : sp[Leaf(u)] = p]
            ELSE IF p \in Range(sp) THEN 0 ELSE Link]
      /\ mmap_next = [t \in Task |-> MmapBase]
      /\ blocked = [t \in {} |-> {}] /\ stale = {}
  BY <1>1 DEF Init, Written
<1>3. Inv
  BY InitInv
<1>4. space[current] = sp /\ AddressSpace(sp) /\ DOMAIN sp = ImageEntries
  BY <1>1, <1>2, <1>3 DEF Inv, Typed
<1>5. Mapped(sp) = Image
  <2>1. \A u \in UserPage : Leaf(u) \in ImageEntries => u \in Image
    BY ImageLow, EntriesOf DEF ImageEntries
  <2>2. \A u \in Image : u \in UserPage /\ Leaf(u) \in ImageEntries
    BY ImageLow, EntriesOf DEF ImageEntries
  <2> QED
    BY <1>4, <2>1, <2>2 DEF Mapped
<1>6. ASSUME NEW u \in Image PROVE mem[sp[Leaf(u)]] = Program[u]
  <2>1. PICK p : p = sp[Leaf(u)]
    OBVIOUS
  <2>2. PICK w : w = CHOOSE x \in Image : sp[Leaf(x)] = p
    OBVIOUS
  <2>3. w \in Image /\ sp[Leaf(w)] = p
    BY <2>1, <2>2
  <2>4. \A x \in Image : x \in Nat /\ Leaf(x) \in DOMAIN sp
    BY <1>5, FiniteEntries DEF Mapped
  <2>5. Leaf(w) = Leaf(u) /\ p \in Page
    BY <1>4, <2>1, <2>3, <2>4 DEF AddressSpace
  <2>6. w = u
    BY <2>3, <2>4, <2>5, EntryDistinct
  <2>7. mem[p] = Program[w]
    BY <1>2, <2>1, <2>2, <2>5
  <2> QED
    BY <2>1, <2>6, <2>7
<1>7. Memory[current] = Program
  <2>1. Memory[current] = [u \in Image |-> mem[sp[Leaf(u)]]]
    <3>1. Memory[current] = [u \in Mapped(space[current]) |-> mem[space[current][Leaf(u)]]]
      BY <1>2, <1>3, MemoryOf
    <3> QED
      BY <1>4, <1>5, <3>1
  <2>2. Program = [u \in Image |-> Program[u]]
    BY ValAssumption
  <2> QED
    BY <1>6, <2>1, <2>2
<1>8. \A t \in Task : t # current => Memory[t] = PM!Nothing
  BY <1>2, <1>3, MemoryOf
<1>9. Memory = [t \in Task |-> IF t = current THEN Program ELSE PM!Nothing]
  BY <1>2, <1>3, <1>7, <1>8, MemoryOf
<1>10. Live = {current}
  <2>1. sp # NoSpace
    BY <1>4, ImageLow, EmptySpace
  <2> QED
    BY <1>2, <2>1 DEF Live
<1>11. (stale # {}) = FALSE
  BY <1>2
<1> QED
  BY <1>2, <1>9, <1>10, <1>11 DEF PM!Init

\* A store to a page of task t.
LEMMA WrittenMemory ==
    ASSUME Inv, NEW t \in Task, NEW u \in Mapped(space[t]), NEW v,
           mem' = [mem EXCEPT ![space[t][Leaf(u)]] = v], space' = space
    PROVE  Memory' = [Memory EXCEPT ![t][u] = v] /\ u \in DOMAIN Memory[t]
<1>2. PICK sp : sp = space[t]
  OBVIOUS
<1>3. PICK p : p = sp[Leaf(u)]
  OBVIOUS
<1>4. u \in Mapped(sp) /\ mem' = [mem EXCEPT ![p] = v] /\ space' = space
  BY <1>2, <1>3
<1>5. AddressSpace(sp) /\ mem \in [Page -> Val \cup {Link}]
  BY <1>2 DEF Contained, Inv, Typed
<1>6. p \in Range(sp) /\ p \in Page
  BY <1>2, <1>3, <1>4, SeenPages
<1>7. ASSUME NEW s \in Task, s # t PROVE Memory'[s] = Memory[s]
  <2>1. \A q \in Page : q \in Range(space[s]) => mem'[q] = mem[q]
    BY <1>2, <1>4, <1>5, <1>6, <1>7, SeenPages
  <2> QED
    BY <1>4, <2>1, ContentsKept
<1>8. Memory[t] = [w \in Mapped(sp) |-> mem[sp[Leaf(w)]]]
  <2>1. Memory[t] = [w \in Mapped(space[t]) |-> mem[space[t][Leaf(w)]]]
    BY MemoryOf
  <2> QED
    BY <1>2, <2>1
<1>9. Memory'[t] = [w \in Mapped(sp) |-> mem'[sp[Leaf(w)]]]
  <2>1. Memory'[t] = [w \in Mapped(space'[t]) |-> mem'[space'[t][Leaf(w)]]]
    BY DEF Memory, Contents
  <2> QED
    BY <1>2, <1>4, <2>1
<1>10. \A w \in Mapped(sp) : mem'[sp[Leaf(w)]] = IF w = u THEN v ELSE mem[sp[Leaf(w)]]
  <2>1. \A w \in Mapped(sp) : w \in Nat /\ Leaf(w) \in DOMAIN sp /\ sp[Leaf(w)] \in Page
    BY <1>5, FiniteEntries DEF Mapped, AddressSpace
  <2>2. ASSUME NEW w \in Mapped(sp), sp[Leaf(w)] = p PROVE w = u
    <3>1. Leaf(w) = Leaf(u)
      BY <1>3, <1>4, <1>5, <2>1, <2>2 DEF AddressSpace
    <3> QED
      BY <1>4, <2>1, <3>1, EntryDistinct
  <2> QED
    BY <1>3, <1>4, <1>5, <2>1, <2>2
<1>11. Memory'[t] = [Memory[t] EXCEPT ![u] = v]
  BY <1>4, <1>8, <1>9, <1>10
<1>12. Memory = [s \in Task |-> Memory[s]] /\ Memory' = [s \in Task |-> Memory'[s]]
  BY DEF Memory
<1>13. Memory' = [Memory EXCEPT ![t][u] = v]
  BY <1>7, <1>11, <1>12
<1>14. u \in DOMAIN Memory[t]
  BY <1>4, <1>8
<1> QED
  BY <1>13, <1>14

\* No task comes or goes.
LEMMA SameLive ==
    ASSUME space' = space
    PROVE  Live' = Live
BY DEF Live

LEMMA StoreMemory ==
    ASSUME Inv, NEW u \in UserPage, NEW v \in Val, Store(u, v)
    PROVE  PM!Write(current, u, v)
<1>1. PICK t \in Task : t = current
  BY CurrentSpace
<1>2. /\ u \in Mapped(space[t]) /\ mem' = [mem EXCEPT ![space[t][Leaf(u)]] = v]
      /\ space' = space /\ UNCHANGED <<mmap_next, current, stale, blocked>>
  BY <1>1 DEF Store
<1>3. Memory' = [Memory EXCEPT ![t][u] = v] /\ u \in DOMAIN Memory[t]
  BY <1>2, WrittenMemory
<1> QED
  BY <1>1, <1>2, <1>3, SameLive DEF PM!Write

LEMMA StaleStoreMemory ==
    ASSUME Inv, NEW t \in Task, NEW u \in UserPage, NEW v \in Val, StaleStore(t, u, v)
    PROVE  PM!Write(t, u, v)
<1>1. /\ u \in Mapped(space[t]) /\ mem' = [mem EXCEPT ![space[t][Leaf(u)]] = v]
      /\ space' = space /\ UNCHANGED <<mmap_next, current, stale, blocked>>
      /\ stale # {}
  BY DEF StaleStore
<1>2. Memory' = [Memory EXCEPT ![t][u] = v] /\ u \in DOMAIN Memory[t]
  BY <1>1, WrittenMemory
<1> QED
  BY <1>1, <1>2, SameLive DEF PM!Write

\* The tasks that can run next are those awake.
LEMMA SwitchMemory ==
    ASSUME Inv, NEW next \in Task, Switch(next)
    PROVE  PM!Switch(next)
<1>1. Memory' = Memory /\ Live' = Live
  BY DEF Switch, Memory, Contents, Live
<1> QED
  BY <1>1 DEF Switch, switch_to, Ready, PM!Switch, PM!Run, PM!Awake

LEMMA WaitMemory ==
    ASSUME Inv, NEW us, NEW next \in Task, Wait(us, next)
    PROVE  PM!Wait(us, next) /\ us \in SUBSET (0..(UserEnd - 1))
<1>1. Memory' = Memory /\ Live' = Live
  BY DEF Wait, Memory, Contents, Live
<1>2. us \subseteq DOMAIN Memory[current] /\ us \subseteq UserPage
  <2>1. Memory[current] = [u \in Mapped(space[current]) |-> mem[space[current][Leaf(u)]]]
    BY CurrentSpace, MemoryOf
  <2> QED
    BY <2>1 DEF Wait, Mapped
<1> QED
  BY <1>1, <1>2 DEF Wait, switch_to, Ready, PM!Wait, PM!Run, PM!Awake, UserPage

\* What every other task sees when a call changes one space with free pages.
LEMMA OthersKept ==
    ASSUME Inv, NEW t \in Task, NEW new, space' = [space EXCEPT ![t] = new],
           \A p \in Page : p \notin free \cup kernel \cup Range(space[t]) => mem'[p] = mem[p]
    PROVE  Memory' = [Memory EXCEPT ![t] = [u \in Mapped(new) |-> mem'[new[Leaf(u)]]]]
<1>1. /\ space'[t] = new /\ \A s \in Task : s # t => space'[s] = space[s]
  BY DEF Inv, Typed
<1>2. ASSUME NEW s \in Task, s # t PROVE Memory'[s] = Memory[s]
  <2>1. \A p \in Page : p \in Range(space[s]) => mem'[p] = mem[p]
    BY <1>2, SeenPages
  <2> QED
    BY <1>1, <1>2, <2>1, ContentsKept
<1>3. Memory'[t] = [u \in Mapped(new) |-> mem'[new[Leaf(u)]]]
  <2>1. Memory'[t] = [w \in Mapped(space'[t]) |-> mem'[space'[t][Leaf(w)]]]
    BY DEF Memory, Contents
  <2> QED
    BY <1>1, <2>1
<1>4. Memory = [s \in Task |-> Memory[s]] /\ Memory' = [s \in Task |-> Memory'[s]]
  BY DEF Memory
<1> QED
  BY <1>2, <1>3, <1>4

LEMMA ForkMemory ==
    ASSUME Inv, NEW child \in Task, Fork(child)
    PROVE  PM!Fork(child)
<1>0. PICK order \in Orders :
        LET sp == Built(DOMAIN space[current], order)
        IN  /\ DOMAIN sp = DOMAIN space[current]
            /\ free' = free \ Range(sp)
            /\ mem' = Filled(sp, Contents(space[current]))
            /\ space' = [space EXCEPT ![child] = sp]
  BY DEF Fork
<1>1. PICK sp : sp = Built(DOMAIN space[current], order)
  OBVIOUS
<1>2. PICK c : c = Memory[current]
  OBVIOUS
<1>3. /\ space[child] = NoSpace /\ DOMAIN sp = DOMAIN space[current]
      /\ mem' = Filled(sp, c)
      /\ space' = [space EXCEPT ![child] = sp]
      /\ mmap_next' = [mmap_next EXCEPT ![child] = mmap_next[current]]
      /\ child \notin Live /\ UNCHANGED <<current, stale, blocked>>
  <2>1. Memory[current] = Contents(space[current])
    BY CurrentSpace DEF Memory
  <2> QED
    BY <1>0, <1>1, <1>2, <2>1 DEF Fork, Live
<1>4. AddressSpace(sp) /\ Range(sp) \subseteq free
  <2>1. DOMAIN space[current] \subseteq Entry
    BY CurrentSpace DEF AddressSpace
  <2> QED
    BY <1>1, <2>1, BuiltOf
<1>5. Mapped(sp) = Mapped(space[current])
  BY <1>3 DEF Mapped
<1>6. \A p \in Page : p \notin free \cup kernel \cup Range(space[child]) => mem'[p] = mem[p]
  BY <1>3, <1>4, FilledContents
<1>7. \A u \in Mapped(sp) : mem'[sp[Leaf(u)]] = c[u]
  BY <1>3, <1>4, FilledContents
<1>8. c = [u \in Mapped(sp) |-> c[u]]
  <2>1. Memory[current] = [u \in Mapped(space[current]) |-> mem[space[current][Leaf(u)]]]
    BY CurrentSpace, MemoryOf
  <2> QED
    BY <1>2, <1>5, <2>1
<1>9. [u \in Mapped(sp) |-> mem'[sp[Leaf(u)]]] = c
  BY <1>7, <1>8
<1>10. Memory' = [Memory EXCEPT ![child] = [u \in Mapped(sp) |-> mem'[sp[Leaf(u)]]]]
  BY <1>3, <1>6, OthersKept
<1>11. Memory' = [Memory EXCEPT ![child] = Memory[current]]
  BY <1>2, <1>9, <1>10
<1>12. Live' = Live \cup {child}
  <2>1. sp # NoSpace
    BY <1>3, CurrentSpace, EmptySpace DEF Whole
  <2> QED
    BY <1>3, <2>1, LiveChanged
<1> QED
  BY <1>3, <1>11, <1>12 DEF PM!Fork

LEMMA ExecMemory ==
    ASSUME Inv, Exec
    PROVE  PM!Exec
<1>0. PICK order \in Orders :
        LET sp == Built(ImageEntries, order)
        IN  /\ DOMAIN sp = ImageEntries
            /\ free' = (free \ Range(sp)) \cup task_exec(sp)
            /\ mem' = pmm_free_page(task_exec(sp), Filled(sp, Program))
            /\ space' = [space EXCEPT ![current] = sp]
            /\ cr3' = sp[0] /\ stale' = {}
  BY DEF Exec
<1>1. PICK sp : sp = Built(ImageEntries, order)
  OBVIOUS
<1>2. PICK gone : gone = task_exec(sp)
  OBVIOUS
<1>3. PICK t \in Task : t = current
  BY CurrentSpace
<1>4. /\ DOMAIN sp = ImageEntries
      /\ mem' = pmm_free_page(gone, Filled(sp, Program))
      /\ space' = [space EXCEPT ![t] = sp]
      /\ mmap_next' = [mmap_next EXCEPT ![t] = MmapBase]
      /\ stale' = {} /\ UNCHANGED <<current, blocked>>
  BY <1>0, <1>1, <1>2, <1>3 DEF Exec
<1>5. AddressSpace(sp) /\ Range(sp) \subseteq free
  BY <1>1, ImageLow, BuiltOf
<1>6. gone \subseteq Range(space[t])
  BY <1>2, <1>3 DEF task_exec, vmm_space_destroy
<1>7. Mapped(sp) = Image
  <2>1. \A u \in UserPage : Leaf(u) \in ImageEntries => u \in Image
    BY ImageLow, EntriesOf DEF ImageEntries
  <2>2. \A u \in Image : u \in UserPage /\ Leaf(u) \in ImageEntries
    BY ImageLow, EntriesOf DEF ImageEntries
  <2> QED
    BY <1>4, <2>1, <2>2 DEF Mapped
<1>8. \A p \in Page : mem'[p] = IF p \in gone THEN Link ELSE Filled(sp, Program)[p]
  BY <1>4, FreedContents
<1>9. \A p \in Page : p \notin free \cup kernel \cup Range(space[t]) => mem'[p] = mem[p]
  BY <1>5, <1>6, <1>8, FilledContents
<1>10. \A u \in Image : mem'[sp[Leaf(u)]] = Program[u]
  <2>1. \A u \in Image : sp[Leaf(u)] \in Range(sp) /\ sp[Leaf(u)] \in Page
    BY <1>5, <1>7 DEF Mapped, Range, AddressSpace
  <2>2. \A u \in Image : sp[Leaf(u)] \notin gone
    BY <1>5, <1>6, <2>1, SeenPages
  <2> QED
    BY <1>5, <1>7, <1>8, <2>1, <2>2, FilledContents
<1>11. [u \in Mapped(sp) |-> mem'[sp[Leaf(u)]]] = Program
  BY <1>7, <1>10, ValAssumption
<1>12. Memory' = [Memory EXCEPT ![t] = [u \in Mapped(sp) |-> mem'[sp[Leaf(u)]]]]
  BY <1>4, <1>9, OthersKept
<1>13. Memory' = [Memory EXCEPT ![t] = Program]
  BY <1>11, <1>12
<1>14. Live' = Live
  <2>1. sp # NoSpace /\ t \in Live
    BY <1>3, <1>4, CurrentSpace, ImageLow, EmptySpace DEF Live
  <2> QED
    BY <1>4, <2>1, LiveKept
<1> QED
  BY <1>3, <1>4, <1>13, <1>14 DEF PM!Exec, PM!Run

\* What is left of the memory when the current task leaves with contents m.
LEMMA LeaveMemory ==
    ASSUME Inv, NEW next \in Task, NEW m, Leave(next, m),
           \A p \in Page : p \in Range(space[current]) => m[p] = mem[p]
    PROVE  /\ Memory'[current] = PM!Nothing
           /\ \A s \in Task : s # current =>
                Memory'[s] = [u \in Mapped(space[s]) |-> m[space[s][Leaf(u)]]]
           /\ Memory' = [s \in Task |-> Memory'[s]]
           /\ PM!Leave(next)
<1>1. PICK t \in Task : t = current
  BY CurrentSpace
<1>2. PICK gone : gone = vmm_space_destroy(space[current], space[next][0])
  OBVIOUS
<1>3. /\ mem' = pmm_free_page(gone, m)
      /\ space' = [space EXCEPT ![t] = NoSpace]
      /\ mmap_next' = [mmap_next EXCEPT ![t] = MmapBase]
      /\ current' = next /\ stale' = {}
  BY <1>1, <1>2 DEF Leave, switch_to
<1>4. gone \subseteq Range(space[t])
  BY <1>1, <1>2 DEF vmm_space_destroy
<1>5. \A p \in Page : p \notin Range(space[t]) => mem'[p] = m[p]
  BY <1>3, <1>4, FreedContents
<1>6. space'[t] = NoSpace /\ \A s \in Task : s # t => space'[s] = space[s]
  BY <1>3 DEF Inv, Typed
<1>7. \A s \in Task : Memory'[s] = [u \in Mapped(space'[s]) |-> mem'[space'[s][Leaf(u)]]]
  BY DEF Memory, Contents
<1>8. Memory'[t] = PM!Nothing
  <2>1. Mapped(space'[t]) = {}
    BY <1>6, EmptySpace
  <2> QED
    BY <1>7, <2>1 DEF PM!Nothing
<1>9. ASSUME NEW s \in Task, s # t
      PROVE  Memory'[s] = [u \in Mapped(space[s]) |-> m[space[s][Leaf(u)]]]
  <2>1. \A u \in Mapped(space[s]) : mem'[space[s][Leaf(u)]] = m[space[s][Leaf(u)]]
    BY <1>5, <1>9, SeenPages
  <2> QED
    BY <1>6, <1>7, <1>9, <2>1
<1>10. Memory' = [s \in Task |-> Memory'[s]]
  BY DEF Memory
<1>11. PM!Leave(next)
  <2>1. Live' = Live \ {t}
    BY <1>3, LiveChanged
  <2> QED
    BY <1>1, <1>3, <2>1 DEF PM!Leave, PM!Run
<1> QED
  BY <1>1, <1>8, <1>9, <1>10, <1>11

LEMMA ExitMemory ==
    ASSUME Inv, NEW next \in Task, Exit(next)
    PROVE  PM!Exit(next)
<1>1. PICK t \in Task : t = current
  BY CurrentSpace
<1>2. next \in Ready /\ Leave(next, mem) /\ blocked' = blocked
  BY DEF Exit
<1>3. /\ Memory'[t] = PM!Nothing
      /\ \A s \in Task : s # t =>
           Memory'[s] = [u \in Mapped(space[s]) |-> mem[space[s][Leaf(u)]]]
      /\ Memory' = [s \in Task |-> Memory'[s]]
      /\ PM!Leave(next)
  BY <1>1, <1>2, LeaveMemory
<1>4. \A s \in Task : s # t => Memory'[s] = Memory[s]
  BY <1>3, MemoryOf
<1>5. Memory = [s \in Task |-> Memory[s]]
  BY DEF Memory
<1>6. Memory' = [Memory EXCEPT ![t] = PM!Nothing]
  BY <1>3, <1>4, <1>5
<1> QED
  BY <1>1, <1>2, <1>3, <1>6 DEF PM!Exit, PM!Awake, Ready

\* Contents m differ only in the pages us of space sp, which hold w.
OnlyWord(sp, us, w, m) ==
    /\ \A u \in Mapped(sp) : m[sp[Leaf(u)]] = IF u \in us THEN w[u] ELSE mem[sp[Leaf(u)]]
    /\ \A p \in Page : p \notin Range(sp) => m[p] = mem[p]

\* What a task sees of its memory once its status word is written.
LEMMA WordContents ==
    ASSUME Inv, NEW s \in Task, NEW us, us \subseteq Mapped(space[s]), NEW w
    PROVE  OnlyWord(space[s], us, w, Written(space[s], us, w, mem))
<1>1. PICK sp : sp = space[s]
  OBVIOUS
<1>2. AddressSpace(sp) /\ us \subseteq Mapped(sp)
  BY <1>1 DEF Inv, Typed
<1>3. \A x \in Mapped(sp) : x \in Nat /\ Leaf(x) \in DOMAIN sp /\ sp[Leaf(x)] \in Page
  BY <1>2, FiniteEntries DEF Mapped, AddressSpace
<1>4. ASSUME NEW x \in Mapped(sp), NEW y \in Mapped(sp), sp[Leaf(x)] = sp[Leaf(y)] PROVE x = y
  <2>1. Leaf(x) = Leaf(y)
    BY <1>2, <1>3, <1>4 DEF AddressSpace
  <2> QED
    BY <1>3, <2>1, EntryDistinct
<1>5. ASSUME NEW u \in Mapped(sp)
      PROVE  Written(sp, us, w, mem)[sp[Leaf(u)]] = IF u \in us THEN w[u] ELSE mem[sp[Leaf(u)]]
  <2>1. PICK p \in Page : p = sp[Leaf(u)]
    BY <1>3
  <2>2. CASE u \in us
    <3>1. PICK x : x = CHOOSE y \in us : sp[Leaf(y)] = p
      OBVIOUS
    <3>2. x \in us /\ sp[Leaf(x)] = p
      BY <2>1, <2>2, <3>1
    <3>3. x = u
      BY <1>2, <1>4, <2>1, <3>2
    <3>4. Written(sp, us, w, mem)[p] = w[x]
      BY <2>1, <2>2, <3>1 DEF Written
    <3> QED
      BY <2>1, <2>2, <3>3, <3>4
  <2>3. CASE u \notin us
    <3>1. ~ \E y \in us : sp[Leaf(y)] = p
      BY <1>2, <1>4, <2>1, <2>3
    <3>2. Written(sp, us, w, mem)[p] = mem[p]
      BY <3>1 DEF Written
    <3> QED
      BY <2>1, <2>3, <3>2
  <2> QED
    BY <2>2, <2>3
<1>6. ASSUME NEW p \in Page, p \notin Range(sp)
      PROVE  Written(sp, us, w, mem)[p] = mem[p]
  <2>1. ~ \E y \in us : sp[Leaf(y)] = p
    BY <1>2, <1>3, <1>6 DEF Range
  <2> QED
    BY <2>1 DEF Written
<1>7. OnlyWord(sp, us, w, Written(sp, us, w, mem))
  BY <1>5, <1>6 DEF OnlyWord
<1> QED
  BY <1>1, <1>7

LEMMA ExitWakesMemory ==
    ASSUME Inv, NEW parent \in Task, NEW next \in Task, ExitWakes(parent, next)
    PROVE  PM!ExitWakes(parent, next)
<1>1. PICK t \in Task : t = current
  BY CurrentSpace
<1>2. PICK w \in [blocked[parent] -> Val] : Leave(next, copy_status(parent, w))
  BY DEF ExitWakes
<1>3. PICK us : us = blocked[parent]
  OBVIOUS
<1>4. PICK m : m = Written(space[parent], us, w, mem)
  OBVIOUS
<1>5. /\ parent \in DOMAIN blocked /\ parent # t /\ us \subseteq Mapped(space[parent])
      /\ Leave(next, m)
  <2>1. parent \in DOMAIN blocked
    BY DEF ExitWakes
  <2>2. /\ parent # current /\ blocked[parent] \subseteq Mapped(space[parent])
        /\ copy_status(parent, w) = Written(space[parent], blocked[parent], w, mem)
    BY <1>2, <2>1, WordWritten
  <2> QED
    BY <1>1, <1>2, <1>3, <1>4, <2>1, <2>2
<1>6. /\ \A u \in Mapped(space[parent]) :
             m[space[parent][Leaf(u)]] = IF u \in us THEN w[u] ELSE mem[space[parent][Leaf(u)]]
      /\ \A p \in Page : p \notin Range(space[parent]) => m[p] = mem[p]
  <2>1. OnlyWord(space[parent], us, w, Written(space[parent], us, w, mem))
    BY <1>5, WordContents
  <2>2. OnlyWord(space[parent], us, w, m)
    BY <1>4, <2>1
  <2> QED
    BY <2>2 DEF OnlyWord
<1>7. /\ Memory'[t] = PM!Nothing
      /\ \A s \in Task : s # t =>
           Memory'[s] = [u \in Mapped(space[s]) |-> m[space[s][Leaf(u)]]]
      /\ Memory' = [s \in Task |-> Memory'[s]]
      /\ PM!Leave(next)
  <2>1. \A p \in Page : p \in Range(space[current]) => m[p] = mem[p]
    BY <1>1, <1>5, <1>6, SeenPages
  <2> QED
    BY <1>1, <1>5, <2>1, LeaveMemory
<1>8. ASSUME NEW s \in Task, s # t, s # parent PROVE Memory'[s] = Memory[s]
  <2>1. \A u \in Mapped(space[s]) : m[space[s][Leaf(u)]] = mem[space[s][Leaf(u)]]
    BY <1>6, <1>8, SeenPages
  <2>2. Memory[s] = [u \in Mapped(space[s]) |-> mem[space[s][Leaf(u)]]]
    BY MemoryOf
  <2> QED
    BY <1>7, <1>8, <2>1, <2>2
<1>9. Memory'[parent] = [u \in DOMAIN Memory[parent] |-> IF u \in us THEN w[u] ELSE Memory[parent][u]]
  <2>1. Memory[parent] = [u \in Mapped(space[parent]) |-> mem[space[parent][Leaf(u)]]]
    BY MemoryOf
  <2>2. Memory'[parent] = [u \in Mapped(space[parent]) |-> m[space[parent][Leaf(u)]]]
    BY <1>5, <1>7
  <2> QED
    BY <1>6, <2>1, <2>2
<1>10. Memory = [s \in Task |-> Memory[s]]
  BY DEF Memory
<1>11. Memory' = [Memory EXCEPT
          ![t] = PM!Nothing,
          ![parent] = [u \in DOMAIN @ |-> IF u \in us THEN w[u] ELSE @[u]]]
  BY <1>5, <1>7, <1>8, <1>9, <1>10
<1>12. /\ next \in PM!Awake \cup {parent}
       /\ blocked' = PM!Restrict(blocked, DOMAIN blocked \ {parent})
  BY DEF ExitWakes, PM!Awake, Ready, Restrict, PM!Restrict
<1>13. \E x \in [blocked[parent] -> Val] :
          Memory' = [Memory EXCEPT
            ![current] = PM!Nothing,
            ![parent] = [u \in DOMAIN @ |-> IF u \in blocked[parent] THEN x[u] ELSE @[u]]]
  <2>1. /\ w \in [blocked[parent] -> Val]
        /\ Memory' = [Memory EXCEPT
            ![current] = PM!Nothing,
            ![parent] = [u \in DOMAIN @ |-> IF u \in blocked[parent] THEN w[u] ELSE @[u]]]
    BY <1>1, <1>2, <1>3, <1>11
  <2> QED
    BY <2>1
<1> QED
  BY <1>5, <1>7, <1>12, <1>13 DEF PM!ExitWakes

LEMMA MapMemory ==
    ASSUME Inv, NEW n \in 1..(MmapEnd - MmapBase), Map(n)
    PROVE  PM!Map(n)
<1>0. PICK order \in Orders :
        LET sp == Built(Needed(n), order)
        IN  /\ free' = free \ Range(sp)
            /\ mem' = pmm_alloc_page(sp)
            /\ space' = [space EXCEPT ![current] = Extended(@, sp)]
  BY DEF Map
<1>1. PICK more : more = Built(Needed(n), order)
  OBVIOUS
<1>2. PICK t \in Task : t = current
  BY CurrentSpace
<1>3. PICK sp : sp = space[t]
  OBVIOUS
<1>4. PICK new : new = Extended(sp, more)
  OBVIOUS
<1>5. PICK fresh : fresh = Wanted(n)
  OBVIOUS
<1>6. /\ MapFits(n) /\ Cardinality(Needed(n)) <= Cardinality(free)
      /\ mem' = pmm_alloc_page(more)
      /\ space' = [space EXCEPT ![t] = new]
      /\ mmap_next' = [mmap_next EXCEPT ![t] = @ + n]
      /\ UNCHANGED <<current, stale, blocked>>
  BY <1>0, <1>1, <1>2, <1>3, <1>4 DEF Map
<1>7. AddressSpace(more) /\ Range(more) \subseteq free /\ DOMAIN more = Needed(n)
  BY <1>1, <1>6, WantedFree, BuiltOf
<1>8. AddressSpace(sp) /\ Range(sp) \cap free = {}
  BY <1>2, <1>3, CurrentSpace
<1>9. /\ Needed(n) \cap DOMAIN sp = {} /\ fresh \subseteq UserPage /\ fresh \cap Mapped(sp) = {}
      /\ mmap_next[t] + n \in MmapBase..MmapEnd
      /\ fresh = mmap_next[t]..(mmap_next[t] + n - 1)
  BY <1>2, <1>3, <1>5, <1>6, WantedFree DEF Wanted
<1>10. Mapped(more) = fresh
  <2>1. ASSUME NEW u \in UserPage, Leaf(u) \in Needed(n) PROVE u \in fresh
    <3>1. \A w \in fresh : Leaf(u) # Table(w) /\ (Leaf(u) = Leaf(w) => u = w)
      BY <1>9, FiniteEntries, EntryDistinct
    <3> QED
      BY <1>5, <2>1, <3>1 DEF Needed
  <2>2. \A u \in fresh : u \in UserPage /\ Leaf(u) \in Needed(n)
    BY <1>5, <1>9 DEF Needed
  <2> QED
    BY <1>7, <2>1, <2>2 DEF Mapped
<1>11. /\ Mapped(new) = Mapped(sp) \cup fresh
       /\ \A k \in DOMAIN sp : new[k] = sp[k]
       /\ \A k \in DOMAIN more : new[k] = more[k]
  <2>1. DOMAIN sp \cap DOMAIN more = {} /\ Range(sp) \cap Range(more) = {}
    BY <1>7, <1>8, <1>9
  <2>2. /\ Mapped(Extended(sp, more)) = Mapped(sp) \cup Mapped(more)
        /\ \A k \in DOMAIN sp : Extended(sp, more)[k] = sp[k]
        /\ \A k \in DOMAIN more : Extended(sp, more)[k] = more[k]
    BY <1>7, <1>8, <2>1, ExtendedSpace, ZenonT(60)
  <2> QED
    BY <1>4, <1>10, <2>2
<1>12. \A p \in Page : mem'[p] = IF p \in Range(more) THEN 0 ELSE mem[p]
  BY <1>6, AllocContents
<1>13. Memory[t] = [u \in Mapped(sp) |-> mem[sp[Leaf(u)]]]
  <2>1. Memory[t] = [u \in Mapped(space[t]) |-> mem[space[t][Leaf(u)]]]
    BY MemoryOf
  <2> QED
    BY <1>3, <2>1
<1>14. \A u \in fresh : mem'[new[Leaf(u)]] = 0
  <2>1. \A u \in fresh : /\ new[Leaf(u)] = more[Leaf(u)] /\ more[Leaf(u)] \in Range(more)
                         /\ more[Leaf(u)] \in Page
    BY <1>7, <1>10, <1>11 DEF Mapped, Range, AddressSpace
  <2> QED
    BY <1>12, <2>1
<1>15. \A u \in Mapped(sp) : mem'[new[Leaf(u)]] = Memory[t][u]
  <2>1. \A u \in Mapped(sp) : /\ new[Leaf(u)] = sp[Leaf(u)] /\ sp[Leaf(u)] \in Range(sp)
                              /\ sp[Leaf(u)] \in Page
    BY <1>8, <1>11 DEF Mapped, Range, AddressSpace
  <2>2. \A u \in Mapped(sp) : sp[Leaf(u)] \notin Range(more)
    BY <1>7, <1>8, <2>1
  <2> QED
    BY <1>12, <1>13, <2>1, <2>2
<1>16. [u \in Mapped(new) |-> mem'[new[Leaf(u)]]]
          = [u \in DOMAIN Memory[t] \cup fresh |-> IF u \in fresh THEN 0 ELSE Memory[t][u]]
  <2>1. DOMAIN Memory[t] = Mapped(sp)
    BY <1>13
  <2> QED
    BY <1>9, <1>11, <1>14, <1>15, <2>1
<1>17. Memory' = [Memory EXCEPT ![t] = [u \in Mapped(new) |-> mem'[new[Leaf(u)]]]]
  <2>1. \A p \in Page : p \notin free \cup kernel \cup Range(space[t]) => mem'[p] = mem[p]
    BY <1>7, <1>12
  <2> QED
    BY <1>6, <2>1, OthersKept
<1>18. Memory' = [Memory EXCEPT ![t] =
          [u \in DOMAIN Memory[t] \cup fresh |-> IF u \in fresh THEN 0 ELSE Memory[t][u]]]
  BY <1>16, <1>17
<1>19. fresh \cap DOMAIN Memory[t] = {} /\ mmap_next[t] + n <= MmapEnd
  BY <1>9, <1>13, LayoutAssumption
<1>20. Memory' = [Memory EXCEPT ![t] =
          [u \in DOMAIN @ \cup fresh |-> IF u \in fresh THEN 0 ELSE @[u]]]
  BY <1>18
<1>21. Live' = Live
  <2>1. new # NoSpace /\ t \in Live
    BY <1>2, <1>3, <1>4, CurrentSpace, EmptySpace DEF Live, Extended, Whole
  <2> QED
    BY <1>6, <2>1, LiveKept
<1> QED
  BY <1>2, <1>6, <1>9, <1>19, <1>20, <1>21 DEF PM!Map

\* A step that no program can see.
Unseen ==
    /\ Memory' = Memory /\ Live' = Live
    /\ UNCHANGED <<mmap_next, current, stale, blocked>>

LEMMA MapFailsMemory ==
    ASSUME Inv, NEW n \in 1..(MmapEnd - MmapBase), MapFails(n)
    PROVE  Unseen
<1>0. PICK order \in Orders :
        LET sp == Built(Kept(n), order)
        IN  /\ free' = free \ Range(sp)
            /\ mem' = pmm_alloc_page(sp)
            /\ space' = [space EXCEPT ![current] = Extended(@, sp)]
  BY DEF MapFails
<1>1. PICK more : more = Built(Kept(n), order)
  OBVIOUS
<1>2. PICK t \in Task : t = current
  BY CurrentSpace
<1>3. PICK sp : sp = space[t]
  OBVIOUS
<1>4. PICK new : new = Extended(sp, more)
  OBVIOUS
<1>5. /\ MapFits(n) /\ mem' = pmm_alloc_page(more)
      /\ space' = [space EXCEPT ![t] = new]
      /\ UNCHANGED <<mmap_next, current, stale, blocked>>
  BY <1>0, <1>1, <1>2, <1>3, <1>4 DEF MapFails
<1>6. AddressSpace(more) /\ Range(more) \subseteq free /\ DOMAIN more \subseteq Kept(n)
  BY <1>1, <1>5, KeptTables, BuiltOf
<1>7. AddressSpace(sp) /\ Range(sp) \cap free = {}
  BY <1>2, <1>3, CurrentSpace
<1>8. Mapped(more) = {}
  BY <1>5, <1>6, KeptTables DEF Mapped
<1>9. Mapped(new) = Mapped(sp) /\ \A k \in DOMAIN sp : new[k] = sp[k]
  <2>1. DOMAIN sp \cap DOMAIN more = {} /\ Range(sp) \cap Range(more) = {}
    BY <1>2, <1>3, <1>5, <1>6, <1>7, KeptTables
  <2>2. /\ Mapped(Extended(sp, more)) = Mapped(sp) \cup Mapped(more)
        /\ \A k \in DOMAIN sp : Extended(sp, more)[k] = sp[k]
    BY <1>6, <1>7, <2>1, ExtendedSpace
  <2> QED
    BY <1>4, <1>8, <2>2
<1>10. \A p \in Page : p \notin free => mem'[p] = mem[p]
  BY <1>5, <1>6, AllocContents
<1>11. space'[t] = new /\ \A s \in Task : s # t => space'[s] = space[s]
  BY <1>5 DEF Inv, Typed
<1>12. ASSUME NEW s \in Task PROVE Memory'[s] = Memory[s]
  <2>1. \A p \in Page : p \in Range(space[s]) => mem'[p] = mem[p]
    BY <1>10, SeenPages
  <2>2. /\ Mapped(space'[s]) = Mapped(space[s])
        /\ \A u \in Mapped(space[s]) : space'[s][Leaf(u)] = space[s][Leaf(u)]
    <3>1. \A u \in Mapped(sp) : new[Leaf(u)] = sp[Leaf(u)]
      BY <1>9 DEF Mapped
    <3> QED
      BY <1>3, <1>9, <1>11, <3>1
  <2> QED
    BY <2>1, <2>2, ContentsKept
<1>13. Memory = [s \in Task |-> Memory[s]] /\ Memory' = [s \in Task |-> Memory'[s]]
  BY DEF Memory
<1>14. Live' = Live
  <2>1. new # NoSpace /\ t \in Live
    BY <1>2, <1>3, <1>4, CurrentSpace, EmptySpace DEF Live, Extended, Whole
  <2> QED
    BY <1>5, <2>1, LiveKept
<1> QED
  BY <1>5, <1>12, <1>13, <1>14 DEF Unseen

\* Without an address beyond the indices, handle_unmap stays in its window.
LEMMA UnmapWindow ==
    ASSUME Inv, NEW a \in Address, NEW n \in Address, Unmap(a, n),
           \A v \in Addresses(a, n) : v = lookup(v)
    PROVE  Lookups(a, n) \subseteq MmapBase..(MmapEnd - 1)
<1>1. /\ AddressPages \in Nat /\ IndexPages \in Nat /\ 0 < IndexPages /\ IndexPages < AddressPages
      /\ MmapBase \in Nat /\ MmapEnd \in Nat /\ a \in Nat /\ n \in Nat /\ a < AddressPages
      /\ n < AddressPages
  BY LayoutAssumption, AddressAssumption DEF Address
<1>2. a >= MmapBase /\ Lookups(a, n) \subseteq Mapped(space[current])
  BY DEF Unmap, Lookups, Addresses
<1>3. \A i \in 0..(n - 1) : (a + i) % AddressPages = ((a + i) % AddressPages) % IndexPages
  BY DEF Addresses, lookup
<1>4. \A v \in Nat : v % IndexPages < IndexPages
  BY <1>1
<1>5. ASSUME NEW i \in 0..(n - 1) PROVE a + i < AddressPages
  <2>1. CASE a + i >= AddressPages
    <3>1. PICK j \in 0..(n - 1) : j = (AddressPages - 1) - a
      BY <1>1, <2>1
    <3>2. a + j = AddressPages - 1 /\ AddressPages - 1 \in Nat
      BY <1>1, <3>1
    <3>3. (a + j) % AddressPages = AddressPages - 1
      BY <1>1, <3>2
    <3>4. (AddressPages - 1) % IndexPages < IndexPages
      BY <1>4, <3>2
    <3> QED
      BY <1>1, <1>3, <3>3, <3>4
  <2> QED
    BY <1>1, <2>1
<1>6. \A i \in 0..(n - 1) : (a + i) % AddressPages = a + i
  BY <1>1, <1>5
<1>7. ASSUME NEW u \in Lookups(a, n) PROVE u \in MmapBase..(MmapEnd - 1)
  <2>1. PICK v \in Addresses(a, n) : u = lookup(v)
    BY <1>7 DEF Lookups
  <2>2. PICK i \in 0..(n - 1) : v = (a + i) % AddressPages
    BY <2>1 DEF Addresses
  <2>3. u = a + i
    BY <1>6, <2>1, <2>2
  <2>4. u < mmap_next[current] /\ mmap_next[current] \in MmapBase..MmapEnd
    BY <1>2, <1>7, CurrentSpace DEF Whole
  <2> QED
    BY <1>1, <1>2, <2>3, <2>4
<1> QED
  BY <1>7

LEMMA UnmapMemory ==
    ASSUME Inv, NEW a \in Address, NEW n \in Address, Unmap(a, n)
    PROVE  PM!Unmap(Lookups(a, n)) /\ Lookups(a, n) \in SUBSET (0..(UserEnd - 1))
<1>1. PICK t \in Task : t = current
  BY CurrentSpace
<1>2. PICK sp : sp = space[t]
  OBVIOUS
<1>3. PICK us : us = Lookups(a, n)
  OBVIOUS
<1>4. PICK old : old = PagesOf(sp, us)
  OBVIOUS
<1>5. PICK new : new = Without(sp, us)
  OBVIOUS
<1>6. /\ us \subseteq Mapped(sp)
      /\ mem' = pmm_free_page(old, mem)
      /\ space' = [space EXCEPT ![t] = new]
      /\ UNCHANGED <<mmap_next, current, blocked>>
  BY <1>1, <1>2, <1>3, <1>4, <1>5 DEF Unmap, PagesOf, Without, Lookups, Addresses
<1>7. AddressSpace(sp)
  BY <1>1, <1>2, CurrentSpace
<1>8. /\ AddressSpace(new) /\ \A k \in DOMAIN new : new[k] = sp[k]
      /\ Range(new) = Range(sp) \ old /\ old \subseteq Range(sp)
      /\ Mapped(new) = Mapped(sp) \ us
  <2>1. /\ AddressSpace(Without(sp, us))
        /\ \A k \in DOMAIN Without(sp, us) : Without(sp, us)[k] = sp[k]
        /\ Range(Without(sp, us)) = Range(sp) \ PagesOf(sp, us)
        /\ PagesOf(sp, us) \subseteq Range(sp)
        /\ Mapped(Without(sp, us)) = Mapped(sp) \ us
    BY <1>6, <1>7, RestrictedSpace
  <2> QED
    BY <1>4, <1>5, <2>1
<1>9. \A p \in Page : mem'[p] = IF p \in old THEN Link ELSE mem[p]
  BY <1>6, FreedContents
<1>10. Memory' = [Memory EXCEPT ![t] = [u \in Mapped(new) |-> mem'[new[Leaf(u)]]]]
  <2>1. \A p \in Page : p \notin free \cup kernel \cup Range(space[t]) => mem'[p] = mem[p]
    BY <1>2, <1>8, <1>9
  <2> QED
    BY <1>6, <2>1, OthersKept
<1>11. Memory[t] = [u \in Mapped(sp) |-> mem[sp[Leaf(u)]]]
  <2>1. Memory[t] = [u \in Mapped(space[t]) |-> mem[space[t][Leaf(u)]]]
    BY MemoryOf
  <2> QED
    BY <1>2, <2>1
<1>12. \A u \in Mapped(new) : mem'[new[Leaf(u)]] = Memory[t][u]
  <2>1. \A u \in Mapped(new) : /\ new[Leaf(u)] = sp[Leaf(u)] /\ new[Leaf(u)] \in Range(new)
                               /\ new[Leaf(u)] \in Page
    BY <1>8 DEF Mapped, Range, AddressSpace
  <2>2. \A u \in Mapped(new) : new[Leaf(u)] \notin old /\ u \in Mapped(sp)
    BY <1>8, <2>1
  <2> QED
    BY <1>9, <1>11, <2>1, <2>2
<1>13. [u \in Mapped(new) |-> mem'[new[Leaf(u)]]] = [u \in DOMAIN Memory[t] \ us |-> Memory[t][u]]
  <2>1. DOMAIN Memory[t] \ us = Mapped(new)
    BY <1>8, <1>11
  <2> QED
    BY <1>12, <2>1
<1>14. Memory' = [Memory EXCEPT ![t] = [u \in DOMAIN Memory[t] \ us |-> Memory[t][u]]]
  BY <1>10, <1>13
<1>15. Memory' = [Memory EXCEPT ![t] = PM!Restrict(@, DOMAIN @ \ us)]
  BY <1>14 DEF PM!Restrict
<1>16. us \subseteq DOMAIN Memory[t]
  BY <1>6, <1>11
<1>17. Live' = Live
  <2>1. 0 \in DOMAIN sp /\ t \in Live
    BY <1>1, <1>2, CurrentSpace DEF Live, Whole
  <2>2. DOMAIN new = DOMAIN sp \ {Leaf(u) : u \in us} /\ 0 \notin {Leaf(u) : u \in us}
    BY <1>5, <1>6, <1>7, RestrictedSpace
  <2>3. new # NoSpace
    BY <2>1, <2>2, EmptySpace
  <2> QED
    BY <1>6, <2>1, <2>3, LiveKept
<1>18. \/ us \subseteq MmapBase..(MmapEnd - 1) /\ (stale' # {}) = (stale # {})
       \/ (stale' # {}) = TRUE
  <2>1. CASE \A v \in Addresses(a, n) : v = lookup(v)
    <3>1. stale' = stale
      BY <2>1 DEF Unmap, Addresses
    <3> QED
      BY <1>3, <2>1, <3>1, UnmapWindow
  <2>2. ASSUME NEW v \in Addresses(a, n), v # lookup(v) PROVE stale' # {}
    BY <2>2 DEF Unmap, Addresses
  <2> QED
    BY <2>1, <2>2
<1>19. us \in SUBSET (0..(UserEnd - 1))
  BY <1>6 DEF Mapped, UserPage
<1>20. PM!Unmap(us)
  BY <1>1, <1>6, <1>15, <1>16, <1>17, <1>18 DEF PM!Unmap
<1> QED
  BY <1>3, <1>19, <1>20

-----------------------------------------------------------------------------
(* Steps that no program can see. *)

LEMMA KernelMemory ==
    ASSUME Inv, KernelTakes \/ \E p \in Page : KernelGives(p)
    PROVE  Unseen
<1>1. CASE KernelTakes
  <2>1. PICK sp : /\ AddressSpace(sp) /\ Range(sp) \subseteq free
                  /\ mem' = pmm_alloc_page(sp)
    BY <1>1, KernelPage
  <2>2. space' = space /\ UNCHANGED <<mmap_next, current, stale, blocked>>
    BY <1>1 DEF KernelTakes
  <2>4. \A q \in Page : q \notin free \cup kernel => mem'[q] = mem[q]
    BY <2>1, AllocContents
  <2> QED
    BY <2>2, <2>4, MemoryKept, SameLive DEF Unseen
<1>2. ASSUME NEW p \in Page, KernelGives(p)
      PROVE  Unseen
  <2>1. /\ p \in kernel /\ mem' = pmm_free_page({p}, mem) /\ space' = space
        /\ UNCHANGED <<mmap_next, current, stale, blocked>>
    BY <1>2 DEF KernelGives
  <2>2. \A q \in Page : q \notin free \cup kernel => mem'[q] = mem[q]
    BY <2>1, FreedContents
  <2> QED
    BY <2>1, <2>2, MemoryKept, SameLive DEF Unseen
<1> QED
  BY <1>1, <1>2

LEMMA FailedMemory ==
    ASSUME Inv, ForkFails \/ ExecFails
    PROVE  Unseen
<1>1. ASSUME NEW E, E \subseteq Entry, 0 \in E, NEW c, NEW order \in Orders,
             mem' = pmm_free_page(vmm_space_destroy(Built(E, order), cr3), Filled(Built(E, order), c)),
             space' = space
      PROVE  Memory' = Memory
  <2>1. PICK sp : sp = Built(E, order)
    OBVIOUS
  <2>2. AddressSpace(sp) /\ Range(sp) \subseteq free /\ vmm_space_destroy(sp, cr3) = Range(sp)
    BY <1>1, <2>1, BuiltOf
  <2>3. \A p \in Page : mem'[p] = IF p \in Range(sp) THEN Link ELSE Filled(sp, c)[p]
    BY <1>1, <2>1, <2>2, FreedContents
  <2>4. \A p \in Page : p \notin free \cup kernel => mem'[p] = mem[p]
    BY <2>2, <2>3, FilledContents
  <2> QED
    BY <1>1, <2>4, MemoryKept
<1>2. CASE ForkFails
  <2>1. DOMAIN space[current] \subseteq Entry /\ 0 \in DOMAIN space[current]
    BY CurrentSpace DEF AddressSpace, Whole
  <2>2. PICK E : E = DOMAIN space[current]
    OBVIOUS
  <2>3. PICK c : c = Contents(space[current])
    OBVIOUS
  <2>4. PICK order \in Orders :
          mem' = pmm_free_page(vmm_space_destroy(Built(E, order), cr3), Filled(Built(E, order), c))
    BY <1>2, <2>2, <2>3 DEF ForkFails
  <2>5. space' = space /\ UNCHANGED <<mmap_next, current, stale, blocked>>
    BY <1>2 DEF ForkFails
  <2> QED
    BY <1>1, <2>1, <2>2, <2>4, <2>5, SameLive DEF Unseen
<1>3. CASE ExecFails
  <2>1. PICK us \in SUBSET Image, order \in Orders :
          mem' = pmm_free_page(vmm_space_destroy(Built({0} \cup Entries(us), order), cr3),
                               Filled(Built({0} \cup Entries(us), order), Program))
    BY <1>3 DEF ExecFails
  <2>2. PICK E : E = {0} \cup Entries(us)
    OBVIOUS
  <2>3. E \subseteq Entry /\ 0 \in E
    BY <2>2, ImageLow DEF Entry, Entries
  <2>4. /\ mem' = pmm_free_page(vmm_space_destroy(Built(E, order), cr3), Filled(Built(E, order), Program))
        /\ space' = space /\ UNCHANGED <<mmap_next, current, stale, blocked>>
    BY <1>3, <2>1, <2>2 DEF ExecFails
  <2> QED
    BY <1>1, <2>3, <2>4, SameLive DEF Unseen
<1> QED
  BY <1>2, <1>3

LEMMA StepMemory == Inv /\ [Next]_vars => [PM!Next]_PM!mvars
<1> SUFFICES ASSUME Inv, [Next]_vars PROVE [PM!Next]_PM!mvars
  OBVIOUS
<1>0. current \in Task /\ UserPage = 0..(UserEnd - 1)
  BY CurrentSpace DEF UserPage
<1>1. ASSUME UNCHANGED vars PROVE Unseen
  BY <1>1 DEF vars, Memory, Contents, Live, Unseen
<1>2. ASSUME NEW u \in UserPage, NEW v \in Val, Store(u, v) PROVE PM!Next
  BY <1>0, <1>2, StoreMemory DEF PM!Next
<1>3. ASSUME NEW next \in Task, Switch(next) PROVE PM!Next
  BY <1>3, SwitchMemory DEF PM!Next
<1>4. ASSUME KernelTakes \/ \E p \in Page : KernelGives(p) PROVE Unseen
  BY <1>4, KernelMemory
<1>5. ASSUME NEW child \in Task, Fork(child) PROVE PM!Next
  BY <1>5, ForkMemory DEF PM!Next
<1>6. ASSUME ForkFails \/ ExecFails PROVE Unseen
  BY <1>6, FailedMemory
<1>7. ASSUME Exec PROVE PM!Next
  BY <1>7, ExecMemory DEF PM!Next
<1>8. ASSUME NEW next \in Task, Exit(next) PROVE PM!Next
  BY <1>8, ExitMemory DEF PM!Next
<1>9. ASSUME NEW n \in 1..(MmapEnd - MmapBase), Map(n) PROVE PM!Next
  BY <1>9, MapMemory DEF PM!Next
<1>10. ASSUME NEW n \in 1..(MmapEnd - MmapBase), MapFails(n) PROVE Unseen
  BY <1>10, MapFailsMemory
<1>11. ASSUME NEW a \in Address, NEW n \in Address, Unmap(a, n) PROVE PM!Next
  BY <1>11, UnmapMemory DEF PM!Next
<1>12. ASSUME NEW t \in Task, NEW u \in UserPage, NEW v \in Val, StaleStore(t, u, v) PROVE PM!Next
  BY <1>0, <1>12, StaleStoreMemory DEF PM!Next
<1>13. ASSUME NEW us \in Word, NEW next \in Task, Wait(us, next) PROVE PM!Next
  BY <1>13, WaitMemory DEF PM!Next
<1>14. ASSUME NEW parent \in Task, NEW next \in Task, ExitWakes(parent, next) PROVE PM!Next
  BY <1>14, ExitWakesMemory DEF PM!Next
<1>15. PM!Next \/ Unseen
  BY <1>1, <1>2, <1>3, <1>4, <1>5, <1>6, <1>7, <1>8, <1>9, <1>10, <1>11, <1>12, <1>13, <1>14
     DEF Next, Calls
<1>16. Unseen => UNCHANGED PM!mvars
  BY DEF Unseen, PM!mvars
<1> QED
  BY <1>15, <1>16

\* The address spaces implement private memory: what a task sees of its memory
\* changes only by its own stores, forks, execs and mappings, and by the status its
\* wait asked for, unless the processor keeps a translation that handle_unmap has
\* missed; for any number of pages and tasks, however allocations fail and whatever
\* addresses are unmapped.
THEOREM MemImplementsPrivateMemory == Spec => ImplementsPrivateMemory
<1>1. Init => PM!Init
  BY InitMemory
<1>2. Inv /\ [Next]_vars => [PM!Next]_PM!mvars
  BY StepMemory
<1> QED
  BY <1>1, <1>2, MemInv, PTL DEF Spec, ImplementsPrivateMemory, PM!Spec

-----------------------------------------------------------------------------
(* The pages of a file: positions in them. *)

\* The page of a byte and the place of the byte in it.
LEMMA Position ==
    ASSUME NEW n \in Nat
    PROVE  /\ n \div PageSize \in Nat /\ n % PageSize \in 0..(PageSize - 1)
           /\ n = (n \div PageSize) * PageSize + (n % PageSize)
BY SizeAssumption, Division

\* A byte that may be in a file has a page.
LEMMA PositionHasPage ==
    ASSUME NEW n \in 0..(FileMax - 1)
    PROVE  n \div PageSize \in PageNo
<1> DEFINE q == n \div PageSize
           k == FileMax \div PageSize
<1>1. q \in Nat /\ q * PageSize <= n /\ q * PageSize \in Nat
  BY Position, SizeAssumption
<1>2. k \in Nat /\ FileMax = k * PageSize
  BY SizeAssumption, Position
<1>3. ASSUME k <= q PROVE FALSE
  <2>1. k * PageSize <= q * PageSize
    BY <1>1, <1>2, <1>3, SizeAssumption, ProductGrows
  <2> QED
    BY <1>1, <1>2, <2>1, SizeAssumption
<1>4. q \in 0..(k - 1)
  <2> HIDE DEF q, k
  <2> QED
    BY <1>1, <1>2, <1>3
<1> QED
  BY <1>4 DEF PageNo

\* PageCount is the number of pages that begin before the end.
LEMMA PageCountCovers ==
    ASSUME NEW p \in Nat, NEW m \in Nat
    PROVE  p < PageCount(m) <=> p * PageSize < m
<1> DEFINE c == (m + PageSize - 1) \div PageSize
           r == (m + PageSize - 1) % PageSize
<1>0. PageSize \in Nat \ {0} /\ m + PageSize - 1 \in Nat
  BY SizeAssumption
<1>1. c \in Nat /\ r \in 0..(PageSize - 1) /\ m + PageSize - 1 = c * PageSize + r
  BY <1>0, Position
<1>2. PageCount(m) = c
  BY DEF PageCount
<1> HIDE DEF c, r
<1>3. c * PageSize \in Nat /\ p * PageSize \in Nat
  BY <1>0, <1>1
<1>4. CASE p < c
  <2>1. (p + 1) * PageSize <= c * PageSize
    BY <1>0, <1>1, <1>4, ProductGrows
  <2>2. (p + 1) * PageSize = p * PageSize + PageSize
    BY <1>0
  <2> QED
    BY <1>0, <1>1, <1>2, <1>3, <1>4, <2>1, <2>2
<1>5. CASE c <= p
  <2>1. c * PageSize <= p * PageSize
    BY <1>0, <1>1, <1>5, ProductGrows
  <2> QED
    BY <1>0, <1>1, <1>2, <1>3, <1>5, <2>1
<1> QED
  BY <1>1, <1>4, <1>5

\* A byte before the end is in one of these pages.
LEMMA PositionCounted ==
    ASSUME NEW m \in Nat, NEW n \in 0..(m - 1)
    PROVE  n \div PageSize < PageCount(m)
<1>1. n \in Nat /\ n < m
  OBVIOUS
<1>2. n \div PageSize \in Nat /\ (n \div PageSize) * PageSize \in Nat
      /\ (n \div PageSize) * PageSize <= n
  BY <1>1, Position, SizeAssumption
<1>3. (n \div PageSize) * PageSize < m
  BY <1>1, <1>2
<1> QED
  BY <1>2, <1>3, PageCountCovers

\* Strings of bytes are lists.
LEMMA DataList ==
    ASSUME NEW d \in Data
    PROVE  Len(d) \in 0..FileMax /\ d \in [1..Len(d) -> Byte]
<1>1. PICK n \in 0..FileMax : d \in [1..n -> Byte]
  BY DEF Data
<1>2. n \in Nat /\ DOMAIN d = 1..n /\ d = [k \in 1..n |-> d[k]]
  BY <1>1, SizeAssumption
<1>3. Len(d) = n
  BY <1>2, ListLength
<1> QED
  BY <1>1, <1>3

-----------------------------------------------------------------------------
(* The invariant. *)

\* The types of the variables; the archive gives the size while there is an image.
Types ==
    /\ size \in 0..FileMax
    /\ archive = NoPage \/ (archive \in Data /\ size = Len(archive))
    /\ pages \in [PageNo -> FilePage \cup {NoPage}]
    /\ offset \in [File -> 0..FileMax]
    /\ flags \in [File -> SUBSET {"READ", "WRITE", "APPEND"}]

\* Pages hold zeros where they hold nothing of the file: behind its end, and, when
\* vfs_write has failed half way, everywhere while the archive has the contents.
UnusedIsZero ==
    \A p \in PageNo, i \in 0..(PageSize - 1) :
        pages[p] # NoPage /\ (archive # NoPage \/ ByteNo(p, i) >= size) => pages[p][i] = 0

\* The inductive invariant.
FileInv == Types /\ PagesPresent /\ UnusedIsZero

\* FilePage numbers and places in pages are numbers.
LEMMA PageNumbers ==
    /\ PageNo \subseteq Nat /\ PageSize \in Nat \ {0} /\ FileMax \in Nat
    /\ \A p \in PageNo, i \in 0..(PageSize - 1) : p * PageSize \in Nat /\ ByteNo(p, i) \in Nat
<1>1. PageNo \subseteq Nat /\ PageSize \in Nat \ {0} /\ FileMax \in Nat
  BY SizeAssumption DEF PageNo
<1>2. \A p \in Nat, i \in 0..(PageSize - 1) : p * PageSize \in Nat /\ p * PageSize + i \in Nat
  BY <1>1
<1> QED
  BY <1>1, <1>2 DEF ByteNo

\* What is stored at a position is a byte.
LEMMA StoredByte ==
    ASSUME FileInv, NEW n \in 0..(size - 1)
    PROVE  /\ archive # NoPage => Stored(n) = archive[n + 1] /\ archive[n + 1] \in Byte
           /\ archive = NoPage => /\ n \div PageSize \in PageNo
                                  /\ pages[n \div PageSize] \in FilePage
                                  /\ Stored(n) = pages[n \div PageSize][n % PageSize]
           /\ Stored(n) \in Byte
<1>1. size \in Nat /\ FileMax \in Nat /\ n \in Nat /\ n < size /\ size <= FileMax
  BY PageNumbers DEF FileInv, Types
<1>2. CASE archive # NoPage
  <2>1. archive \in [1..size -> Byte]
    BY <1>2, DataList DEF FileInv, Types
  <2>2. n + 1 \in 1..size
    BY <1>1
  <2> QED
    BY <1>2, <2>1, <2>2 DEF Stored
<1>3. CASE archive = NoPage
  <2>1. n \div PageSize \in PageNo
    BY <1>1, PositionHasPage
  <2>2. n \div PageSize < PageCount(size)
    BY <1>1, PositionCounted
  <2>3. pages[n \div PageSize] \in FilePage
    BY <1>3, <2>1, <2>2 DEF FileInv, Types, PagesPresent
  <2>4. n % PageSize \in 0..(PageSize - 1)
    BY <1>1, Position
  <2> QED
    BY <1>3, <2>1, <2>3, <2>4 DEF Stored, FilePage
<1> QED
  BY <1>2, <1>3

\* The contents are a string as long as the file.
LEMMA ContentList ==
    ASSUME FileInv
    PROVE  /\ Content \in [1..size -> Byte] /\ Len(Content) = size /\ size \in 0..FileMax
           /\ \A n \in 0..(size - 1) : Content[n + 1] = Stored(n)
<1>1. size \in Nat /\ size \in 0..FileMax
  BY PageNumbers DEF FileInv, Types
<1>2. \A k \in 1..size : k - 1 \in 0..(size - 1) /\ Stored(k - 1) \in Byte
  <2>1. \A k \in 1..size : k - 1 \in 0..(size - 1)
    BY <1>1
  <2> QED
    BY <2>1, StoredByte
<1>3. Content \in [1..size -> Byte]
  BY <1>2 DEF Content
<1>4. Content = [k \in 1..size |-> Content[k]] /\ DOMAIN Content = 1..size
  BY DEF Content
<1>5. Len(Content) = size
  BY <1>1, <1>4, ListLength
<1>6. ASSUME NEW n \in 0..(size - 1) PROVE Content[n + 1] = Stored(n)
  <2>1. n + 1 \in 1..size /\ (n + 1) - 1 = n
    BY <1>1
  <2> QED
    BY <2>1 DEF Content
<1> QED
  BY <1>1, <1>3, <1>5, <1>6

\* At the start.
LEMMA InvInit == FileInit => FileInv
<1> SUFFICES ASSUME FileInit PROVE FileInv
  OBVIOUS
<1>1. Types
  <2>1. (archive \in Data /\ size = Len(archive)) \/ (archive = NoPage /\ size = 0)
    BY DEF FileInit
  <2>2. size \in 0..FileMax
    BY <2>1, DataList, PageNumbers
  <2>3. 0 \in 0..FileMax
    BY PageNumbers
  <2> QED
    BY <2>1, <2>2, <2>3 DEF FileInit, Types
<1>2. \A p \in PageNo : pages[p] = NoPage
  BY DEF FileInit
<1>3. PagesPresent
  <2> SUFFICES ASSUME archive = NoPage, NEW p \in PageNo, p < PageCount(size)
               PROVE  FALSE
    BY DEF PagesPresent
  <2>1. size = 0
    <3>1. archive \notin Data
      BY NoPageAssumption
    <3> QED
      BY <3>1 DEF FileInit
  <2>2. p \in Nat /\ p * PageSize \in Nat
    BY PageNumbers
  <2>3. p * PageSize < 0
    BY <2>1, <2>2, PageCountCovers
  <2> QED
    BY <2>2, <2>3
<1> QED
  BY <1>1, <1>2, <1>3 DEF FileInv, UnusedIsZero

\* Where a write begins and ends.
LEMMA WriteBounds ==
    ASSUME FileInv, NEW f \in File, NEW data \in Data
    PROVE  /\ Start(f) \in 0..FileMax /\ Len(data) \in Nat /\ End(f, data) \in Nat
           /\ End(f, data) = Start(f) + Len(data)
           /\ data \in [1..Len(data) -> Byte]
           /\ Len(data) <= FileMax - Start(f) => End(f, data) \in 0..FileMax
<1>1. Start(f) \in 0..FileMax
  BY DEF Start, FileInv, Types
<1>2. Len(data) \in 0..FileMax /\ data \in [1..Len(data) -> Byte] /\ FileMax \in Nat
  BY DataList, PageNumbers
<1> QED
  BY <1>1, <1>2 DEF End

\* The longer of the two.
NewSize(f, data) == IF End(f, data) > size THEN End(f, data) ELSE size

\* What vfs_write puts at place i of a page p that it needs, which is byte n of the file.
Put(f, data, p, i, n) ==
    IF n - Start(f) \in 0..(Len(data) - 1) THEN data[n - Start(f) + 1]
    ELSE IF archive # NoPage /\ n < size THEN archive[n + 1]
    ELSE IF pages[p] # NoPage THEN pages[p][i] ELSE 0

\* The pages after vfs_write.
LEMMA WritePages ==
    ASSUME FileInv, NEW f \in File, NEW data \in Data, Write(f, data)
    PROVE  /\ NewSize(f, data) \in 0..FileMax /\ size' = NewSize(f, data)
           /\ archive' = NoPage
           /\ DOMAIN pages' = PageNo
           /\ \A p \in PageNo :
                IF p >= PageCount(NewSize(f, data)) THEN pages'[p] = pages[p]
                ELSE /\ DOMAIN pages'[p] = 0..(PageSize - 1)
                     /\ pages'[p] \in FilePage
                     /\ \A i \in 0..(PageSize - 1) : pages'[p][i] = Put(f, data, p, i, ByteNo(p, i))
<1>0. /\ Start(f) \in 0..FileMax /\ Len(data) \in Nat /\ End(f, data) \in Nat
      /\ data \in [1..Len(data) -> Byte]
      /\ End(f, data) \in 0..FileMax /\ size \in 0..FileMax /\ FileMax \in Nat
  BY WriteBounds, PageNumbers DEF Write, FileInv, Types
<1>1. NewSize(f, data) \in 0..FileMax /\ size' = NewSize(f, data)
  BY <1>0 DEF NewSize, Write
<1>2. PagesNeeded(f, data) = PageCount(NewSize(f, data))
  BY DEF PagesNeeded, NewSize
<1>3. DOMAIN pages' = PageNo /\ archive' = NoPage
  BY DEF Write
<1>4. ASSUME NEW p \in PageNo, p >= PageCount(NewSize(f, data))
      PROVE  pages'[p] = pages[p]
  BY <1>2, <1>4 DEF Write
<1>5. ASSUME NEW p \in PageNo, ~(p >= PageCount(NewSize(f, data)))
      PROVE  /\ DOMAIN pages'[p] = 0..(PageSize - 1)
             /\ pages'[p] \in FilePage
             /\ \A i \in 0..(PageSize - 1) : pages'[p][i] = Put(f, data, p, i, ByteNo(p, i))
  <2>1. pages'[p] = [i \in 0..(PageSize - 1) |->
                        LET at == ByteNo(p, i) - Start(f)
                        IN  IF at \in 0..(Len(data) - 1) THEN data[at + 1]
                            ELSE ensure_pages(PagesNeeded(f, data))[p][i]]
    BY <1>2, <1>5 DEF Write
  <2>2. ASSUME NEW i \in 0..(PageSize - 1)
        PROVE  ensure_pages(PagesNeeded(f, data))[p][i] =
                  IF archive # NoPage /\ ByteNo(p, i) < size THEN archive[ByteNo(p, i) + 1]
                  ELSE IF pages[p] # NoPage THEN pages[p][i] ELSE 0
    BY <1>2, <1>5 DEF ensure_pages
  <2>3. ASSUME NEW i \in 0..(PageSize - 1)
        PROVE  pages'[p][i] = Put(f, data, p, i, ByteNo(p, i))
    BY <2>1, <2>2 DEF Put
  <2>4. ASSUME NEW i \in 0..(PageSize - 1)
        PROVE  Put(f, data, p, i, ByteNo(p, i)) \in Byte
    <3>1. ByteNo(p, i) \in Nat
      BY PageNumbers
    <3>2. PICK n \in Nat : n = ByteNo(p, i)
      BY <3>1
    <3>3. ASSUME n - Start(f) \in 0..(Len(data) - 1)
          PROVE  data[n - Start(f) + 1] \in Byte
      <4>1. n - Start(f) + 1 \in 1..Len(data)
        BY <1>0, <3>3
      <4> QED
        BY <1>0, <4>1
    <3>4. ASSUME archive # NoPage, n < size
          PROVE  archive[n + 1] \in Byte
      <4>1. n \in 0..(size - 1)
        BY <1>0, <3>4
      <4> QED
        BY <3>4, <4>1, StoredByte
    <3>5. pages[p] # NoPage => pages[p][i] \in Byte
      BY DEF FileInv, Types, FilePage
    <3>6. 0 \in Byte
      BY ByteAssumption
    <3>7. Put(f, data, p, i, n) \in Byte
      BY <3>3, <3>4, <3>5, <3>6 DEF Put
    <3> HIDE DEF Put
    <3> QED
      BY <3>2, <3>7
  <2>5. pages'[p] = [i \in 0..(PageSize - 1) |-> pages'[p][i]]
    BY <2>1
  <2>6. pages'[p] \in FilePage
    BY <2>3, <2>4, <2>5 DEF FilePage
  <2> QED
    BY <2>3, <2>5, <2>6
<1> QED
  BY <1>1, <1>3, <1>4, <1>5

\* vfs_write keeps the invariant.
LEMMA InvWrite ==
    ASSUME FileInv, NEW f \in File, NEW data \in Data, Write(f, data)
    PROVE  FileInv'
<1> DEFINE new == NewSize(f, data)
<1>0. /\ new \in 0..FileMax /\ new \in Nat /\ size' = new /\ archive' = NoPage
      /\ DOMAIN pages' = PageNo /\ FileMax \in Nat /\ size \in Nat
  BY WritePages, PageNumbers DEF FileInv, Types
<1>1. new >= size /\ new >= End(f, data) /\ End(f, data) = Start(f) + Len(data)
      /\ Start(f) \in Nat /\ Len(data) \in Nat /\ End(f, data) \in 0..FileMax
  BY WriteBounds, PageNumbers DEF NewSize, Write, FileInv, Types
<1>2. \A p \in PageNo : p >= PageCount(new) => pages'[p] = pages[p]
  BY WritePages
<1>3. \A p \in PageNo : ~(p >= PageCount(new)) =>
         /\ pages'[p] \in FilePage
         /\ \A i \in 0..(PageSize - 1) : pages'[p][i] = Put(f, data, p, i, ByteNo(p, i))
  BY WritePages
<1> HIDE DEF new
<1>4. Types'
  <2>1. \A p \in PageNo : pages'[p] \in FilePage \cup {NoPage}
    BY <1>2, <1>3 DEF FileInv, Types
  <2>2. pages' = [p \in PageNo |-> pages'[p]]
    BY DEF Write
  <2>3. pages' \in [PageNo -> FilePage \cup {NoPage}]
    BY <2>1, <2>2
  <2>4. offset' \in [File -> 0..FileMax] /\ flags' = flags
    BY <1>1 DEF Write, FileInv, Types
  <2> QED
    BY <1>0, <2>3, <2>4 DEF FileInv, Types
<1>5. PagesPresent'
  <2> SUFFICES ASSUME NEW p \in PageNo, p < PageCount(new)
               PROVE  pages'[p] # NoPage
    BY <1>0 DEF PagesPresent, PageCount
  <2>1. PageCount(new) \in Int /\ p \in Int
    BY <1>0, PageNumbers, SizeAssumption DEF PageCount
  <2>2. pages'[p] \in FilePage
    BY <1>3, <2>1
  <2> QED
    BY <2>2, NoPageAssumption
<1>6. UnusedIsZero'
  <2> SUFFICES ASSUME NEW p \in PageNo, NEW i \in 0..(PageSize - 1),
                      pages'[p] # NoPage, ByteNo(p, i) >= new
               PROVE  pages'[p][i] = 0
    BY <1>0 DEF UnusedIsZero
  <2>1. PICK n \in Nat : n = ByteNo(p, i)
    BY PageNumbers
  <2>2. n >= size /\ n >= End(f, data)
    BY <1>0, <1>1, <2>1
  <2>3. pages[p] # NoPage => pages[p][i] = 0
    BY <2>1, <2>2 DEF FileInv, UnusedIsZero
  <2>4. CASE p >= PageCount(new)
    BY <1>2, <2>3, <2>4
  <2>5. CASE ~(p >= PageCount(new))
    <3>1. pages'[p][i] = Put(f, data, p, i, n)
      BY <1>3, <2>1, <2>5
    <3>2. ~(n - Start(f) \in 0..(Len(data) - 1)) /\ ~(n < size)
      BY <1>0, <1>1, <2>2
    <3> QED
      BY <2>3, <3>1, <3>2 DEF Put
  <2> QED
    BY <2>4, <2>5
<1> QED
  BY <1>4, <1>5, <1>6 DEF FileInv

\* The contents after vfs_write: what was written, what was there, and zeros between.
LEMMA ContentWrite ==
    ASSUME FileInv, NEW f \in File, NEW data \in Data, Write(f, data)
    PROVE  Content' = [k \in 1..NewSize(f, data) |->
              IF k > Start(f) /\ k <= Start(f) + Len(data) THEN data[k - Start(f)]
              ELSE IF k <= size THEN Content[k] ELSE 0]
<1> DEFINE new == NewSize(f, data)
<1>0. /\ new \in 0..FileMax /\ new \in Nat /\ size' = new /\ archive' = NoPage
      /\ FileMax \in Nat /\ size \in Nat
  BY WritePages, PageNumbers DEF FileInv, Types
<1>1. Start(f) \in Nat /\ Len(data) \in Nat
  BY WriteBounds, PageNumbers
<1>2. \A p \in PageNo : ~(p >= PageCount(new)) =>
         \A i \in 0..(PageSize - 1) : pages'[p][i] = Put(f, data, p, i, ByteNo(p, i))
  BY WritePages
<1> HIDE DEF new
<1>3. ASSUME NEW k \in 1..new
      PROVE  Stored(k - 1)' = IF k > Start(f) /\ k <= Start(f) + Len(data) THEN data[k - Start(f)]
                              ELSE IF k <= size THEN Content[k] ELSE 0
  <2>1. PICK n \in 0..(new - 1) : n = k - 1
    BY <1>0
  <2>2. n \in Nat /\ n \in 0..(FileMax - 1)
    BY <1>0
  <2>3. PICK p \in PageNo : p = n \div PageSize
    BY <2>2, PositionHasPage
  <2>4. PICK i \in 0..(PageSize - 1) : i = n % PageSize
    BY <2>2, Position
  <2>5. n = ByteNo(p, i)
    BY <2>2, <2>3, <2>4, Position DEF ByteNo
  <2>6. ~(p >= PageCount(new))
    <3>1. p < PageCount(new)
      BY <1>0, <2>3, PositionCounted
    <3>2. PageCount(new) \in Int /\ p \in Int
      BY <1>0, PageNumbers, SizeAssumption DEF PageCount
    <3> QED
      BY <3>1, <3>2
  <2>7. Stored(n)' = pages'[p][i]
    BY <1>0, <2>3, <2>4 DEF Stored
  <2>8. Stored(n)' = Put(f, data, p, i, n)
    BY <1>2, <2>5, <2>6, <2>7
  <2>9. k \in Nat /\ k = n + 1
    BY <1>0, <2>1
  <2>10. CASE k > Start(f) /\ k <= Start(f) + Len(data)
    <3>1. n - Start(f) \in 0..(Len(data) - 1) /\ n - Start(f) + 1 = k - Start(f)
      BY <1>1, <2>9, <2>10
    <3> QED
      BY <2>1, <2>8, <2>10, <3>1 DEF Put
  <2>11. CASE ~(k > Start(f) /\ k <= Start(f) + Len(data))
    <3>1. ~(n - Start(f) \in 0..(Len(data) - 1))
      BY <1>1, <2>2, <2>9, <2>11
    <3>2. CASE n < size
      <4>1. n \in 0..(size - 1) /\ k <= size
        BY <1>0, <2>9, <3>2
      <4>2. Content[k] = Stored(n)
        BY <2>9, <4>1, ContentList
      <4>3. Put(f, data, p, i, n) = Stored(n)
        <5>1. archive # NoPage => Stored(n) = archive[n + 1]
          BY <4>1, StoredByte
        <5>2. archive = NoPage => pages[p] \in FilePage /\ Stored(n) = pages[p][i]
          BY <2>3, <2>4, <4>1, StoredByte
        <5> QED
          BY <3>1, <3>2, <5>1, <5>2, NoPageAssumption DEF Put
      <4> QED
        BY <2>1, <2>8, <2>11, <4>1, <4>2, <4>3
    <3>3. CASE ~(n < size)
      <4>1. ~(k <= size) /\ ByteNo(p, i) >= size
        BY <1>0, <2>5, <2>9, <3>3
      <4>2. pages[p] # NoPage => pages[p][i] = 0
        BY <4>1 DEF FileInv, UnusedIsZero
      <4>3. Put(f, data, p, i, n) = 0
        BY <3>1, <3>3, <4>2 DEF Put
      <4> QED
        BY <2>1, <2>8, <2>11, <4>1, <4>3
    <3> QED
      BY <3>2, <3>3
  <2> QED
    BY <2>10, <2>11
<1>4. Content' = [k \in 1..new |-> Stored(k - 1)']
  BY <1>0 DEF Content
<1> QED
  BY <1>3, <1>4 DEF new

\* vfs_write that runs out of pages: it leaves the contents alone.
LEMMA InvNoMemory ==
    ASSUME FileInv, NEW f \in File, NEW data \in Data, WriteNoMemory(f, data)
    PROVE  FileInv' /\ Content' = Content
<1>0. /\ UNCHANGED <<archive, size, flags>> /\ Start(f) \in 0..FileMax
      /\ offset' = [offset EXCEPT ![f] = Start(f)]
  BY WriteBounds DEF WriteNoMemory
<1>1. PICK p \in PageNo :
        pages' = [q \in PageNo |-> IF q < p /\ pages[q] = NoPage THEN ZeroPage ELSE pages[q]]
  BY DEF WriteNoMemory
<1>2. ZeroPage \in FilePage /\ \A i \in 0..(PageSize - 1) : ZeroPage[i] = 0
  BY ByteAssumption DEF ZeroPage, FilePage
<1>3. \A q \in PageNo : pages[q] # NoPage => pages'[q] = pages[q]
  BY <1>1
<1>4. \A q \in PageNo : pages[q] = NoPage => pages'[q] \in {NoPage, ZeroPage}
  BY <1>1
<1>5. Types'
  <2>1. pages' \in [PageNo -> FilePage \cup {NoPage}]
    BY <1>1, <1>2 DEF FileInv, Types
  <2>2. offset' \in [File -> 0..FileMax]
    BY <1>0 DEF FileInv, Types
  <2> QED
    BY <1>0, <2>1, <2>2 DEF FileInv, Types
<1>6. PagesPresent'
  BY <1>0, <1>3 DEF FileInv, PagesPresent
<1>7. UnusedIsZero'
  BY <1>0, <1>2, <1>3, <1>4 DEF FileInv, UnusedIsZero
<1>8. \A k \in 1..size : Stored(k - 1)' = Stored(k - 1)
  <2> SUFFICES ASSUME NEW k \in 1..size PROVE Stored(k - 1)' = Stored(k - 1)
    OBVIOUS
  <2>1. k - 1 \in 0..(size - 1)
    BY PageNumbers DEF FileInv, Types
  <2>2. CASE archive # NoPage
    BY <1>0, <2>2 DEF Stored
  <2>3. CASE archive = NoPage
    <3>1. pages[(k - 1) \div PageSize] \in FilePage /\ (k - 1) \div PageSize \in PageNo
      BY <2>1, <2>3, StoredByte
    <3>2. pages'[(k - 1) \div PageSize] = pages[(k - 1) \div PageSize]
      BY <1>3, <3>1, NoPageAssumption
    <3> QED
      BY <1>0, <2>3, <3>2 DEF Stored
  <2> QED
    BY <2>2, <2>3
<1> QED
  BY <1>0, <1>5, <1>6, <1>7, <1>8 DEF FileInv, Content

\* Calls that move offsets and change flags alone.
LEMMA InvMoves ==
    ASSUME FileInv, UNCHANGED <<archive, pages, size>>,
           offset' \in [File -> 0..FileMax],
           flags' \in [File -> SUBSET {"READ", "WRITE", "APPEND"}]
    PROVE  FileInv' /\ Content' = Content
BY DEF FileInv, Types, PagesPresent, UnusedIsZero, Content, Stored

\* vfs_open that truncates.
LEMMA InvTruncate ==
    ASSUME FileInv, NEW f \in File, NEW g \in FileFlags, OpenTruncate(f, g)
    PROVE  FileInv' /\ Content' = <<>>
<1>1. /\ archive' = NoPage /\ size' = 0 /\ \A p \in PageNo : pages'[p] = NoPage
      /\ pages' \in [PageNo -> FilePage \cup {NoPage}]
  BY DEF OpenTruncate, release_pages
<1>2. 0 \in 0..FileMax
  BY PageNumbers
<1>3. Types'
  <2>1. offset' \in [File -> 0..FileMax]
    BY <1>2 DEF OpenTruncate, FileInv, Types
  <2>2. flags' \in [File -> SUBSET {"READ", "WRITE", "APPEND"}]
    BY DEF OpenTruncate, FileFlags, FileInv, Types
  <2> QED
    BY <1>1, <1>2, <2>1, <2>2 DEF Types
<1>4. PagesPresent'
  <2> SUFFICES ASSUME NEW p \in PageNo, p < PageCount(0) PROVE FALSE
    BY <1>1 DEF PagesPresent, PageCount
  <2>1. p \in Nat /\ p * PageSize \in Nat
    BY PageNumbers
  <2>2. p * PageSize < 0
    BY <2>1, PageCountCovers
  <2> QED
    BY <2>1, <2>2
<1>5. UnusedIsZero'
  BY <1>1 DEF UnusedIsZero
<1>6. Content' = <<>>
  <2>1. Content' = [k \in 1..0 |-> Stored(k - 1)']
    BY <1>1 DEF Content
  <2>2. 1..0 = {}
    OBVIOUS
  <2> QED
    BY <2>1, <2>2
<1> QED
  BY <1>3, <1>4, <1>5, <1>6 DEF FileInv

-----------------------------------------------------------------------------
(* Every call is a step of ByteFile. *)

\* Offsets stay within the limit when one of them moves.
LEMMA OneMoves ==
    ASSUME FileInv, NEW f \in File, NEW x \in 0..FileMax, offset' = [offset EXCEPT ![f] = x],
           flags' = flags, UNCHANGED <<archive, pages, size>>, flags[f] # {}
    PROVE  FileInv' /\ BF!BMove(f)
<1>1. offset' \in [File -> 0..FileMax]
  BY DEF FileInv, Types
<1>2. FileInv' /\ Content' = Content
  BY <1>1, InvMoves DEF FileInv, Types
<1> QED
  BY <1>2 DEF BF!BMove

\* A step of VfsData keeps the invariant and is a step of ByteFile.
LEMMA CallSteps ==
    ASSUME FileInv, NEW f \in File,
           \/ \E g \in FileFlags : Open(f, g) \/ OpenTruncate(f, g)
           \/ Close(f)
           \/ \E n \in 1..FileMax : Read(f, n)
           \/ \E data \in Data \ {<<>>} :
               Write(f, data) \/ WriteTooLong(f, data) \/ WriteNoMemory(f, data)
           \/ \E d \in (-FileMax)..FileMax, origin \in {"SET", "CURRENT", "END"} :
               Seek(f, d, origin)
    PROVE  FileInv' /\ (BF!BOpen(f) \/ BF!BClose(f) \/ BF!BMove(f) \/ BF!BWrite(f))
<1>0. /\ FileMax \in Nat /\ size \in 0..FileMax /\ offset \in [File -> 0..FileMax]
      /\ flags \in [File -> SUBSET {"READ", "WRITE", "APPEND"}]
      /\ Len(Content) = size
  BY PageNumbers, ContentList DEF FileInv, Types
<1>1. ASSUME NEW g \in FileFlags, Open(f, g) PROVE FileInv' /\ BF!BOpen(f)
  <2>1. g \in SUBSET {"READ", "WRITE", "APPEND"}
    BY DEF FileFlags
  <2>2. /\ offset' = [offset EXCEPT ![f] = IF "APPEND" \in g THEN size ELSE 0]
        /\ flags' = [flags EXCEPT ![f] = g] /\ UNCHANGED <<archive, pages, size>>
        /\ flags[f] = {}
    BY <1>1 DEF Open
  <2>3. offset' \in [File -> 0..FileMax] /\ flags' \in [File -> SUBSET {"READ", "WRITE", "APPEND"}]
    BY <1>0, <2>1, <2>2
  <2>4. FileInv' /\ Content' = Content
    BY <2>2, <2>3, InvMoves
  <2> QED
    BY <1>0, <2>1, <2>2, <2>4 DEF BF!BOpen
<1>2. ASSUME NEW g \in FileFlags, OpenTruncate(f, g) PROVE FileInv' /\ BF!BOpen(f)
  <2>1. g \in SUBSET {"READ", "WRITE", "APPEND"}
    BY DEF FileFlags
  <2>2. FileInv' /\ Content' = <<>> /\ Len(<<>>) = 0
    BY <1>2, InvTruncate
  <2>3. /\ flags[f] = {} /\ flags' = [flags EXCEPT ![f] = g] /\ "WRITE" \in g
        /\ offset' = [offset EXCEPT ![f] = 0]
    BY <1>2 DEF OpenTruncate
  <2>4. offset' = [offset EXCEPT ![f] = IF "APPEND" \in g THEN Len(Content') ELSE 0]
    BY <2>2, <2>3
  <2> QED
    BY <2>1, <2>2, <2>3, <2>4 DEF BF!BOpen
<1>3. ASSUME Close(f) PROVE FileInv' /\ BF!BClose(f)
  <2>1. /\ offset' = [offset EXCEPT ![f] = 0] /\ flags' = [flags EXCEPT ![f] = {}]
        /\ UNCHANGED <<archive, pages, size>> /\ flags[f] # {}
    BY <1>3 DEF Close
  <2>2. offset' \in [File -> 0..FileMax] /\ flags' \in [File -> SUBSET {"READ", "WRITE", "APPEND"}]
    BY <1>0, <2>1
  <2>3. FileInv' /\ Content' = Content
    BY <2>1, <2>2, InvMoves
  <2> QED
    BY <2>1, <2>3 DEF BF!BClose
<1>4. ASSUME NEW n \in 1..FileMax, Read(f, n) PROVE FileInv' /\ BF!BMove(f)
  <2>1. offset[f] \in 0..FileMax /\ n \in Nat
    BY <1>0
  <2>2. PICK x : x = offset[f] + Available(offset[f], n)
    OBVIOUS
  <2>3. x \in 0..FileMax
    BY <1>0, <2>1, <2>2 DEF Available
  <2>4. /\ offset' = [offset EXCEPT ![f] = x] /\ flags[f] # {}
        /\ UNCHANGED <<archive, pages, size, flags>>
    BY <1>4, <2>2 DEF Read
  <2> QED
    BY <2>3, <2>4, OneMoves
<1>5. ASSUME NEW data \in Data, Write(f, data) PROVE FileInv' /\ BF!BWrite(f)
  <2>1. FileInv'
    BY <1>5, InvWrite
  <2>2. /\ Start(f) \in Nat /\ Len(data) \in Nat /\ End(f, data) = Start(f) + Len(data)
        /\ Start(f) + Len(data) <= FileMax
    BY <1>0, <1>5, WriteBounds DEF Write
  <2>3. Start(f) = IF "APPEND" \in flags[f] THEN Len(Content) ELSE offset[f]
    BY <1>0 DEF Start
  <2>4. NewSize(f, data) = BF!Longer(Len(Content), Start(f) + Len(data))
    BY <1>0, <2>2 DEF NewSize, BF!Longer
  <2>5. Content' = BF!Written(Start(f), data)
    BY <1>0, <1>5, <2>4, ContentWrite DEF BF!Written
  <2>6. /\ "WRITE" \in flags[f] /\ flags' = flags
        /\ offset' = [offset EXCEPT ![f] = Start(f) + Len(data)]
    BY <1>5, <2>2 DEF Write
  <2>7. data \in BF!Strings
    BY DEF Data, BF!Strings
  <2> QED
    BY <2>1, <2>2, <2>3, <2>5, <2>6, <2>7 DEF BF!BWrite
<1>6. ASSUME NEW data \in Data, WriteTooLong(f, data) PROVE FileInv' /\ BF!BMove(f)
  <2>1. Start(f) \in 0..FileMax
    BY WriteBounds
  <2>2. /\ offset' = [offset EXCEPT ![f] = Start(f)] /\ flags[f] # {}
        /\ UNCHANGED <<archive, pages, size, flags>>
    BY <1>6 DEF WriteTooLong
  <2> QED
    BY <2>1, <2>2, OneMoves
<1>7. ASSUME NEW data \in Data, WriteNoMemory(f, data) PROVE FileInv' /\ BF!BMove(f)
  <2>1. Start(f) \in 0..FileMax
    BY WriteBounds
  <2>2. offset' = [offset EXCEPT ![f] = Start(f)] /\ flags[f] # {} /\ flags' = flags
    BY <1>7 DEF WriteNoMemory
  <2>3. FileInv' /\ Content' = Content
    BY <1>7, InvNoMemory
  <2> QED
    BY <2>1, <2>2, <2>3 DEF BF!BMove
<1>8. ASSUME NEW d \in (-FileMax)..FileMax, NEW origin \in {"SET", "CURRENT", "END"},
             Seek(f, d, origin)
      PROVE  FileInv' /\ BF!BMove(f)
  <2>1. PICK x \in 0..FileMax : x = Base(f, origin) + d
    BY <1>8 DEF Seek
  <2>2. /\ offset' = [offset EXCEPT ![f] = x] /\ flags[f] # {}
        /\ UNCHANGED <<archive, pages, size, flags>>
    BY <1>8, <2>1 DEF Seek
  <2> QED
    BY <2>2, OneMoves
<1> QED
  BY <1>1, <1>2, <1>3, <1>4, <1>5, <1>6, <1>7, <1>8

\* Every step, the stuttering ones included.
LEMMA InvNext == FileInv /\ [FileNext]_file_vars => FileInv' /\ [BF!BNext]_(BF!bvars)
<1> SUFFICES ASSUME FileInv, [FileNext]_file_vars PROVE FileInv' /\ [BF!BNext]_(BF!bvars)
  OBVIOUS
<1>1. CASE FileNext
  <2>1. PICK f \in File :
           \/ \E g \in FileFlags : Open(f, g) \/ OpenTruncate(f, g)
           \/ Close(f)
           \/ \E n \in 1..FileMax : Read(f, n)
           \/ \E data \in Data \ {<<>>} :
               Write(f, data) \/ WriteTooLong(f, data) \/ WriteNoMemory(f, data)
           \/ \E d \in (-FileMax)..FileMax, origin \in {"SET", "CURRENT", "END"} :
               Seek(f, d, origin)
    BY <1>1 DEF FileNext
  <2>2. FileInv' /\ (BF!BOpen(f) \/ BF!BClose(f) \/ BF!BMove(f) \/ BF!BWrite(f))
    BY <2>1, CallSteps
  <2> QED
    BY <2>2 DEF BF!BNext
<1>2. CASE UNCHANGED file_vars
  <2>1. UNCHANGED <<archive, pages, size, offset, flags>>
    BY <1>2 DEF file_vars
  <2>2. FileInv' /\ Content' = Content
    BY <2>1, InvMoves DEF FileInv, Types
  <2> QED
    BY <2>1, <2>2 DEF BF!bvars
<1> QED
  BY <1>1, <1>2

\* The beginning.
LEMMA InitBytes == FileInit => BF!BInit
<1> SUFFICES ASSUME FileInit PROVE BF!BInit
  OBVIOUS
<1>1. FileInv
  BY InvInit
<1>2. Content \in [1..size -> Byte] /\ size \in 0..FileMax
  BY <1>1, ContentList
<1>3. Content \in BF!Strings
  BY <1>2 DEF BF!Strings
<1> QED
  BY <1>3 DEF FileInit, BF!BInit

\* vfs_init, vfs_open, vfs_write and release_pages keep the invariant.
THEOREM DataInv == FileSpec => []FileInv
<1>1. FileInv /\ [FileNext]_file_vars => FileInv'
  BY InvNext
<1> QED
  BY <1>1, InvInit, PTL DEF FileSpec

\* No read meets a missing page, also after vfs_write has failed half way.
THEOREM DataPagesPresent == FileSpec => []PagesPresent
<1>1. FileInv => PagesPresent
  BY DEF FileInv
<1> QED
  BY <1>1, DataInv, PTL

\* What lies behind the end of the file in its pages is zero, so that vfs_write behind the
\* end leaves a gap of zeros and not of old bytes.
THEOREM DataTailIsZero == FileSpec => []TailIsZero
<1>1. FileInv => TailIsZero
  BY DEF FileInv, UnusedIsZero, TailIsZero
<1> QED
  BY <1>1, DataInv, PTL

\* vfs_read of a whole file, as the loader does it, returns what is in the file.
THEOREM DataLoaderReads == FileSpec => []LoaderReads
<1>1. FileInv => LoaderReads
  <2> SUFFICES ASSUME FileInv PROVE LoaderReads
    OBVIOUS
  <2>1. size \in Nat
    BY PageNumbers DEF FileInv, Types
  <2>2. Available(0, size) = size
    BY <2>1 DEF Available
  <2>3. ASSUME NEW k \in 1..size PROVE Copied(0, k - 1) = Stored(k - 1)
    <3>1. PICK n \in Nat : n = k - 1 /\ 0 + (k - 1) = n
      BY <2>1
    <3>2. n % PageSize \in 0..(PageSize - 1) /\ n \div PageSize \in Nat
          /\ n = (n \div PageSize) * PageSize + (n % PageSize) /\ PageSize \in Nat \ {0}
      BY Position, SizeAssumption
    <3>3. PICK r \in Nat : r = n % PageSize
      BY <3>2
    <3>4. (n \div PageSize) * PageSize \in Nat
      BY <3>2
    <3>5. n - r >= 0
      BY <3>2, <3>3, <3>4
    <3>6. n - (IF n - r > 0 THEN n - r ELSE 0) = r
      BY <3>5
    <3> QED
      BY <3>1, <3>3, <3>6 DEF Copied, Stored
  <2> QED
    BY <2>2, <2>3 DEF LoaderReads, vfs_read, Content
<1> QED
  BY <1>1, DataInv, PTL

\* The VFS implements the sequence of bytes: whichever opener writes, truncates, appends,
\* seeks or fails to, the file holds what was written and zeros in the gaps.
THEOREM DataImplementsByteFile == FileSpec => ImplementsByteFile
<1>1. FileInv /\ [FileNext]_file_vars => [BF!BNext]_(BF!bvars)
  BY InvNext
<1> QED
  BY <1>1, InitBytes, DataInv, PTL DEF FileSpec, ImplementsByteFile, BF!BSpec
=============================================================================
