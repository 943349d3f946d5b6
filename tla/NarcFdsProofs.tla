-------------------------- MODULE NarcFdsProofs --------------------------
(***************************************************************************)
(* Proofs about NarcFds, for any number of tasks, descriptors, open files  *)
(* and pipes: structs live exactly as long as a descriptor leads to them,  *)
(* and pipes and the console are what BytePipes says.                      *)
(***************************************************************************)
EXTENDS NarcFds, NaturalLemmas, FiniteSetTheorems, SequenceTheorems

-----------------------------------------------------------------------------
(* Tables. *)

\* A table has a size, and descriptors below it.
LEMMA TableSize ==
    ASSUME NEW tab \in Table
    PROVE  \E n \in FdCount..FdMax :
              /\ tab \in [0..(n - 1) -> File \cup {None}] /\ DOMAIN tab = 0..(n - 1)
              /\ IsFiniteSet(DOMAIN tab) /\ Cardinality(DOMAIN tab) = n /\ n \in Nat \ {0}
<1>1. PICK n \in FdCount..FdMax : tab \in [0..(n - 1) -> File \cup {None}]
  BY DEF Table
<1>2. n \in Nat \ {0}
  BY SizeAssumption
<1>3. DOMAIN tab = 0..(n - 1)
  BY <1>1
<1>4. IsFiniteSet(0..(n - 1)) /\ Cardinality(0..(n - 1)) = n
  BY <1>2, FS_Interval
<1> QED
  BY <1>1, <1>2, <1>3, <1>4

\* Descriptors are numbers below the bound.
LEMMA TableDomain ==
    ASSUME NEW tab \in Table
    PROVE  /\ DOMAIN tab \subseteq 0..(FdMax - 1) /\ IsFiniteSet(DOMAIN tab)
           /\ \A fd \in DOMAIN tab : tab[fd] \in File \cup {None}
           /\ tab # None
<1>1. PICK n \in FdCount..FdMax :
              /\ tab \in [0..(n - 1) -> File \cup {None}] /\ DOMAIN tab = 0..(n - 1)
              /\ IsFiniteSet(DOMAIN tab)
  BY TableSize
<1>2. 0..(n - 1) \subseteq 0..(FdMax - 1)
  BY SizeAssumption
<1> QED
  BY <1>1, <1>2, NoneAssumption

\* The loop of fd_reserve ends with a size that has room for the descriptor.
LEMMA DoubledFits ==
    ASSUME NEW n \in Nat \ {0}, NEW fd \in Nat
    PROVE  Doubled(n, fd) \in Nat /\ Doubled(n, fd) > fd /\ Doubled(n, fd) >= n
<1> DEFINE Is(g) == g = [k \in 0..fd |-> IF k = 0 THEN n ELSE 2 * g[k - 1]]
           count == CHOOSE g : Is(g)
           found == {k \in 0..fd : count[k] > fd}
<1>1. Doubled(n, fd) =
         count[CHOOSE k \in 0..fd : count[k] > fd /\ \A j \in 0..(k - 1) : count[j] <= fd]
  BY DEF Doubled
<1>2. \E g : Is(g)
  <2> DEFINE twice == [k \in 1..fd |-> [x \in Nat |-> 2 * x]]
  <2>1. twice \in [1..fd -> [Nat -> Nat]]
    OBVIOUS
  <2>2. \A k \in 1..fd, x \in Nat : twice[k][x] = 2 * x
    OBVIOUS
  <2> HIDE DEF twice
  <2>3. PICK g \in [0..fd -> Nat] : Rounds(g, n, twice, fd)
    BY <2>1, RoundsExist
  <2>4. ASSUME NEW k \in 0..fd
        PROVE  g[k] = IF k = 0 THEN n ELSE 2 * g[k - 1]
    <3>1. g[k] = IF k = 0 THEN n ELSE twice[k][g[k - 1]]
      BY <2>3 DEF Rounds
    <3>2. k # 0 => k \in 1..fd /\ k - 1 \in 0..fd
      OBVIOUS
    <3> QED
      BY <2>2, <2>3, <3>1, <3>2
  <2>5. Is(g)
    BY <2>3, <2>4
  <2> QED
    BY <2>5
<1>3. Is(count)
  <2> HIDE DEF Is
  <2> QED
    BY <1>2
<1> HIDE DEF count
<1>4. \A k \in 0..fd : count[k] \in Nat /\ count[k] >= n + k
  <2> DEFINE S == {k \in Nat : k <= fd => count[k] \in Nat /\ count[k] >= n + k}
  <2>1. 0 \in S
    BY <1>3
  <2>2. ASSUME NEW k \in Nat, k \in S PROVE k + 1 \in S
    <3> SUFFICES ASSUME k + 1 <= fd PROVE count[k + 1] \in Nat /\ count[k + 1] >= n + (k + 1)
      OBVIOUS
    <3>1. count[k] \in Nat /\ count[k] >= n + k
      BY <2>2
    <3>2. k + 1 \in 0..fd /\ k + 1 # 0 /\ (k + 1) - 1 = k
      OBVIOUS
    <3>3. count[k + 1] = 2 * count[k]
      BY <1>3, <3>2
    <3> QED
      BY <3>1, <3>3
  <2>3. Nat \subseteq S
    <3> HIDE DEF S
    <3> QED
      BY <2>1, <2>2, SetInduction
  <2> QED
    BY <2>3
<1>5. fd \in found /\ found \subseteq Nat
  <2>1. fd \in 0..fd
    OBVIOUS
  <2>2. count[fd] \in Nat /\ count[fd] >= n + fd
    BY <1>4, <2>1
  <2>3. count[fd] > fd
    BY <2>2
  <2> QED
    BY <2>1, <2>3
<1>6. PICK k \in found : \A j \in found : k <= j
  <2> HIDE DEF found
  <2> QED
    BY <1>5, LeastNatural
<1>7. k \in 0..fd /\ count[k] > fd /\ \A j \in 0..(k - 1) : count[j] <= fd
  <2>1. k \in 0..fd /\ count[k] > fd
    BY <1>6
  <2>2. ASSUME NEW j \in 0..(k - 1) PROVE count[j] <= fd
    <3>1. j \in 0..fd /\ ~(k <= j)
      BY <2>1
    <3>2. j \notin found /\ count[j] \in Nat
      BY <1>4, <1>6, <3>1
    <3> QED
      BY <3>1, <3>2
  <2> QED
    BY <2>1, <2>2
<1>8. PICK m \in 0..fd : m = CHOOSE i \in 0..fd : count[i] > fd /\ \A j \in 0..(i - 1) : count[j] <= fd
  BY <1>7
<1>9. count[m] > fd
  BY <1>7, <1>8
<1>10. count[m] \in Nat /\ count[m] >= n
  BY <1>4, <1>8
<1> QED
  BY <1>1, <1>8, <1>9, <1>10

\* fd_reserve gives a table with room for the descriptor and keeps what is in it.
LEMMA ReserveTable ==
    ASSUME NEW tab \in Table, NEW fd \in Nat, Reserves(tab, fd)
    PROVE  LET new == fd_reserve(tab, fd)
           IN  /\ new \in Table /\ fd \in DOMAIN new /\ DOMAIN tab \subseteq DOMAIN new
               /\ \A i \in DOMAIN new : new[i] = IF i \in DOMAIN tab THEN tab[i] ELSE None
<1>1. PICK n \in FdCount..FdMax :
              /\ tab \in [0..(n - 1) -> File \cup {None}] /\ DOMAIN tab = 0..(n - 1)
              /\ Cardinality(DOMAIN tab) = n /\ n \in Nat \ {0}
  BY TableSize
<1>2. PICK m : m = Doubled(n, fd)
  OBVIOUS
<1>3. m \in Nat /\ m > fd /\ m >= n /\ m <= FdMax
  BY <1>1, <1>2, DoubledFits DEF Reserves
<1>4. m \in FdCount..FdMax /\ fd \in 0..(m - 1) /\ 0..(n - 1) \subseteq 0..(m - 1)
  BY <1>1, <1>3, SizeAssumption
<1>5. fd_reserve(tab, fd) = [i \in 0..(m - 1) |-> IF i \in DOMAIN tab THEN tab[i] ELSE None]
  BY <1>1, <1>2 DEF fd_reserve
<1>6. fd_reserve(tab, fd) \in [0..(m - 1) -> File \cup {None}]
  BY <1>1, <1>5
<1>7. fd_reserve(tab, fd) \in Table
  BY <1>4, <1>6 DEF Table
<1> QED
  BY <1>1, <1>4, <1>5, <1>7

\* There is a lowest free descriptor.
LEMMA SlotFree ==
    ASSUME NEW tab \in Table, NEW minimum \in Nat
    PROVE  /\ Slot(tab, minimum) \in Nat
           /\ Slot(tab, minimum) \notin DOMAIN tab \/ tab[Slot(tab, minimum)] = None
<1> DEFINE Free(fd) == fd \notin DOMAIN tab \/ tab[fd] = None
           free == {fd \in minimum..(minimum + FdMax) : Free(fd)}
<1>1. minimum + FdMax \in free /\ free \subseteq Nat
  <2>1. DOMAIN tab \subseteq 0..(FdMax - 1)
    BY TableDomain
  <2>2. minimum + FdMax \notin DOMAIN tab
    BY <2>1, SizeAssumption
  <2>3. minimum + FdMax \in minimum..(minimum + FdMax) /\ minimum..(minimum + FdMax) \subseteq Nat
    BY SizeAssumption
  <2> QED
    BY <2>2, <2>3
<1>2. PICK s \in free : \A x \in free : s <= x
  <2> HIDE DEF free
  <2> QED
    BY <1>1, LeastNatural
<1>3. \A i \in minimum..(s - 1) : i \in DOMAIN tab /\ tab[i] # None
  <2> SUFFICES ASSUME NEW i \in minimum..(s - 1) PROVE ~Free(i)
    OBVIOUS
  <2>1. i \in minimum..(minimum + FdMax) /\ ~(s <= i)
    BY <1>1, <1>2, SizeAssumption
  <2> QED
    BY <1>2, <2>1
<1>4. \E fd \in minimum..(minimum + FdMax) :
        /\ fd \notin DOMAIN tab \/ tab[fd] = None
        /\ \A i \in minimum..(fd - 1) : i \in DOMAIN tab /\ tab[i] # None
  BY <1>2, <1>3
<1>5. /\ Slot(tab, minimum) \in minimum..(minimum + FdMax)
      /\ Slot(tab, minimum) \notin DOMAIN tab \/ tab[Slot(tab, minimum)] = None
  BY <1>4 DEF Slot
<1> QED
  BY <1>5, SizeAssumption

\* fd_install puts the open file into a free slot and leaves the others alone.
LEMMA InstallTable ==
    ASSUME NEW tab \in Table, NEW f \in File, NEW minimum \in Nat,
           Reserves(tab, Slot(tab, minimum))
    PROVE  LET new == fd_install(tab, f, minimum)
               s == Slot(tab, minimum)
           IN  /\ new \in Table /\ s \in DOMAIN new /\ new[s] = f
               /\ DOMAIN tab \subseteq DOMAIN new
               /\ \A i \in DOMAIN new \ {s} : new[i] = IF i \in DOMAIN tab THEN tab[i] ELSE None
               /\ s \in DOMAIN tab => tab[s] = None
<1>1. PICK s \in Nat : s = Slot(tab, minimum)
  BY SlotFree
<1>2. PICK old : old = fd_reserve(tab, s)
  OBVIOUS
<1>3. /\ old \in Table /\ s \in DOMAIN old /\ DOMAIN tab \subseteq DOMAIN old
      /\ \A i \in DOMAIN old : old[i] = IF i \in DOMAIN tab THEN tab[i] ELSE None
  BY <1>1, <1>2, ReserveTable
<1>4. fd_install(tab, f, minimum) = [old EXCEPT ![s] = f]
  BY <1>1, <1>2 DEF fd_install
<1>5. PICK n \in FdCount..FdMax : old \in [0..(n - 1) -> File \cup {None}]
  BY <1>3 DEF Table
<1>6. [old EXCEPT ![s] = f] \in [0..(n - 1) -> File \cup {None}]
  BY <1>3, <1>5
<1>7. [old EXCEPT ![s] = f] \in Table
  BY <1>6 DEF Table
<1>8. s \in DOMAIN tab => tab[s] = None
  BY <1>1, SlotFree
<1> QED
  BY <1>1, <1>3, <1>4, <1>7, <1>8

-----------------------------------------------------------------------------
(* Counting the slots that hold an open file. *)

\* The slots of a table, or of no table, that hold f.
Holds(tab, f) == IF tab = None THEN {} ELSE {fd \in DOMAIN tab : tab[fd] = f}

\* The slots of all tasks.
Slots(tabs, f) == {x \in Task \X (0..(FdMax - 1)) : x[2] \in Holds(tabs[x[1]], f)}

\* There are finitely many.
LEMMA FiniteSlots ==
    ASSUME NEW tabs, NEW f
    PROVE  IsFiniteSet(Slots(tabs, f)) /\ Cardinality(Slots(tabs, f)) \in Nat
           /\ Cardinality(Slots(tabs, f)) <= FdMax * Cardinality(Task)
<1>1. IsFiniteSet(0..(FdMax - 1)) /\ Cardinality(0..(FdMax - 1)) = FdMax
  BY SizeAssumption, FS_Interval
<1>2. /\ IsFiniteSet(Task \X (0..(FdMax - 1)))
      /\ Cardinality(Task \X (0..(FdMax - 1))) = Cardinality(Task) * FdMax
  BY <1>1, TaskAssumption, FS_Product
<1>3. Slots(tabs, f) \in SUBSET (Task \X (0..(FdMax - 1)))
  BY DEF Slots
<1>4. /\ IsFiniteSet(Slots(tabs, f))
      /\ Cardinality(Slots(tabs, f)) <= Cardinality(Task \X (0..(FdMax - 1)))
  BY <1>2, <1>3, FS_Subset
<1>5. Cardinality(Slots(tabs, f)) \in Nat /\ Cardinality(Task) \in Nat
  BY <1>4, TaskAssumption, FS_CardinalityType
<1> QED
  BY <1>2, <1>4, <1>5, SizeAssumption

\* The slots of one table.
LEMMA FiniteHolds ==
    ASSUME NEW tab \in Table \cup {None}, NEW f
    PROVE  /\ IsFiniteSet(Holds(tab, f)) /\ Cardinality(Holds(tab, f)) \in Nat
           /\ Holds(tab, f) \subseteq 0..(FdMax - 1)
<1>1. CASE tab = None
  BY <1>1, FS_EmptySet DEF Holds
<1>2. CASE tab \in Table
  <2>1. IsFiniteSet(DOMAIN tab) /\ DOMAIN tab \subseteq 0..(FdMax - 1)
    BY <1>2, TableDomain
  <2>2. Holds(tab, f) \in SUBSET DOMAIN tab
    BY <1>2, TableDomain DEF Holds
  <2>3. IsFiniteSet(Holds(tab, f))
    BY <2>1, <2>2, FS_Subset
  <2> QED
    BY <2>1, <2>2, <2>3, FS_CardinalityType
<1> QED
  BY <1>1, <1>2

\* When one task's table changes, the number of slots changes by the slots of that table.
LEMMA SlotsChange ==
    ASSUME NEW tabs \in [Task -> Table \cup {None}], NEW t \in Task, NEW new \in Table \cup {None},
           NEW f
    PROVE  Cardinality(Slots([tabs EXCEPT ![t] = new], f)) =
              Cardinality(Slots(tabs, f)) - Cardinality(Holds(tabs[t], f)) + Cardinality(Holds(new, f))
<1> DEFINE Others == {x \in Slots(tabs, f) : x[1] # t}
           Of(tab) == {t} \X Holds(tab, f)
           tabs2 == [tabs EXCEPT ![t] = new]
<1>1. IsFiniteSet(Others) /\ Cardinality(Others) \in Nat
  <2>1. Others \in SUBSET Slots(tabs, f)
    OBVIOUS
  <2>2. IsFiniteSet(Others)
    BY <2>1, FiniteSlots, FS_Subset
  <2> QED
    BY <2>2, FS_CardinalityType
<1>2. ASSUME NEW tab \in Table \cup {None}
      PROVE  /\ IsFiniteSet(Of(tab)) /\ Cardinality(Of(tab)) = Cardinality(Holds(tab, f))
             /\ Others \cap Of(tab) = {}
  <2>1. IsFiniteSet(Holds(tab, f)) /\ Cardinality(Holds(tab, f)) \in Nat
    BY FiniteHolds
  <2>2. IsFiniteSet({t}) /\ Cardinality({t}) = 1
    BY FS_Singleton
  <2>3. IsFiniteSet(Of(tab)) /\ Cardinality(Of(tab)) = 1 * Cardinality(Holds(tab, f))
    BY <2>1, <2>2, FS_Product
  <2> QED
    BY <2>1, <2>3
<1>3. ASSUME NEW tab \in Table \cup {None}
      PROVE  Cardinality(Others \cup Of(tab)) = Cardinality(Others) + Cardinality(Holds(tab, f))
  <2>1. Cardinality(Others \cup Of(tab)) =
           Cardinality(Others) + Cardinality(Of(tab)) - Cardinality(Others \cap Of(tab))
    BY <1>1, <1>2, FS_Union
  <2>2. Cardinality(Others \cap Of(tab)) = 0
    BY <1>2, FS_EmptySet
  <2>3. Cardinality(Holds(tab, f)) \in Nat
    BY FiniteHolds
  <2>4. Cardinality(Of(tab)) = Cardinality(Holds(tab, f))
    BY <1>2
  <2> HIDE DEF Others, Of
  <2> QED
    BY <1>1, <2>1, <2>2, <2>3, <2>4
<1>4. tabs[t] \in Table \cup {None}
  OBVIOUS
<1>5. Slots(tabs, f) = Others \cup Of(tabs[t])
  <2>1. Holds(tabs[t], f) \subseteq 0..(FdMax - 1)
    BY <1>4, FiniteHolds
  <2> QED
    BY <2>1 DEF Slots
<1>6. Slots(tabs2, f) = Others \cup Of(new)
  <2>1. Holds(new, f) \subseteq 0..(FdMax - 1)
    BY FiniteHolds
  <2>2. tabs2[t] = new /\ \A s \in Task \ {t} : tabs2[s] = tabs[s]
    OBVIOUS
  <2> HIDE DEF tabs2
  <2> QED
    BY <2>1, <2>2 DEF Slots
<1>7. Cardinality(Slots(tabs, f)) = Cardinality(Others) + Cardinality(Holds(tabs[t], f))
  BY <1>3, <1>4, <1>5
<1>8. Cardinality(Slots(tabs2, f)) = Cardinality(Others) + Cardinality(Holds(new, f))
  BY <1>3, <1>6
<1>9. Cardinality(Holds(tabs[t], f)) \in Nat /\ Cardinality(Holds(new, f)) \in Nat
  BY <1>4, FiniteHolds
<1> HIDE DEF tabs2, Others
<1>10. Cardinality(Slots(tabs2, f)) =
          Cardinality(Slots(tabs, f)) - Cardinality(Holds(tabs[t], f)) + Cardinality(Holds(new, f))
  BY <1>1, <1>7, <1>8, <1>9
<1> QED
  BY <1>10 DEF tabs2

-----------------------------------------------------------------------------
(* Structs that are counted. *)

\* The ends of a pipe.
Ends(fs, p) == {f \in File : fs[f] # None /\ fs[f].pipe = p}

\* The structs when N[f] slots hold the open file f.
FileCounted(fs, hs, N, f) ==
    /\ (fs[f] = None) <=> (N[f] = 0)
    /\ fs[f] # None => fs[f].refs = N[f]
    /\ f \in hs <=> (fs[f] # None /\ fs[f].type = "VFS")
    /\ fs[f] # None => (fs[f].pipe # None <=> fs[f].type \in {"PIPE_R", "PIPE_W"})
PipeCounted(fs, ps, p) ==
    /\ (ps[p] = None) <=> (Ends(fs, p) = {})
    /\ ps[p] # None => ps[p].refs = Cardinality(Ends(fs, p)) /\ ps[p].refs \in 1..2
    /\ \A f, g \in Ends(fs, p) : fs[f].type = fs[g].type => f = g
Counted(fs, ps, hs, N) ==
    /\ fs \in [File -> OpenFile \cup {None}] /\ ps \in [Pipe -> PipeBuffer \cup {None}]
    /\ hs \subseteq File /\ N \in [File -> Nat]
    /\ \A f \in File : FileCounted(fs, hs, N, f)
    /\ \A p \in Pipe : PipeCounted(fs, ps, p)

\* Two structs for the same bytes.
SameBytes(q, r) ==
    q # None /\ r # None /\ q.head = r.head /\ q.count = r.count /\ q.data = r.data

\* A step that takes no bytes out of a pipe and puts none in; pipes may go.
Kept == \A p \in Pipe : pipe'[p] = None \/ SameBytes(pipe'[p], pipe[p])

\* There are finitely many ends.
LEMMA FiniteEnds ==
    ASSUME NEW fs, NEW p
    PROVE  /\ IsFiniteSet(Ends(fs, p)) /\ Cardinality(Ends(fs, p)) \in Nat
           /\ Cardinality(Ends(fs, p)) = 0 <=> Ends(fs, p) = {}
<1>1. IsFiniteSet(File)
  BY SizeAssumption, FS_Interval DEF File
<1>2. Ends(fs, p) \in SUBSET File
  BY DEF Ends
<1>3. IsFiniteSet(Ends(fs, p))
  BY <1>1, <1>2, FS_Subset
<1> QED
  BY <1>3, FS_CardinalityType, FS_EmptySet

\* A new open file for the VFS.
LEMMA CountedNew ==
    ASSUME NEW fs, NEW ps, NEW hs, NEW N, Counted(fs, ps, hs, N),
           NEW f \in File, fs[f] = None
    PROVE  Counted([fs EXCEPT ![f] = file_new("VFS", None)], ps, hs \cup {f},
                   [g \in File |-> N[g] + One(f)[g]])
<1> DEFINE fs2 == [fs EXCEPT ![f] = file_new("VFS", None)]
           hs2 == hs \cup {f}
           N2 == [g \in File |-> N[g] + One(f)[g]]
<1>0. fs \in [File -> OpenFile \cup {None}] /\ N \in [File -> Nat] /\ hs \subseteq File
      /\ ps \in [Pipe -> PipeBuffer \cup {None}]
  BY DEF Counted
<1>1. file_new("VFS", None) \in OpenFile /\ file_new("VFS", None) # None
  <2>1. file_new("VFS", None) \in OpenFile
    BY DEF file_new, OpenFile
  <2> QED
    BY <2>1, NoneAssumption
<1>2. /\ fs2 \in [File -> OpenFile \cup {None}]
      /\ fs2[f] = file_new("VFS", None) /\ \A g \in File \ {f} : fs2[g] = fs[g]
  BY <1>0, <1>1
<1>3. /\ N2 \in [File -> Nat] /\ N2[f] = 1 /\ \A g \in File \ {f} : N2[g] = N[g]
  <2>1. N[f] = 0
    BY DEF Counted, FileCounted
  <2> QED
    BY <1>0, <2>1 DEF One
<1> HIDE DEF fs2, N2
<1>4. ASSUME NEW g \in File PROVE FileCounted(fs2, hs2, N2, g)
  <2>1. CASE g = f
    BY <1>1, <1>2, <1>3, <2>1 DEF FileCounted, file_new
  <2>2. CASE g # f
    <3>1. FileCounted(fs, hs, N, g) /\ fs2[g] = fs[g] /\ N2[g] = N[g] /\ (g \in hs2 <=> g \in hs)
      BY <1>2, <1>3, <2>2 DEF Counted
    <3> QED
      BY <3>1 DEF FileCounted
  <2> QED
    BY <2>1, <2>2
<1>5. ASSUME NEW p \in Pipe PROVE PipeCounted(fs2, ps, p)
  <2>1. fs2[f].pipe # p
    BY <1>2, NoneAssumption DEF file_new
  <2>2. Ends(fs2, p) = Ends(fs, p) /\ f \notin Ends(fs, p)
    BY <1>2, <2>1 DEF Ends
  <2>3. \A g \in Ends(fs, p) : fs2[g] = fs[g]
    BY <1>2, <2>2 DEF Ends
  <2> QED
    BY <2>2, <2>3 DEF Counted, PipeCounted
<1>6. Counted(fs2, ps, hs2, N2)
  BY <1>0, <1>2, <1>3, <1>4, <1>5 DEF Counted
<1> QED
  BY <1>6 DEF fs2, N2

\* More slots for open files that are there.
LEMMA CountedShare ==
    ASSUME NEW fs, NEW ps, NEW hs, NEW N, Counted(fs, ps, hs, N),
           NEW add \in [File -> Nat], \A f \in File : fs[f] = None => add[f] = 0,
           NEW fs2 \in [File -> OpenFile \cup {None}], \A f \in File : fs[f] = None => fs2[f] = None,
           \A f \in File : fs[f] # None =>
                /\ fs2[f] # None /\ fs2[f].refs = fs[f].refs + add[f]
                /\ fs2[f].type = fs[f].type /\ fs2[f].pipe = fs[f].pipe,
           NEW N2 \in [File -> Nat], \A f \in File : N2[f] = N[f] + add[f]
    PROVE  Counted(fs2, ps, hs, N2)
<1>0. fs \in [File -> OpenFile \cup {None}] /\ N \in [File -> Nat] /\ hs \subseteq File
      /\ ps \in [Pipe -> PipeBuffer \cup {None}]
  BY DEF Counted
<1>1. ASSUME NEW f \in File PROVE FileCounted(fs2, hs, N2, f)
  <2>1. FileCounted(fs, hs, N, f) /\ N[f] \in Nat /\ add[f] \in Nat
    BY <1>0 DEF Counted
  <2>2. CASE fs[f] = None
    BY <2>1, <2>2 DEF FileCounted
  <2>3. CASE fs[f] # None
    <3>1. N2[f] # 0 /\ fs2[f].refs = N2[f]
      BY <2>1, <2>3 DEF FileCounted
    <3> QED
      BY <2>1, <2>3, <3>1 DEF FileCounted
  <2> QED
    BY <2>2, <2>3
<1>2. ASSUME NEW p \in Pipe PROVE PipeCounted(fs2, ps, p)
  <2>1. Ends(fs2, p) = Ends(fs, p)
    BY DEF Ends
  <2>2. \A g \in Ends(fs, p) : fs2[g].type = fs[g].type
    BY DEF Ends
  <2>3. PipeCounted(fs, ps, p)
    BY DEF Counted
  <2> QED
    BY <2>1, <2>2, <2>3 DEF PipeCounted
<1> QED
  BY <1>0, <1>1, <1>2 DEF Counted

\* A new pipe with its two ends.
LEMMA CountedPipe ==
    ASSUME NEW N, Counted(file, pipe, handles, N),
           NEW r \in File, NEW w \in File, NEW p \in Pipe, r # w,
           file[r] = None, file[w] = None, pipe[p] = None
    PROVE  Counted(PipeFiles(r, w, p), PipeNew(p), handles,
                   [f \in File |-> N[f] + (IF f \in {r, w} THEN 1 ELSE 0)])
<1> DEFINE fs2 == PipeFiles(r, w, p)
           ps2 == PipeNew(p)
           N2 == [f \in File |-> N[f] + (IF f \in {r, w} THEN 1 ELSE 0)]
<1>0. file \in [File -> OpenFile \cup {None}] /\ N \in [File -> Nat] /\ handles \subseteq File
      /\ pipe \in [Pipe -> PipeBuffer \cup {None}]
  BY DEF Counted
<1>1. /\ file_new("PIPE_R", p) \in OpenFile /\ file_new("PIPE_W", p) \in OpenFile
      /\ file_new("PIPE_R", p) # None /\ file_new("PIPE_W", p) # None
  <2>1. file_new("PIPE_R", p) \in OpenFile /\ file_new("PIPE_W", p) \in OpenFile
    BY DEF file_new, OpenFile
  <2> QED
    BY <2>1, NoneAssumption
<1>2. /\ fs2 \in [File -> OpenFile \cup {None}]
      /\ fs2[r] = file_new("PIPE_R", p) /\ fs2[w] = file_new("PIPE_W", p)
      /\ \A g \in File \ {r, w} : fs2[g] = file[g]
  BY <1>0, <1>1 DEF PipeFiles
<1>3. /\ ps2 \in [Pipe -> PipeBuffer \cup {None}] /\ ps2[p] # None /\ ps2[p].refs = 2
      /\ \A q \in Pipe \ {p} : ps2[q] = pipe[q]
  <2> DEFINE new == [refs |-> 2, head |-> 0, count |-> 0, data |-> [i \in 0..(PIPE_SIZE - 1) |-> 0]]
  <2>1. 0 \in 0..(PIPE_SIZE - 1) /\ 0 \in 0..PIPE_SIZE /\ 0 \in Byte
    BY SizeAssumption, ByteAssumption
  <2>2. new \in PipeBuffer /\ new.refs = 2
    BY <2>1 DEF PipeBuffer
  <2>3. new # None
    BY <2>2, NoneAssumption
  <2>4. ps2 = [pipe EXCEPT ![p] = new]
    BY DEF PipeNew
  <2> HIDE DEF new
  <2> QED
    BY <1>0, <2>2, <2>3, <2>4
<1>4. /\ N2 \in [File -> Nat] /\ N2[r] = 1 /\ N2[w] = 1 /\ \A g \in File \ {r, w} : N2[g] = N[g]
  <2>1. N[r] = 0 /\ N[w] = 0
    BY DEF Counted, FileCounted
  <2> QED
    BY <1>0, <2>1
<1> HIDE DEF fs2, ps2, N2
<1>5. ASSUME NEW g \in File PROVE FileCounted(fs2, handles, N2, g)
  <2>1. FileCounted(file, handles, N, g)
    BY DEF Counted
  <2>2. CASE g \in {r, w}
    BY <1>1, <1>2, <1>4, <2>1, <2>2, NoneAssumption DEF FileCounted, file_new
  <2>3. CASE g \notin {r, w}
    <3>1. fs2[g] = file[g] /\ N2[g] = N[g]
      BY <1>2, <1>4, <2>3
    <3> QED
      BY <2>1, <3>1 DEF FileCounted
  <2> QED
    BY <2>2, <2>3
<1>6. ASSUME NEW q \in Pipe PROVE PipeCounted(fs2, ps2, q)
  <2>1. PipeCounted(file, pipe, q) /\ PipeCounted(file, pipe, p)
    BY DEF Counted
  <2>2. CASE q = p
    <3>1. Ends(file, p) = {}
      BY <2>1 DEF PipeCounted
    <3>2. Ends(fs2, p) = {r, w}
      BY <1>1, <1>2, <3>1 DEF Ends, file_new
    <3>3. Cardinality({r, w}) = 2
      <4>1. IsFiniteSet({r}) /\ Cardinality({r}) = 1
        BY FS_Singleton
      <4>2. Cardinality({r} \cup {w}) = 2
        BY <4>1, FS_AddElement
      <4> QED
        BY <4>2
    <3>4. fs2[r].type # fs2[w].type
      BY <1>2 DEF file_new
    <3> QED
      BY <1>3, <2>2, <3>2, <3>3, <3>4 DEF PipeCounted
  <2>3. CASE q # p
    <3>1. Ends(fs2, q) = Ends(file, q)
      BY <1>2, <2>3 DEF Ends, file_new
    <3>2. \A g \in Ends(file, q) : fs2[g] = file[g]
      BY <1>2 DEF Ends
    <3> QED
      BY <1>3, <2>1, <2>3, <3>1, <3>2 DEF PipeCounted
  <2> QED
    BY <2>2, <2>3
<1>7. Counted(fs2, ps2, handles, N2)
  BY <1>0, <1>2, <1>3, <1>4, <1>5, <1>6 DEF Counted
<1> QED
  BY <1>7 DEF fs2, ps2, N2

\* file_put takes as many references as slots are given up.
LEMMA CountedPut ==
    ASSUME NEW fs, NEW ps, NEW hs, NEW N, Counted(fs, ps, hs, N),
           NEW drop \in [File -> Nat], \A f \in File : drop[f] <= N[f],
           file_put(fs, ps, hs, drop)
    PROVE  /\ Counted(file', pipe', handles', [f \in File |-> N[f] - drop[f]])
           /\ \A p \in Pipe : pipe'[p] = None \/ SameBytes(pipe'[p], ps[p])
<1> DEFINE N2 == [f \in File |-> N[f] - drop[f]]
           last == Last(fs, drop)
<1>0. fs \in [File -> OpenFile \cup {None}] /\ N \in [File -> Nat] /\ hs \subseteq File
      /\ ps \in [Pipe -> PipeBuffer \cup {None}]
  BY DEF Counted
<1>1. \A f \in File : N[f] \in Nat /\ drop[f] \in Nat /\ drop[f] <= N[f] /\ FileCounted(fs, hs, N, f)
  BY <1>0 DEF Counted
<1>2. last \subseteq File /\ \A f \in File : f \in last <=> (drop[f] > 0 /\ drop[f] = N[f])
  <2> SUFFICES ASSUME NEW f \in File PROVE f \in last <=> (drop[f] > 0 /\ drop[f] = N[f])
    BY DEF Last
  <2>1. drop[f] > 0 => N[f] # 0
    BY <1>1
  <2>2. drop[f] > 0 => fs[f].refs = N[f]
    BY <1>1, <2>1 DEF FileCounted
  <2> QED
    BY <2>2 DEF Last
<1>3. /\ \A f \in File : drop[f] = 0 => file'[f] = fs[f]
      /\ \A f \in last : file'[f] = None
      /\ \A f \in File \ last : drop[f] # 0 => file'[f] = [fs[f] EXCEPT !.refs = @ - drop[f]]
      /\ file' = [f \in File |-> file'[f]]
      /\ handles' = hs \ {f \in last : fs[f].type = "VFS"}
  <2>1. file' = [f \in File |->
          IF drop[f] = 0 THEN fs[f]
          ELSE IF f \in Last(fs, drop) THEN None
          ELSE [fs[f] EXCEPT !.refs = @ - drop[f]]]
    BY DEF file_put
  <2>2. \A f \in last : f \in File /\ drop[f] # 0
    BY <1>2
  <2>3. handles' = hs \ {f \in last : fs[f].type = "VFS"}
    BY DEF file_put
  <2> HIDE DEF last
  <2> QED
    BY <2>1, <2>2, <2>3 DEF last
<1>4. pipe' = [p \in Pipe |->
        LET n == Cardinality({f \in last : fs[f].pipe = p})
        IN  IF n = 0 THEN ps[p]
            ELSE IF ps[p].refs = n THEN None
            ELSE [ps[p] EXCEPT !.refs = @ - n]]
  BY DEF file_put, pipe_put
<1> HIDE DEF last
<1>5. ASSUME NEW f \in File \ last, fs[f] # None
      PROVE  /\ file'[f] \in OpenFile /\ file'[f] # None /\ file'[f].refs = N[f] - drop[f]
             /\ file'[f].type = fs[f].type /\ file'[f].pipe = fs[f].pipe
             /\ N[f] - drop[f] \in Nat \ {0}
  <2>1. fs[f] \in OpenFile /\ fs[f].refs = N[f] /\ N[f] # 0
    BY <1>0, <1>1, <1>5 DEF FileCounted
  <2>2. N[f] - drop[f] \in Nat \ {0}
    BY <1>1, <1>2, <2>1
  <2>3. CASE drop[f] = 0
    <3>1. file'[f] = fs[f] /\ N[f] - drop[f] = N[f]
      BY <1>1, <1>3, <2>3
    <3> QED
      BY <1>5, <2>1, <2>2, <3>1
  <2>4. CASE drop[f] # 0
    <3>1. file'[f] = [fs[f] EXCEPT !.refs = @ - drop[f]]
      BY <1>3, <2>4
    <3>2. file'[f] \in OpenFile /\ file'[f].refs = N[f] - drop[f]
      BY <2>1, <2>2, <3>1 DEF OpenFile
    <3> QED
      BY <2>1, <2>2, <3>1, <3>2, NoneAssumption DEF OpenFile
  <2> QED
    BY <2>3, <2>4
<1>6. \A f \in File : fs[f] = None => file'[f] = None /\ drop[f] = 0 /\ f \notin last /\ N[f] = 0
  <2> SUFFICES ASSUME NEW f \in File, fs[f] = None
               PROVE  file'[f] = None /\ drop[f] = 0 /\ f \notin last /\ N[f] = 0
    OBVIOUS
  <2>1. N[f] = 0
    BY <1>1 DEF FileCounted
  <2>2. drop[f] = 0
    BY <1>1, <2>1
  <2> QED
    BY <1>2, <1>3, <2>1, <2>2
<1>7. file' \in [File -> OpenFile \cup {None}]
  <2>1. \A f \in File : file'[f] \in OpenFile \cup {None}
    BY <1>3, <1>5, <1>6
  <2> QED
    BY <1>3, <2>1
<1>8. N2 \in [File -> Nat] /\ \A f \in File : N2[f] = N[f] - drop[f]
  BY <1>1
<1> HIDE DEF N2
<1>9. ASSUME NEW f \in File PROVE FileCounted(file', handles', N2, f)
  <2>1. FileCounted(fs, hs, N, f) /\ N2[f] = N[f] - drop[f]
    BY <1>1, <1>8
  <2>2. CASE fs[f] = None
    <3>1. N2[f] = 0 /\ file'[f] = None /\ f \notin hs
      BY <1>6, <2>1, <2>2 DEF FileCounted
    <3> QED
      BY <1>3, <3>1 DEF FileCounted
  <2>3. CASE f \in last
    <3>1. N2[f] = 0
      BY <1>1, <1>2, <2>1, <2>3
    <3>2. file'[f] = None
      BY <1>3, <2>3
    <3>3. f \notin handles'
      BY <1>3, <2>1, <2>3 DEF FileCounted
    <3> QED
      BY <3>1, <3>2, <3>3 DEF FileCounted
  <2>4. CASE f \notin last /\ fs[f] # None
    <3>1. f \in handles' <=> f \in hs
      BY <1>3, <2>4
    <3> QED
      BY <1>5, <2>1, <2>4, <3>1 DEF FileCounted
  <2> QED
    BY <2>2, <2>3, <2>4
<1>10. ASSUME NEW p \in Pipe
       PROVE  /\ PipeCounted(file', pipe', p) /\ pipe'[p] \in PipeBuffer \cup {None}
              /\ pipe'[p] = None \/ SameBytes(pipe'[p], ps[p])
  <2> DEFINE E == Ends(fs, p)
             L == {f \in last : fs[f].pipe = p}
  <2>1. PipeCounted(fs, ps, p) /\ ps[p] \in PipeBuffer \cup {None}
    BY <1>0 DEF Counted
  <2>2. L \subseteq E
    BY <1>2, <1>6 DEF Ends
  <2>3. Ends(file', p) = E \ L
    <3>1. ASSUME NEW f \in File PROVE f \in Ends(file', p) <=> f \in E \ L
      <4>1. CASE fs[f] = None
        BY <1>6, <4>1 DEF Ends
      <4>2. CASE f \in last
        BY <1>3, <4>2 DEF Ends
      <4>3. CASE f \notin last /\ fs[f] # None
        BY <1>5, <4>3 DEF Ends
      <4> QED
        BY <4>1, <4>2, <4>3
    <3>2. Ends(file', p) \subseteq File /\ E \subseteq File
      BY DEF Ends
    <3> HIDE DEF L, E
    <3> QED
      BY <3>1, <3>2
  <2>4. \A f \in E \ L : file'[f].type = fs[f].type
    BY <1>5 DEF Ends
  <2>5. IsFiniteSet(E) /\ Cardinality(E) \in Nat /\ (Cardinality(E) = 0 <=> E = {})
    BY FiniteEnds
  <2>6. PICK n : n = Cardinality(L)
    OBVIOUS
  <2>7. n \in Nat /\ Cardinality(E \ L) = Cardinality(E) - n /\ (n = 0 <=> L = {})
        /\ (Cardinality(E \ L) = 0 <=> E \ L = {}) /\ Cardinality(E \ L) \in Nat
    <3>1. IsFiniteSet(L)
      BY <2>2, <2>5, FS_Subset
    <3>2. E \cap L = L
      BY <2>2
    <3>3. IsFiniteSet(E \ L) /\ Cardinality(E \ L) = Cardinality(E) - Cardinality(L)
      BY <2>5, <3>2, FS_Difference
    <3>4. Cardinality(L) \in Nat /\ Cardinality(E \ L) \in Nat
      BY <3>1, <3>3, FS_CardinalityType
    <3> HIDE DEF L, E
    <3> QED
      BY <2>6, <3>1, <3>3, <3>4, FS_EmptySet
  <2>8. pipe'[p] = IF n = 0 THEN ps[p] ELSE IF ps[p].refs = n THEN None
                   ELSE [ps[p] EXCEPT !.refs = @ - n]
    BY <1>4, <2>6
  <2> HIDE DEF L
  <2>9. CASE n = 0
    <3>1. L = {} /\ E \ L = E /\ pipe'[p] = ps[p]
      BY <2>7, <2>8, <2>9
    <3>2. pipe'[p] = None \/ SameBytes(pipe'[p], ps[p])
      BY <3>1 DEF SameBytes
    <3> QED
      BY <2>1, <2>3, <2>4, <3>1, <3>2 DEF PipeCounted
  <2>10. CASE n # 0
    <3>1. E # {} /\ ps[p] \in PipeBuffer /\ ps[p].refs = Cardinality(E) /\ ps[p].refs \in 1..2
          /\ ps[p] # None
      BY <2>1, <2>2, <2>7, <2>10 DEF PipeCounted
    <3>2. \A f, g \in E \ L : file'[f].type = file'[g].type => f = g
      BY <2>1, <2>4 DEF PipeCounted
    <3>3. CASE Cardinality(E) = n
      <4>1. E \ L = {} /\ pipe'[p] = None
        BY <2>7, <2>8, <2>10, <3>1, <3>3
      <4> QED
        BY <2>3, <4>1 DEF PipeCounted
    <3>4. CASE Cardinality(E) # n
      <4>1. pipe'[p] = [ps[p] EXCEPT !.refs = @ - n]
        BY <2>8, <2>10, <3>1, <3>4
      <4>2. Cardinality(E) - n \in 1..2 /\ E \ L # {}
        BY <2>5, <2>7, <2>10, <3>1, <3>4
      <4>3. pipe'[p] \in PipeBuffer /\ pipe'[p].refs = Cardinality(E) - n
        BY <3>1, <4>1, <4>2 DEF PipeBuffer
      <4>4. pipe'[p] # None
        BY <4>3, NoneAssumption
      <4>5. SameBytes(pipe'[p], ps[p])
        BY <3>1, <4>1, <4>4 DEF SameBytes, PipeBuffer
      <4> QED
        BY <2>3, <2>7, <3>2, <4>2, <4>3, <4>4, <4>5 DEF PipeCounted
    <3> QED
      BY <3>3, <3>4
  <2> QED
    BY <2>9, <2>10
<1>11. pipe' \in [Pipe -> PipeBuffer \cup {None}]
  <2>1. pipe' = [p \in Pipe |-> pipe'[p]]
    BY <1>4
  <2> QED
    BY <1>10, <2>1
<1>12. handles' \subseteq File
  BY <1>0, <1>3
<1>13. Counted(file', pipe', handles', N2)
  BY <1>7, <1>8, <1>9, <1>10, <1>11, <1>12 DEF Counted
<1> QED
  BY <1>10, <1>13 DEF N2

-----------------------------------------------------------------------------
(* Slots that are filled and emptied. *)

\* How many slots hold each open file.
Slotted(tabs) == [f \in File |-> Cardinality(Slots(tabs, f))]

\* One or none.
LEMMA OneType ==
    ASSUME NEW x
    PROVE  One(x) \in [File -> Nat] /\ \A g \in File : One(x)[g] = IF g = x THEN 1 ELSE 0
BY DEF One

\* It is a number.
LEMMA SlottedType ==
    ASSUME NEW tabs
    PROVE  Slotted(tabs) \in [File -> Nat]
BY FiniteSlots DEF Slotted

\* A table's slots are some of the slots.
LEMMA HoldsSome ==
    ASSUME NEW tabs \in [Task -> Table \cup {None}], NEW t \in Task, NEW f \in File
    PROVE  /\ Cardinality(Holds(tabs[t], f)) \in Nat
           /\ Cardinality(Holds(tabs[t], f)) <= Slotted(tabs)[f]
<1>1. tabs[t] \in Table \cup {None} /\ None \in Table \cup {None}
  OBVIOUS
<1>2. Cardinality(Holds(tabs[t], f)) \in Nat
  BY <1>1, FiniteHolds
<1>3. Cardinality(Holds(None, f)) = 0
  BY FS_EmptySet DEF Holds
<1>4. PICK tabs2 : tabs2 = [tabs EXCEPT ![t] = None]
  OBVIOUS
<1>5. Slotted(tabs2)[f] =
         Slotted(tabs)[f] - Cardinality(Holds(tabs[t], f)) + Cardinality(Holds(None, f))
  BY <1>1, <1>4, SlotsChange DEF Slotted
<1>6. Slotted(tabs2)[f] \in Nat /\ Slotted(tabs)[f] \in Nat
  BY SlottedType
<1> QED
  BY <1>2, <1>3, <1>5, <1>6

\* A slot of a table is overwritten.
LEMMA TableSet ==
    ASSUME NEW tab \in Table, NEW fd \in DOMAIN tab, NEW x \in File \cup {None}
    PROVE  LET new == [tab EXCEPT ![fd] = x]
           IN  new \in Table /\ DOMAIN new = DOMAIN tab /\ new[fd] = x
               /\ \A i \in DOMAIN tab \ {fd} : new[i] = tab[i]
<1>1. PICK n \in FdCount..FdMax : tab \in [0..(n - 1) -> File \cup {None}]
  BY DEF Table
<1>2. [tab EXCEPT ![fd] = x] \in [0..(n - 1) -> File \cup {None}]
  BY <1>1
<1> QED
  BY <1>1, <1>2 DEF Table

\* It no longer holds what it held.
LEMMA HoldsSet ==
    ASSUME NEW tab \in Table, NEW new \in Table, NEW fd \in DOMAIN tab, DOMAIN new = DOMAIN tab,
           \A i \in DOMAIN tab \ {fd} : new[i] = tab[i], NEW g \in File
    PROVE  /\ Cardinality(Holds(tab, g)) \in Nat
           /\ Cardinality(Holds(new, g)) =
                 Cardinality(Holds(tab, g)) - One(tab[fd])[g] + One(new[fd])[g]
<1> DEFINE rest == {i \in DOMAIN tab : tab[i] = g} \ {fd}
<1>1. /\ Holds(tab, g) = {i \in DOMAIN tab : tab[i] = g}
      /\ Holds(new, g) = {i \in DOMAIN tab : new[i] = g}
  BY TableDomain DEF Holds
<1>2. IsFiniteSet(Holds(tab, g)) /\ Cardinality(Holds(tab, g)) \in Nat
  BY FiniteHolds
<1>3. /\ IsFiniteSet(rest)
      /\ Cardinality(rest) = Cardinality(Holds(tab, g)) - One(tab[fd])[g]
  <2>1. Holds(tab, g) \ {fd} = rest
    BY <1>1
  <2>2. /\ IsFiniteSet(Holds(tab, g) \ {fd})
        /\ Cardinality(Holds(tab, g) \ {fd}) =
              IF fd \in Holds(tab, g) THEN Cardinality(Holds(tab, g)) - 1
              ELSE Cardinality(Holds(tab, g))
    BY <1>2, FS_RemoveElement
  <2>3. fd \in Holds(tab, g) <=> tab[fd] = g
    BY <1>1
  <2>4. One(tab[fd])[g] = IF tab[fd] = g THEN 1 ELSE 0
    BY OneType
  <2>5. IsFiniteSet(rest) /\ Cardinality(rest) =
            IF tab[fd] = g THEN Cardinality(Holds(tab, g)) - 1 ELSE Cardinality(Holds(tab, g))
    BY <2>1, <2>2, <2>3
  <2> HIDE DEF rest
  <2> QED
    BY <1>2, <2>4, <2>5
<1>4. Cardinality(Holds(new, g)) = Cardinality(rest) + One(new[fd])[g]
  <2>0. One(new[fd])[g] = (IF new[fd] = g THEN 1 ELSE 0) /\ Cardinality(rest) \in Nat
    BY <1>3, OneType, FS_CardinalityType
  <2>1. CASE new[fd] = g
    <3>1. Holds(new, g) = rest \cup {fd} /\ fd \notin rest
      BY <1>1, <2>1
    <3>2. Cardinality(rest \cup {fd}) = Cardinality(rest) + 1
      BY <1>3, <3>1, FS_AddElement
    <3> QED
      BY <2>0, <2>1, <3>1, <3>2
  <2>2. CASE new[fd] # g
    <3>1. Holds(new, g) = rest
      BY <1>1, <2>2
    <3>2. One(new[fd])[g] = 0
      BY <2>0, <2>2
    <3> HIDE DEF rest
    <3> QED
      BY <2>0, <3>1, <3>2
  <2> QED
    BY <2>1, <2>2
<1> QED
  BY <1>2, <1>3, <1>4

\* A table that has grown holds what it held.
LEMMA HoldsReserve ==
    ASSUME NEW tab \in Table, NEW fd \in Nat, Reserves(tab, fd), NEW g \in File
    PROVE  Holds(fd_reserve(tab, fd), g) = Holds(tab, g)
<1>1. PICK new : new = fd_reserve(tab, fd)
  OBVIOUS
<1>2. /\ new \in Table /\ DOMAIN tab \subseteq DOMAIN new
      /\ \A i \in DOMAIN new : new[i] = IF i \in DOMAIN tab THEN tab[i] ELSE None
  BY <1>1, ReserveTable
<1>3. Holds(new, g) = {i \in DOMAIN new : new[i] = g} /\ Holds(tab, g) = {i \in DOMAIN tab : tab[i] = g}
  BY <1>2, TableDomain DEF Holds
<1>4. None # g
  BY NoneAssumption
<1>5. Holds(new, g) = Holds(tab, g)
  BY <1>2, <1>3, <1>4
<1> QED
  BY <1>1, <1>5

\* fd_install fills one slot more.
LEMMA HoldsInstall ==
    ASSUME NEW tab \in Table, NEW f \in File, NEW minimum \in Nat,
           Reserves(tab, Slot(tab, minimum)), NEW g \in File
    PROVE  /\ Cardinality(Holds(tab, g)) \in Nat
           /\ Cardinality(Holds(fd_install(tab, f, minimum), g)) =
                 Cardinality(Holds(tab, g)) + One(f)[g]
<1>1. PICK s \in Nat : s = Slot(tab, minimum)
  BY SlotFree
<1>2. PICK old : old = fd_reserve(tab, s)
  OBVIOUS
<1>3. /\ old \in Table /\ s \in DOMAIN old
      /\ old[s] = IF s \in DOMAIN tab THEN tab[s] ELSE None
  BY <1>1, <1>2, ReserveTable
<1>4. old[s] = None
  BY <1>1, <1>3, SlotFree
<1>5. PICK new : new = [old EXCEPT ![s] = f]
  OBVIOUS
<1>6. /\ Cardinality(Holds(old, g)) \in Nat
      /\ Cardinality(Holds(new, g)) =
            Cardinality(Holds(old, g)) - One(old[s])[g] + One(f)[g]
  <2>1. /\ new \in Table /\ DOMAIN new = DOMAIN old /\ new[s] = f
        /\ \A i \in DOMAIN old \ {s} : new[i] = old[i]
    <3>1. f \in File \cup {None}
      OBVIOUS
    <3> QED
      BY <1>3, <1>5, <3>1, TableSet
  <2>2. /\ Cardinality(Holds(old, g)) \in Nat
        /\ Cardinality(Holds(new, g)) =
              Cardinality(Holds(old, g)) - One(old[s])[g] + One(new[s])[g]
    BY <1>3, <2>1, HoldsSet
  <2> QED
    BY <2>1, <2>2
<1>7. Holds(old, g) = Holds(tab, g)
  BY <1>1, <1>2, HoldsReserve
<1>8. One(old[s])[g] = 0 /\ One(f)[g] \in Nat
  BY <1>4, NoneAssumption DEF One
<1>9. Cardinality(Holds(new, g)) = Cardinality(Holds(tab, g)) + One(f)[g]
  BY <1>6, <1>7, <1>8
<1>10. fd_install(tab, f, minimum) = new
  BY <1>1, <1>2, <1>5 DEF fd_install
<1> QED
  BY <1>6, <1>7, <1>9, <1>10

\* A slot that is in use, and what it leads to.
LEMMA SlotInUse ==
    ASSUME fds \in [Task -> Table \cup {None}],
           Counted(file, pipe, handles, Slotted(fds)),
           NEW t \in Task, NEW fd, fd_get(t, fd) # None
    PROVE  /\ fds[t] \in Table /\ fd \in DOMAIN fds[t] /\ fds[t][fd] \in File
           /\ file[fds[t][fd]] # None /\ file[fds[t][fd]] \in OpenFile
<1>1. fds[t] \in Table /\ fd \in DOMAIN fds[t] /\ fds[t][fd] # None
  BY DEF fd_get, Live
<1>2. PICK f \in File : f = fds[t][fd]
  BY <1>1, TableDomain
<1>3. fd \in Holds(fds[t], f)
  BY <1>1, <1>2, TableDomain DEF Holds
<1>4. <<t, fd>> \in Slots(fds, f)
  BY <1>1, <1>3, TableDomain DEF Slots
<1>5. Slotted(fds)[f] # 0
  <2>1. IsFiniteSet(Slots(fds, f)) /\ Slots(fds, f) # {}
    BY <1>4, FiniteSlots
  <2> QED
    BY <2>1, FS_EmptySet DEF Slotted
<1> QED
  BY <1>1, <1>2, <1>5 DEF Counted, FileCounted

-----------------------------------------------------------------------------
(* The invariant. *)

\* Tables are tables, structs are counted, and there is room in the buffer of the line.
Inv ==
    /\ fds \in [Task -> Table \cup {None}]
    /\ Counted(file, pipe, handles, Slotted(fds))
    /\ input \in Seq(Byte) /\ Len(input) < InputSize

\* What the invariant says of descriptors.
LEMMA InvCounts ==
    ASSUME Inv
    PROVE  /\ fds \in [Task -> Table \cup {None}]
           /\ Counted(file, pipe, handles, Slotted(fds)) /\ Slotted(fds) \in [File -> Nat]
           /\ file \in [File -> OpenFile \cup {None}] /\ pipe \in [Pipe -> PipeBuffer \cup {None}]
BY DEF Inv, Counted

\* Two ways to count agree.
LEMMA SameCount ==
    ASSUME NEW fs, NEW ps, NEW hs, NEW M, NEW N, Counted(fs, ps, hs, M),
           M \in [File -> Nat], N \in [File -> Nat], \A f \in File : M[f] = N[f]
    PROVE  Counted(fs, ps, hs, N)
<1>1. M = N
  OBVIOUS
<1> QED
  BY <1>1

\* A step changes one task's table and counts the difference.
LEMMA TableStep ==
    ASSUME Inv, NEW t \in Task, NEW new \in Table \cup {None},
           fds' = [fds EXCEPT ![t] = new], NEW M,
           Counted(file', pipe', handles', M),
           \A f \in File : M[f] = Slotted(fds)[f] - Cardinality(Holds(fds[t], f))
                                  + Cardinality(Holds(new, f)),
           UNCHANGED input
    PROVE  Inv'
<1>1. fds \in [Task -> Table \cup {None}]
  BY DEF Inv
<1>2. Slotted(fds') \in [File -> Nat] /\ fds' \in [Task -> Table \cup {None}]
  BY <1>1, SlottedType
<1>3. ASSUME NEW f \in File PROVE M[f] = Slotted(fds')[f]
  <2>1. Slotted(fds')[f] =
           Slotted(fds)[f] - Cardinality(Holds(fds[t], f)) + Cardinality(Holds(new, f))
    BY <1>1, SlotsChange DEF Slotted
  <2> QED
    BY <2>1
<1>4. M \in [File -> Nat]
  BY DEF Counted
<1>5. Counted(file', pipe', handles', Slotted(fds'))
  BY <1>2, <1>3, <1>4, SameCount
<1> QED
  BY <1>2, <1>5 DEF Inv

\* A step leaves the tables alone.
LEMMA StructStep ==
    ASSUME Inv, UNCHANGED <<fds, input>>, NEW M, Counted(file', pipe', handles', M),
           \A f \in File : M[f] = Slotted(fds)[f]
    PROVE  Inv'
<1>1. M \in [File -> Nat] /\ Slotted(fds) \in [File -> Nat]
  BY InvCounts DEF Counted
<1>2. Counted(file', pipe', handles', Slotted(fds))
  BY <1>1, SameCount
<1> QED
  BY <1>2 DEF Inv

-----------------------------------------------------------------------------
(* Initially, and step by step. *)

\* The console three times.
LEMMA InvInit ==
    ASSUME Init
    PROVE  Inv
<1>1. PICK t \in Task :
          fds = [s \in Task |-> IF s = t
                    THEN [i \in 0..(FdCount - 1) |-> IF i < Std THEN i + 1 ELSE None]
                    ELSE None]
  BY DEF Init
<1>2. PICK tab : tab = [i \in 0..(FdCount - 1) |-> IF i < Std THEN i + 1 ELSE None]
  OBVIOUS
<1>3. tab \in Table
  <2>1. \A i \in 0..(FdCount - 1) : i < Std => i + 1 \in File
    BY SizeAssumption DEF File
  <2>2. tab \in [0..(FdCount - 1) -> File \cup {None}]
    BY <1>2, <2>1
  <2>3. FdCount \in FdCount..FdMax
    BY SizeAssumption
  <2> QED
    BY <2>2, <2>3 DEF Table
<1>4. fds = [s \in Task |-> IF s = t THEN tab ELSE None]
  BY <1>1, <1>2
<1>5. fds \in [Task -> Table \cup {None}]
  BY <1>3, <1>4
<1>6. ASSUME NEW f \in File PROVE Slotted(fds)[f] = IF f <= Std THEN 1 ELSE 0
  <2>1. \A i \in DOMAIN tab : tab[i] = f <=> i < Std /\ i + 1 = f
    BY <1>2, NoneAssumption DEF File
  <2>2. f \in Nat \ {0}
    BY DEF File
  <2>3. tab # None /\ DOMAIN tab = 0..(FdCount - 1)
    BY <1>2, <1>3, TableDomain
  <2>4. CASE f <= Std
    <3>1. f - 1 \in DOMAIN tab /\ f - 1 < Std /\ f - 1 \in 0..(FdMax - 1)
      BY <2>2, <2>3, <2>4, SizeAssumption
    <3>2. \A i \in DOMAIN tab : tab[i] = f <=> i = f - 1
      BY <2>1, <2>2, <2>3, <2>4, <3>1
    <3>3. Holds(tab, f) = {f - 1} /\ Holds(None, f) = {}
      BY <2>3, <3>1, <3>2 DEF Holds
    <3>4. Slots(fds, f) = {<<t, f - 1>>}
      BY <1>4, <3>1, <3>3 DEF Slots
    <3>5. Cardinality(Slots(fds, f)) = 1
      BY <3>4, FS_Singleton
    <3> QED
      BY <2>4, <3>5 DEF Slotted
  <2>5. CASE ~(f <= Std)
    <3>1. \A i \in DOMAIN tab : tab[i] # f
      BY <2>1, <2>2, <2>3, <2>5, SizeAssumption
    <3>2. Holds(tab, f) = {} /\ Holds(None, f) = {}
      BY <2>3, <3>1 DEF Holds
    <3>3. Slots(fds, f) = {}
      BY <1>4, <3>2 DEF Slots
    <3>4. Cardinality(Slots(fds, f)) = 0
      BY <3>3, FS_EmptySet
    <3> QED
      BY <2>5, <3>4 DEF Slotted
  <2> QED
    BY <2>4, <2>5
<1>7. Slotted(fds) \in [File -> Nat]
  BY SlottedType
<1>8. PICK console \in OpenFile : console = file_new("CONSOLE", None)
  BY DEF file_new, OpenFile
<1>9. console # None /\ console.refs = 1 /\ console.type = "CONSOLE" /\ console.pipe = None
  BY <1>8, NoneAssumption DEF file_new
<1>10. file = [f \in File |-> IF f <= Std THEN console ELSE None]
  BY <1>8 DEF Init
<1>11. \A f \in File : FileCounted(file, handles, Slotted(fds), f)
  BY <1>6, <1>9, <1>10 DEF Init, FileCounted
<1>12. ASSUME NEW p \in Pipe PROVE PipeCounted(file, pipe, p)
  <2>1. p # None
    BY NoneAssumption
  <2>2. Ends(file, p) = {}
    BY <1>9, <1>10, <2>1 DEF Ends
  <2>3. pipe[p] = None
    BY DEF Init
  <2> QED
    BY <2>2, <2>3 DEF PipeCounted
<1>13. /\ file \in [File -> OpenFile \cup {None}] /\ pipe \in [Pipe -> PipeBuffer \cup {None}]
       /\ handles \subseteq File
  BY <1>10 DEF Init
<1>14. Counted(file, pipe, handles, Slotted(fds))
  BY <1>7, <1>11, <1>12, <1>13 DEF Counted
<1>15. input \in Seq(Byte) /\ Len(input) < InputSize
  BY InputAssumption DEF Init
<1> QED
  BY <1>5, <1>14, <1>15 DEF Inv

\* task_fd_open
LEMMA OpenInv ==
    ASSUME Inv, NEW t \in Task, NEW f \in File, Open(t, f), UNCHANGED input
    PROVE  Inv'
<1>0. Counted([file EXCEPT ![f] = file_new("VFS", None)], pipe, handles \cup {f},
              [g \in File |-> Slotted(fds)[g] + One(f)[g]])
  <2>1. file[f] = None
    BY DEF Open, NewFile
  <2>2. Counted(file, pipe, handles, Slotted(fds))
    BY InvCounts
  <2> QED
    BY <2>1, <2>2, CountedNew
<1>1. fds[t] \in Table /\ Std \in Nat
  BY SizeAssumption DEF Inv, Open, Live
<1>2. PICK new : new = fd_install(fds[t], f, Std)
  OBVIOUS
<1>3. Reserves(fds[t], Slot(fds[t], Std)) /\ fds' = [fds EXCEPT ![t] = new]
  BY <1>2 DEF Open
<1>4. new \in Table
  BY <1>1, <1>2, <1>3, InstallTable
<1>5. \A g \in File : /\ Cardinality(Holds(fds[t], g)) \in Nat
                      /\ Cardinality(Holds(new, g)) = Cardinality(Holds(fds[t], g)) + One(f)[g]
  BY <1>1, <1>2, <1>3, HoldsInstall
<1>6. PICK M : M = [g \in File |-> Slotted(fds)[g] + One(f)[g]]
  OBVIOUS
<1>7. Counted(file, pipe, handles, Slotted(fds)) /\ Slotted(fds) \in [File -> Nat]
  BY InvCounts
<1>8. Counted([file EXCEPT ![f] = file_new("VFS", None)], pipe, handles \cup {f}, M)
  BY <1>0, <1>6
<1>9. Counted(file', pipe', handles', M)
  BY <1>8 DEF Open
<1>10. \A g \in File : M[g] = Slotted(fds)[g] - Cardinality(Holds(fds[t], g)) + Cardinality(Holds(new, g))
  BY <1>5, <1>6, <1>7, OneType
<1> QED
  BY <1>3, <1>4, <1>9, <1>10, TableStep, ZenonT(60)

\* task_fd_open that fails
LEMMA OpenFailsInv ==
    ASSUME Inv, NEW t \in Task, NEW f \in File, OpenFails(t, f), UNCHANGED input
    PROVE  Inv' /\ Kept
<1>1. file[f] = None
  BY DEF OpenFails, NewFile
<1>2. PICK N : N = [g \in File |-> Slotted(fds)[g] + One(f)[g]]
  OBVIOUS
<1>3. Counted(file, pipe, handles, Slotted(fds)) /\ Slotted(fds) \in [File -> Nat]
  BY InvCounts
<1>4. Counted([file EXCEPT ![f] = file_new("VFS", None)], pipe, handles \cup {f}, N)
  <2>1. Counted([file EXCEPT ![f] = file_new("VFS", None)], pipe, handles \cup {f},
                [g \in File |-> Slotted(fds)[g] + One(f)[g]])
    BY <1>1, <1>3, CountedNew
  <2> QED
    BY <1>2, <2>1
<1>5. file_put([file EXCEPT ![f] = file_new("VFS", None)], pipe, handles \cup {f}, One(f))
  BY DEF OpenFails
<1>6. One(f) \in [File -> Nat] /\ \A g \in File : One(f)[g] <= N[g]
  BY <1>2, <1>3, OneType
<1>7. PICK M : M = [g \in File |-> N[g] - One(f)[g]]
  OBVIOUS
<1>8. Counted(file', pipe', handles', M) /\ Kept
  <2>1. /\ Counted(file', pipe', handles', [g \in File |-> N[g] - One(f)[g]])
        /\ \A p \in Pipe : pipe'[p] = None \/ SameBytes(pipe'[p], pipe[p])
    BY <1>4, <1>5, <1>6, CountedPut
  <2> QED
    BY <1>7, <2>1 DEF Kept
<1>9. \A g \in File : M[g] = Slotted(fds)[g]
  BY <1>2, <1>3, <1>6, <1>7
<1>10. UNCHANGED <<fds, input>>
  BY DEF OpenFails
<1> QED
  BY <1>8, <1>9, <1>10, StructStep

\* task_fd_close
LEMMA CloseInv ==
    ASSUME Inv, NEW t \in Task, NEW fd \in Nat, Close(t, fd), UNCHANGED input
    PROVE  Inv' /\ Kept
<1>1. Counted(file, pipe, handles, Slotted(fds)) /\ Slotted(fds) \in [File -> Nat]
      /\ fds \in [Task -> Table \cup {None}]
  BY InvCounts
<1>2. fd_get(t, fd) # None
  BY DEF Close
<1>3. fds[t] \in Table /\ fd \in DOMAIN fds[t] /\ fds[t][fd] \in File
  BY <1>1, <1>2, SlotInUse
<1>4. PICK f \in File : f = fds[t][fd]
  BY <1>3
<1>5. PICK new : new = [fds[t] EXCEPT ![fd] = None]
  OBVIOUS
<1>6. fds' = [fds EXCEPT ![t] = new]
  BY <1>1, <1>5 DEF Close
<1>7. /\ new \in Table
      /\ \A g \in File : /\ Cardinality(Holds(fds[t], g)) \in Nat
                         /\ Cardinality(Holds(new, g)) =
                               Cardinality(Holds(fds[t], g)) - One(f)[g] + One(None)[g]
  <2>1. /\ new \in Table /\ DOMAIN new = DOMAIN fds[t] /\ new[fd] = None
        /\ \A i \in DOMAIN fds[t] \ {fd} : new[i] = fds[t][i]
    BY <1>3, <1>5, TableSet
  <2>2. \A g \in File : /\ Cardinality(Holds(fds[t], g)) \in Nat
                        /\ Cardinality(Holds(new, g)) =
                              Cardinality(Holds(fds[t], g)) - One(fds[t][fd])[g] + One(new[fd])[g]
    BY <1>3, <2>1, HoldsSet
  <2> QED
    BY <1>4, <2>1, <2>2
<1>8. \A g \in File : One(None)[g] = 0 /\ One(f)[g] \in Nat
  BY NoneAssumption DEF One
<1>9. \A g \in File : Cardinality(Holds(fds[t], g)) <= Slotted(fds)[g] /\ Cardinality(Holds(new, g)) \in Nat
  BY <1>1, <1>7, HoldsSome, FiniteHolds
<1>10. One(f) \in [File -> Nat] /\ \A g \in File : One(f)[g] <= Slotted(fds)[g]
  BY <1>1, <1>7, <1>8, <1>9, OneType
<1>11. PICK M : M = [g \in File |-> Slotted(fds)[g] - One(f)[g]]
  OBVIOUS
<1>12. file_put(file, pipe, handles, One(f))
  BY <1>4 DEF Close
<1>13. Counted(file', pipe', handles', M) /\ Kept
  <2>1. /\ Counted(file', pipe', handles', [g \in File |-> Slotted(fds)[g] - One(f)[g]])
        /\ \A p \in Pipe : pipe'[p] = None \/ SameBytes(pipe'[p], pipe[p])
    BY <1>1, <1>10, <1>12, CountedPut
  <2> QED
    BY <1>11, <2>1 DEF Kept
<1>14. \A g \in File : M[g] = Slotted(fds)[g] - Cardinality(Holds(fds[t], g)) + Cardinality(Holds(new, g))
  BY <1>1, <1>7, <1>8, <1>11
<1> QED
  BY <1>6, <1>7, <1>13, <1>14, TableStep

\* One slot more for an open file.
LEMMA CountedDup ==
    ASSUME NEW fs, NEW ps, NEW hs, NEW N, Counted(fs, ps, hs, N), NEW o \in File, fs[o] # None,
           NEW N2 \in [File -> Nat], \A g \in File : N2[g] = N[g] + One(o)[g]
    PROVE  Counted([fs EXCEPT ![o].refs = @ + 1], ps, hs, N2)
<1>0. PICK fs2 : fs2 = [fs EXCEPT ![o].refs = @ + 1]
  OBVIOUS
<1>1. fs \in [File -> OpenFile \cup {None}]
  BY DEF Counted
<1>2. One(o) \in [File -> Nat] /\ \A g \in File : One(o)[g] = IF g = o THEN 1 ELSE 0
  BY OneType
<1>3. \A g \in File : fs[g] = None => One(o)[g] = 0
  BY <1>2
<1>4. fs2[o] = [fs[o] EXCEPT !.refs = @ + 1] /\ \A g \in File \ {o} : fs2[g] = fs[g]
  BY <1>0, <1>1
<1>5. fs2[o] \in OpenFile /\ fs2[o] # None /\ fs2[o].refs = fs[o].refs + 1
      /\ fs2[o].type = fs[o].type /\ fs2[o].pipe = fs[o].pipe
  <2>1. fs[o] \in OpenFile
    BY <1>1
  <2>2. fs2[o] \in OpenFile
    BY <1>4, <2>1 DEF OpenFile
  <2> QED
    BY <1>4, <2>1, <2>2, NoneAssumption DEF OpenFile
<1>6. fs2 \in [File -> OpenFile \cup {None}]
  BY <1>0, <1>1, <1>4, <1>5
<1>7. \A g \in File : fs[g] # None =>
          /\ fs2[g] # None /\ fs2[g].refs = fs[g].refs + One(o)[g]
          /\ fs2[g].type = fs[g].type /\ fs2[g].pipe = fs[g].pipe
  <2> SUFFICES ASSUME NEW g \in File, fs[g] # None
               PROVE  /\ fs2[g] # None /\ fs2[g].refs = fs[g].refs + One(o)[g]
                      /\ fs2[g].type = fs[g].type /\ fs2[g].pipe = fs[g].pipe
    OBVIOUS
  <2>1. CASE g = o
    BY <1>2, <1>5, <2>1
  <2>2. CASE g # o
    <3>1. fs2[g] = fs[g] /\ One(o)[g] = 0 /\ fs[g] \in OpenFile
      BY <1>1, <1>2, <1>4, <2>2
    <3>2. fs[g].refs \in Nat
      BY <3>1 DEF OpenFile
    <3>3. fs[g].refs + One(o)[g] = fs[g].refs
      BY <3>1, <3>2
    <3> QED
      BY <3>1, <3>3
  <2> QED
    BY <2>1, <2>2
<1>8. \A g \in File : fs[g] = None => fs2[g] = None
  BY <1>4
<1>9. Counted(fs2, ps, hs, N2)
  BY <1>2, <1>3, <1>6, <1>7, <1>8, CountedShare
<1> QED
  BY <1>0, <1>9

\* task_fd_dup
LEMMA DupInv ==
    ASSUME Inv, NEW t \in Task, NEW fd \in Nat, NEW minimum \in Nat, Dup(t, fd, minimum), UNCHANGED input
    PROVE  Inv'
<1>1. Counted(file, pipe, handles, Slotted(fds)) /\ Slotted(fds) \in [File -> Nat]
      /\ fds \in [Task -> Table \cup {None}]
  BY InvCounts
<1>2. fds[t] \in Table /\ fd \in DOMAIN fds[t] /\ fds[t][fd] \in File /\ file[fds[t][fd]] # None
  <2>1. fd_get(t, fd) # None
    BY DEF Dup
  <2> QED
    BY <1>1, <2>1, SlotInUse
<1>3. PICK o \in File : o = fds[t][fd]
  BY <1>2
<1>4. file' = [file EXCEPT ![o].refs = @ + 1] /\ UNCHANGED <<pipe, handles>>
  BY <1>3 DEF Dup
<1>5. PICK M : M = [g \in File |-> Slotted(fds)[g] + One(o)[g]]
  OBVIOUS
<1>6. Counted(file', pipe', handles', M)
  <2>1. file[o] # None
    BY <1>2, <1>3
  <2>2. M \in [File -> Nat] /\ \A g \in File : M[g] = Slotted(fds)[g] + One(o)[g]
    BY <1>1, <1>5, OneType
  <2>3. Counted([file EXCEPT ![o].refs = @ + 1], pipe, handles, M)
    BY <1>1, <2>1, <2>2, CountedDup
  <2> QED
    BY <1>4, <2>3
<1>7. PICK new : new = fd_install(fds[t], o, minimum)
  OBVIOUS
<1>8. Reserves(fds[t], Slot(fds[t], minimum)) /\ fds' = [fds EXCEPT ![t] = new]
  BY <1>3, <1>7 DEF Dup
<1>9. new \in Table
  BY <1>2, <1>7, <1>8, InstallTable
<1>10. \A g \in File : /\ Cardinality(Holds(fds[t], g)) \in Nat
                       /\ Cardinality(Holds(new, g)) = Cardinality(Holds(fds[t], g)) + One(o)[g]
  BY <1>2, <1>7, <1>8, HoldsInstall
<1>11. \A g \in File : M[g] = Slotted(fds)[g] - Cardinality(Holds(fds[t], g)) + Cardinality(Holds(new, g))
  BY <1>1, <1>5, <1>10, OneType
<1> QED
  BY <1>6, <1>8, <1>9, <1>11, TableStep

\* task_fd_dup2
LEMMA Dup2Inv ==
    ASSUME Inv, NEW t \in Task, NEW fd \in Nat, NEW newfd \in Nat, Dup2(t, fd, newfd), UNCHANGED input
    PROVE  Inv' /\ Kept
<1>1. Counted(file, pipe, handles, Slotted(fds)) /\ Slotted(fds) \in [File -> Nat]
      /\ fds \in [Task -> Table \cup {None}]
  BY InvCounts
<1>2. fds[t] \in Table /\ fd \in DOMAIN fds[t] /\ fds[t][fd] \in File /\ file[fds[t][fd]] # None
  <2>1. fd_get(t, fd) # None
    BY DEF Dup2
  <2> QED
    BY <1>1, <2>1, SlotInUse
<1>3. PICK tab : tab = fd_reserve(fds[t], newfd)
  OBVIOUS
<1>4. Reserves(fds[t], newfd)
  BY DEF Dup2
<1>5. /\ tab \in Table /\ newfd \in DOMAIN tab /\ fd \in DOMAIN tab
      /\ tab[fd] = fds[t][fd]
  BY <1>2, <1>3, <1>4, ReserveTable
<1>6. PICK o \in File : o = tab[fd] /\ file[o] # None
  BY <1>2, <1>5
<1>7. PICK x \in File \cup {None} : x = tab[newfd]
  BY <1>5, TableDomain
<1>8. PICK new : new = [tab EXCEPT ![newfd] = o]
  OBVIOUS
<1>9. /\ fds' = [fds EXCEPT ![t] = new]
      /\ file_put([file EXCEPT ![o].refs = @ + 1], pipe, handles, One(x))
  BY <1>3, <1>6, <1>7, <1>8 DEF Dup2
<1>10. \A g \in File : Cardinality(Holds(fds[t], g)) \in Nat /\ Cardinality(Holds(fds[t], g)) <= Slotted(fds)[g]
  BY <1>1, HoldsSome
<1>11. /\ new \in Table
       /\ \A g \in File : Cardinality(Holds(new, g)) =
             Cardinality(Holds(fds[t], g)) - One(x)[g] + One(o)[g]
  <2>1. /\ new \in Table
        /\ \A g \in File : Cardinality(Holds(new, g)) =
              Cardinality(Holds(tab, g)) - One(x)[g] + One(o)[g]
    <3>1. /\ new \in Table /\ DOMAIN new = DOMAIN tab /\ new[newfd] = o
          /\ \A i \in DOMAIN tab \ {newfd} : new[i] = tab[i]
      BY <1>5, <1>8, TableSet
    <3>2. \A g \in File : Cardinality(Holds(new, g)) =
              Cardinality(Holds(tab, g)) - One(tab[newfd])[g] + One(new[newfd])[g]
      BY <1>5, <3>1, HoldsSet
    <3> QED
      BY <1>7, <3>1, <3>2
  <2>2. \A g \in File : Holds(tab, g) = Holds(fds[t], g)
    BY <1>2, <1>3, <1>4, HoldsReserve
  <2> QED
    BY <2>1, <2>2
<1>12. \A g \in File : Cardinality(Holds(new, g)) \in Nat
  BY <1>11, FiniteHolds
<1>13. /\ One(x) \in [File -> Nat] /\ \A g \in File : One(x)[g] \in Nat /\ One(o)[g] \in Nat
  BY OneType
<1>14. PICK N : N = [g \in File |-> Slotted(fds)[g] + One(o)[g]]
  OBVIOUS
<1>15. PICK fs : fs = [file EXCEPT ![o].refs = @ + 1]
  OBVIOUS
<1>16. Counted(fs, pipe, handles, N)
  <2>1. N \in [File -> Nat] /\ \A g \in File : N[g] = Slotted(fds)[g] + One(o)[g]
    BY <1>1, <1>13, <1>14
  <2>2. Counted([file EXCEPT ![o].refs = @ + 1], pipe, handles, N)
    BY <1>1, <1>6, <2>1, CountedDup, SMTT(40)
  <2> QED
    BY <1>15, <2>2
<1>17. \A g \in File : One(x)[g] <= N[g]
  BY <1>1, <1>10, <1>11, <1>12, <1>13, <1>14
<1>18. PICK M : M = [g \in File |-> N[g] - One(x)[g]]
  OBVIOUS
<1>19. Counted(file', pipe', handles', M) /\ Kept
  <2>1. file_put(fs, pipe, handles, One(x))
    BY <1>9, <1>15
  <2>2. /\ Counted(file', pipe', handles', [g \in File |-> N[g] - One(x)[g]])
        /\ \A p \in Pipe : pipe'[p] = None \/ SameBytes(pipe'[p], pipe[p])
    BY <1>13, <1>16, <1>17, <2>1, CountedPut
  <2> QED
    BY <1>18, <2>2 DEF Kept
<1>20. \A g \in File : M[g] = Slotted(fds)[g] - Cardinality(Holds(fds[t], g)) + Cardinality(Holds(new, g))
  BY <1>1, <1>10, <1>11, <1>13, <1>14, <1>18
<1> QED
  BY <1>9, <1>11, <1>19, <1>20, TableStep

\* task_fd_pipe
LEMMA MakePipeInv ==
    ASSUME Inv, NEW t \in Task, NEW r \in File, NEW w \in File, NEW p \in Pipe,
           MakePipe(t, r, w, p), UNCHANGED input
    PROVE  Inv'
<1>1. Counted(file, pipe, handles, Slotted(fds)) /\ Slotted(fds) \in [File -> Nat]
      /\ fds \in [Task -> Table \cup {None}]
  BY InvCounts
<1>2. fds[t] \in Table /\ r # w /\ file[r] = None /\ file[w] = None /\ pipe[p] = None
  BY <1>1 DEF MakePipe, NewEnds, NewFile, NewPipe, Live, File
<1>3. PICK M : M = [g \in File |-> Slotted(fds)[g] + (IF g \in {r, w} THEN 1 ELSE 0)]
  OBVIOUS
<1>4. Counted(file', pipe', handles', M)
  <2>1. Counted(PipeFiles(r, w, p), PipeNew(p), handles,
                [g \in File |-> Slotted(fds)[g] + (IF g \in {r, w} THEN 1 ELSE 0)])
    BY <1>1, <1>2, CountedPipe
  <2> QED
    BY <1>3, <2>1 DEF MakePipe
<1>5. PICK tab : tab = fd_install(fds[t], r, 0)
  OBVIOUS
<1>6. PICK new : new = fd_install(tab, w, 0)
  OBVIOUS
<1>7. /\ Reserves(fds[t], Slot(fds[t], 0)) /\ Reserves(tab, Slot(tab, 0))
      /\ fds' = [fds EXCEPT ![t] = new]
  BY <1>5, <1>6 DEF MakePipe
<1>8. /\ tab \in Table
      /\ \A g \in File : /\ Cardinality(Holds(fds[t], g)) \in Nat
                         /\ Cardinality(Holds(tab, g)) = Cardinality(Holds(fds[t], g)) + One(r)[g]
  BY <1>2, <1>5, <1>7, InstallTable, HoldsInstall
<1>9. /\ new \in Table
      /\ \A g \in File : Cardinality(Holds(new, g)) = Cardinality(Holds(tab, g)) + One(w)[g]
  BY <1>6, <1>7, <1>8, InstallTable, HoldsInstall
<1>10. \A g \in File : M[g] = Slotted(fds)[g] - Cardinality(Holds(fds[t], g)) + Cardinality(Holds(new, g))
  <2> SUFFICES ASSUME NEW g \in File
               PROVE  M[g] = Slotted(fds)[g] - Cardinality(Holds(fds[t], g)) + Cardinality(Holds(new, g))
    OBVIOUS
  <2>1. One(r)[g] = (IF g = r THEN 1 ELSE 0) /\ One(w)[g] = (IF g = w THEN 1 ELSE 0)
    BY OneType
  <2>2. M[g] = Slotted(fds)[g] + One(r)[g] + One(w)[g]
    BY <1>1, <1>2, <1>3, <2>1
  <2> QED
    BY <1>1, <1>8, <1>9, <2>1, <2>2
<1> QED
  BY <1>4, <1>7, <1>9, <1>10, TableStep

\* A slot that is filled and emptied again.
LEMMA UndoneTable ==
    ASSUME NEW old \in Table, NEW r \in File, Reserves(old, Slot(old, 0)), NEW g \in File
    PROVE  LET new == PipeUndone(fd_install(old, r, 0), old)
           IN  new \in Table /\ Cardinality(Holds(new, g)) = Cardinality(Holds(old, g))
<1>1. PICK s : s = Slot(old, 0)
  OBVIOUS
<1>2. PICK tab : tab = fd_install(old, r, 0)
  OBVIOUS
<1>3. tab \in Table /\ s \in DOMAIN tab /\ tab[s] = r
  BY <1>1, <1>2, InstallTable
<1>4. PICK new : new = [tab EXCEPT ![s] = None]
  OBVIOUS
<1>5. /\ new \in Table /\ DOMAIN new = DOMAIN tab /\ new[s] = None
      /\ \A i \in DOMAIN tab \ {s} : new[i] = tab[i]
  <2>1. None \in File \cup {None}
    OBVIOUS
  <2> QED
    BY <1>3, <1>4, <2>1, TableSet
<1>6. Cardinality(Holds(new, g)) = Cardinality(Holds(tab, g)) - One(tab[s])[g] + One(new[s])[g]
  BY <1>3, <1>5, HoldsSet
<1>7. /\ Cardinality(Holds(old, g)) \in Nat
      /\ Cardinality(Holds(tab, g)) = Cardinality(Holds(old, g)) + One(r)[g]
  BY <1>2, HoldsInstall
<1>8. One(new[s])[g] = 0 /\ One(r)[g] \in Nat /\ One(tab[s])[g] = One(r)[g]
  BY <1>3, <1>5, NoneAssumption DEF One
<1>9. Cardinality(Holds(new, g)) = Cardinality(Holds(old, g))
  BY <1>6, <1>7, <1>8
<1>10. PipeUndone(fd_install(old, r, 0), old) = new
  BY <1>1, <1>2, <1>4 DEF PipeUndone
<1> QED
  BY <1>5, <1>9, <1>10

\* task_fd_pipe that fails
LEMMA PipeFailsInv ==
    ASSUME Inv, NEW t \in Task, NEW r \in File, NEW w \in File, NEW p \in Pipe,
           PipeFails(t, r, w, p), UNCHANGED input
    PROVE  Inv' /\ Kept
<1>1. Counted(file, pipe, handles, Slotted(fds)) /\ Slotted(fds) \in [File -> Nat]
      /\ fds \in [Task -> Table \cup {None}]
  BY InvCounts
<1>2. fds[t] \in Table /\ r # w /\ file[r] = None /\ file[w] = None /\ pipe[p] = None
  BY <1>1 DEF PipeFails, NewEnds, NewFile, NewPipe, Live, File
<1>3. PICK drop : drop = [f \in File |-> IF f \in {r, w} THEN 1 ELSE 0]
  OBVIOUS
<1>4. drop \in [File -> Nat]
  BY <1>3
<1>5. PICK N : N = [f \in File |-> Slotted(fds)[f] + (IF f \in {r, w} THEN 1 ELSE 0)]
  OBVIOUS
<1>6. Counted(PipeFiles(r, w, p), PipeNew(p), handles, N)
  <2>1. Counted(PipeFiles(r, w, p), PipeNew(p), handles,
                [f \in File |-> Slotted(fds)[f] + (IF f \in {r, w} THEN 1 ELSE 0)])
    BY <1>1, <1>2, CountedPipe
  <2> QED
    BY <1>5, <2>1
<1>7. \A f \in File : drop[f] <= N[f] /\ N[f] - drop[f] = Slotted(fds)[f]
  BY <1>1, <1>3, <1>5
<1>8. PICK M : M = [f \in File |-> N[f] - drop[f]]
  OBVIOUS
<1>9. Counted(file', pipe', handles', M)
      /\ \A x \in Pipe : pipe'[x] = None \/ SameBytes(pipe'[x], PipeNew(p)[x])
  <2>1. file_put(PipeFiles(r, w, p), PipeNew(p), handles, drop)
    BY <1>3 DEF PipeFails
  <2>2. /\ Counted(file', pipe', handles', [f \in File |-> N[f] - drop[f]])
        /\ \A x \in Pipe : pipe'[x] = None \/ SameBytes(pipe'[x], PipeNew(p)[x])
    BY <1>4, <1>6, <1>7, <2>1, CountedPut
  <2> QED
    BY <1>8, <2>2
<1>10. \A f \in File : M[f] = Slotted(fds)[f]
  BY <1>7, <1>8
<1>11. ASSUME UNCHANGED fds PROVE Inv'
  BY <1>9, <1>10, <1>11, StructStep
<1>12. ASSUME Reserves(fds[t], Slot(fds[t], 0)),
              fds' = [fds EXCEPT ![t] = PipeUndone(fd_install(fds[t], r, 0), fds[t])]
       PROVE  Inv'
  <2>1. PICK new : new = PipeUndone(fd_install(fds[t], r, 0), fds[t])
    OBVIOUS
  <2>2. new \in Table /\ \A f \in File : Cardinality(Holds(new, f)) = Cardinality(Holds(fds[t], f))
    BY <1>2, <1>12, <2>1, UndoneTable
  <2>3. \A f \in File : Cardinality(Holds(fds[t], f)) \in Nat
    BY <1>1, HoldsSome
  <2>4. \A f \in File : M[f] = Slotted(fds)[f] - Cardinality(Holds(fds[t], f)) + Cardinality(Holds(new, f))
    BY <1>1, <1>10, <2>2, <2>3
  <2>5. fds' = [fds EXCEPT ![t] = new]
    BY <1>12, <2>1
  <2>6. new \in Table \cup {None} /\ Inv /\ UNCHANGED input
    BY <2>2
  <2> QED
    BY <1>9, <2>4, <2>5, <2>6, TableStep, Zenon
<1>13. Kept
  <2>1. pipe'[p] = None
    <3>1. \A f \in File : file'[f] = None \/ (f \notin {r, w} /\ file'[f] = file[f])
      <4> SUFFICES ASSUME NEW f \in File, file'[f] # None PROVE f \notin {r, w} /\ file'[f] = file[f]
        OBVIOUS
      <4>1. Slotted(fds)[f] # 0
        BY <1>9, <1>10 DEF Counted, FileCounted
      <4>2. file[f] # None
        BY <1>1, <4>1 DEF Counted, FileCounted
      <4>3. f \notin {r, w} /\ drop[f] = 0
        BY <1>2, <1>3, <4>2
      <4>4. PipeFiles(r, w, p)[f] = file[f]
        BY <1>1, <4>3 DEF PipeFiles, Counted
      <4>5. file'[f] = PipeFiles(r, w, p)[f]
        <5>1. file_put(PipeFiles(r, w, p), PipeNew(p), handles, drop)
          BY <1>3 DEF PipeFails
        <5> QED
          BY <4>3, <5>1 DEF file_put
      <4> QED
        BY <4>3, <4>4, <4>5
    <3>2. Ends(file, p) = {}
      BY <1>1, <1>2 DEF Counted, PipeCounted
    <3>3. Ends(file', p) = {}
      BY <3>1, <3>2 DEF Ends
    <3> QED
      BY <1>9, <3>3 DEF Counted, PipeCounted
  <2>2. \A x \in Pipe \ {p} : PipeNew(p)[x] = pipe[x]
    BY <1>1 DEF PipeNew, Counted
  <2> QED
    BY <1>9, <2>1, <2>2 DEF Kept
<1> QED
  BY <1>11, <1>12, <1>13 DEF PipeFails

\* Occurrences are slots.
LEMMA OccurrencesHeld ==
    ASSUME NEW tab \in Table
    PROVE  /\ Occurrences(tab) \in [File -> Nat]
           /\ \A f \in File : Occurrences(tab)[f] = Cardinality(Holds(tab, f))
<1>1. tab # None
  BY TableDomain
<1>2. \A f \in File : Occurrences(tab)[f] = Cardinality(Holds(tab, f))
  BY <1>1 DEF Occurrences, Holds
<1>3. \A f \in File : Cardinality(Holds(tab, f)) \in Nat
  BY FiniteHolds
<1>4. Occurrences(tab) = [f \in File |-> Occurrences(tab)[f]]
  BY DEF Occurrences
<1> QED
  BY <1>2, <1>3, <1>4

\* task_fork
LEMMA ForkInv ==
    ASSUME Inv, NEW t \in Task, NEW child \in Task, Fork(t, child), UNCHANGED input
    PROVE  Inv'
<1>1. Counted(file, pipe, handles, Slotted(fds)) /\ Slotted(fds) \in [File -> Nat]
      /\ fds \in [Task -> Table \cup {None}] /\ file \in [File -> OpenFile \cup {None}]
  BY InvCounts
<1>2. fds[t] \in Table /\ fds[child] = None
  BY <1>1 DEF Fork, Live
<1>3. PICK tab \in Table : tab = fds[t]
  BY <1>2
<1>4. PICK add \in [File -> Nat] :
        add = Occurrences(tab) /\ \A f \in File : add[f] = Cardinality(Holds(tab, f))
  BY OccurrencesHeld
<1>5. \A f \in File : add[f] <= Slotted(fds)[f]
  BY <1>1, <1>3, <1>4, HoldsSome
<1>6. \A f \in File : file[f] = None => add[f] = 0
  BY <1>1, <1>4, <1>5 DEF Counted, FileCounted
<1>7. file' = [f \in File |-> IF file[f] = None THEN None
                              ELSE [file[f] EXCEPT !.refs = @ + add[f]]]
  BY <1>3, <1>4 DEF Fork, Shared
<1>8. ASSUME NEW f \in File, file[f] # None
      PROVE  /\ file'[f] \in OpenFile /\ file'[f] # None /\ file'[f].refs = file[f].refs + add[f]
             /\ file'[f].type = file[f].type /\ file'[f].pipe = file[f].pipe
  <2>1. file'[f] = [file[f] EXCEPT !.refs = @ + add[f]] /\ file[f] \in OpenFile
    BY <1>1, <1>7, <1>8
  <2>2. file'[f] \in OpenFile
    BY <2>1 DEF OpenFile
  <2> QED
    BY <2>1, <2>2, NoneAssumption DEF OpenFile
<1>9. \A f \in File : file[f] = None => file'[f] = None
  BY <1>7
<1>10. file' \in [File -> OpenFile \cup {None}]
  BY <1>7, <1>8, <1>9
<1>11. PICK M : M = [f \in File |-> Slotted(fds)[f] + add[f]]
  OBVIOUS
<1>12. M \in [File -> Nat] /\ \A f \in File : M[f] = Slotted(fds)[f] + add[f]
  BY <1>1, <1>11
<1>13. Counted(file', pipe, handles, M)
  BY <1>1, <1>6, <1>8, <1>9, <1>10, <1>12, CountedShare
<1>14. Counted(file', pipe', handles', M)
  BY <1>13 DEF Fork
<1>15. \A f \in File : Cardinality(Holds(None, f)) = 0
  BY FS_EmptySet DEF Holds
<1>16. \A f \in File : M[f] = Slotted(fds)[f] - Cardinality(Holds(fds[child], f)) + Cardinality(Holds(tab, f))
  BY <1>1, <1>2, <1>4, <1>12, <1>15
<1>17. fds' = [fds EXCEPT ![child] = tab]
  BY <1>3 DEF Fork
<1>18. tab \in Table \cup {None} /\ Inv /\ UNCHANGED input
  OBVIOUS
<1> QED
  BY <1>14, <1>16, <1>17, <1>18, TableStep, Zenon

\* task_exit
LEMMA ExitInv ==
    ASSUME Inv, NEW t \in Task, Exit(t), UNCHANGED input
    PROVE  Inv' /\ Kept
<1>1. Counted(file, pipe, handles, Slotted(fds)) /\ Slotted(fds) \in [File -> Nat]
      /\ fds \in [Task -> Table \cup {None}]
  BY InvCounts
<1>2. fds[t] \in Table
  BY <1>1 DEF Exit, Live
<1>3. PICK tab \in Table : tab = fds[t]
  BY <1>2
<1>4. PICK drop \in [File -> Nat] :
        drop = Occurrences(tab) /\ \A f \in File : drop[f] = Cardinality(Holds(tab, f))
  BY OccurrencesHeld
<1>5. \A f \in File : drop[f] <= Slotted(fds)[f]
  BY <1>1, <1>3, <1>4, HoldsSome
<1>6. file_put(file, pipe, handles, drop)
  BY <1>3, <1>4 DEF Exit
<1>7. PICK M : M = [f \in File |-> Slotted(fds)[f] - drop[f]]
  OBVIOUS
<1>8. Counted(file', pipe', handles', M) /\ Kept
  <2>1. /\ Counted(file', pipe', handles', [f \in File |-> Slotted(fds)[f] - drop[f]])
        /\ \A p \in Pipe : pipe'[p] = None \/ SameBytes(pipe'[p], pipe[p])
    BY <1>1, <1>5, <1>6, CountedPut
  <2> QED
    BY <1>7, <2>1 DEF Kept
<1>9. \A f \in File : Cardinality(Holds(None, f)) = 0
  BY FS_EmptySet DEF Holds
<1>10. \A f \in File : M[f] = Slotted(fds)[f] - Cardinality(Holds(fds[t], f)) + Cardinality(Holds(None, f))
  BY <1>1, <1>3, <1>4, <1>7, <1>9
<1>11. fds' = [fds EXCEPT ![t] = None] /\ None \in Table \cup {None}
  BY DEF Exit
<1> QED
  BY <1>8, <1>10, <1>11, TableStep

-----------------------------------------------------------------------------
(* The ring buffer. *)

\* A place of the ring.
RingAt(n) == n % PIPE_SIZE

\* Within two rounds.
LEMMA RingTwice ==
    ASSUME NEW n \in Nat, n < 2 * PIPE_SIZE
    PROVE  RingAt(n) = IF n < PIPE_SIZE THEN n ELSE n - PIPE_SIZE
BY SizeAssumption, Remainder DEF RingAt

\* Two places of the ring within one round differ.
LEMMA RingDistinct ==
    ASSUME NEW h \in 0..(PIPE_SIZE - 1), NEW a \in 0..(PIPE_SIZE - 1), NEW b \in 0..(PIPE_SIZE - 1),
           RingAt(h + a) = RingAt(h + b)
    PROVE  a = b
<1>1. PIPE_SIZE \in Nat \ {0}
  BY SizeAssumption
<1>2. h + a \in Nat /\ h + a < 2 * PIPE_SIZE /\ h + b \in Nat /\ h + b < 2 * PIPE_SIZE
  BY <1>1
<1>3. RingAt(h + a) = IF h + a < PIPE_SIZE THEN h + a ELSE (h + a) - PIPE_SIZE
  BY <1>2, RingTwice
<1>4. RingAt(h + b) = IF h + b < PIPE_SIZE THEN h + b ELSE (h + b) - PIPE_SIZE
  BY <1>2, RingTwice
<1> QED
  BY <1>1, <1>3, <1>4

\* The head moves on; places count from there.
LEMMA RingShift ==
    ASSUME NEW h \in 0..(PIPE_SIZE - 1), NEW a \in Nat, NEW b \in Nat, a + b < PIPE_SIZE
    PROVE  RingAt(RingAt(h + a) + b) = RingAt(h + (a + b))
<1>1. PIPE_SIZE \in Nat \ {0}
  BY SizeAssumption
<1>2. /\ h + a \in Nat /\ h + a < 2 * PIPE_SIZE
      /\ h + (a + b) \in Nat /\ h + (a + b) < 2 * PIPE_SIZE
  BY <1>1
<1>3. RingAt(h + a) = IF h + a < PIPE_SIZE THEN h + a ELSE (h + a) - PIPE_SIZE
  BY <1>2, RingTwice
<1>4. PICK m \in 0..(PIPE_SIZE - 1) : m = RingAt(h + a)
  BY <1>1, <1>2, <1>3
<1>5. m + b \in Nat /\ m + b < 2 * PIPE_SIZE
  BY <1>1
<1>6. RingAt(m + b) = IF m + b < PIPE_SIZE THEN m + b ELSE (m + b) - PIPE_SIZE
  BY <1>5, RingTwice
<1>7. RingAt(h + (a + b)) =
         IF h + (a + b) < PIPE_SIZE THEN h + (a + b) ELSE (h + (a + b)) - PIPE_SIZE
  BY <1>2, RingTwice
<1>8. RingAt(m + b) = RingAt(h + (a + b))
  BY <1>1, <1>3, <1>4, <1>6, <1>7
<1> QED
  BY <1>4, <1>8

\* It is one of the places.
LEMMA RingPlace ==
    ASSUME NEW n \in Nat
    PROVE  RingAt(n) \in 0..(PIPE_SIZE - 1)
BY SizeAssumption, Division DEF RingAt

\* A write fills the places behind the bytes that are there, and no others.
LEMMA FilledPipe ==
    ASSUME NEW q \in PipeBuffer, NEW n \in Nat, NEW bytes \in [1..n -> Byte]
    PROVE  LET done == Lesser(n, PIPE_SIZE - q.count)
               new == Filled(q, bytes)
           IN  /\ done \in Nat /\ new \in PipeBuffer /\ new.refs = q.refs /\ new.head = q.head
               /\ new.count = q.count + done
               /\ \A i \in 1..(q.count + done) :
                     new.data[RingAt(q.head + i - 1)] =
                        IF i <= q.count THEN q.data[RingAt(q.head + i - 1)]
                        ELSE bytes[i - q.count]
<1>1. PICK S \in Nat \ {0} : S = PIPE_SIZE
  BY SizeAssumption
<1>2. PICK c \in 0..S : c = q.count
  BY <1>1 DEF PipeBuffer
<1>3. PICK h \in 0..(S - 1) : h = q.head
  BY <1>1 DEF PipeBuffer
<1>4. PICK done \in 0..S : done = Lesser(n, S - c) /\ done <= n /\ c + done <= S
  BY DEF Lesser
<1>5. Len(bytes) = n
  BY ListLength
<1> DEFINE At(i, j) == i = RingAt(h + c + j)
           d == [i \in 0..(S - 1) |->
                    IF \E j \in 0..(done - 1) : At(i, j)
                    THEN bytes[1 + CHOOSE j \in 0..(done - 1) : At(i, j)]
                    ELSE q.data[i]]
<1>6. Filled(q, bytes) = [q EXCEPT !.count = c + done, !.data = d]
  BY <1>1, <1>2, <1>3, <1>4, <1>5 DEF Filled, Room, WriteAt, RingAt
<1>7. q.data \in [0..(S - 1) -> Byte]
  BY <1>1 DEF PipeBuffer
<1>8. ASSUME NEW i \in 0..(S - 1), NEW j \in 0..(done - 1), At(i, j)
      PROVE  d[i] = bytes[1 + j] /\ d[i] \in Byte
  <2>1. PICK k \in 0..(done - 1) : k = (CHOOSE x \in 0..(done - 1) : At(i, x)) /\ At(i, k)
    BY <1>8
  <2>2. RingAt(h + (c + j)) = RingAt(h + (c + k))
    <3>1. h + (c + j) = h + c + j /\ h + (c + k) = h + c + k
      OBVIOUS
    <3> QED
      BY <1>8, <2>1, <3>1
  <2>3. c + j \in 0..(S - 1) /\ c + k \in 0..(S - 1)
    BY <1>4
  <2>4. c + j = c + k
    BY <1>1, <2>2, <2>3, RingDistinct
  <2>5. j = k
    BY <2>4
  <2>6. d[i] = bytes[1 + k]
    BY <1>8, <2>1
  <2>7. 1 + j \in 1..n
    BY <1>4
  <2> QED
    BY <2>5, <2>6, <2>7
<1>9. ASSUME NEW i \in 0..(S - 1), \A j \in 0..(done - 1) : ~At(i, j)
      PROVE  d[i] = q.data[i] /\ d[i] \in Byte
  BY <1>7, <1>9
<1>10. d \in [0..(S - 1) -> Byte]
  <2>1. \A i \in 0..(S - 1) : d[i] \in Byte
    <3> HIDE DEF d, At
    <3> QED
      BY <1>8, <1>9
  <2>2. d = [i \in 0..(S - 1) |-> d[i]]
    OBVIOUS
  <2> HIDE DEF d
  <2> QED
    BY <2>1, <2>2
<1>11. ASSUME NEW i \in 1..(c + done)
       PROVE  d[RingAt(h + i - 1)] = IF i <= c THEN q.data[RingAt(h + i - 1)] ELSE bytes[i - c]
  <2>1. PICK m \in 0..(S - 1) : m = RingAt(h + i - 1)
    <3>1. h + i - 1 \in Nat
      OBVIOUS
    <3> QED
      BY <1>1, <3>1, RingPlace
  <2>2. i - 1 \in 0..(S - 1) /\ h + (i - 1) = h + i - 1
    BY <1>4
  <2>3. CASE i <= c
    <3>1. ASSUME NEW j \in 0..(done - 1), At(m, j) PROVE FALSE
      <4>1. RingAt(h + (i - 1)) = RingAt(h + (c + j))
        <5>1. h + (c + j) = h + c + j
          OBVIOUS
        <5> QED
          BY <2>1, <2>2, <3>1, <5>1
      <4>2. c + j \in 0..(S - 1)
        BY <1>4
      <4>3. i - 1 = c + j
        BY <1>1, <2>2, <4>1, <4>2, RingDistinct
      <4> QED
        BY <2>3, <4>3
    <3>2. d[m] = q.data[m]
      <4> HIDE DEF d, At
      <4> QED
        BY <1>9, <3>1
    <3> QED
      BY <2>1, <2>3, <3>2
  <2>4. CASE i > c
    <3>1. PICK j \in 0..(done - 1) : j = i - 1 - c /\ 1 + j = i - c /\ h + c + j = h + i - 1
      BY <2>4
    <3>2. At(m, j)
      BY <2>1, <3>1
    <3>3. d[m] = bytes[i - c]
      <4> HIDE DEF d, At
      <4> QED
        BY <1>8, <3>1, <3>2
    <3>4. ~(i <= c)
      BY <2>4
    <3> QED
      BY <2>1, <3>3, <3>4
  <2> QED
    BY <2>3, <2>4
<1> HIDE DEF d
<1>12. PICK new : new = Filled(q, bytes)
  OBVIOUS
<1>13. /\ new \in PipeBuffer /\ new.refs = q.refs /\ new.head = q.head
       /\ new.count = c + done /\ new.data = d
  <2>1. c + done \in 0..PIPE_SIZE
    BY <1>1, <1>4
  <2> QED
    BY <1>1, <1>6, <1>10, <1>12, <2>1 DEF PipeBuffer
<1>14. Lesser(n, PIPE_SIZE - q.count) = done
  BY <1>1, <1>2, <1>4
<1>15. /\ done \in Nat /\ new \in PipeBuffer /\ new.refs = q.refs /\ new.head = q.head
       /\ new.count = q.count + done
       /\ \A i \in 1..(q.count + done) :
             new.data[RingAt(q.head + i - 1)] =
                IF i <= q.count THEN q.data[RingAt(q.head + i - 1)]
                ELSE bytes[i - q.count]
  BY <1>1, <1>2, <1>3, <1>11, <1>13
<1> QED
  BY <1>12, <1>14, <1>15

\* A read gives the first bytes and leaves the others in their order.
LEMMA DrainedPipe ==
    ASSUME NEW q \in PipeBuffer, NEW done \in 0..q.count
    PROVE  LET new == Drained(q, done)
           IN  /\ new \in PipeBuffer /\ new.refs = q.refs /\ new.count = q.count - done
               /\ q.count \in Nat
               /\ \A i \in 1..(q.count - done) :
                     new.data[RingAt(new.head + i - 1)] =
                        q.data[RingAt(q.head + (done + i) - 1)]
<1>1. q.count \in 0..PIPE_SIZE /\ q.head \in 0..(PIPE_SIZE - 1) /\ PIPE_SIZE \in Nat \ {0}
  BY SizeAssumption DEF PipeBuffer
<1>2. PICK h \in 0..(PIPE_SIZE - 1) : h = q.head
  BY <1>1
<1>3. PICK h2 \in 0..(PIPE_SIZE - 1) : h2 = RingAt(h + done)
  <2>1. h + done \in Nat
    BY <1>1
  <2> QED
    BY <2>1, RingPlace
<1>4. PICK new : new = Drained(q, done)
  OBVIOUS
<1>5. new = [q EXCEPT !.head = h2, !.count = q.count - done]
  BY <1>2, <1>3, <1>4 DEF Drained, RingAt
<1>6. q.count - done \in 0..PIPE_SIZE
  BY <1>1
<1>7. /\ new \in PipeBuffer /\ new.refs = q.refs /\ new.head = h2 /\ new.count = q.count - done
      /\ new.data = q.data
  BY <1>5, <1>6 DEF PipeBuffer
<1>8. ASSUME NEW i \in 1..(q.count - done)
      PROVE  RingAt(h2 + i - 1) = RingAt(h + (done + i) - 1)
  <2>1. done \in Nat /\ i - 1 \in Nat /\ done + (i - 1) < PIPE_SIZE
    BY <1>1
  <2>2. RingAt(h2 + (i - 1)) = RingAt(h + (done + (i - 1)))
    BY <1>3, <2>1, RingShift
  <2>3. h2 + (i - 1) = h2 + i - 1 /\ h + (done + (i - 1)) = h + (done + i) - 1
    BY <2>1
  <2> QED
    BY <2>2, <2>3
<1>9. \A i \in 1..(q.count - done) :
         new.data[RingAt(new.head + i - 1)] = q.data[RingAt(q.head + (done + i) - 1)]
  BY <1>2, <1>7, <1>8
<1> QED
  BY <1>1, <1>4, <1>7, <1>9

-----------------------------------------------------------------------------
(* Bytes and lines. *)

\* The pipe behind one of its ends.
LEMMA PipeBehind ==
    ASSUME Inv, NEW t \in Task, NEW fd, fd_get(t, fd) # None,
           file[fds[t][fd]].type \in {"PIPE_R", "PIPE_W"}
    PROVE  file[fds[t][fd]].pipe \in Pipe /\ pipe[file[fds[t][fd]].pipe] \in PipeBuffer
           /\ pipe[file[fds[t][fd]].pipe] # None
<1>1. Counted(file, pipe, handles, Slotted(fds)) /\ fds \in [Task -> Table \cup {None}]
      /\ pipe \in [Pipe -> PipeBuffer \cup {None}]
  BY InvCounts
<1>2. PICK f \in File : f = fds[t][fd] /\ file[f] # None /\ file[f] \in OpenFile
  BY <1>1, SlotInUse
<1>3. file[f].pipe # None
  BY <1>1, <1>2 DEF Counted, FileCounted
<1>4. PICK p \in Pipe : p = file[f].pipe
  BY <1>2, <1>3 DEF OpenFile
<1>5. f \in Ends(file, p)
  BY <1>2, <1>4 DEF Ends
<1>6. pipe[p] # None
  BY <1>1, <1>5 DEF Counted, PipeCounted
<1> QED
  BY <1>1, <1>2, <1>4, <1>6

\* Bytes go in or out, and nothing else changes.
LEMMA BytesStep ==
    ASSUME Inv, NEW p \in Pipe, pipe[p] # None, NEW q \in PipeBuffer, q.refs = pipe[p].refs,
           pipe' = [pipe EXCEPT ![p] = q], UNCHANGED <<fds, file, handles, input>>
    PROVE  Inv'
<1>1. Counted(file, pipe, handles, Slotted(fds)) /\ pipe \in [Pipe -> PipeBuffer \cup {None}]
  BY InvCounts
<1>2. q # None
  BY NoneAssumption
<1>3. /\ pipe' \in [Pipe -> PipeBuffer \cup {None}] /\ pipe'[p] = q
      /\ \A x \in Pipe \ {p} : pipe'[x] = pipe[x]
  BY <1>1
<1>4. \A x \in Pipe : PipeCounted(file, pipe', x)
  <2> SUFFICES ASSUME NEW x \in Pipe PROVE PipeCounted(file, pipe', x)
    OBVIOUS
  <2>1. PipeCounted(file, pipe, x)
    BY <1>1 DEF Counted
  <2>2. CASE x = p
    BY <1>2, <1>3, <2>1, <2>2 DEF PipeCounted
  <2>3. CASE x # p
    <3>1. pipe'[x] = pipe[x]
      BY <1>3, <2>3
    <3> QED
      BY <2>1, <3>1 DEF PipeCounted
  <2> QED
    BY <2>2, <2>3
<1>5. Counted(file, pipe', handles, Slotted(fds))
  BY <1>1, <1>3, <1>4 DEF Counted
<1>6. Counted(file', pipe', handles', Slotted(fds))
  BY <1>5
<1> QED
  BY <1>6, StructStep

\* task_fd_write on a pipe
LEMMA WriteInv ==
    ASSUME Inv, NEW t \in Task, NEW fd, NEW n \in Nat, NEW bytes \in [1..n -> Byte],
           Write(t, fd, bytes), UNCHANGED input
    PROVE  Inv'
<1>1. fd_get(t, fd) # None /\ file[fds[t][fd]].type \in {"PIPE_R", "PIPE_W"}
  BY DEF Write
<1>2. PICK p \in Pipe : p = file[fds[t][fd]].pipe /\ pipe[p] \in PipeBuffer /\ pipe[p] # None
  BY <1>1, PipeBehind
<1>3. PICK q : q = Filled(pipe[p], bytes)
  OBVIOUS
<1>4. q \in PipeBuffer /\ q.refs = pipe[p].refs
  BY <1>2, <1>3, FilledPipe
<1>5. pipe' = [pipe EXCEPT ![p] = q] /\ UNCHANGED <<fds, file, handles, input>>
  BY <1>2, <1>3 DEF Write
<1> QED
  BY <1>2, <1>4, <1>5, BytesStep

\* task_fd_read on a pipe
LEMMA ReadInv ==
    ASSUME Inv, NEW t \in Task, NEW fd, NEW len \in Nat, Read(t, fd, len), UNCHANGED input
    PROVE  Inv'
<1>1. fd_get(t, fd) # None /\ file[fds[t][fd]].type \in {"PIPE_R", "PIPE_W"}
  BY DEF Read
<1>2. PICK p \in Pipe : p = file[fds[t][fd]].pipe /\ pipe[p] \in PipeBuffer /\ pipe[p] # None
  BY <1>1, PipeBehind
<1>3. PICK done \in 0..pipe[p].count : done = Lesser(len, pipe[p].count)
  BY <1>2 DEF Lesser, PipeBuffer
<1>4. PICK q : q = Drained(pipe[p], done)
  OBVIOUS
<1>5. q \in PipeBuffer /\ q.refs = pipe[p].refs
  BY <1>2, <1>4, DrainedPipe
<1>6. pipe' = [pipe EXCEPT ![p] = q] /\ UNCHANGED <<fds, file, handles, input>>
  BY <1>2, <1>3, <1>4 DEF Read
<1> QED
  BY <1>2, <1>5, <1>6, BytesStep

\* A line as it is typed: no newline before its last byte.
Typing == {l \in Seq(Byte) : Len(l) <= InputSize /\ \A i \in 1..(Len(l) - 1) : l[i] # Newline}

\* A key leaves such a line, unless it is done.
LEMMA TypedLine ==
    ASSUME NEW l \in Typing, ~LineDone(l), NEW key \in Byte \cup {Return, Erase}
    PROVE  Typed(l, key) \in Typing
<1>1. l \in Seq(Byte) /\ Len(l) \in Nat /\ Len(l) < InputSize /\ \A i \in 1..(Len(l) - 1) : l[i] # Newline
  BY InputAssumption, LenProperties DEF Typing, LineDone
<1>2. \A i \in 1..Len(l) : l[i] # Newline
  BY <1>1, EmptySeq DEF LineDone
<1>3. Return # Erase /\ Newline \in Byte /\ Return \notin Byte /\ Erase \notin Byte
  BY ByteAssumption
<1>4. ASSUME NEW b \in Byte PROVE Append(l, b) \in Typing
  <2>1. /\ Append(l, b) \in Seq(Byte) /\ Len(Append(l, b)) = Len(l) + 1
        /\ \A i \in 1..Len(l) : Append(l, b)[i] = l[i]
    BY <1>1, AppendProperties
  <2>2. \A i \in 1..(Len(Append(l, b)) - 1) : Append(l, b)[i] # Newline
    BY <1>1, <1>2, <2>1
  <2>3. Len(Append(l, b)) <= InputSize
    BY <1>1, <2>1, InputAssumption
  <2> QED
    BY <2>1, <2>2, <2>3 DEF Typing
<1>5. CASE key = Erase
  <2>1. CASE l = <<>>
    BY <1>3, <1>5, <2>1 DEF Typed
  <2>2. CASE l # <<>>
    <3>1. PICK m \in Nat : m = Len(l) - 1
      BY <1>1, <2>2, EmptySeq
    <3>2. PICK s : s = SubSeq(l, 1, m)
      OBVIOUS
    <3>3. m \in Int /\ 1 \in Int /\ \A i \in 1..m : l[i] \in Byte
      BY <1>1, <3>1, ElementOfSeq
    <3>4. /\ s \in Seq(Byte) /\ Len(s) = (IF 1 <= m THEN m - 1 + 1 ELSE 0)
          /\ \A i \in 1..(m - 1 + 1) : s[i] = l[1 + i - 1]
      BY <3>2, <3>3, SubSeqProperties
    <3>5. Len(s) = m /\ \A i \in 1..m : s[i] = l[i]
      <4>1. m - 1 + 1 = m /\ \A i \in 1..m : 1 + i - 1 = i
        OBVIOUS
      <4>2. ASSUME NEW i \in 1..m PROVE s[i] = l[i]
        <5>1. s[i] = l[1 + i - 1]
          BY <3>4, <4>1
        <5> QED
          BY <4>1, <5>1
      <4> QED
        BY <3>4, <4>1, <4>2
    <3>6. s \in Typing
      BY <1>1, <1>2, <3>1, <3>4, <3>5, InputAssumption DEF Typing
    <3> QED
      BY <1>3, <1>5, <2>2, <3>1, <3>2, <3>6 DEF Typed
  <2> QED
    BY <2>1, <2>2
<1>6. CASE key = Return
  BY <1>3, <1>4, <1>6 DEF Typed
<1>7. CASE key \in Byte
  BY <1>3, <1>4, <1>7 DEF Typed
<1> QED
  BY <1>5, <1>6, <1>7

\* One round of the loop.
Key(X) == X \cup {Typed(l, key) : l \in {k \in X : ~LineDone(k)}, key \in Byte \cup {Return, Erase}}

\* However many keys are typed.
LEMMA EditedLines ==
    \A n \in 0..MaxKeys : Edited[n] \subseteq Typing
<1> DEFINE Is(g) == g = [n \in 0..MaxKeys |-> IF n = 0 THEN {<<>>} ELSE Key(g[n - 1])]
           T == SUBSET Typing
           F == [i \in 1..MaxKeys |-> [X \in T |-> Key(X)]]
<1>1. <<>> \in Typing
  BY EmptySeq, InputAssumption DEF Typing
<1>2. \A X \in T : Key(X) \in T
  BY TypedLine DEF Key
<1>3. F \in [1..MaxKeys -> [T -> T]] /\ \A i \in 1..MaxKeys, X \in T : F[i][X] = Key(X)
  BY <1>2
<1>4. {<<>>} \in T
  BY <1>1
<1> HIDE DEF T, F
<1>5. PICK g \in [0..MaxKeys -> T] : Rounds(g, {<<>>}, F, MaxKeys)
  BY <1>3, <1>4, InputAssumption, RoundsExist
<1>6. Is(g)
  <2>1. ASSUME NEW n \in 0..MaxKeys
        PROVE  g[n] = IF n = 0 THEN {<<>>} ELSE Key(g[n - 1])
    <3>1. g[n] = IF n = 0 THEN {<<>>} ELSE F[n][g[n - 1]]
      BY <1>5 DEF Rounds
    <3>2. n # 0 => n \in 1..MaxKeys /\ g[n - 1] \in T
      BY InputAssumption
    <3> QED
      BY <1>3, <3>1, <3>2
  <2> QED
    BY <2>1
<1>7. Edited = CHOOSE h : Is(h)
  BY DEF Edited, Key
<1>8. Is(Edited)
  <2> HIDE DEF Is
  <2> QED
    BY <1>6, <1>7
<1>9. \A n \in Nat : n <= MaxKeys => Edited[n] \in T
  <2> DEFINE S == {n \in Nat : n <= MaxKeys => Edited[n] \in T}
  <2>1. 0 \in S
    BY <1>4, <1>8, InputAssumption
  <2>2. ASSUME NEW n \in Nat, n \in S PROVE n + 1 \in S
    <3> SUFFICES ASSUME n + 1 <= MaxKeys PROVE Edited[n + 1] \in T
      OBVIOUS
    <3>1. n + 1 \in 0..MaxKeys /\ n + 1 # 0 /\ (n + 1) - 1 = n /\ Edited[n] \in T
      BY <2>2, InputAssumption
    <3>2. Edited[n + 1] = Key(Edited[n])
      BY <1>8, <3>1
    <3> QED
      BY <1>2, <3>1, <3>2
  <2>3. Nat \subseteq S
    <3> HIDE DEF S
    <3> QED
      BY <2>1, <2>2, SetInduction
  <2> QED
    BY <2>3
<1> QED
  BY <1>9, InputAssumption DEF T

\* What a read of the console takes the bytes from.
LEMMA ConsoleLine ==
    ASSUME Inv, NEW line \in IF input = <<>> THEN {l \in Edited[MaxKeys] : LineDone(l)} ELSE {input}
    PROVE  /\ line \in Seq(Byte) /\ Len(line) \in 1..InputSize
           /\ input = <<>> => line \in Typing /\ LineDone(line)
           /\ input # <<>> => line = input
<1>1. input \in Seq(Byte) /\ Len(input) < InputSize
  BY DEF Inv
<1>2. CASE input = <<>>
  <2>1. line \in Typing /\ LineDone(line)
    <3>1. line \in Edited[MaxKeys] /\ LineDone(line) /\ MaxKeys \in 0..MaxKeys
      BY <1>2, InputAssumption
    <3> QED
      BY <3>1, EditedLines
  <2>2. line \in Seq(Byte) /\ Len(line) \in Nat /\ Len(line) <= InputSize
    BY <2>1, LenProperties DEF Typing
  <2>3. Len(line) # 0
    BY <2>1, <2>2, EmptySeq, InputAssumption DEF LineDone
  <2> QED
    BY <1>2, <2>1, <2>2, <2>3, InputAssumption
<1>3. CASE input # <<>>
  <2>1. Len(input) \in Nat \ {0}
    BY <1>1, <1>3, EmptySeq
  <2> QED
    BY <1>1, <1>3, <2>1, InputAssumption
<1> QED
  BY <1>2, <1>3

\* A line is cut in two.
LEMMA LineCut ==
    ASSUME NEW line \in Seq(Byte), NEW done \in 1..Len(line)
    PROVE  LET a == SubSeq(line, 1, done)
               b == SubSeq(line, done + 1, Len(line))
           IN  /\ a \in Seq(Byte) /\ a # <<>> /\ b \in Seq(Byte) /\ Len(b) = Len(line) - done
               /\ a \o b = line
<1>1. Len(line) \in Nat /\ \A i \in 1..Len(line) : line[i] \in Byte
  BY LenProperties, ElementOfSeq
<1>2. PICK a : a = SubSeq(line, 1, done)
  OBVIOUS
<1>3. PICK b : b = SubSeq(line, done + 1, Len(line))
  OBVIOUS
<1>4. a \in Seq(Byte) /\ Len(a) = IF 1 <= done THEN done - 1 + 1 ELSE 0
  <2>1. 1 \in Int /\ done \in Int /\ \A i \in 1..done : line[i] \in Byte
    BY <1>1
  <2> QED
    BY <1>2, <2>1, SubSeqProperties
<1>5. b \in Seq(Byte) /\ Len(b) = IF done + 1 <= Len(line) THEN Len(line) - (done + 1) + 1 ELSE 0
  <2>1. done + 1 \in Int /\ Len(line) \in Int /\ \A i \in (done + 1)..Len(line) : line[i] \in Byte
    BY <1>1
  <2> QED
    BY <1>3, <2>1, SubSeqProperties
<1>6. Len(b) = Len(line) - done
  BY <1>1, <1>5
<1>7. a # <<>>
  <2>1. Len(a) # 0
    BY <1>1, <1>4
  <2> QED
    BY <2>1, EmptySeq
<1>8. a \o b = line
  <2>1. 1 \in 1..(Len(line) + 1) /\ done \in (1 - 1)..Len(line) /\ Len(line) \in done..Len(line)
    BY <1>1
  <2>2. SubSeq(line, 1, done) \o SubSeq(line, done + 1, Len(line)) = SubSeq(line, 1, Len(line))
    BY <2>1, ConcatAdjacentSubSeq
  <2>3. SubSeq(line, 1, Len(line)) = line
    BY SubSeqFull
  <2> QED
    BY <1>2, <1>3, <2>2, <2>3
<1> QED
  BY <1>2, <1>3, <1>4, <1>5, <1>6, <1>7, <1>8

\* task_fd_read on the console
LEMMA ReadConsoleInv ==
    ASSUME Inv, NEW t \in Task, NEW fd, NEW len \in Nat \ {0}, ReadConsole(t, fd, len)
    PROVE  Inv'
<1>1. PICK line \in IF input = <<>> THEN {l \in Edited[MaxKeys] : LineDone(l)} ELSE {input} :
          input' = SubSeq(line, Lesser(len, Len(line)) + 1, Len(line))
  BY DEF ReadConsole
<1>2. line \in Seq(Byte) /\ Len(line) \in 1..InputSize
  BY ConsoleLine
<1>3. PICK done \in 1..Len(line) : done = Lesser(len, Len(line))
  BY <1>2 DEF Lesser
<1>4. input' \in Seq(Byte) /\ Len(input') = Len(line) - done
  BY <1>1, <1>2, <1>3, LineCut
<1>5. Len(input') < InputSize
  BY <1>2, <1>4, InputAssumption
<1>6. UNCHANGED <<fds, file, pipe, handles>>
  BY DEF ReadConsole
<1> QED
  BY <1>4, <1>5, <1>6 DEF Inv

-----------------------------------------------------------------------------
(* The invariants. *)

\* Every step.
LEMMA InvNext ==
    ASSUME Inv, [Next]_vars
    PROVE  Inv'
<1>1. CASE UNCHANGED vars
  BY <1>1 DEF Inv, vars
<1>2. ASSUME NEW t \in Task, NEW fd \in 0..(FdMax - 1), NEW len \in 1..(InputSize + 1),
             ReadConsole(t, fd, len)
      PROVE  Inv'
  <2>1. len \in Nat \ {0}
    BY InputAssumption
  <2> QED
    BY <1>2, <2>1, ReadConsoleInv
<1>3. CASE Calls /\ UNCHANGED input
  <2>1. UNCHANGED input
    BY <1>3
  <2>2. PICK t \in Task :
            \/ \E f \in File : Open(t, f) \/ OpenFails(t, f)
            \/ \E fd \in 0..(FdMax - 1) :
                \/ Close(t, fd)
                \/ \E other \in 0..(FdMax - 1) : Dup(t, fd, other) \/ Dup2(t, fd, other)
                \/ \E bytes \in Bytes : Write(t, fd, bytes)
                \/ \E len \in 1..(PIPE_SIZE + 1) : Read(t, fd, len)
            \/ \E r, w \in File, p \in Pipe : MakePipe(t, r, w, p) \/ PipeFails(t, r, w, p)
            \/ \E child \in Task : Fork(t, child)
            \/ Exit(t)
    BY <1>3 DEF Calls
  <2>3. 0..(FdMax - 1) \subseteq Nat
    BY SizeAssumption
  <2>4. ASSUME NEW f \in File, Open(t, f) \/ OpenFails(t, f) PROVE Inv'
    BY <2>1, <2>4, OpenInv, OpenFailsInv
  <2>5. ASSUME NEW fd \in 0..(FdMax - 1), Close(t, fd) PROVE Inv'
    BY <2>1, <2>3, <2>5, CloseInv
  <2>6. ASSUME NEW fd \in 0..(FdMax - 1), NEW other \in 0..(FdMax - 1),
               Dup(t, fd, other) \/ Dup2(t, fd, other)
        PROVE  Inv'
    BY <2>1, <2>3, <2>6, DupInv, Dup2Inv
  <2>7. ASSUME NEW fd \in 0..(FdMax - 1), NEW bytes \in Bytes, Write(t, fd, bytes) PROVE Inv'
    <3>1. PICK n \in 1..(PIPE_SIZE + 1) : bytes \in [1..n -> Byte]
      BY DEF Bytes
    <3>2. n \in Nat
      BY SizeAssumption
    <3> QED
      BY <2>1, <2>7, <3>1, <3>2, WriteInv
  <2>8. ASSUME NEW fd \in 0..(FdMax - 1), NEW len \in 1..(PIPE_SIZE + 1), Read(t, fd, len) PROVE Inv'
    <3>1. len \in Nat
      BY SizeAssumption
    <3> QED
      BY <2>1, <2>8, <3>1, ReadInv
  <2>9. ASSUME NEW r \in File, NEW w \in File, NEW p \in Pipe,
               MakePipe(t, r, w, p) \/ PipeFails(t, r, w, p)
        PROVE  Inv'
    BY <2>1, <2>9, MakePipeInv, PipeFailsInv
  <2>10. ASSUME NEW child \in Task, Fork(t, child) PROVE Inv'
    BY <2>1, <2>10, ForkInv
  <2>11. CASE Exit(t)
    BY <2>1, <2>11, ExitInv
  <2> QED
    BY <2>2, <2>4, <2>5, <2>6, <2>7, <2>8, <2>9, <2>10, <2>11
<1> QED
  BY <1>1, <1>2, <1>3 DEF Next

\* The structs are counted in every state of every execution: the slots of a table, the
\* references of an open file, the ends of a pipe and the handles of the VFS agree after
\* every call of task.c, the ones that fail half way included.
THEOREM FdsInv == Spec => []Inv
<1>1. Init => Inv
  BY InvInit
<1>2. Inv /\ [Next]_vars => Inv'
  BY InvNext
<1> QED
  BY <1>1, <1>2, PTL DEF Spec

\* Counts and positions stay within the tables, the ring buffers and the line buffer.
THEOREM FdsTypeOK == Spec => []TypeOK
<1>1. ASSUME Inv PROVE TypeOK
  <2>1. /\ fds \in [Task -> Table \cup {None}]
        /\ Counted(file, pipe, handles, Slotted(fds))
        /\ file \in [File -> OpenFile \cup {None}] /\ pipe \in [Pipe -> PipeBuffer \cup {None}]
    BY <1>1, InvCounts
  <2>2. \A t \in Live : fds[t] \in Table
    BY <2>1 DEF Live
  <2>3. ASSUME NEW f \in File, file[f] # None
        PROVE  file[f] \in OpenFile /\ file[f].refs \in 1..(FdMax * Cardinality(Task))
    <3>1. PICK n : n = Cardinality(Slots(fds, f))
      OBVIOUS
    <3>2. file[f] \in OpenFile /\ file[f].refs = n /\ n # 0
      BY <2>1, <2>3, <3>1 DEF Counted, FileCounted, Slotted
    <3>3. n \in Nat /\ n <= FdMax * Cardinality(Task)
      BY <3>1, FiniteSlots
    <3>4. FdMax * Cardinality(Task) \in Nat
      BY SizeAssumption, TaskAssumption, FS_CardinalityType
    <3>5. PICK m \in Nat : m = FdMax * Cardinality(Task)
      BY <3>4
    <3>6. n \in 1..m
      BY <3>2, <3>3, <3>5
    <3> QED
      BY <3>2, <3>5, <3>6
  <2>4. ASSUME NEW p \in Pipe, pipe[p] # None
        PROVE  pipe[p] \in PipeBuffer /\ pipe[p].refs \in 1..2
    BY <2>1, <2>4 DEF Counted, PipeCounted
  <2>5. handles \subseteq File
    BY <2>1 DEF Counted
  <2>6. Len(input) < InputSize
    BY <1>1 DEF Inv
  <2> QED
    BY <2>2, <2>3, <2>4, <2>5, <2>6 DEF TypeOK
<1> QED
  BY <1>1, FdsInv, PTL

\* An open file lives exactly as long as a descriptor of some task leads to it, and its
\* count is the number of these descriptors.
THEOREM FdsFilesCounted == Spec => []FilesCounted
<1>1. ASSUME Inv PROVE FilesCounted
  <2>1. fds \in [Task -> Table \cup {None}] /\ Counted(file, pipe, handles, Slotted(fds))
    BY <1>1, InvCounts
  <2>2. ASSUME NEW f \in File
        PROVE  {x \in Task \X (0..(FdMax - 1)) : fd_get(x[1], x[2]) = f} = Slots(fds, f)
    <3>1. ASSUME NEW t \in Task, NEW fd \in 0..(FdMax - 1)
          PROVE  fd_get(t, fd) = f <=> fd \in Holds(fds[t], f)
      <4>1. f # None
        BY NoneAssumption
      <4>2. CASE fds[t] = None
        BY <4>1, <4>2 DEF fd_get, Live, Holds
      <4>3. CASE fds[t] # None
        BY <4>1, <4>3 DEF fd_get, Live, Holds
      <4> QED
        BY <4>2, <4>3
    <3> QED
      BY <3>1 DEF Slots
  <2>3. ASSUME NEW f \in File
        PROVE  /\ (file[f] = None) <=> (Slots(fds, f) = {})
               /\ file[f] # None => file[f].refs = Cardinality(Slots(fds, f))
               /\ f \in handles <=> (file[f] # None /\ file[f].type = "VFS")
    <3>1. FileCounted(file, handles, Slotted(fds), f)
      BY <2>1 DEF Counted
    <3>2. Slotted(fds)[f] = Cardinality(Slots(fds, f))
      BY DEF Slotted
    <3>3. Cardinality(Slots(fds, f)) = 0 <=> Slots(fds, f) = {}
      BY FiniteSlots, FS_EmptySet
    <3> QED
      BY <3>1, <3>2, <3>3 DEF FileCounted
  <2> QED
    BY <2>2, <2>3 DEF FilesCounted
<1> QED
  BY <1>1, FdsInv, PTL

\* A pipe lives exactly as long as one of its ends, of which there is at most one of a kind.
THEOREM FdsPipesCounted == Spec => []PipesCounted
<1>1. ASSUME Inv PROVE PipesCounted
  <2>1. Counted(file, pipe, handles, Slotted(fds))
    BY <1>1, InvCounts
  <2> QED
    BY <2>1 DEF Counted, PipeCounted, Ends, PipesCounted
<1> QED
  BY <1>1, FdsInv, PTL

-----------------------------------------------------------------------------
(* What pipes and the console promise. *)

\* The bytes of a pipe are a list.
LEMMA TakenBytes ==
    ASSUME NEW q \in PipeBuffer, NEW n \in 0..q.count
    PROVE  /\ Taken(q, n) \in Seq(Byte) /\ Len(Taken(q, n)) = n /\ Taken(q, n) # None
           /\ q.count \in 0..PIPE_SIZE
           /\ \A i \in 1..n : Taken(q, n)[i] = q.data[RingAt(q.head + i - 1)]
<1>1. q.count \in 0..PIPE_SIZE /\ q.head \in 0..(PIPE_SIZE - 1) /\ q.data \in [0..(PIPE_SIZE - 1) -> Byte]
      /\ PIPE_SIZE \in Nat \ {0}
  BY SizeAssumption DEF PipeBuffer
<1>2. n \in Nat /\ n \in 0..PIPE_SIZE
  BY <1>1
<1>3. PICK s : s = Taken(q, n)
  OBVIOUS
<1>4. s = [i \in 1..n |-> q.data[RingAt(q.head + i - 1)]]
  BY <1>3 DEF Taken, RingAt
<1>5. \A i \in 1..n : q.data[RingAt(q.head + i - 1)] \in Byte
  <2> SUFFICES ASSUME NEW i \in 1..n PROVE q.data[RingAt(q.head + i - 1)] \in Byte
    OBVIOUS
  <2>1. q.head + i - 1 \in Nat
    BY <1>1
  <2>2. RingAt(q.head + i - 1) \in 0..(PIPE_SIZE - 1)
    BY <2>1, RingPlace
  <2> QED
    BY <1>1, <2>2
<1>6. s \in [1..n -> Byte]
  BY <1>4, <1>5
<1>7. s \in Seq(Byte)
  BY <1>2, <1>6, SeqDef
<1>8. Len(s) = n
  BY <1>2, <1>6, ListLength
<1>9. s # None
  BY <1>2, <1>6, NoneAssumption
<1>10. \A i \in 1..n : s[i] = q.data[RingAt(q.head + i - 1)]
  BY <1>4
<1> QED
  BY <1>1, <1>3, <1>7, <1>8, <1>9, <1>10

\* The contents of all pipes.
Queues(ps) == [p \in Pipe |-> Queue(ps[p])]

\* A pipe that is there has contents.
LEMMA QueueBytes ==
    ASSUME NEW q \in PipeBuffer
    PROVE  /\ Queue(q) = Taken(q, q.count) /\ Queue(q) \in Seq(Byte) /\ Len(Queue(q)) = q.count
           /\ Queue(q) # None /\ q.count \in 0..PIPE_SIZE
           /\ \A i \in 1..q.count : Queue(q)[i] = q.data[RingAt(q.head + i - 1)]
<1>1. q.count \in 0..q.count
  BY DEF PipeBuffer
<1>2. Queue(q) = Taken(q, q.count)
  BY NoneAssumption DEF Queue
<1> QED
  BY <1>1, <1>2, TakenBytes

\* A call that leaves bytes alone.
LEMMA KeptQueues ==
    ASSUME Kept, got' = <<>>, UNCHANGED input
    PROVE  BP!Next
<1> DEFINE gone == {p \in Pipe : pipe'[p] = None}
<1>1. \A p \in Pipe : Queue(pipe'[p]) = IF p \in gone THEN None ELSE Queue(pipe[p])
  BY DEF Kept, SameBytes, Queue, Taken
<1>2. Queues(pipe') = [p \in Pipe |-> IF p \in gone THEN None ELSE Queue(pipe[p])]
  BY <1>1 DEF Queues
<1>3. \A p \in Pipe : Queues(pipe)[p] = Queue(pipe[p])
  BY DEF Queues
<1>4. gone \in SUBSET Pipe
  OBVIOUS
<1>5. BP!Other
  <2> HIDE DEF gone
  <2> QED
    BY <1>2, <1>3, <1>4 DEF BP!Other, Queues
<1> QED
  BY <1>5 DEF BP!Next

\* Pipes that are not touched at all.
LEMMA PipesKept ==
    ASSUME UNCHANGED pipe
    PROVE  Kept
BY DEF Kept, SameBytes

\* A new pipe is empty.
LEMMA MakePipeQueues ==
    ASSUME Inv, NEW t \in Task, NEW r \in File, NEW w \in File, NEW p \in Pipe,
           MakePipe(t, r, w, p), UNCHANGED input
    PROVE  BP!Next
<1>1. pipe \in [Pipe -> PipeBuffer \cup {None}]
  BY InvCounts
<1>2. PICK q : q = [refs |-> 2, head |-> 0, count |-> 0, data |-> [i \in 0..(PIPE_SIZE - 1) |-> 0]]
  OBVIOUS
<1>3. q \in PipeBuffer /\ q.count = 0
  BY <1>2, SizeAssumption, ByteAssumption DEF PipeBuffer
<1>4. Queue(q) = <<>>
  BY <1>3, QueueBytes, EmptySeq
<1>5. pipe[p] = None /\ pipe' = [pipe EXCEPT ![p] = q] /\ got' = <<>>
  BY <1>2 DEF MakePipe, NewPipe, PipeNew
<1>6. Queues(pipe)[p] = None
  BY <1>5 DEF Queues, Queue
<1>7. Queues(pipe') = [Queues(pipe) EXCEPT ![p] = <<>>]
  BY <1>1, <1>4, <1>5 DEF Queues
<1>8. BP!Make(p)
  BY <1>5, <1>6, <1>7 DEF BP!Make, Queues
<1> QED
  BY <1>8 DEF BP!Next

\* A write appends what fits.
LEMMA FilledQueue ==
    ASSUME NEW q \in PipeBuffer, NEW n \in Nat, NEW bytes \in [1..n -> Byte]
    PROVE  LET all == Queue(q) \o bytes
           IN  Queue(Filled(q, bytes)) =
                  SubSeq(all, 1, IF Len(all) < PIPE_SIZE THEN Len(all) ELSE PIPE_SIZE)
<1>1. PICK s \in Seq(Byte) : s = Queue(q)
  BY QueueBytes
<1>2. PICK c \in 0..PIPE_SIZE : /\ c = q.count /\ Len(s) = c
                                /\ \A i \in 1..c : s[i] = q.data[RingAt(q.head + i - 1)]
  BY <1>1, QueueBytes
<1>3. bytes \in Seq(Byte) /\ Len(bytes) = n
  BY ListLength, SeqDef
<1>4. PICK all \in Seq(Byte) : all = s \o bytes
  BY <1>3, ConcatProperties
<1>5. Len(all) = c + n /\ \A i \in 1..(c + n) : all[i] = IF i <= c THEN s[i] ELSE bytes[i - c]
  <2>1. /\ Len(s \o bytes) = Len(s) + Len(bytes)
        /\ \A i \in 1..(Len(s) + Len(bytes)) : (s \o bytes)[i] =
              IF i <= Len(s) THEN s[i] ELSE bytes[i - Len(s)]
    BY <1>3, ConcatProperties
  <2> QED
    BY <1>2, <1>3, <1>4, <2>1
<1>6. PICK done \in Nat : done = Lesser(n, PIPE_SIZE - c)
  BY <1>2, SizeAssumption DEF Lesser
<1>7. PICK m \in Nat : m = IF Len(all) < PIPE_SIZE THEN Len(all) ELSE PIPE_SIZE
  BY <1>5, SizeAssumption
<1>8. m = c + done /\ m <= c + n
  BY <1>2, <1>5, <1>6, <1>7, SizeAssumption DEF Lesser
<1>9. PICK u : u = SubSeq(all, 1, m)
  OBVIOUS
<1>10. u \in Seq(Byte) /\ Len(u) = m /\ \A i \in 1..m : u[i] = all[i]
  <2>1. 1 \in Int /\ m \in Int /\ \A i \in 1..m : all[i] \in Byte
    BY <1>5, <1>8, ElementOfSeq
  <2>2. u \in Seq(Byte) /\ Len(u) = (IF 1 <= m THEN m - 1 + 1 ELSE 0)
        /\ \A i \in 1..(m - 1 + 1) : u[i] = all[1 + i - 1]
    BY <1>9, <2>1, SubSeqProperties
  <2>3. m - 1 + 1 = m
    OBVIOUS
  <2>4. ASSUME NEW i \in 1..m PROVE u[i] = all[i]
    <3>1. u[i] = all[1 + i - 1] /\ 1 + i - 1 = i
      BY <2>2, <2>3
    <3> QED
      BY <3>1
  <2> QED
    BY <2>2, <2>3, <2>4
<1>11. PICK q2 \in PipeBuffer : q2 = Filled(q, bytes)
  BY FilledPipe
<1>12. /\ q2.head = q.head /\ q2.count = c + done
       /\ \A i \in 1..(c + done) :
             q2.data[RingAt(q.head + i - 1)] =
                IF i <= c THEN q.data[RingAt(q.head + i - 1)] ELSE bytes[i - c]
  <2>1. LET d == Lesser(n, PIPE_SIZE - q.count)
            new == Filled(q, bytes)
        IN  /\ new.head = q.head /\ new.count = q.count + d
            /\ \A i \in 1..(q.count + d) :
                  new.data[RingAt(q.head + i - 1)] =
                     IF i <= q.count THEN q.data[RingAt(q.head + i - 1)] ELSE bytes[i - q.count]
    BY FilledPipe
  <2> QED
    BY <1>2, <1>6, <1>11, <2>1
<1>13. PICK v \in Seq(Byte) : v = Queue(q2)
  BY QueueBytes
<1>14. Len(v) = m /\ \A i \in 1..m : v[i] = q2.data[RingAt(q.head + i - 1)]
  <2>1. Len(v) = q2.count /\ \A i \in 1..q2.count : v[i] = q2.data[RingAt(q2.head + i - 1)]
    BY <1>13, QueueBytes
  <2> QED
    BY <1>8, <1>12, <2>1
<1>15. ASSUME NEW i \in 1..m PROVE v[i] = u[i]
  <2>1. v[i] = IF i <= c THEN q.data[RingAt(q.head + i - 1)] ELSE bytes[i - c]
    BY <1>8, <1>12, <1>14
  <2>2. i \in 1..(c + n) /\ (i <= c => i \in 1..c)
    BY <1>8
  <2>3. u[i] = IF i <= c THEN s[i] ELSE bytes[i - c]
    BY <1>5, <1>10, <2>2
  <2> QED
    BY <1>2, <2>1, <2>2, <2>3
<1>16. v = u
  BY <1>10, <1>13, <1>14, <1>15, SeqEqual
<1> QED
  BY <1>1, <1>4, <1>7, <1>9, <1>11, <1>13, <1>16

\* task_fd_write on a pipe
LEMMA WriteQueues ==
    ASSUME Inv, NEW t \in Task, NEW fd, NEW bytes \in Bytes,
           Write(t, fd, bytes), UNCHANGED input
    PROVE  BP!Next
<1>0. PICK n \in 1..(PIPE_SIZE + 1) : bytes \in [1..n -> Byte] /\ n \in Nat
  BY SizeAssumption DEF Bytes
<1>1. fd_get(t, fd) # None /\ file[fds[t][fd]].type \in {"PIPE_R", "PIPE_W"}
  BY DEF Write
<1>2. PICK p \in Pipe : p = file[fds[t][fd]].pipe /\ pipe[p] \in PipeBuffer
  BY <1>1, PipeBehind
<1>3. pipe' = [pipe EXCEPT ![p] = Filled(pipe[p], bytes)] /\ got' = <<>>
  BY <1>2 DEF Write
<1>4. pipe \in [Pipe -> PipeBuffer \cup {None}]
  BY InvCounts
<1>5. PICK v : v = Queue(Filled(pipe[p], bytes))
  OBVIOUS
<1>6. v = LET all == Queue(pipe[p]) \o bytes
          IN  SubSeq(all, 1, IF Len(all) < PIPE_SIZE THEN Len(all) ELSE PIPE_SIZE)
  BY <1>0, <1>2, <1>5, FilledQueue
<1>7. Queues(pipe') = [Queues(pipe) EXCEPT ![p] = v]
  BY <1>3, <1>4, <1>5 DEF Queues
<1>8. Queues(pipe)[p] = Queue(pipe[p]) /\ Queue(pipe[p]) # None
  BY <1>2, QueueBytes DEF Queues
<1>9. BP!Write(p, bytes)
  BY <1>3, <1>6, <1>7, <1>8 DEF BP!Write, Queues
<1> QED
  BY <1>0, <1>9 DEF BP!Next

\* A read takes the first bytes.
LEMMA DrainedQueue ==
    ASSUME NEW q \in PipeBuffer, NEW done \in 0..q.count
    PROVE  /\ Taken(q, done) = SubSeq(Queue(q), 1, done)
           /\ Queue(Drained(q, done)) = SubSeq(Queue(q), done + 1, Len(Queue(q)))
<1>1. PICK s \in Seq(Byte) : s = Queue(q)
  BY QueueBytes
<1>2. PICK c \in Nat : /\ c = q.count /\ Len(s) = c
                       /\ \A i \in 1..c : s[i] = q.data[RingAt(q.head + i - 1)]
  BY <1>1, QueueBytes
<1>3. done \in Nat /\ done <= c /\ \A i \in 1..c : s[i] \in Byte
  BY <1>2, ElementOfSeq
<1>4. Taken(q, done) = SubSeq(s, 1, done)
  <2>1. PICK u : u = SubSeq(s, 1, done)
    OBVIOUS
  <2>2. 1 \in Int /\ done \in Int /\ \A i \in 1..done : s[i] \in Byte
    BY <1>3
  <2>3. u \in Seq(Byte) /\ Len(u) = (IF 1 <= done THEN done - 1 + 1 ELSE 0)
        /\ \A i \in 1..(done - 1 + 1) : u[i] = s[1 + i - 1]
    BY <2>1, <2>2, SubSeqProperties
  <2>4. done - 1 + 1 = done
    BY <1>3
  <2>5. PICK v \in Seq(Byte) : /\ v = Taken(q, done) /\ Len(v) = done
                               /\ \A i \in 1..done : v[i] = q.data[RingAt(q.head + i - 1)]
    BY TakenBytes
  <2>6. ASSUME NEW i \in 1..done PROVE v[i] = u[i]
    <3>1. u[i] = s[1 + i - 1] /\ 1 + i - 1 = i
      BY <2>3, <2>4
    <3>2. i \in 1..c
      BY <1>3
    <3> QED
      BY <1>2, <2>5, <3>1, <3>2
  <2>7. Len(u) = done
    BY <1>3, <2>3
  <2>8. v = u
    BY <2>3, <2>5, <2>6, <2>7, SeqEqual
  <2> QED
    BY <2>1, <2>5, <2>8
<1>5. Queue(Drained(q, done)) = SubSeq(s, done + 1, Len(s))
  <2>1. PICK u : u = SubSeq(s, done + 1, c)
    OBVIOUS
  <2>2. done + 1 \in Int /\ c \in Int /\ \A i \in (done + 1)..c : s[i] \in Byte
    BY <1>3
  <2>3. u \in Seq(Byte) /\ Len(u) = (IF done + 1 <= c THEN c - (done + 1) + 1 ELSE 0)
        /\ \A i \in 1..(c - (done + 1) + 1) : u[i] = s[(done + 1) + i - 1]
    BY <2>1, <2>2, SubSeqProperties
  <2>4. c - (done + 1) + 1 = c - done
    BY <1>3
  <2>5. PICK q2 \in PipeBuffer : q2 = Drained(q, done)
    BY DrainedPipe
  <2>6. q2.count = c - done
        /\ \A i \in 1..(c - done) : q2.data[RingAt(q2.head + i - 1)] = q.data[RingAt(q.head + (done + i) - 1)]
    BY <1>2, <2>5, DrainedPipe
  <2>7. PICK v \in Seq(Byte) : /\ v = Queue(q2) /\ Len(v) = q2.count
                               /\ \A i \in 1..q2.count : v[i] = q2.data[RingAt(q2.head + i - 1)]
    BY QueueBytes
  <2>8. Len(v) = c - done /\ Len(u) = c - done
    BY <1>3, <2>3, <2>6, <2>7
  <2>9. ASSUME NEW i \in 1..(c - done) PROVE v[i] = u[i]
    <3>1. v[i] = q.data[RingAt(q.head + (done + i) - 1)]
      BY <2>6, <2>7
    <3>2. done + i \in 1..c /\ (done + 1) + i - 1 = done + i
      BY <1>3
    <3>3. s[done + i] = q.data[RingAt(q.head + (done + i) - 1)]
      BY <1>2, <3>2
    <3>4. u[i] = s[(done + 1) + i - 1]
      BY <2>3, <2>4
    <3> QED
      BY <3>1, <3>2, <3>3, <3>4
  <2>10. v = u
    BY <2>3, <2>7, <2>8, <2>9, SeqEqual
  <2> QED
    BY <1>2, <2>1, <2>5, <2>7, <2>10
<1> QED
  BY <1>1, <1>4, <1>5

\* task_fd_read on a pipe
LEMMA ReadQueues ==
    ASSUME Inv, NEW t \in Task, NEW fd, NEW len \in 1..(PIPE_SIZE + 1),
           Read(t, fd, len), UNCHANGED input
    PROVE  BP!Next
<1>1. fd_get(t, fd) # None /\ file[fds[t][fd]].type \in {"PIPE_R", "PIPE_W"}
  BY DEF Read
<1>2. PICK p \in Pipe : p = file[fds[t][fd]].pipe /\ pipe[p] \in PipeBuffer
  BY <1>1, PipeBehind
<1>3. PICK s : s = Queue(pipe[p])
  OBVIOUS
<1>4. Len(s) = pipe[p].count /\ s # None /\ pipe[p].count \in Nat /\ len \in Nat
  BY <1>2, <1>3, QueueBytes, SizeAssumption
<1>5. PICK done \in 0..pipe[p].count : done = Lesser(len, pipe[p].count)
  BY <1>4 DEF Lesser
<1>6. done = IF len < Len(s) THEN len ELSE Len(s)
  BY <1>4, <1>5 DEF Lesser
<1>7. got' = Taken(pipe[p], done) /\ pipe' = [pipe EXCEPT ![p] = Drained(pipe[p], done)]
  BY <1>2, <1>5 DEF Read
<1>8. PICK v : v = Queue(Drained(pipe[p], done))
  OBVIOUS
<1>9. Taken(pipe[p], done) = SubSeq(s, 1, done) /\ v = SubSeq(s, done + 1, Len(s))
  BY <1>2, <1>3, <1>8, DrainedQueue
<1>10. pipe \in [Pipe -> PipeBuffer \cup {None}]
  BY InvCounts
<1>11. Queues(pipe') = [Queues(pipe) EXCEPT ![p] = v]
  BY <1>7, <1>8, <1>10 DEF Queues
<1>12. Queues(pipe)[p] = s
  BY <1>3 DEF Queues
<1>13. BP!Read(p, len)
  BY <1>4, <1>6, <1>7, <1>9, <1>11, <1>12 DEF BP!Read, Queues
<1> QED
  BY <1>13 DEF BP!Next

\* task_fd_read on the console
LEMMA ReadConsoleQueues ==
    ASSUME Inv, NEW t \in Task, NEW fd, NEW len \in Nat \ {0}, ReadConsole(t, fd, len)
    PROVE  BP!Next
<1>1. PICK line \in IF input = <<>> THEN {l \in Edited[MaxKeys] : LineDone(l)} ELSE {input} :
          /\ got' = SubSeq(line, 1, Lesser(len, Len(line)))
          /\ input' = SubSeq(line, Lesser(len, Len(line)) + 1, Len(line))
  BY DEF ReadConsole
<1>2. /\ line \in Seq(Byte) /\ Len(line) \in 1..InputSize
      /\ input = <<>> => line \in Typing /\ LineDone(line)
      /\ input # <<>> => line = input
  BY ConsoleLine
<1>3. PICK done \in 1..Len(line) : done = Lesser(len, Len(line))
  BY <1>2 DEF Lesser
<1>4. got' # <<>> /\ got' \o input' = line
  BY <1>1, <1>2, <1>3, LineCut
<1>5. line \in IF input = <<>> THEN BP!Line ELSE {input}
  <2>1. CASE input = <<>>
    <3>1. line \in [1..Len(line) -> Byte]
      BY <1>2, LenProperties
    <3>2. line \in UNION {[1..n -> Byte] : n \in 1..InputSize}
      BY <1>2, <3>1
    <3>3. \A i \in 1..(Len(line) - 1) : line[i] # Newline
      BY <1>2, <2>1 DEF Typing
    <3>4. line[Len(line)] = Newline \/ Len(line) = InputSize
      BY <1>2, <2>1 DEF LineDone
    <3> QED
      BY <2>1, <3>2, <3>3, <3>4 DEF BP!Line
  <2> QED
    BY <1>2, <2>1
<1>6. UNCHANGED pipe
  BY DEF ReadConsole
<1>7. BP!ReadLine
  BY <1>4, <1>5, <1>6 DEF BP!ReadLine
<1> QED
  BY <1>7 DEF BP!Next

\* Every step is a step of BytePipes, or none.
LEMMA QueuesNext ==
    ASSUME Inv, [Next]_vars
    PROVE  [BP!Next]_(BP!qvars)
<1>1. CASE UNCHANGED vars
  BY <1>1 DEF BP!qvars, vars
<1>2. ASSUME NEW t \in Task, NEW fd \in 0..(FdMax - 1), NEW len \in 1..(InputSize + 1),
             ReadConsole(t, fd, len)
      PROVE  BP!Next
  <2>1. len \in Nat \ {0}
    BY InputAssumption
  <2> QED
    BY <1>2, <2>1, ReadConsoleQueues
<1>3. CASE Calls /\ UNCHANGED input
  <2>1. UNCHANGED input
    BY <1>3
  <2>2. PICK t \in Task :
            \/ \E f \in File : Open(t, f) \/ OpenFails(t, f)
            \/ \E fd \in 0..(FdMax - 1) :
                \/ Close(t, fd)
                \/ \E other \in 0..(FdMax - 1) : Dup(t, fd, other) \/ Dup2(t, fd, other)
                \/ \E bytes \in Bytes : Write(t, fd, bytes)
                \/ \E len \in 1..(PIPE_SIZE + 1) : Read(t, fd, len)
            \/ \E r, w \in File, p \in Pipe : MakePipe(t, r, w, p) \/ PipeFails(t, r, w, p)
            \/ \E child \in Task : Fork(t, child)
            \/ Exit(t)
    BY <1>3 DEF Calls
  <2>3. 0..(FdMax - 1) \subseteq Nat
    BY SizeAssumption
  <2>4. ASSUME NEW f \in File, Open(t, f) PROVE BP!Next
    <3>1. UNCHANGED pipe /\ got' = <<>>
      BY <2>4 DEF Open
    <3> QED
      BY <2>1, <3>1, PipesKept, KeptQueues
  <2>5. ASSUME NEW f \in File, OpenFails(t, f) PROVE BP!Next
    <3>1. Kept /\ got' = <<>>
      BY <2>1, <2>5, OpenFailsInv DEF OpenFails
    <3> QED
      BY <2>1, <3>1, KeptQueues
  <2>6. ASSUME NEW fd \in 0..(FdMax - 1), Close(t, fd) PROVE BP!Next
    <3>1. Kept
      BY <2>1, <2>3, <2>6, CloseInv
    <3>2. got' = <<>>
      BY <2>6 DEF Close
    <3> QED
      BY <2>1, <3>1, <3>2, KeptQueues
  <2>7. ASSUME NEW fd \in 0..(FdMax - 1), NEW other \in 0..(FdMax - 1), Dup(t, fd, other)
        PROVE  BP!Next
    <3>1. UNCHANGED pipe /\ got' = <<>>
      BY <2>7 DEF Dup
    <3> QED
      BY <2>1, <3>1, PipesKept, KeptQueues
  <2>8. ASSUME NEW fd \in 0..(FdMax - 1), NEW other \in 0..(FdMax - 1), Dup2(t, fd, other)
        PROVE  BP!Next
    <3>1. Kept
      BY <2>1, <2>3, <2>8, Dup2Inv
    <3>2. got' = <<>>
      BY <2>8 DEF Dup2
    <3> QED
      BY <2>1, <3>1, <3>2, KeptQueues
  <2>9. ASSUME NEW fd \in 0..(FdMax - 1), NEW bytes \in Bytes, Write(t, fd, bytes) PROVE BP!Next
    BY <2>1, <2>9, WriteQueues
  <2>10. ASSUME NEW fd \in 0..(FdMax - 1), NEW len \in 1..(PIPE_SIZE + 1), Read(t, fd, len)
         PROVE  BP!Next
    BY <2>1, <2>10, ReadQueues
  <2>11. ASSUME NEW r \in File, NEW w \in File, NEW p \in Pipe, MakePipe(t, r, w, p) PROVE BP!Next
    BY <2>1, <2>11, MakePipeQueues
  <2>12. ASSUME NEW r \in File, NEW w \in File, NEW p \in Pipe, PipeFails(t, r, w, p) PROVE BP!Next
    <3>1. Kept
      BY <2>1, <2>12, PipeFailsInv
    <3>2. got' = <<>>
      BY <2>12 DEF PipeFails
    <3> QED
      BY <2>1, <3>1, <3>2, KeptQueues
  <2>13. ASSUME NEW child \in Task, Fork(t, child) PROVE BP!Next
    <3>1. UNCHANGED pipe /\ got' = <<>>
      BY <2>13 DEF Fork
    <3> QED
      BY <2>1, <3>1, PipesKept, KeptQueues
  <2>14. CASE Exit(t)
    <3>1. Kept
      BY <2>1, <2>14, ExitInv
    <3>2. got' = <<>>
      BY <2>14 DEF Exit
    <3>3. BP!Next
      BY <2>1, <3>1, <3>2, KeptQueues
    <3> QED
      BY <3>3
  <2> QED
    BY <2>2, <2>4, <2>5, <2>6, <2>7, <2>8, <2>9, <2>10, <2>11, <2>12, <2>13, <2>14
<1> QED
  BY <1>1, <1>2, <1>3 DEF Next

\* Pipes and the console are what BytePipes says: the ring buffer, whoever shares its
\* ends, is a bounded queue of bytes, and the console gives out lines, each byte once.
THEOREM FdsImplementBytePipes == Spec => ImplementsBytePipes
<1>1. Init => BP!Init
  BY DEF Init, BP!Init, Queue
<1>2. Inv /\ [Next]_vars => [BP!Next]_(BP!qvars)
  BY QueuesNext
<1> QED
  BY <1>1, <1>2, FdsInv, PTL DEF Spec, ImplementsBytePipes, BP!Spec
=============================================================================
