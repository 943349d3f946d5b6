------------------------- MODULE LibcAllocProofs -------------------------
(***************************************************************************)
(* Proofs about malloc, free and realloc, for any sizes of headers, pages  *)
(* and arenas and any requests: the blocks tile the arenas, free blocks    *)
(* are never neighbours, the lists are right, and what the program holds   *)
(* are regions as HeapRegions promises them.                               *)
(*                                                                         *)
(* What a call does to the blocks comes down to three changes: a block is  *)
(* cut in two (Cut), a block takes in the one behind it (Swallowed), and   *)
(* the flag of a block changes (Flagged).                                  *)
(***************************************************************************)
EXTENDS LibcAlloc, NaturalLemmas, FiniteSetTheorems

Block == [size : Nat, previous : Nat, next : Nat, arena : Nat, free : BOOLEAN]
Arena == [mapped : Nat, active : Nat, previous : Nat, next : Nat]

\* Where a block, and where an arena, ends.
BlockEnd(m, b) == b + Header + m[b].size
Limit(r, a) == a + r[a].mapped

\* Block b is inside of its arena and linked to its neighbours there.
Placed(m, r, b) ==
    /\ b \in Nat /\ m[b].arena \in DOMAIN r
    /\ m[b].size >= 1
    /\ first_block(m[b].arena) <= b /\ BlockEnd(m, b) <= Limit(r, m[b].arena)
    /\ m[b].next = (IF BlockEnd(m, b) = Limit(r, m[b].arena) THEN 0 ELSE BlockEnd(m, b))
    /\ m[b].next # 0 => /\ m[b].next \in DOMAIN m
                        /\ m[m[b].next].arena = m[b].arena /\ m[m[b].next].previous = b
    /\ m[b].previous = 0 => b = first_block(m[b].arena)
    /\ m[b].previous # 0 => /\ m[b].previous \in DOMAIN m
                            /\ m[m[b].previous].arena = m[b].arena
                            /\ BlockEnd(m, m[b].previous) = b

\* Blocks do not overlap.
Apart(m) == \A b, c \in DOMAIN m : b < c => BlockEnd(m, b) <= c

\* Arena a has a first block and a last one.
Covered(m, r, a) ==
    /\ first_block(a) \in DOMAIN m
    /\ m[first_block(a)].arena = a /\ m[first_block(a)].previous = 0
    /\ \E b \in DOMAIN m : m[b].arena = a /\ BlockEnd(m, b) = Limit(r, a)

\* Blocks m tile arenas r.
Tiling(m, r) ==
    /\ m \in [DOMAIN m -> Block]
    /\ \A b \in DOMAIN m : Placed(m, r, b)
    /\ Apart(m)
    /\ \A a \in DOMAIN r : Covered(m, r, a)

\* No free block is before a free block, but for those in S.
Joint(m, S) ==
    \A b \in DOMAIN m \ S : m[b].free /\ m[b].next # 0 => ~m[m[b].next].free

\* n is the greatest element of S, or 0 when there is none.
GreatestOrZero(n, S) ==
    /\ S = {} => n = 0
    /\ S # {} => n \in S /\ \A c \in S : c <= n
Older(r, a) == {c \in DOMAIN r : c < a}

\* The list of the arenas, from the newest.
Listed(r, head) ==
    /\ GreatestOrZero(head, DOMAIN r)
    /\ \A a \in DOMAIN r :
        /\ GreatestOrZero(r[a].next, Older(r, a))
        /\ r[a].next # 0 => r[r[a].next].previous = a
        /\ a = head => r[a].previous = 0
        /\ a # head => r[a].previous \in DOMAIN r /\ r[r[a].previous].next = a

\* Where the arenas are.
Mapped(r, top) ==
    /\ r \in [DOMAIN r -> Arena] /\ top \in Nat /\ MmapBase <= top
    /\ \A a \in DOMAIN r :
        a \in Nat /\ MmapBase <= a /\ Limit(r, a) <= top /\ Limit(r, a) <= MmapEnd
    /\ \A a, c \in DOMAIN r : a < c => Limit(r, a) <= c

\* The blocks in use, all and those of one arena.
InUse(m) == {b \in DOMAIN m : ~m[b].free}
InUseOf(m, a) == {b \in InUse(m) : m[b].arena = a}
Counted(m, r) == \A a \in DOMAIN r : r[a].active = Cardinality(InUseOf(m, a))

HeapFields(h) == h \in [block : {h.block}, arena : {h.arena}, arenas : {h.arenas},
                        mmap_next : {h.mmap_next}]

\* A heap between two calls.
Sane(h) ==
    /\ HeapFields(h)
    /\ Mapped(h.arena, h.mmap_next) /\ Listed(h.arena, h.arenas)
    /\ Tiling(h.block, h.arena) /\ Joint(h.block, {}) /\ Counted(h.block, h.arena)

\* What the program holds are the blocks in use, and they are large enough.
Held ==
    /\ live = [p \in DOMAIN live |-> live[p]]
    /\ DOMAIN live = {b + Header : b \in InUse(heap.block)}
    /\ \A p \in DOMAIN live : live[p] \in Nat /\ live[p] <= heap.block[p - Header].size

\* The inductive invariant.
Inv == Sane(heap) /\ Held

-----------------------------------------------------------------------------
(* The three changes, field by field. *)

\* g is m after block b has taken in the block behind it.
Swallowed(m, g, b) ==
    /\ g \in [DOMAIN m \ {m[b].next} -> Block]
    /\ \A x \in DOMAIN m \ {m[b].next} :
        /\ g[x].arena = m[x].arena /\ g[x].free = m[x].free
        /\ g[x].size = IF x = b THEN m[b].size + Header + m[m[b].next].size ELSE m[x].size
        /\ g[x].next = IF x = b THEN m[m[b].next].next ELSE m[x].next
        /\ g[x].previous = IF x = m[m[b].next].next THEN b ELSE m[x].previous

\* g is m after block b has been cut to the given size, with a free block s behind it.
Cut(m, g, b, size, s) ==
    /\ g \in [DOMAIN m \cup {s} -> Block]
    /\ \A x \in DOMAIN m :
        /\ g[x].arena = m[x].arena /\ g[x].free = m[x].free
        /\ g[x].size = IF x = b THEN size ELSE m[x].size
        /\ g[x].next = IF x = b THEN s ELSE m[x].next
        /\ g[x].previous = IF x = m[b].next THEN s ELSE m[x].previous
    /\ g[s] = [size |-> m[b].size - size - Header, previous |-> b, next |-> m[b].next,
               arena |-> m[b].arena, free |-> TRUE]

\* The blocks once b is free or in use.
Flagged(m, b, f) == [m EXCEPT ![b].free = f]

\* Sizes and addresses are natural numbers.
LEMMA Units ==
    /\ Header \in Nat /\ Header >= 1 /\ ArenaHeader \in Nat /\ ArenaHeader >= 1
    /\ PageSize \in Nat /\ PageSize >= 1 /\ ArenaSize \in Nat
    /\ ArenaHeader + Header < ArenaSize
    /\ MmapBase \in Nat /\ MmapBase >= 1 /\ MmapEnd \in Nat
BY UnitsAssumption

\* The neighbours of a block in a tiling.
LEMMA Around ==
    ASSUME NEW m, NEW r, NEW top, Mapped(r, top), Tiling(m, r), NEW b \in DOMAIN m
    PROVE  /\ b \in Nat /\ b >= 1 /\ m[b] \in Block
           /\ m[b].arena \in DOMAIN r /\ m[b].arena \in Nat /\ r[m[b].arena].mapped \in Nat
           /\ m[b].size >= 1
           /\ first_block(m[b].arena) <= b /\ BlockEnd(m, b) <= Limit(r, m[b].arena)
           /\ m[b].next = (IF BlockEnd(m, b) = Limit(r, m[b].arena) THEN 0 ELSE BlockEnd(m, b))
           /\ m[b].next # 0 => /\ m[b].next \in DOMAIN m /\ m[b].next = BlockEnd(m, b)
                               /\ m[m[b].next].arena = m[b].arena /\ m[m[b].next].previous = b
           /\ m[b].previous = 0 => b = first_block(m[b].arena)
           /\ m[b].previous # 0 => /\ m[b].previous \in DOMAIN m
                                   /\ m[m[b].previous].arena = m[b].arena
                                   /\ BlockEnd(m, m[b].previous) = b
<1>1. Placed(m, r, b) /\ m[b] \in Block
  BY DEF Tiling
<1>2. m[b].arena \in DOMAIN r /\ m[b].arena \in Nat /\ m[b].arena >= 1 /\ r[m[b].arena] \in Arena
  BY <1>1, Units DEF Mapped, Placed
<1>3. b \in Nat /\ b >= 1
  BY <1>1, <1>2, Units DEF Placed, first_block
<1> QED
  BY <1>1, <1>2, <1>3, Units DEF Placed, Arena

\* merge_next takes in the block behind, when it is free.
LEMMA MergeNext ==
    ASSUME NEW m, NEW r, NEW top, Mapped(r, top), Tiling(m, r), NEW b \in DOMAIN m,
           m[b].next # 0, m[m[b].next].free
    PROVE  Swallowed(m, merge_next(m, b), b)
<1>1. PICK n : n = m[b].next
  OBVIOUS
<1>2. PICK k : k = m[n].next
  OBVIOUS
<1>3. /\ b \in Nat /\ n \in Nat /\ n \in DOMAIN m /\ b < n /\ m[b] \in Block /\ m[n] \in Block
      /\ m \in [DOMAIN m -> Block]
  BY <1>1, Around, Units DEF BlockEnd, Block, Tiling
<1>4. k = 0 \/ (k \in DOMAIN m /\ n < k)
  BY <1>2, <1>3, Around, Units DEF BlockEnd, Block
<1>5. PICK w : w = Without(m, n)
  OBVIOUS
<1>6. w \in [DOMAIN m \ {n} -> Block] /\ \A x \in DOMAIN m \ {n} : w[x] = m[x]
  BY <1>3, <1>5 DEF Without, Restrict
<1>7. PICK e : e = m[b].size + Header + m[n].size
  OBVIOUS
<1>8. e \in Nat /\ k \in Nat
  BY <1>2, <1>3, <1>7, Units DEF Block
<1>9. PICK v : v = [w EXCEPT ![b].size = e, ![b].next = k]
  OBVIOUS
<1>10. b \in DOMAIN w /\ w[b].size = m[b].size
  BY <1>3, <1>6
<1>11. /\ v \in [DOMAIN m \ {n} -> Block]
       /\ \A x \in DOMAIN m \ {n} :
            /\ v[x].arena = m[x].arena /\ v[x].free = m[x].free
            /\ v[x].size = (IF x = b THEN e ELSE m[x].size)
            /\ v[x].next = (IF x = b THEN k ELSE m[x].next)
            /\ v[x].previous = m[x].previous
  BY <1>3, <1>6, <1>8, <1>9, <1>10 DEF Block
<1>12. PICK g : g = SetPrevious(v, k, b)
  OBVIOUS
<1>13. /\ g \in [DOMAIN m \ {n} -> Block]
       /\ \A x \in DOMAIN m \ {n} :
            /\ g[x].arena = v[x].arena /\ g[x].free = v[x].free
            /\ g[x].size = v[x].size
            /\ g[x].next = v[x].next
            /\ g[x].previous = (IF x = k THEN b ELSE v[x].previous)
  <2>1. 0 \notin DOMAIN m
    BY Around
  <2>2. CASE k = 0
    BY <1>11, <1>12, <2>1, <2>2 DEF SetPrevious
  <2>3. CASE k # 0
    <3>1. k \in DOMAIN m \ {n} /\ g = [v EXCEPT ![k].previous = b]
      BY <1>3, <1>4, <1>12, <2>3 DEF SetPrevious
    <3> QED
      BY <1>3, <1>11, <3>1 DEF Block
  <2> QED
    BY <2>2, <2>3
<1>14. merge_next(m, b) = SetPrevious([w EXCEPT ![b].size = @ + Header + m[n].size, ![b].next = k],
                                      k, b)
  BY <1>1, <1>2, <1>5 DEF merge_next
<1>15. [w EXCEPT ![b].size = @ + Header + m[n].size, ![b].next = k] = v
  BY <1>7, <1>9, <1>10
<1>16. merge_next(m, b) = g
  BY <1>12, <1>14, <1>15
<1> QED
  BY <1>1, <1>2, <1>7, <1>11, <1>13, <1>16 DEF Swallowed

-----------------------------------------------------------------------------
(* What the changes do to a tiling. *)

\* A block that takes in the one behind it leaves a tiling.
LEMMA SwallowTiling ==
    ASSUME NEW m, NEW r, NEW top, Mapped(r, top), Tiling(m, r), NEW b \in DOMAIN m,
           m[b].next # 0, NEW g, Swallowed(m, g, b)
    PROVE  Tiling(g, r)
<1>1. PICK n : n = m[b].next
  OBVIOUS
<1>2. PICK k : k = m[n].next
  OBVIOUS
<1>3. DOMAIN g = DOMAIN m \ {n} /\ g \in [DOMAIN m \ {n} -> Block]
  BY <1>1 DEF Swallowed
<1>4. \A x \in DOMAIN m \ {n} :
        /\ g[x].arena = m[x].arena /\ g[x].free = m[x].free
        /\ g[x].size = IF x = b THEN m[b].size + Header + m[n].size ELSE m[x].size
        /\ g[x].next = IF x = b THEN k ELSE m[x].next
        /\ g[x].previous = IF x = k THEN b ELSE m[x].previous
  BY <1>1, <1>2 DEF Swallowed
<1>5. \A x \in DOMAIN m : x \in Nat /\ x >= 1 /\ m[x].size \in Nat /\ m[x].size >= 1
                          /\ BlockEnd(m, x) = x + Header + m[x].size /\ BlockEnd(m, x) \in Nat
                          /\ x < BlockEnd(m, x)
  BY Around, Units DEF BlockEnd, Block
<1>6. /\ n \in DOMAIN m /\ n = BlockEnd(m, b) /\ b < n /\ m[n].arena = m[b].arena
      /\ m[n].previous = b
  BY <1>1, <1>5, Around
<1>7. \A x \in DOMAIN g : BlockEnd(g, x) = IF x = b THEN BlockEnd(m, n) ELSE BlockEnd(m, x)
  BY <1>3, <1>4, <1>5, <1>6, Units DEF BlockEnd
<1>8. k # 0 => /\ k \in DOMAIN m /\ k = BlockEnd(m, n) /\ n < k /\ m[k].arena = m[b].arena
               /\ m[k].previous = n
  BY <1>2, <1>5, <1>6, Around
<1>9. k = (IF BlockEnd(m, n) = Limit(r, m[b].arena) THEN 0 ELSE BlockEnd(m, n))
  BY <1>2, <1>6, Around
<1>10. \A x \in DOMAIN m \ {n} : Placed(m, r, x)
  BY DEF Tiling
<1>11. \A a \in DOMAIN r : Limit(r, a) \in Nat
  BY DEF Limit, Mapped, Arena
<1>12. ASSUME NEW x \in DOMAIN g
       PROVE  Placed(g, r, x)
  <2>1. x \in DOMAIN m \ {n} /\ Placed(m, r, x) /\ g[x].arena = m[x].arena
    BY <1>3, <1>4, <1>10
  <2>2. /\ x \in Nat /\ g[x].arena \in DOMAIN r /\ g[x].size >= 1
        /\ first_block(g[x].arena) <= x
    BY <1>4, <1>5, <1>6, <2>1, Units DEF Placed
  <2>3. /\ BlockEnd(g, x) <= Limit(r, g[x].arena)
        /\ g[x].next = (IF BlockEnd(g, x) = Limit(r, g[x].arena) THEN 0 ELSE BlockEnd(g, x))
    <3>1. CASE x = b
      <4>1. BlockEnd(m, n) <= Limit(r, m[b].arena)
        BY <1>6, Around
      <4> QED
        BY <1>4, <1>7, <1>9, <2>1, <3>1, <4>1
    <3>2. CASE x # b
      BY <1>4, <1>7, <2>1, <3>2 DEF Placed
    <3> QED
      BY <3>1, <3>2
  <2>4. ASSUME g[x].next # 0
        PROVE  /\ g[x].next \in DOMAIN g
               /\ g[g[x].next].arena = g[x].arena /\ g[g[x].next].previous = x
    <3>1. CASE x = b
      <4>1. g[x].next = k /\ k # 0 /\ k \in DOMAIN m \ {n}
        BY <1>4, <1>5, <1>8, <2>1, <2>4, <3>1
      <4> QED
        BY <1>3, <1>4, <1>8, <2>1, <3>1, <4>1
    <3>2. CASE x # b
      <4>1. PICK y : y = m[x].next
        OBVIOUS
      <4>2. g[x].next = y /\ y \in DOMAIN m /\ m[y].arena = m[x].arena /\ m[y].previous = x
        BY <1>4, <2>1, <2>4, <3>2, <4>1 DEF Placed
      <4>3. y # n
        BY <1>6, <3>2, <4>2
      <4>4. y # k
        BY <1>8, <2>1, <2>4, <4>2
      <4> QED
        BY <1>3, <1>4, <2>1, <4>2, <4>3, <4>4
    <3> QED
      BY <3>1, <3>2
  <2>5. g[x].previous = 0 => x = first_block(g[x].arena)
    BY <1>4, <1>5, <2>1 DEF Placed
  <2>6. ASSUME g[x].previous # 0
        PROVE  /\ g[x].previous \in DOMAIN g /\ g[g[x].previous].arena = g[x].arena
               /\ BlockEnd(g, g[x].previous) = x
    <3>1. CASE x = k
      BY <1>3, <1>4, <1>5, <1>6, <1>7, <1>8, <2>1, <3>1
    <3>2. CASE x # k
      <4>1. PICK p : p = m[x].previous
        OBVIOUS
      <4>2. g[x].previous = p /\ p \in DOMAIN m /\ m[p].arena = m[x].arena /\ BlockEnd(m, p) = x
        BY <1>4, <2>1, <2>6, <3>2, <4>1 DEF Placed
      <4>3. p # b
        BY <1>6, <2>1, <4>2
      <4>4. p # n
        <5>1. BlockEnd(m, n) = Limit(r, m[b].arena) => BlockEnd(m, x) > Limit(r, m[b].arena)
              \/ p # n
          BY <1>5, <1>11, <2>1, <4>2
        <5>2. p = n => BlockEnd(m, x) <= Limit(r, m[b].arena)
          BY <1>6, <2>1, <4>2 DEF Placed
        <5> QED
          BY <1>5, <1>6, <1>9, <1>11, <2>1, <3>2, <4>2, <5>1, <5>2, Around
      <4> QED
        BY <1>3, <1>4, <1>7, <2>1, <4>2, <4>3, <4>4
    <3> QED
      BY <3>1, <3>2
  <2> QED
    BY <2>2, <2>3, <2>4, <2>5, <2>6 DEF Placed
<1>13. Apart(g)
  <2> SUFFICES ASSUME NEW x \in DOMAIN g, NEW y \in DOMAIN g, x < y
               PROVE  BlockEnd(g, x) <= y
    BY DEF Apart
  <2>1. x \in DOMAIN m \ {n} /\ y \in DOMAIN m \ {n} /\ x \in Nat /\ y \in Nat /\ n \in Nat
    BY <1>3, <1>5, <1>6
  <2>2. BlockEnd(m, x) <= y
    BY <2>1 DEF Tiling, Apart
  <2>3. n < y => BlockEnd(m, n) <= y
    BY <1>6, <2>1 DEF Tiling, Apart
  <2> QED
    BY <1>6, <1>7, <2>1, <2>2, <2>3
<1>14. ASSUME NEW a \in DOMAIN r
       PROVE  Covered(g, r, a)
  <2>1. Covered(m, r, a)
    BY DEF Tiling
  <2>2. PICK f : f = first_block(a)
    OBVIOUS
  <2>3. f \in DOMAIN m /\ m[f].arena = a /\ m[f].previous = 0
    BY <2>1, <2>2 DEF Covered
  <2>4. f # n /\ f # k
    BY <1>5, <1>6, <1>8, <2>3
  <2>5. f \in DOMAIN g /\ g[f].arena = a /\ g[f].previous = 0
    BY <1>3, <1>4, <2>3, <2>4
  <2>6. PICK l \in DOMAIN m : m[l].arena = a /\ BlockEnd(m, l) = Limit(r, a)
    BY <2>1 DEF Covered
  <2>7. l # b
    BY <1>1, <2>6, Around
  <2>8. \E x \in DOMAIN g : g[x].arena = a /\ BlockEnd(g, x) = Limit(r, a)
    <3>1. CASE l = n
      <4>1. b \in DOMAIN g /\ b \in DOMAIN m \ {n}
        BY <1>3, <1>5, <1>6
      <4>2. g[b].arena = a /\ BlockEnd(g, b) = Limit(r, a)
        BY <1>4, <1>6, <1>7, <2>6, <3>1, <4>1
      <4> QED
        BY <4>1, <4>2
    <3>2. CASE l # n
      BY <1>3, <1>4, <1>7, <2>6, <2>7, <3>2
    <3> QED
      BY <3>1, <3>2
  <2> QED
    BY <2>2, <2>5, <2>8 DEF Covered
<1>15. g \in [DOMAIN g -> Block]
  BY <1>3
<1> QED
  BY <1>12, <1>13, <1>14, <1>15 DEF Tiling

\* What split_block has before it merges: block b cut to size, with the rest behind it.
Halves(m, b, size) ==
    LET s == b + Header + size
        new == [size |-> m[b].size - size - Header, previous |-> b, next |-> m[b].next,
                arena |-> m[b].arena, free |-> TRUE]
    IN  [SetPrevious(With(m, s, new), m[b].next, s) EXCEPT ![b].next = s, ![b].size = size]

\* The halves are the block cut in two.
LEMMA HalvesCut ==
    ASSUME NEW m, NEW r, NEW top, Mapped(r, top), Tiling(m, r), NEW b \in DOMAIN m,
           NEW size \in Nat, m[b].size - size >= MinSplit, size >= 1
    PROVE  /\ b + Header + size \notin DOMAIN m
           /\ Cut(m, Halves(m, b, size), b, size, b + Header + size)
<1>1. PICK s : s = b + Header + size
  OBVIOUS
<1>2. PICK n : n = m[b].next
  OBVIOUS
<1>3. /\ b \in Nat /\ m[b] \in Block /\ m \in [DOMAIN m -> Block] /\ m[b].size \in Nat
      /\ m[b].arena \in Nat /\ n \in Nat
  BY <1>2, Around DEF Tiling, Block
<1>4. s \in Nat /\ b < s /\ s < BlockEnd(m, b)
  BY <1>1, <1>3, Units DEF MinSplit, BlockEnd
<1>5. s \notin DOMAIN m
  <2> SUFFICES ASSUME s \in DOMAIN m PROVE FALSE
    OBVIOUS
  <2>1. BlockEnd(m, b) <= s /\ BlockEnd(m, b) \in Nat
    BY <1>3, <1>4, Units DEF Tiling, Apart, BlockEnd
  <2> QED
    BY <1>4, <2>1
<1>6. n = 0 \/ (n \in DOMAIN m /\ n # b /\ n # s)
  BY <1>2, <1>3, <1>4, Around, Units DEF BlockEnd
<1>7. PICK new : new = [size |-> m[b].size - size - Header, previous |-> b, next |-> m[b].next,
                        arena |-> m[b].arena, free |-> TRUE]
  OBVIOUS
<1>8. m[b].size - size - Header \in Nat
  BY <1>3, Units DEF MinSplit
<1>9. new \in Block
  BY <1>2, <1>3, <1>7, <1>8 DEF Block
<1>10. PICK w : w = With(m, s, new)
  OBVIOUS
<1>11. /\ w \in [DOMAIN m \cup {s} -> Block] /\ w[s] = new /\ \A x \in DOMAIN m : w[x] = m[x]
  BY <1>3, <1>5, <1>9, <1>10 DEF With
<1>12. PICK v : v = SetPrevious(w, n, s)
  OBVIOUS
<1>13. /\ v \in [DOMAIN m \cup {s} -> Block] /\ v[s] = new
       /\ \A x \in DOMAIN m :
            /\ v[x].arena = m[x].arena /\ v[x].free = m[x].free
            /\ v[x].size = m[x].size /\ v[x].next = m[x].next
            /\ v[x].previous = IF x = n THEN s ELSE m[x].previous
  <2>1. 0 \notin DOMAIN m
    BY Around
  <2>2. CASE n = 0
    BY <1>11, <1>12, <2>1, <2>2 DEF SetPrevious
  <2>3. CASE n # 0
    <3>1. n \in DOMAIN m /\ n # s /\ v = [w EXCEPT ![n].previous = s]
      BY <1>6, <1>12, <2>3 DEF SetPrevious
    <3> QED
      BY <1>3, <1>4, <1>11, <3>1 DEF Block
  <2> QED
    BY <2>2, <2>3
<1>14. PICK g : g = [v EXCEPT ![b].next = s, ![b].size = size]
  OBVIOUS
<1>15. Halves(m, b, size) = g
  BY <1>1, <1>2, <1>7, <1>10, <1>12, <1>14 DEF Halves
<1>16. /\ g \in [DOMAIN m \cup {s} -> Block] /\ g[s] = new
       /\ \A x \in DOMAIN m :
            /\ g[x].arena = v[x].arena /\ g[x].free = v[x].free
            /\ g[x].size = (IF x = b THEN size ELSE v[x].size)
            /\ g[x].next = (IF x = b THEN s ELSE v[x].next)
            /\ g[x].previous = v[x].previous
  <2>1. b \in DOMAIN m \cup {s} /\ b # s /\ v[b] \in Block
    BY <1>4, <1>13
  <2>2. PICK u : u = [v EXCEPT ![b].next = s]
    OBVIOUS
  <2>3. /\ u \in [DOMAIN m \cup {s} -> Block] /\ u[s] = new
        /\ \A x \in DOMAIN m :
             /\ u[x].arena = v[x].arena /\ u[x].free = v[x].free /\ u[x].size = v[x].size
             /\ u[x].next = (IF x = b THEN s ELSE v[x].next)
             /\ u[x].previous = v[x].previous
    BY <1>4, <1>13, <2>1, <2>2 DEF Block
  <2>4. g = [u EXCEPT ![b].size = size]
    BY <1>13, <1>14, <2>1, <2>2
  <2> QED
    BY <2>1, <2>3, <2>4 DEF Block
<1>17. Cut(m, g, b, size, s)
  BY <1>2, <1>7, <1>13, <1>16 DEF Cut
<1> QED
  BY <1>1, <1>5, <1>15, <1>17

\* A block cut in two leaves a tiling.
LEMMA CutTiling ==
    ASSUME NEW m, NEW r, NEW top, Mapped(r, top), Tiling(m, r), NEW b \in DOMAIN m,
           NEW size \in Nat, m[b].size - size >= MinSplit, size >= 1,
           NEW s, s = b + Header + size, s \notin DOMAIN m,
           NEW g, Cut(m, g, b, size, s)
    PROVE  Tiling(g, r)
<1>1. PICK n : n = m[b].next
  OBVIOUS
<1>2. DOMAIN g = DOMAIN m \cup {s} /\ g \in [DOMAIN m \cup {s} -> Block]
  BY DEF Cut
<1>3. \A x \in DOMAIN m :
        /\ g[x].arena = m[x].arena /\ g[x].free = m[x].free
        /\ g[x].size = IF x = b THEN size ELSE m[x].size
        /\ g[x].next = IF x = b THEN s ELSE m[x].next
        /\ g[x].previous = IF x = n THEN s ELSE m[x].previous
  BY <1>1 DEF Cut
<1>4. /\ g[s].size = m[b].size - size - Header /\ g[s].previous = b /\ g[s].next = n
      /\ g[s].arena = m[b].arena /\ g[s].free = TRUE
  BY <1>1 DEF Cut
<1>5. \A x \in DOMAIN m : x \in Nat /\ x >= 1 /\ m[x].size \in Nat /\ m[x].size >= 1
                          /\ BlockEnd(m, x) = x + Header + m[x].size /\ BlockEnd(m, x) \in Nat
                          /\ x < BlockEnd(m, x)
  BY Around, Units DEF BlockEnd, Block
<1>6. s \in Nat /\ s >= 1 /\ b < s /\ s < BlockEnd(m, b)
  BY <1>5, Units DEF MinSplit
<1>7. \A x \in DOMAIN m : x # b => BlockEnd(g, x) = BlockEnd(m, x)
  BY <1>3, <1>5 DEF BlockEnd
<1>8. BlockEnd(g, b) = s /\ BlockEnd(g, s) = BlockEnd(m, b) /\ g[s].size >= 1
  BY <1>3, <1>4, <1>5, Units DEF BlockEnd, MinSplit
<1>9. n # 0 => n \in DOMAIN m /\ n = BlockEnd(m, b) /\ m[n].arena = m[b].arena /\ m[n].previous = b
  BY <1>1, Around
<1>10. n = (IF BlockEnd(m, b) = Limit(r, m[b].arena) THEN 0 ELSE BlockEnd(m, b))
  BY <1>1, Around
<1>11. \A x \in DOMAIN m : Placed(m, r, x)
  BY DEF Tiling
<1>12. \A a \in DOMAIN r : Limit(r, a) \in Nat
  BY DEF Limit, Mapped, Arena
<1>13. Placed(g, r, s)
  <2>1. first_block(m[b].arena) <= s
    BY <1>5, <1>6, Around, Units DEF first_block
  <2>2. n # 0 => n \in DOMAIN g /\ g[n].arena = g[s].arena /\ g[n].previous = s
    BY <1>2, <1>3, <1>4, <1>9
  <2>3. b \in DOMAIN g /\ g[b].arena = g[s].arena /\ b # 0
    BY <1>2, <1>3, <1>4, <1>5
  <2>4. BlockEnd(m, b) <= Limit(r, m[b].arena) /\ m[b].arena \in DOMAIN r
    BY Around
  <2> QED
    BY <1>4, <1>6, <1>8, <1>10, <2>1, <2>2, <2>3, <2>4 DEF Placed
<1>14. ASSUME NEW x \in DOMAIN m
       PROVE  Placed(g, r, x)
  <2>1. Placed(m, r, x) /\ g[x].arena = m[x].arena /\ x \in Nat /\ x # s
    BY <1>3, <1>5, <1>11
  <2>2. /\ g[x].arena \in DOMAIN r /\ g[x].size >= 1 /\ first_block(g[x].arena) <= x
    BY <1>3, <1>5, <2>1 DEF Placed
  <2>3. /\ BlockEnd(g, x) <= Limit(r, g[x].arena)
        /\ g[x].next = (IF BlockEnd(g, x) = Limit(r, g[x].arena) THEN 0 ELSE BlockEnd(g, x))
    <3>1. CASE x = b
      <4>1. BlockEnd(m, b) <= Limit(r, m[b].arena) /\ m[b].arena \in DOMAIN r
        BY Around
      <4>2. s < Limit(r, m[b].arena) /\ s # Limit(r, m[b].arena) /\ s <= Limit(r, m[b].arena)
        BY <1>5, <1>6, <1>12, <4>1
      <4> QED
        BY <1>3, <1>8, <3>1, <4>2
    <3>2. CASE x # b
      BY <1>3, <1>7, <2>1, <3>2 DEF Placed
    <3> QED
      BY <3>1, <3>2
  <2>4. ASSUME g[x].next # 0
        PROVE  /\ g[x].next \in DOMAIN g
               /\ g[g[x].next].arena = g[x].arena /\ g[g[x].next].previous = x
    <3>1. CASE x = b
      BY <1>2, <1>3, <1>4, <3>1
    <3>2. CASE x # b
      <4>1. PICK y : y = m[x].next
        OBVIOUS
      <4>2. g[x].next = y /\ y \in DOMAIN m /\ m[y].arena = m[x].arena /\ m[y].previous = x
        BY <1>3, <2>1, <2>4, <3>2, <4>1 DEF Placed
      <4>3. y # n
        BY <1>5, <1>9, <3>2, <4>2
      <4> QED
        BY <1>2, <1>3, <2>1, <4>2, <4>3
    <3> QED
      BY <3>1, <3>2
  <2>5. g[x].previous = 0 => x = first_block(g[x].arena)
    BY <1>3, <1>6, <2>1 DEF Placed
  <2>6. ASSUME g[x].previous # 0
        PROVE  /\ g[x].previous \in DOMAIN g /\ g[g[x].previous].arena = g[x].arena
               /\ BlockEnd(g, g[x].previous) = x
    <3>1. CASE x = n
      BY <1>2, <1>3, <1>4, <1>5, <1>8, <1>9, <2>1, <3>1
    <3>2. CASE x # n
      <4>1. PICK p : p = m[x].previous
        OBVIOUS
      <4>2. g[x].previous = p /\ p \in DOMAIN m /\ m[p].arena = m[x].arena /\ BlockEnd(m, p) = x
        BY <1>3, <2>1, <2>6, <3>2, <4>1 DEF Placed
      <4>3. p # b
        <5>1. p = b => /\ BlockEnd(m, b) = Limit(r, m[b].arena) /\ m[x].arena = m[b].arena
          BY <1>10, <3>2, <4>2
        <5>2. BlockEnd(m, x) <= Limit(r, m[x].arena) /\ x < BlockEnd(m, x)
          BY <1>5, <2>1 DEF Placed
        <5>3. Limit(r, m[x].arena) \in Nat /\ BlockEnd(m, x) \in Nat
          BY <1>5, <1>12, <2>1, <2>2
        <5> QED
          BY <2>1, <4>2, <5>1, <5>2, <5>3
      <4> QED
        BY <1>2, <1>3, <1>7, <2>1, <4>2, <4>3
    <3> QED
      BY <3>1, <3>2
  <2> QED
    BY <2>1, <2>2, <2>3, <2>4, <2>5, <2>6 DEF Placed
<1>15. Apart(g)
  <2> SUFFICES ASSUME NEW x \in DOMAIN g, NEW y \in DOMAIN g, x < y
               PROVE  BlockEnd(g, x) <= y
    BY DEF Apart
  <2>1. \A c, d \in DOMAIN m : c < d => BlockEnd(m, c) <= d
    BY DEF Tiling, Apart
  <2>2. CASE x \in DOMAIN m /\ y \in DOMAIN m
    BY <1>5, <1>6, <1>7, <1>8, <2>1, <2>2
  <2>3. CASE x = s /\ y \in DOMAIN m
    <3>1. b < y
      BY <1>5, <1>6, <2>3
    <3> QED
      BY <1>8, <2>1, <2>3, <3>1
  <2>4. CASE x \in DOMAIN m /\ y = s
    <3>1. x = b \/ x < b
      <4>1. b < x => BlockEnd(m, b) <= x
        BY <2>1, <2>4
      <4> QED
        BY <1>5, <1>6, <2>4, <4>1
    <3>2. x < b => BlockEnd(m, x) <= b
      BY <2>1, <2>4
    <3> QED
      BY <1>5, <1>6, <1>7, <1>8, <2>4, <3>1, <3>2
  <2>5. ~(x = s /\ y = s)
    BY <1>6
  <2> QED
    BY <1>2, <2>2, <2>3, <2>4, <2>5
<1>16. ASSUME NEW a \in DOMAIN r
       PROVE  Covered(g, r, a)
  <2>1. Covered(m, r, a)
    BY DEF Tiling
  <2>2. PICK f : f = first_block(a)
    OBVIOUS
  <2>3. f \in DOMAIN m /\ m[f].arena = a /\ m[f].previous = 0
    BY <2>1, <2>2 DEF Covered
  <2>4. f # n
    BY <1>5, <1>9, <2>3
  <2>5. f \in DOMAIN g /\ g[f].arena = a /\ g[f].previous = 0
    BY <1>2, <1>3, <2>3, <2>4
  <2>6. PICK l \in DOMAIN m : m[l].arena = a /\ BlockEnd(m, l) = Limit(r, a)
    BY <2>1 DEF Covered
  <2>7. \E x \in DOMAIN g : g[x].arena = a /\ BlockEnd(g, x) = Limit(r, a)
    <3>1. CASE l = b
      <4>1. s \in DOMAIN g /\ g[s].arena = a /\ BlockEnd(g, s) = Limit(r, a)
        BY <1>2, <1>4, <1>8, <2>6, <3>1
      <4> QED
        BY <4>1
    <3>2. CASE l # b
      BY <1>2, <1>3, <1>7, <2>6, <3>2
    <3> QED
      BY <3>1, <3>2
  <2> QED
    BY <2>2, <2>5, <2>7 DEF Covered
<1>17. g \in [DOMAIN g -> Block]
  BY <1>2
<1> QED
  BY <1>2, <1>13, <1>14, <1>15, <1>16, <1>17 DEF Tiling

\* The flag of a block is no part of a tiling.
OnlyFlag(m, g, b, f) ==
    /\ DOMAIN g = DOMAIN m
    /\ \A x \in DOMAIN m :
        /\ g[x].free = (IF x = b THEN f ELSE m[x].free)
        /\ g[x].size = m[x].size /\ g[x].next = m[x].next
        /\ g[x].previous = m[x].previous /\ g[x].arena = m[x].arena
LEMMA FlagTiling ==
    ASSUME NEW m, NEW r, Tiling(m, r), NEW b \in DOMAIN m, NEW f \in BOOLEAN
    PROVE  Tiling(Flagged(m, b, f), r) /\ OnlyFlag(m, Flagged(m, b, f), b, f)
<1>1. PICK g : g = Flagged(m, b, f)
  OBVIOUS
<1>2. m \in [DOMAIN m -> Block]
  BY DEF Tiling
<1>3. /\ g \in [DOMAIN m -> Block]
      /\ \A x \in DOMAIN m :
          /\ g[x].free = (IF x = b THEN f ELSE m[x].free)
          /\ g[x].size = m[x].size /\ g[x].next = m[x].next
          /\ g[x].previous = m[x].previous /\ g[x].arena = m[x].arena
  BY <1>1, <1>2 DEF Flagged, Block
<1>4. \A x \in DOMAIN m : BlockEnd(g, x) = BlockEnd(m, x)
  BY <1>3 DEF BlockEnd
<1>5. ASSUME NEW x \in DOMAIN m
      PROVE  Placed(g, r, x)
  <2>1. Placed(m, r, x)
    BY DEF Tiling
  <2> QED
    BY <1>3, <1>4, <2>1 DEF Placed
<1>6. Apart(g)
  BY <1>3, <1>4 DEF Tiling, Apart
<1>7. \A a \in DOMAIN r : Covered(g, r, a)
  BY <1>3, <1>4 DEF Tiling, Covered
<1>8. Tiling(g, r)
  BY <1>3, <1>5, <1>6, <1>7 DEF Tiling
<1> QED
  BY <1>1, <1>3, <1>8 DEF OnlyFlag

\* What merging and splitting around block b leaves as it was: the blocks in use, where
\* they are, and their sizes but for that of b.
Kept(m, g, b) ==
    /\ b \in DOMAIN g /\ g[b].free = m[b].free /\ g[b].arena = m[b].arena
    /\ g[b].previous = m[b].previous
    /\ InUse(g) = InUse(m)
    /\ \A x \in InUse(m) : g[x].arena = m[x].arena /\ (x # b => g[x].size = m[x].size)

\* Blocks around a merged one.
Spared(m, g, b) ==
    \A x \in DOMAIN m \ {m[b].next} :
        /\ x \in DOMAIN g /\ g[x].free = m[x].free /\ g[x].arena = m[x].arena
        /\ x # b => g[x].size = m[x].size

\* The size of a block once the one behind it is part of it, if that is free.
MergedSize(m, b) == IF m[b].next # 0 /\ m[m[b].next].free
                    THEN m[b].size + Header + m[m[b].next].size ELSE m[b].size

\* merge_next keeps the tiling, and mends a pair of free neighbours.
LEMMA MergeResult ==
    ASSUME NEW m, NEW r, NEW top, Mapped(r, top), Tiling(m, r), NEW b \in DOMAIN m,
           NEW S, Joint(m, S \cup {b}), m[b].next # 0 => m[b].next \notin S,
           NEW g, g = merge_next(m, b)
    PROVE  /\ Tiling(g, r) /\ Joint(g, S) /\ Kept(m, g, b)
           /\ g[b].size = MergedSize(m, b)
           /\ DOMAIN g \subseteq DOMAIN m
           /\ Spared(m, g, b)
<1>1. CASE m[b].next = 0 \/ ~m[m[b].next].free
  <2>1. g = m
    BY <1>1 DEF merge_next
  <2>2. Joint(m, S)
    BY <1>1 DEF Joint
  <2> QED
    BY <1>1, <2>1, <2>2 DEF Kept, InUse, MergedSize, Spared
<1>2. CASE m[b].next # 0 /\ m[m[b].next].free
  <2>1. Swallowed(m, g, b)
    BY <1>2, MergeNext
  <2>2. PICK n : n = m[b].next
    OBVIOUS
  <2>3. Tiling(g, r)
    BY <1>2, <2>1, SwallowTiling
  <2>4. DOMAIN g = DOMAIN m \ {n} /\ n \in DOMAIN m /\ m[n].free /\ n # 0
    BY <1>2, <2>1, <2>2, Around DEF Swallowed
  <2>5. /\ b # n /\ m[n].previous = b
        /\ m[n].next # 0 => m[n].next \in DOMAIN m /\ m[m[n].next].previous = n
    BY <1>2, <2>2, <2>4, Around, Units DEF BlockEnd, Block
  <2>6. \A x \in DOMAIN m \ {n} :
          /\ x \in DOMAIN g /\ g[x].free = m[x].free /\ g[x].arena = m[x].arena
          /\ g[x].size = IF x = b THEN m[b].size + Header + m[n].size ELSE m[x].size
          /\ g[x].next = IF x = b THEN m[n].next ELSE m[x].next
          /\ g[x].previous = IF x = m[n].next THEN b ELSE m[x].previous
    BY <2>1, <2>2, <2>4 DEF Swallowed
  <2>7. b # m[n].next
    BY <2>4, <2>5, Around, Units DEF BlockEnd, Block
  <2>8. Kept(m, g, b)
    <3>1. g[b].previous = m[b].previous
      BY <2>4, <2>5, <2>6, <2>7
    <3>2. InUse(g) = InUse(m)
      BY <2>4, <2>6 DEF InUse
    <3>3. \A x \in InUse(m) : x \in DOMAIN m \ {n}
      BY <2>4 DEF InUse
    <3> QED
      BY <2>5, <2>6, <3>1, <3>2, <3>3 DEF Kept
  <2>9. Joint(g, S)
    <3> SUFFICES ASSUME NEW x \in DOMAIN g \ S, g[x].free, g[x].next # 0
                 PROVE  ~g[g[x].next].free
      BY DEF Joint
    <3>1. CASE x = b
      <4>1. g[x].next = m[n].next /\ m[n].next \in DOMAIN m \ {n}
        <5>1. m[n].next # n
          BY <2>4, Around, Units DEF BlockEnd, Block
        <5> QED
          BY <2>5, <2>6, <3>1, <5>1
      <4>2. n \in DOMAIN m \ (S \cup {b})
        BY <1>2, <2>2, <2>4, <2>5
      <4>3. ~m[m[n].next].free
        BY <2>4, <4>1, <4>2 DEF Joint
      <4> QED
        BY <2>6, <4>1, <4>3
    <3>2. CASE x # b
      <4>1. x \in DOMAIN m \ (S \cup {b}) /\ m[x].free /\ g[x].next = m[x].next
        BY <2>4, <2>6, <3>2
      <4>2. m[x].next \in DOMAIN m /\ m[m[x].next].previous = x
        BY <4>1, Around
      <4>3. ~m[m[x].next].free
        BY <4>1 DEF Joint
      <4> QED
        BY <2>4, <2>6, <4>1, <4>2, <4>3
    <3> QED
      BY <3>1, <3>2
  <2> QED
    BY <1>2, <2>2, <2>3, <2>4, <2>5, <2>6, <2>8, <2>9 DEF MergedSize, Spared
<1> QED
  BY <1>1, <1>2

\* Changes at two addresses can be made in either order.
LEMMA Independent ==
    ASSUME NEW f, NEW b, NEW c, b # c, NEW u, NEW v
    PROVE  [[f EXCEPT ![b] = u] EXCEPT ![c] = v] = [[f EXCEPT ![c] = v] EXCEPT ![b] = u]
OBVIOUS

\* Two changes to one header are one change to the map.
LEMMA OneHeader ==
    ASSUME NEW f, NEW b \in DOMAIN f, NEW u, NEW v
    PROVE  /\ [f EXCEPT ![b].next = u, ![b].size = v]
                = [f EXCEPT ![b] = [[f[b] EXCEPT !.next = u] EXCEPT !.size = v]]
           /\ [f EXCEPT ![b].size = v, ![b].next = u]
                = [f EXCEPT ![b] = [[f[b] EXCEPT !.size = v] EXCEPT !.next = u]]
           /\ [f EXCEPT ![b].previous = u] = [f EXCEPT ![b] = [f[b] EXCEPT !.previous = u]]
OBVIOUS

\* split_block writes the links of b after it has merged the rest; that makes no
\* difference.
LEMMA SplitBlock ==
    ASSUME NEW m, NEW r, NEW top, Mapped(r, top), Tiling(m, r), NEW b \in DOMAIN m,
           NEW size \in Nat, m[b].size - size >= MinSplit, size >= 1
    PROVE  split_block(m, b, size) = merge_next(Halves(m, b, size), b + Header + size)
<1>1. PICK s : s = b + Header + size
  OBVIOUS
<1>2. PICK n : n = m[b].next
  OBVIOUS
<1>3. PICK k : k = m[n].next
  OBVIOUS
<1>4. PICK new : new = [size |-> m[b].size - size - Header, previous |-> b, next |-> n,
                        arena |-> m[b].arena, free |-> TRUE]
  OBVIOUS
<1>5. PICK w : w = SetPrevious(With(m, s, new), n, s)
  OBVIOUS
<1>6. PICK h : h = [w EXCEPT ![b].next = s, ![b].size = size]
  OBVIOUS
<1>7. Halves(m, b, size) = h /\ new.next = n
  BY <1>1, <1>2, <1>4, <1>5, <1>6 DEF Halves
<1>8. split_block(m, b, size) = [merge_next(w, s) EXCEPT ![b].next = s, ![b].size = size]
  <2>1. ~(m[b].size - size < MinSplit)
    BY Around, Units DEF MinSplit, Block
  <2> QED
    BY <1>1, <1>2, <1>4, <1>5, <1>7, <2>1 DEF split_block
<1>9. s \notin DOMAIN m /\ b # s
  BY <1>1, HalvesCut
<1>10. n = 0 \/ (n \in DOMAIN m /\ n # b /\ n # s)
  BY <1>2, <1>9, Around, Units DEF BlockEnd, Block
<1>11. n # 0 => k = 0 \/ (k \in DOMAIN m /\ k # b /\ k # n /\ k # s)
  <2>1. n # 0 => n \in DOMAIN m /\ n = BlockEnd(m, b) /\ b \in Nat /\ m[b].size \in Nat
    BY <1>2, Around DEF Block
  <2>2. n # 0 /\ k # 0 => k \in DOMAIN m /\ k = BlockEnd(m, n) /\ n \in Nat /\ m[n].size \in Nat
    BY <1>3, <2>1, Around DEF Block
  <2> QED
    BY <1>9, <2>1, <2>2, Units DEF BlockEnd
<1>12. DOMAIN w = DOMAIN m \cup {s} /\ w = [x \in DOMAIN m \cup {s} |-> w[x]]
  <2>1. n = 0 => w = With(m, s, new)
    BY <1>5 DEF SetPrevious
  <2>2. n # 0 => w = [With(m, s, new) EXCEPT ![n].previous = s]
    BY <1>5 DEF SetPrevious
  <2> QED
    BY <2>1, <2>2 DEF With
<1>13. w[s].next = n /\ h[s].next = n /\ w[s] = h[s]
  <2>1. With(m, s, new)[s] = new /\ DOMAIN With(m, s, new) = DOMAIN m \cup {s}
    BY DEF With
  <2>2. w[s] = new
    <3>1. CASE n = 0
      BY <1>5, <2>1, <3>1 DEF SetPrevious
    <3>2. CASE n # 0
      <4>1. w = [With(m, s, new) EXCEPT ![n].previous = s]
        BY <1>5, <3>2 DEF SetPrevious
      <4> QED
        BY <1>10, <2>1, <3>2, <4>1
    <3> QED
      BY <3>1, <3>2
  <2>3. h[s] = w[s]
    BY <1>6, <1>9, <1>12
  <2> QED
    BY <1>7, <2>2, <2>3
<1>14. n # 0 => w[n] = h[n] /\ w[n].next = k
  <2> SUFFICES ASSUME n # 0
               PROVE  w[n] = h[n] /\ w[n].next = k
    OBVIOUS
  <2>1. h[n] = w[n]
    BY <1>6, <1>10, <1>12
  <2>2. With(m, s, new)[n] = m[n] /\ n \in DOMAIN With(m, s, new)
    BY <1>10 DEF With
  <2>3. w = [With(m, s, new) EXCEPT ![n].previous = s]
    BY <1>5 DEF SetPrevious
  <2>4. w[n] = [m[n] EXCEPT !.previous = s]
    BY <2>2, <2>3
  <2>5. m[n] \in Block
    BY <1>10, Around
  <2> QED
    BY <1>3, <2>1, <2>4, <2>5 DEF Block
<1>15. CASE n = 0 \/ ~w[n].free
  <2>1. merge_next(w, s) = w
    BY <1>13, <1>15 DEF merge_next
  <2>2. merge_next(h, s) = h
    BY <1>13, <1>14, <1>15 DEF merge_next
  <2> QED
    BY <1>1, <1>6, <1>7, <1>8, <2>1, <2>2
<1>16. CASE n # 0 /\ w[n].free
  <2>1. PICK e : e = w[s].size + Header + w[n].size
    OBVIOUS
  <2> DEFINE wn == Without(w, n)
             hn == Without(h, n)
             wm == [wn EXCEPT ![s].size = e, ![s].next = k]
             hm == [hn EXCEPT ![s].size = e, ![s].next = k]
  <2>2. DOMAIN wn = (DOMAIN m \cup {s}) \ {n} /\ wn[s] = w[s]
    BY <1>10, <1>12, <1>16 DEF Without, Restrict
  <2>3. DOMAIN hn = (DOMAIN m \cup {s}) \ {n} /\ hn[s] = h[s]
    BY <1>6, <1>10, <1>12, <1>16 DEF Without, Restrict
  <2>4. merge_next(w, s) = SetPrevious(wm, k, s)
    BY <1>13, <1>14, <1>16, <2>1, <2>2 DEF merge_next
  <2>5. merge_next(h, s) = SetPrevious(hm, k, s)
    BY <1>13, <1>14, <1>16, <2>1, <2>3 DEF merge_next
  <2>6. hn = [wn EXCEPT ![b].next = s, ![b].size = size]
    <3>1. b \in DOMAIN w /\ b # n
      BY <1>10, <1>12, <1>16
    <3> QED
      BY <1>6, <1>12, <3>1 DEF Without, Restrict
  <2>7. hm = [wm EXCEPT ![b].next = s, ![b].size = size]
    <3> HIDE DEF hn, wn
    <3>1. b \in DOMAIN wn /\ s \in DOMAIN wn /\ DOMAIN hn = DOMAIN wn /\ hn[s] = wn[s]
      BY <1>10, <1>13, <1>16, <2>2, <2>3
    <3>2. PICK u : u = [[wn[b] EXCEPT !.next = s] EXCEPT !.size = size]
      OBVIOUS
    <3>3. PICK v : v = [[wn[s] EXCEPT !.size = e] EXCEPT !.next = k]
      OBVIOUS
    <3>4. hn = [wn EXCEPT ![b] = u]
      BY <2>6, <3>1, <3>2, OneHeader
    <3>5. wm = [wn EXCEPT ![s] = v]
      BY <3>1, <3>3, OneHeader
    <3>6. hm = [hn EXCEPT ![s] = v]
      BY <3>1, <3>3, OneHeader
    <3>7. b \in DOMAIN wm /\ wm[b] = wn[b]
      BY <1>9, <3>1, <3>5
    <3>8. [wm EXCEPT ![b].next = s, ![b].size = size] = [wm EXCEPT ![b] = u]
      <4> HIDE DEF wm
      <4> QED
        BY <3>2, <3>7, OneHeader
    <3>9. [hn EXCEPT ![s] = v] = [wm EXCEPT ![b] = u]
      BY <1>9, <3>4, <3>5, Independent
    <3> QED
      BY <3>6, <3>8, <3>9
  <2>8. SetPrevious(hm, k, s) = [SetPrevious(wm, k, s) EXCEPT ![b].next = s, ![b].size = size]
    <3>1. CASE k = 0
      BY <2>7, <3>1 DEF SetPrevious
    <3>2. CASE k # 0
      <4>1. k # b /\ DOMAIN hm = DOMAIN wm /\ k \in DOMAIN wm /\ b \in DOMAIN wm
        BY <1>10, <1>11, <1>16, <2>2, <2>3, <3>2
      <4> HIDE DEF hm, wm
      <4>2. [hm EXCEPT ![k].previous = s]
              = [[wm EXCEPT ![k].previous = s] EXCEPT ![b].next = s, ![b].size = size]
        <5>1. PICK u : u = [[wm[b] EXCEPT !.next = s] EXCEPT !.size = size]
          OBVIOUS
        <5>2. PICK v : v = [wm[k] EXCEPT !.previous = s]
          OBVIOUS
        <5>3. hm = [wm EXCEPT ![b] = u]
          BY <2>7, <4>1, <5>1, OneHeader
        <5>4. hm[k] = wm[k]
          BY <4>1, <5>3
        <5>5. [hm EXCEPT ![k].previous = s] = [hm EXCEPT ![k] = v]
          BY <4>1, <5>2, <5>4, OneHeader
        <5>6. PICK z : z = [wm EXCEPT ![k].previous = s]
          OBVIOUS
        <5>7. z = [wm EXCEPT ![k] = v]
          BY <4>1, <5>2, <5>6, OneHeader
        <5>8. b \in DOMAIN z /\ z[b] = wm[b]
          BY <4>1, <5>7
        <5>9. [z EXCEPT ![b].next = s, ![b].size = size] = [z EXCEPT ![b] = u]
          BY <5>1, <5>8, OneHeader
        <5>10. [hm EXCEPT ![k] = v] = [z EXCEPT ![b] = u]
          BY <4>1, <5>3, <5>7, Independent
        <5> QED
          BY <5>5, <5>6, <5>9, <5>10
      <4> QED
        BY <3>2, <4>2 DEF SetPrevious
    <3> QED
      BY <3>1, <3>2
  <2> QED
    BY <1>1, <1>7, <1>8, <2>4, <2>5, <2>8
<1> QED
  BY <1>15, <1>16

\* split_block keeps the tiling; only b may be free before a free block.
LEMMA SplitResult ==
    ASSUME NEW m, NEW r, NEW top, Mapped(r, top), Tiling(m, r), NEW b \in DOMAIN m,
           Joint(m, {b}), NEW size \in Nat, size >= 1, m[b].size >= size,
           NEW g, g = split_block(m, b, size)
    PROVE  /\ Tiling(g, r) /\ Joint(g, {b}) /\ Kept(m, g, b)
           /\ g[b].size >= size
<1>1. m[b].size \in Nat /\ b \in Nat /\ b >= 1
  BY Around DEF Block
<1>2. CASE m[b].size - size < MinSplit
  <2>1. g = m
    BY <1>2 DEF split_block
  <2> QED
    BY <2>1 DEF Kept
<1>3. CASE ~(m[b].size - size < MinSplit)
  <2>1. m[b].size - size >= MinSplit
    BY <1>1, <1>3, Units DEF MinSplit
  <2>2. PICK s : s = b + Header + size
    OBVIOUS
  <2>3. PICK h : h = Halves(m, b, size)
    OBVIOUS
  <2>4. g = merge_next(h, s) /\ s \notin DOMAIN m /\ Cut(m, h, b, size, s)
    BY <2>1, <2>2, <2>3, SplitBlock, HalvesCut
  <2>5. Tiling(h, r)
    BY <2>1, <2>2, <2>4, CutTiling
  <2>6. /\ DOMAIN h = DOMAIN m \cup {s}
        /\ h[s].free = TRUE /\ h[s].next = m[b].next
        /\ \A x \in DOMAIN m :
            /\ h[x].arena = m[x].arena /\ h[x].free = m[x].free
            /\ h[x].size = (IF x = b THEN size ELSE m[x].size)
            /\ h[x].next = (IF x = b THEN s ELSE m[x].next)
            /\ h[x].previous = (IF x = m[b].next THEN s ELSE m[x].previous)
    BY <2>4 DEF Cut
  <2>7. s \in DOMAIN h /\ h[s].next \notin {b} /\ b # s
    BY <1>1, <2>2, <2>6, Around, Units DEF BlockEnd, Block
  <2>8. Joint(h, {b} \cup {s})
    <3> SUFFICES ASSUME NEW x \in DOMAIN h \ ({b} \cup {s}), h[x].free, h[x].next # 0
                 PROVE  ~h[h[x].next].free
      BY DEF Joint
    <3>1. x \in DOMAIN m \ {b} /\ m[x].free /\ h[x].next = m[x].next /\ m[x].next # 0
      BY <2>6
    <3>2. m[x].next \in DOMAIN m /\ ~m[m[x].next].free
      BY <3>1, Around DEF Joint
    <3> QED
      BY <2>6, <3>1, <3>2
  <2>9. /\ Tiling(g, r) /\ Joint(g, {b}) /\ Kept(h, g, s)
        /\ \A x \in DOMAIN h \ {h[s].next} :
             /\ x \in DOMAIN g /\ g[x].free = h[x].free /\ g[x].arena = h[x].arena
             /\ x # s => g[x].size = h[x].size
    <3>1. PICK S : S = {b}
      OBVIOUS
    <3>2. Joint(h, S \cup {s}) /\ h[s].next \notin S /\ s \in DOMAIN h /\ g = merge_next(h, s)
      BY <2>4, <2>7, <2>8, <3>1
    <3>3. Tiling(g, r) /\ Joint(g, S) /\ Kept(h, g, s)
      BY <2>5, <3>2, MergeResult
    <3>4. Spared(h, g, s)
      BY <2>5, <3>2, MergeResult
    <3> QED
      BY <3>1, <3>3, <3>4 DEF Spared
  <2>10. b \in DOMAIN g /\ g[b].free = m[b].free /\ g[b].arena = m[b].arena /\ g[b].size = size
    BY <2>6, <2>7, <2>9
  <2>11. g[b].previous = m[b].previous
    <3>1. PICK p : p = m[b].previous
      OBVIOUS
    <3>2. b # m[b].next
      BY <2>6, <2>7
    <3>3. h[b].previous = p
      BY <2>6, <3>1, <3>2
    <3>4. h[s].next # 0 => h[s].next \in DOMAIN h /\ h[h[s].next].next # b /\ h[h[s].next].previous = s
      <4>1. ASSUME h[s].next # 0
            PROVE  h[s].next \in DOMAIN h /\ h[h[s].next].next # b /\ h[h[s].next].previous = s
        <5>1. h[s].next \in DOMAIN h /\ h[h[s].next].previous = s /\ h[s].next = BlockEnd(h, s)
          BY <2>5, <2>7, <4>1, Around
        <5>2. h[h[s].next].next # 0 => h[h[s].next].next = BlockEnd(h, h[s].next)
          BY <2>5, <5>1, Around
        <5>3. s \in Nat /\ h[s].size \in Nat /\ h[s].next \in Nat /\ h[h[s].next].size \in Nat /\ b < s
          BY <1>1, <2>2, <2>5, <2>7, <5>1, Around, Units DEF Block
        <5> QED
          BY <1>1, <5>1, <5>2, <5>3, Units DEF BlockEnd
      <4> QED
        BY <4>1
    <3>5. CASE h[s].next = 0 \/ ~h[h[s].next].free
      <4>1. g = h
        BY <2>4, <3>5 DEF merge_next
      <4> QED
        BY <3>1, <3>3, <4>1
    <3>6. CASE h[s].next # 0 /\ h[h[s].next].free
      <4>1. Swallowed(h, g, s)
        BY <2>4, <2>5, <2>7, <3>6, MergeNext
      <4>2. b \in DOMAIN h \ {h[s].next}
        BY <2>6, <2>7
      <4> QED
        BY <3>1, <3>3, <3>4, <3>6, <4>1, <4>2 DEF Swallowed
    <3> QED
      BY <3>5, <3>6
  <2>12. InUse(g) = InUse(m)
    <3>1. InUse(h) = InUse(m)
      BY <2>4, <2>6 DEF InUse
    <3> QED
      BY <2>9, <3>1 DEF Kept
  <2>13. \A x \in InUse(m) : g[x].arena = m[x].arena /\ (x # b => g[x].size = m[x].size)
    <3> SUFFICES ASSUME NEW x \in InUse(m)
                 PROVE  g[x].arena = m[x].arena /\ (x # b => g[x].size = m[x].size)
      OBVIOUS
    <3>1. x \in DOMAIN m /\ x # s /\ x \in InUse(h)
      BY <2>4, <2>6 DEF InUse
    <3> QED
      BY <2>6, <2>9, <3>1 DEF Kept
  <2>14. size >= size
    OBVIOUS
  <2> QED
    BY <2>9, <2>10, <2>11, <2>12, <2>13, <2>14 DEF Kept
<1> QED
  BY <1>2, <1>3

-----------------------------------------------------------------------------
(* Arenas. *)

\* An arena ends behind its start, and all of it is below the next mapping.
LEMMA ArenaBounds ==
    ASSUME NEW m, NEW r, NEW top, Mapped(r, top), Tiling(m, r), NEW a \in DOMAIN r
    PROVE  /\ a \in Nat /\ a >= 1 /\ MmapBase <= a /\ r[a] \in Arena /\ Limit(r, a) \in Nat
           /\ a < Limit(r, a) /\ Limit(r, a) <= top /\ Limit(r, a) <= MmapEnd /\ top \in Nat
<1>1. /\ a \in Nat /\ MmapBase <= a /\ r[a] \in Arena /\ Limit(r, a) \in Nat
      /\ Limit(r, a) <= top /\ Limit(r, a) <= MmapEnd /\ top \in Nat
  BY DEF Mapped, Limit, Arena
<1>2. Covered(m, r, a)
  BY DEF Tiling
<1>3. PICK f : f \in DOMAIN m /\ f = a + ArenaHeader /\ m[f].arena = a
  BY <1>2 DEF Covered, first_block
<1>4. f < BlockEnd(m, f) /\ BlockEnd(m, f) <= Limit(r, a) /\ BlockEnd(m, f) \in Nat /\ f \in Nat
  BY <1>3, Around, Units DEF BlockEnd, Block
<1> QED
  BY <1>1, <1>3, <1>4, Units

\* A tiling looks only at where the arenas are and how large they are.
LEMMA TilingOfMapped ==
    ASSUME NEW m, NEW r, NEW q, DOMAIN q = DOMAIN r, \A a \in DOMAIN r : q[a].mapped = r[a].mapped,
           Tiling(m, r)
    PROVE  Tiling(m, q)
<1>1. \A a \in DOMAIN r : Limit(q, a) = Limit(r, a)
  BY DEF Limit
<1>2. \A b \in DOMAIN m : Placed(m, q, b)
  <2> SUFFICES ASSUME NEW b \in DOMAIN m
               PROVE  Placed(m, q, b)
    OBVIOUS
  <2>1. Placed(m, r, b)
    BY DEF Tiling
  <2> QED
    BY <1>1, <2>1 DEF Placed
<1>3. \A a \in DOMAIN q : Covered(m, q, a)
  <2> SUFFICES ASSUME NEW a \in DOMAIN q
               PROVE  Covered(m, q, a)
    OBVIOUS
  <2>1. Covered(m, r, a)
    BY DEF Tiling
  <2> QED
    BY <1>1, <2>1 DEF Covered
<1> QED
  BY <1>2, <1>3 DEF Tiling

\* The number of blocks in use can be counted.
LEMMA InUseFinite ==
    ASSUME NEW m, NEW r, NEW top, Mapped(r, top), Tiling(m, r)
    PROVE  IsFiniteSet(InUse(m)) /\ \A a : IsFiniteSet(InUseOf(m, a))
<1>1. DOMAIN m \subseteq 0..top
  <2> SUFFICES ASSUME NEW b \in DOMAIN m
               PROVE  b \in 0..top
    OBVIOUS
  <2>1. m[b].arena \in DOMAIN r /\ b \in Nat /\ b < BlockEnd(m, b) /\ BlockEnd(m, b) \in Nat
        /\ BlockEnd(m, b) <= Limit(r, m[b].arena)
    BY Around, Units DEF BlockEnd, Block
  <2>2. Limit(r, m[b].arena) <= top /\ Limit(r, m[b].arena) \in Nat /\ top \in Nat
    BY <2>1, ArenaBounds
  <2> QED
    BY <2>1, <2>2
<1>2. IsFiniteSet(0..top)
  <2>1. top \in Int /\ 0 \in Int
    BY DEF Mapped
  <2> QED
    BY <2>1, FS_Interval
<1>3. InUse(m) \subseteq 0..top
  BY <1>1 DEF InUse
<1>4. \A a : InUseOf(m, a) \subseteq 0..top
  BY <1>3 DEF InUseOf
<1> QED
  BY <1>2, <1>3, <1>4, FS_Subset

\* A change to the count of an arena.
Recount(r, a, n) == [r EXCEPT ![a].active = n]
LEMMA RecountArenas ==
    ASSUME NEW r, NEW head, NEW top, Mapped(r, top), Listed(r, head), NEW a \in DOMAIN r,
           NEW n \in Nat
    PROVE  /\ Mapped(Recount(r, a, n), top) /\ Listed(Recount(r, a, n), head)
           /\ DOMAIN Recount(r, a, n) = DOMAIN r
           /\ \A c \in DOMAIN r : /\ Recount(r, a, n)[c].mapped = r[c].mapped
                                  /\ Recount(r, a, n)[c].active = IF c = a THEN n ELSE r[c].active
<1>1. PICK q : q = Recount(r, a, n)
  OBVIOUS
<1>2. /\ q \in [DOMAIN r -> Arena]
      /\ \A c \in DOMAIN r :
            /\ q[c].mapped = r[c].mapped /\ q[c].next = r[c].next
            /\ q[c].previous = r[c].previous
            /\ q[c].active = IF c = a THEN n ELSE r[c].active
  <2>1. r \in [DOMAIN r -> Arena]
    BY DEF Mapped
  <2> QED
    BY <1>1, <2>1 DEF Recount, Arena
<1>3. Mapped(q, top)
  <2>1. \A c \in DOMAIN r : Limit(q, c) = Limit(r, c)
    BY <1>2 DEF Limit
  <2> QED
    BY <1>2, <2>1 DEF Mapped
<1>4. Listed(q, head)
  <2>1. \A c \in DOMAIN r : Older(q, c) = Older(r, c)
    BY <1>2 DEF Older
  <2>2. ASSUME NEW c \in DOMAIN r
        PROVE  /\ GreatestOrZero(q[c].next, Older(q, c))
               /\ q[c].next # 0 => q[q[c].next].previous = c
               /\ c = head => q[c].previous = 0
               /\ c # head => q[c].previous \in DOMAIN r /\ q[q[c].previous].next = c
    <3>1. GreatestOrZero(q[c].next, Older(q, c))
      BY <1>2, <2>1 DEF Listed
    <3>2. q[c].next # 0 => q[c].next \in DOMAIN r
      BY <3>1, <2>1 DEF GreatestOrZero, Older
    <3> QED
      BY <1>2, <3>1, <3>2 DEF Listed
  <2> QED
    BY <1>2, <2>2 DEF Listed
<1> QED
  BY <1>1, <1>2, <1>3, <1>4

\* A new arena has room for its headers and for the request.
LEMMA MappingFits ==
    ASSUME NEW size \in Nat, size >= 1
    PROVE  Mapping(size) \in Nat /\ Mapping(size) >= size + Overhead
<1>1. PICK N \in Nat : N = size + Overhead + PageSize - 1
  BY Units DEF Overhead
<1>2. PICK q \in Nat, d \in 0..(PageSize - 1) : q = N \div PageSize /\ N = q * PageSize + d
  <2>1. PageSize \in Nat \ {0}
    BY Units
  <2> QED
    BY <2>1, Division
<1>3. PICK e : e = q * PageSize
  OBVIOUS
<1>4. e \in Nat
  BY <1>3, Units
<1>5. e >= size + Overhead
  BY <1>1, <1>2, <1>3, <1>4, Units DEF Overhead
<1>6. Mapping(size) = IF e > ArenaSize THEN e ELSE ArenaSize
  BY <1>1, <1>2, <1>3 DEF Mapping
<1> QED
  BY <1>4, <1>5, <1>6, Units DEF Overhead

\* find_block finds a block that will do when there is one: there is one in the newest
\* arena that has any, and of those there a first.
LEMMA FindBlock ==
    ASSUME NEW h, Sane(h), NEW size \in Nat, find_block(h, size) # 0
    PROVE  /\ find_block(h, size) \in DOMAIN h.block
           /\ h.block[find_block(h, size)].free /\ h.block[find_block(h, size)].size >= size
<1>1. PICK m : m = h.block
  OBVIOUS
<1>2. PICK T : T = {b \in DOMAIN m : m[b].free /\ m[b].size >= size}
  OBVIOUS
<1>3. T # {}
  BY <1>1, <1>2 DEF find_block
<1>4. \A b \in T : /\ b \in Nat /\ m[b].arena \in Nat /\ m[b].arena <= h.mmap_next
  <2> SUFFICES ASSUME NEW b \in T
               PROVE  b \in Nat /\ m[b].arena \in Nat /\ m[b].arena <= h.mmap_next
    OBVIOUS
  <2>1. Mapped(h.arena, h.mmap_next) /\ Tiling(m, h.arena) /\ b \in DOMAIN m
    BY <1>1, <1>2 DEF Sane
  <2>2. b \in Nat /\ m[b].arena \in DOMAIN h.arena
    BY <2>1, Around
  <2> QED
    BY <2>1, <2>2, ArenaBounds
<1>5. h.mmap_next \in Nat
  BY DEF Sane, Mapped
<1>6. PICK t \in Nat : t = h.mmap_next
  BY <1>5
<1>7. PICK D : D = {t - m[b].arena : b \in T}
  OBVIOUS
<1>8. D \subseteq Nat /\ D # {}
  BY <1>3, <1>4, <1>6, <1>7
<1>9. PICK d \in D : \A y \in D : d <= y
  BY <1>8, LeastNatural
<1>10. PICK E : E = {b \in T : t - m[b].arena = d}
  OBVIOUS
<1>11. E \subseteq Nat /\ E # {}
  BY <1>4, <1>7, <1>9, <1>10
<1>12. PICK b \in E : \A c \in E : b <= c
  BY <1>11, LeastNatural
<1>13. ASSUME NEW c \in T
       PROVE  m[b].arena > m[c].arena \/ (m[b].arena = m[c].arena /\ b <= c)
  <2>1. b \in T /\ t - m[b].arena = d /\ t - m[c].arena \in D
    BY <1>7, <1>10, <1>12
  <2>2. d <= t - m[c].arena
    BY <1>9, <2>1
  <2>3. m[b].arena \in Nat /\ m[c].arena \in Nat
    BY <1>4, <2>1
  <2>4. CASE m[b].arena = m[c].arena
    <3>1. c \in E
      BY <1>10, <2>1, <2>4
    <3> QED
      BY <1>12, <2>4, <3>1
  <2> QED
    BY <2>1, <2>2, <2>3, <2>4
<1>14. b \in T
  BY <1>10, <1>12
<1>15. find_block(h, size) \in T
  <2>1. find_block(h, size) = CHOOSE x \in T : \A c \in T :
            m[x].arena > m[c].arena \/ (m[x].arena = m[c].arena /\ x <= c)
    BY <1>1, <1>2, <1>3 DEF find_block
  <2>2. \E x \in T : \A c \in T :
            m[x].arena > m[c].arena \/ (m[x].arena = m[c].arena /\ x <= c)
    BY <1>13, <1>14
  <2> QED
    BY <2>1, <2>2
<1> QED
  BY <1>1, <1>2, <1>15

\* What create_arena adds.
NewArena(r, head, a, mapped) ==
    SetPrevious(With(r, a, [mapped |-> mapped, active |-> 0, previous |-> 0, next |-> head]),
                head, a)
NewBlock(m, a, mapped) ==
    With(m, first_block(a), [size |-> mapped - Overhead, previous |-> 0, next |-> 0,
                             arena |-> a, free |-> TRUE])

\* The new arena is the newest in the list, and above the others.
ArenaAdded(r, q, a, mapped) ==
    /\ a \notin DOMAIN r /\ DOMAIN q = DOMAIN r \cup {a}
    /\ q[a].mapped = mapped /\ q[a].active = 0
    /\ \A c \in DOMAIN r : q[c].mapped = r[c].mapped /\ q[c].active = r[c].active
LEMMA NewArenaListed ==
    ASSUME NEW m, NEW r, NEW head, NEW a, NEW mapped \in Nat,
           Mapped(r, a), Listed(r, head), Tiling(m, r), a + mapped <= MmapEnd, mapped >= 1,
           NEW q, q = NewArena(r, head, a, mapped)
    PROVE  Mapped(q, a + mapped) /\ Listed(q, a) /\ ArenaAdded(r, q, a, mapped)
<1>1. \A c \in DOMAIN r : c \in Nat /\ c >= 1 /\ c < a /\ Limit(r, c) <= a
  <2> SUFFICES ASSUME NEW c \in DOMAIN r
               PROVE  c \in Nat /\ c >= 1 /\ c < a /\ Limit(r, c) <= a
    OBVIOUS
  <2>1. c \in Nat /\ c >= 1 /\ c < Limit(r, c) /\ Limit(r, c) <= a /\ Limit(r, c) \in Nat /\ a \in Nat
    BY ArenaBounds
  <2> QED
    BY <2>1
<1>2. a \in Nat /\ MmapBase <= a /\ a >= 1
  BY Units DEF Mapped
<1>3. a \notin DOMAIN r
  BY <1>1, <1>2
<1>4. GreatestOrZero(head, DOMAIN r)
  BY DEF Listed
<1>5. head = 0 \/ (head \in DOMAIN r /\ head # a)
  BY <1>3, <1>4 DEF GreatestOrZero
<1>6. PICK w : w = With(r, a, [mapped |-> mapped, active |-> 0, previous |-> 0, next |-> head])
  OBVIOUS
<1>7. /\ w \in [DOMAIN r \cup {a} -> Arena] /\ \A c \in DOMAIN r : w[c] = r[c]
      /\ w[a] = [mapped |-> mapped, active |-> 0, previous |-> 0, next |-> head]
  <2>1. r \in [DOMAIN r -> Arena] /\ head \in Nat
    BY <1>1, <1>5 DEF Mapped
  <2>2. [mapped |-> mapped, active |-> 0, previous |-> 0, next |-> head] \in Arena
    BY <2>1 DEF Arena
  <2> QED
    BY <1>3, <1>6, <2>1, <2>2 DEF With
<1>8. /\ q \in [DOMAIN r \cup {a} -> Arena]
      /\ q[a].mapped = mapped /\ q[a].active = 0 /\ q[a].previous = 0 /\ q[a].next = head
      /\ \A c \in DOMAIN r :
            /\ q[c].mapped = r[c].mapped /\ q[c].active = r[c].active /\ q[c].next = r[c].next
            /\ q[c].previous = IF c = head THEN a ELSE r[c].previous
  <2>1. q = SetPrevious(w, head, a)
    BY <1>6 DEF NewArena
  <2>2. 0 \notin DOMAIN r
    BY <1>1
  <2>3. CASE head = 0
    BY <1>7, <2>1, <2>2, <2>3 DEF SetPrevious
  <2>4. CASE head # 0
    <3>1. q = [w EXCEPT ![head].previous = a] /\ head \in DOMAIN r /\ head # a
      BY <1>5, <2>1, <2>4 DEF SetPrevious
    <3> QED
      BY <1>2, <1>7, <3>1 DEF Arena
  <2> QED
    BY <2>3, <2>4
<1>9. DOMAIN q = DOMAIN r \cup {a}
  BY <1>8
<1>10. Mapped(q, a + mapped)
  <2>1. \A c \in DOMAIN r : Limit(q, c) = Limit(r, c) /\ Limit(r, c) \in Nat
    BY <1>8 DEF Limit, Mapped, Arena
  <2>2. Limit(q, a) = a + mapped
    BY <1>8 DEF Limit
  <2>3. ASSUME NEW c \in DOMAIN q
        PROVE  c \in Nat /\ MmapBase <= c /\ Limit(q, c) <= a + mapped /\ Limit(q, c) <= MmapEnd
    <3>1. CASE c = a
      BY <1>2, <2>2, <3>1
    <3>2. CASE c \in DOMAIN r
      BY <1>1, <1>2, <2>1, <3>2 DEF Mapped
    <3> QED
      BY <1>9, <3>1, <3>2
  <2>4. ASSUME NEW c \in DOMAIN q, NEW d \in DOMAIN q, c < d
        PROVE  Limit(q, c) <= d
    <3>1. c \in DOMAIN r
      BY <1>1, <1>2, <1>9, <2>4
    <3>2. CASE d = a
      BY <1>1, <2>1, <3>1, <3>2
    <3>3. CASE d \in DOMAIN r
      BY <2>1, <2>4, <3>1, <3>3 DEF Mapped
    <3> QED
      BY <1>9, <3>2, <3>3
  <2>5. a + mapped \in Nat /\ MmapBase <= a + mapped
    BY <1>2, Units
  <2> QED
    BY <1>8, <1>9, <2>3, <2>4, <2>5 DEF Mapped
<1>11. Listed(q, a)
  <2>1. \A c \in DOMAIN q : c <= a
    BY <1>1, <1>2, <1>9
  <2>2. GreatestOrZero(a, DOMAIN q)
    BY <1>9, <2>1 DEF GreatestOrZero
  <2>3. Older(q, a) = DOMAIN r
    BY <1>1, <1>2, <1>9 DEF Older
  <2>4. \A c \in DOMAIN r : Older(q, c) = Older(r, c)
    BY <1>1, <1>2, <1>9 DEF Older
  <2>5. ASSUME NEW c \in DOMAIN q
        PROVE  /\ GreatestOrZero(q[c].next, Older(q, c))
               /\ q[c].next # 0 => q[q[c].next].previous = c
               /\ c = a => q[c].previous = 0
               /\ c # a => q[c].previous \in DOMAIN q /\ q[q[c].previous].next = c
    <3>1. CASE c = a
      BY <1>4, <1>5, <1>8, <2>3, <3>1
    <3>2. CASE c \in DOMAIN r
      <4>1. c # a /\ GreatestOrZero(q[c].next, Older(q, c))
        BY <1>3, <1>8, <2>4, <3>2 DEF Listed
      <4>2. ASSUME q[c].next # 0
            PROVE  q[q[c].next].previous = c
        <5>1. q[c].next = r[c].next /\ r[c].next \in DOMAIN r /\ r[r[c].next].previous = c
              /\ r[c].next < c
          BY <1>8, <2>4, <3>2, <4>1, <4>2 DEF Listed, GreatestOrZero, Older
        <5>2. r[c].next # head
          BY <1>1, <1>4, <3>2, <5>1 DEF GreatestOrZero
        <5> QED
          BY <1>8, <5>1, <5>2
      <4>3. q[c].previous \in DOMAIN q /\ q[q[c].previous].next = c
        <5>1. CASE c = head
          BY <1>8, <1>9, <3>2, <5>1
        <5>2. CASE c # head
          BY <1>8, <1>9, <3>2, <5>2 DEF Listed
        <5> QED
          BY <5>1, <5>2
      <4> QED
        BY <4>1, <4>2, <4>3
    <3> QED
      BY <1>9, <3>1, <3>2
  <2> QED
    BY <2>2, <2>5 DEF Listed
<1> QED
  BY <1>3, <1>8, <1>9, <1>10, <1>11 DEF ArenaAdded

\* The block of the new arena fills it.
BlockAdded(m, g, a, mapped) ==
    /\ first_block(a) \in DOMAIN g /\ g[first_block(a)].free
    /\ g[first_block(a)].size = mapped - Overhead /\ g[first_block(a)].arena = a
    /\ InUse(g) = InUse(m) /\ \A x \in DOMAIN m : g[x] = m[x]
LEMMA NewBlockTiled ==
    ASSUME NEW m, NEW r, NEW a, NEW mapped \in Nat, NEW q, NEW g,
           Mapped(r, a), Tiling(m, r), Joint(m, {}), mapped >= Overhead + 1,
           ArenaAdded(r, q, a, mapped), g = NewBlock(m, a, mapped)
    PROVE  Tiling(g, q) /\ Joint(g, {}) /\ BlockAdded(m, g, a, mapped)
<1>0. /\ a \notin DOMAIN r /\ DOMAIN q = DOMAIN r \cup {a} /\ q[a].mapped = mapped
      /\ \A c \in DOMAIN r : q[c].mapped = r[c].mapped
  BY DEF ArenaAdded
<1>1. PICK f : f = first_block(a)
  OBVIOUS
<1>2. a \in Nat /\ a >= 1 /\ f = a + ArenaHeader /\ f \in Nat
  BY <1>1, Units DEF Mapped, first_block
<1>3. \A x \in DOMAIN m : /\ x \in Nat /\ BlockEnd(m, x) \in Nat /\ BlockEnd(m, x) <= a
                          /\ x < BlockEnd(m, x) /\ m[x].arena \in DOMAIN r
  <2> SUFFICES ASSUME NEW x \in DOMAIN m
               PROVE  /\ x \in Nat /\ BlockEnd(m, x) \in Nat /\ BlockEnd(m, x) <= a
                      /\ x < BlockEnd(m, x) /\ m[x].arena \in DOMAIN r
    OBVIOUS
  <2>1. /\ x \in Nat /\ BlockEnd(m, x) \in Nat /\ x < BlockEnd(m, x) /\ m[x].arena \in DOMAIN r
        /\ BlockEnd(m, x) <= Limit(r, m[x].arena)
    BY Around, Units DEF BlockEnd, Block
  <2>2. Limit(r, m[x].arena) <= a /\ Limit(r, m[x].arena) \in Nat
    BY <2>1, ArenaBounds
  <2> QED
    BY <1>2, <2>1, <2>2
<1>4. f \notin DOMAIN m
  BY <1>2, <1>3, Units
<1>5. PICK new : new = [size |-> mapped - Overhead, previous |-> 0, next |-> 0,
                        arena |-> a, free |-> TRUE]
  OBVIOUS
<1>6. new \in Block /\ mapped - Overhead \in Nat /\ mapped - Overhead >= 1
  <2>1. mapped - Overhead \in Nat /\ mapped - Overhead >= 1
    BY Units DEF Overhead
  <2> QED
    BY <1>2, <1>5, <2>1 DEF Block
<1>7. /\ g \in [DOMAIN m \cup {f} -> Block] /\ g[f] = new /\ \A x \in DOMAIN m : g[x] = m[x]
  <2>1. m \in [DOMAIN m -> Block]
    BY DEF Tiling
  <2>2. g = With(m, f, new)
    BY <1>1, <1>5 DEF NewBlock
  <2> QED
    BY <1>4, <1>6, <2>1, <2>2 DEF With
<1>8. /\ g[f].size = mapped - Overhead /\ g[f].previous = 0 /\ g[f].next = 0 /\ g[f].arena = a
      /\ g[f].free = TRUE
  BY <1>5, <1>7
<1>9. \A c \in DOMAIN r : Limit(q, c) = Limit(r, c)
  BY <1>0 DEF Limit
<1>10. \A x \in DOMAIN m : BlockEnd(g, x) = BlockEnd(m, x)
  BY <1>7 DEF BlockEnd
<1>11. BlockEnd(g, f) = Limit(q, a)
  BY <1>0, <1>2, <1>8, Units DEF BlockEnd, Limit, Overhead
<1>12. Placed(g, q, f)
  <2>1. Limit(q, a) \in Nat
    BY <1>0, <1>2 DEF Limit
  <2> QED
    <3>1. first_block(g[f].arena) = f /\ g[f].arena \in DOMAIN q /\ f <= f
      <4>1. first_block(g[f].arena) = f
        BY <1>1, <1>8
      <4>2. a \in DOMAIN q
        BY <1>0
      <4>3. f <= f
        BY <1>2
      <4> QED
        BY <1>8, <4>1, <4>2, <4>3
    <3>2. BlockEnd(g, f) <= Limit(q, g[f].arena) /\ g[f].size >= 1
      BY <1>6, <1>8, <1>11, <2>1
    <3> QED
      BY <1>2, <1>8, <1>11, <3>1, <3>2 DEF Placed
<1>13. ASSUME NEW x \in DOMAIN m
       PROVE  Placed(g, q, x)
  <2>1. Placed(m, r, x)
    BY DEF Tiling
  <2> QED
    BY <1>0, <1>7, <1>9, <1>10, <2>1 DEF Placed
<1>14. Apart(g)
  <2> SUFFICES ASSUME NEW x \in DOMAIN g, NEW y \in DOMAIN g, x < y
               PROVE  BlockEnd(g, x) <= y
    BY DEF Apart
  <2>1. x \in DOMAIN m
    BY <1>2, <1>3, <1>7, Units
  <2>2. CASE y = f
    BY <1>2, <1>3, <1>10, <2>1, <2>2, Units
  <2>3. CASE y \in DOMAIN m
    BY <1>10, <2>1, <2>3 DEF Tiling, Apart
  <2> QED
    BY <1>7, <2>2, <2>3
<1>15. ASSUME NEW c \in DOMAIN q
       PROVE  Covered(g, q, c)
  <2>1. CASE c = a
    BY <1>1, <1>7, <1>8, <1>11, <2>1 DEF Covered
  <2>2. CASE c \in DOMAIN r
    <3>1. Covered(m, r, c)
      BY <2>2 DEF Tiling
    <3> QED
      BY <1>7, <1>9, <1>10, <2>2, <3>1 DEF Covered
  <2> QED
    BY <1>0, <2>1, <2>2
<1>16. Tiling(g, q)
  BY <1>7, <1>12, <1>13, <1>14, <1>15 DEF Tiling
<1>17. Joint(g, {})
  <2> SUFFICES ASSUME NEW x \in DOMAIN g, g[x].free, g[x].next # 0
               PROVE  ~g[g[x].next].free
    BY DEF Joint
  <2>1. x \in DOMAIN m /\ g[x] = m[x]
    BY <1>7, <1>8
  <2>2. m[x].next \in DOMAIN m /\ ~m[m[x].next].free
    BY <2>1, Around DEF Joint
  <2> QED
    BY <1>7, <2>1, <2>2
<1>18. InUse(g) = InUse(m)
  BY <1>4, <1>7, <1>8 DEF InUse
<1> QED
  BY <1>1, <1>7, <1>8, <1>16, <1>17, <1>18 DEF BlockAdded

-----------------------------------------------------------------------------
(* __allocator_allocate and __allocator_release. *)

\* create_arena makes an arena with one free block that is large enough.
LEMMA CreateArena ==
    ASSUME NEW h, Sane(h), NEW size \in Nat, size >= 1,
           h.mmap_next + Mapping(size) <= MmapEnd, NEW g, g = create_arena(h, size)
    PROVE  /\ Sane(g) /\ InUse(g.block) = InUse(h.block)
           /\ \A x \in InUse(h.block) : g.block[x] = h.block[x]
           /\ first_block(h.mmap_next) \in DOMAIN g.block
           /\ g.block[first_block(h.mmap_next)].free
           /\ g.block[first_block(h.mmap_next)].size >= size
<1>1. PICK m : m = h.block
  OBVIOUS
<1>2. PICK r : r = h.arena
  OBVIOUS
<1>3. PICK a : a = h.mmap_next
  OBVIOUS
<1>4. PICK mapped : mapped = Mapping(size)
  OBVIOUS
<1>5. PICK q : q = NewArena(r, h.arenas, a, mapped)
  OBVIOUS
<1>6. PICK n : n = NewBlock(m, a, mapped)
  OBVIOUS
<1>7. g = [block |-> n, arena |-> q, arenas |-> a, mmap_next |-> a + mapped]
  BY <1>1, <1>2, <1>3, <1>4, <1>5, <1>6 DEF create_arena, NewArena, NewBlock
<1>8. Mapped(r, a) /\ Listed(r, h.arenas) /\ Tiling(m, r) /\ Joint(m, {}) /\ Counted(m, r)
  BY <1>1, <1>2, <1>3 DEF Sane
<1>9. mapped \in Nat /\ mapped >= size + Overhead /\ mapped >= 1 /\ mapped >= Overhead + 1
  BY <1>4, MappingFits, Units DEF Overhead
<1>10. a + mapped <= MmapEnd
  BY <1>3, <1>4
<1>11. Mapped(q, a + mapped) /\ Listed(q, a) /\ ArenaAdded(r, q, a, mapped)
  <2>1. PICK e : e = h.arenas
    OBVIOUS
  <2>2. Listed(r, e) /\ q = NewArena(r, e, a, mapped)
    BY <1>5, <1>8, <2>1
  <2> QED
    BY <1>8, <1>9, <1>10, <2>2, NewArenaListed
<1>12. Tiling(n, q) /\ Joint(n, {}) /\ BlockAdded(m, n, a, mapped)
  BY <1>6, <1>8, <1>9, <1>11, NewBlockTiled
<1>13. /\ a \notin DOMAIN r /\ DOMAIN q = DOMAIN r \cup {a} /\ q[a].active = 0
       /\ \A c \in DOMAIN r : q[c].active = r[c].active
  BY <1>11 DEF ArenaAdded
<1>14. /\ InUse(n) = InUse(m)
       /\ first_block(a) \in DOMAIN n /\ n[first_block(a)].free
       /\ n[first_block(a)].size = mapped - Overhead
       /\ \A x \in DOMAIN m : n[x] = m[x]
  BY <1>12 DEF BlockAdded
<1>15. \A x \in InUse(m) : x \in DOMAIN m /\ n[x] = m[x] /\ m[x].arena \in DOMAIN r
  BY <1>8, <1>14, Around DEF InUse
<1>16. Counted(n, q)
  <2> SUFFICES ASSUME NEW c \in DOMAIN q
               PROVE  q[c].active = Cardinality(InUseOf(n, c))
    BY DEF Counted
  <2>1. CASE c = a
    <3>1. InUseOf(n, c) = {}
      BY <1>13, <1>14, <1>15, <2>1 DEF InUseOf
    <3> QED
      BY <1>13, <2>1, <3>1, FS_EmptySet
  <2>2. CASE c \in DOMAIN r
    <3>1. InUseOf(n, c) = InUseOf(m, c)
      BY <1>14, <1>15 DEF InUseOf
    <3> QED
      BY <1>8, <1>13, <2>2, <3>1 DEF Counted
  <2> QED
    BY <1>13, <2>1, <2>2
<1>17. g.block = n /\ g.arena = q /\ g.arenas = a /\ g.mmap_next = a + mapped /\ HeapFields(g)
  BY <1>7 DEF HeapFields
<1>18. mapped - Overhead >= size
  BY <1>9, Units DEF Overhead
<1> QED
  BY <1>1, <1>3, <1>14, <1>15, <1>16, <1>17, <1>18, <1>11, <1>12 DEF Sane

\* One more block is in use.
LEMMA CountUp ==
    ASSUME NEW m, NEW n, NEW r, NEW q, NEW head, NEW top, NEW b, NEW a \in DOMAIN r,
           Mapped(r, top), Listed(r, head), Tiling(m, r), Counted(m, r),
           b \notin InUse(m), InUse(n) = InUse(m) \cup {b}, n[b].arena = a,
           \A x \in InUse(m) : n[x].arena = m[x].arena,
           q = Recount(r, a, r[a].active + 1)
    PROVE  Counted(n, q)
<1>1. /\ DOMAIN q = DOMAIN r
      /\ \A c \in DOMAIN r : q[c].active = IF c = a THEN r[a].active + 1 ELSE r[c].active
  <2>1. r[a].active + 1 \in Nat
    BY DEF Mapped, Arena
  <2> QED
    BY <2>1, RecountArenas, SMTT(40)
<1> SUFFICES ASSUME NEW c \in DOMAIN r
             PROVE  q[c].active = Cardinality(InUseOf(n, c))
  BY <1>1 DEF Counted
<1>2. r[c].active = Cardinality(InUseOf(m, c))
  BY DEF Counted
<1>3. CASE c = a
  <2>1. InUseOf(n, c) = InUseOf(m, c) \cup {b}
    BY <1>3 DEF InUseOf
  <2>2. b \notin InUseOf(m, c) /\ IsFiniteSet(InUseOf(m, c))
    BY InUseFinite DEF InUseOf
  <2>3. Cardinality(InUseOf(n, c)) = Cardinality(InUseOf(m, c)) + 1
    BY <2>1, <2>2, FS_AddElement
  <2> QED
    BY <1>1, <1>2, <1>3, <2>3
<1>4. CASE c # a
  <2>1. InUseOf(n, c) = InUseOf(m, c)
    BY <1>4 DEF InUseOf
  <2> QED
    BY <1>1, <1>2, <1>4, <2>1
<1> QED
  BY <1>3, <1>4

\* One block less is in use.
LEMMA CountDown ==
    ASSUME NEW m, NEW n, NEW r, NEW q, NEW head, NEW top, NEW b \in InUse(m),
           Mapped(r, top), Listed(r, head), Tiling(m, r), Counted(m, r),
           InUse(n) = InUse(m) \ {b},
           \A x \in InUse(n) : n[x].arena = m[x].arena,
           q = Recount(r, m[b].arena, r[m[b].arena].active - 1)
    PROVE  r[m[b].arena].active - 1 \in Nat /\ Counted(n, q)
<1>1. PICK a : a = m[b].arena
  OBVIOUS
<1>2. a \in DOMAIN r /\ b \in InUseOf(m, a) /\ IsFiniteSet(InUseOf(m, a))
  <2>1. b \in DOMAIN m /\ b \in InUseOf(m, a)
    BY <1>1 DEF InUse, InUseOf
  <2>2. a \in DOMAIN r
    BY <1>1, <2>1, Around
  <2>3. IsFiniteSet(InUseOf(m, a))
    BY InUseFinite
  <2> QED
    BY <2>1, <2>2, <2>3
<1>3. r[a].active = Cardinality(InUseOf(m, a))
  BY <1>2 DEF Counted
<1>4. /\ Cardinality(InUseOf(m, a) \ {b}) = Cardinality(InUseOf(m, a)) - 1
      /\ Cardinality(InUseOf(m, a) \ {b}) \in Nat
  BY <1>2, FS_RemoveElement, FS_CardinalityType
<1>5. r[a].active - 1 \in Nat
  BY <1>3, <1>4
<1>6. /\ DOMAIN q = DOMAIN r
      /\ \A c \in DOMAIN r : q[c].active = IF c = a THEN r[a].active - 1 ELSE r[c].active
  <2>1. PICK k \in Nat : k = r[a].active - 1
    BY <1>5
  <2>2. q = Recount(r, a, k)
    BY <1>1, <2>1
  <2>3. /\ DOMAIN q = DOMAIN r
        /\ \A c \in DOMAIN r : q[c].active = IF c = a THEN k ELSE r[c].active
    BY <1>2, <2>2, RecountArenas, SMTT(40)
  <2> QED
    BY <2>1, <2>3
<1>7. ASSUME NEW c \in DOMAIN r
      PROVE  q[c].active = Cardinality(InUseOf(n, c))
  <2>1. r[c].active = Cardinality(InUseOf(m, c))
    BY DEF Counted
  <2>2. CASE c = a
    <3>1. InUseOf(n, c) = InUseOf(m, a) \ {b}
      BY <2>2 DEF InUseOf
    <3> QED
      BY <1>3, <1>4, <1>6, <2>2, <3>1
  <2>3. CASE c # a
    <3>1. InUseOf(n, c) = InUseOf(m, c)
      BY <1>1, <2>3 DEF InUseOf
    <3> QED
      BY <1>6, <2>1, <2>3, <3>1
  <2> QED
    BY <2>2, <2>3
<1> QED
  BY <1>1, <1>5, <1>6, <1>7 DEF Counted

\* __allocator_allocate takes a free block that is large enough, and leaves the blocks
\* in use as they are.
LEMMA AllocateResult ==
    ASSUME NEW h, Sane(h), NEW size \in Nat, size >= 1, CanAllocate(h, size),
           NEW g, g = allocator_allocate(h, size), NEW b, b = Found(h, size)
    PROVE  /\ Sane(g) /\ b \notin InUse(h.block) /\ InUse(g.block) = InUse(h.block) \cup {b}
           /\ g.block[b].size >= size
           /\ \A x \in InUse(h.block) : g.block[x].size = h.block[x].size
<1>1. PICK k : k = Ready(h, size)
  OBVIOUS
<1>2. /\ Sane(k) /\ InUse(k.block) = InUse(h.block)
      /\ \A x \in InUse(h.block) : k.block[x] = h.block[x]
      /\ b \in DOMAIN k.block /\ k.block[b].free /\ k.block[b].size >= size
  <2>1. CASE find_block(h, size) # 0
    <3>1. k = h /\ b = find_block(h, size)
      BY <1>1, <2>1 DEF Ready, Found
    <3>2. b \in DOMAIN h.block /\ h.block[b].free /\ h.block[b].size >= size
      BY <2>1, <3>1, FindBlock
    <3> QED
      BY <3>1, <3>2
  <2>2. CASE find_block(h, size) = 0
    <3>1. k = create_arena(h, size) /\ b = first_block(h.mmap_next)
      BY <1>1, <2>2 DEF Ready, Found
    <3>2. h.mmap_next + Mapping(size) <= MmapEnd
      BY <2>2 DEF CanAllocate
    <3> QED
      BY <3>1, <3>2, CreateArena
  <2> QED
    BY <2>1, <2>2
<1>3. PICK m : m = k.block
  OBVIOUS
<1>4. PICK r : r = k.arena
  OBVIOUS
<1>5. PICK a : a = m[b].arena
  OBVIOUS
<1>6. /\ Mapped(r, k.mmap_next) /\ Listed(r, k.arenas) /\ Tiling(m, r) /\ Joint(m, {})
      /\ Counted(m, r) /\ HeapFields(k)
  BY <1>2, <1>3, <1>4 DEF Sane
<1>7. PICK s : s = split_block(m, b, size)
  OBVIOUS
<1>8. Tiling(s, r) /\ Joint(s, {b}) /\ Kept(m, s, b) /\ s[b].size >= size
  <2>1. Joint(m, {b})
    BY <1>6 DEF Joint
  <2>2. b \in DOMAIN m /\ m[b].size >= size
    BY <1>2, <1>3
  <2> QED
    BY <1>6, <1>7, <2>1, <2>2, SplitResult
<1>9. PICK n : n = Flagged(s, b, FALSE)
  OBVIOUS
<1>10. PICK q : q = Recount(r, a, r[a].active + 1)
  OBVIOUS
<1>11. b \in DOMAIN s /\ a \in DOMAIN r /\ s[b].arena = a
  BY <1>2, <1>3, <1>5, <1>6, <1>8, Around DEF Kept
<1>12. /\ Tiling(n, r) /\ DOMAIN n = DOMAIN s
       /\ \A x \in DOMAIN s :
            /\ n[x].free = (IF x = b THEN FALSE ELSE s[x].free)
            /\ n[x].size = s[x].size /\ n[x].next = s[x].next
            /\ n[x].previous = s[x].previous /\ n[x].arena = s[x].arena
  <2>1. PICK f \in BOOLEAN : f = FALSE
    OBVIOUS
  <2>2. n = Flagged(s, b, f)
    BY <1>9, <2>1
  <2>3. Tiling(n, r) /\ OnlyFlag(s, n, b, f)
    BY <1>8, <1>11, <2>2, FlagTiling
  <2> QED
    BY <2>1, <2>3 DEF OnlyFlag
<1>13. Joint(n, {})
  <2> SUFFICES ASSUME NEW x \in DOMAIN n, n[x].free, n[x].next # 0
               PROVE  ~n[n[x].next].free
    BY DEF Joint
  <2>1. x \in DOMAIN s \ {b} /\ s[x].free /\ s[x].next # 0 /\ n[x].next = s[x].next
    BY <1>12
  <2>2. s[x].next \in DOMAIN s /\ ~s[s[x].next].free
    BY <1>6, <1>8, <2>1, Around DEF Joint
  <2> QED
    BY <1>12, <2>1, <2>2
<1>14. InUse(s) = InUse(m) /\ b \notin InUse(m) /\ InUse(n) = InUse(m) \cup {b}
  BY <1>2, <1>3, <1>8, <1>11, <1>12, ZenonT(60) DEF Kept, InUse
<1>15. \A x \in InUse(m) : /\ n[x].arena = m[x].arena /\ n[x].size = m[x].size
  <2> SUFFICES ASSUME NEW x \in InUse(m)
               PROVE  n[x].arena = m[x].arena /\ n[x].size = m[x].size
    OBVIOUS
  <2>1. x \in DOMAIN s /\ x # b
    BY <1>14 DEF InUse
  <2> QED
    BY <1>8, <1>12, <2>1 DEF Kept
<1>16. Counted(n, q)
  BY <1>6, <1>10, <1>11, <1>12, <1>14, <1>15, CountUp, ZenonT(60)
<1>17. /\ Mapped(q, k.mmap_next) /\ Listed(q, k.arenas) /\ Tiling(n, q)
  <2>1. r[a].active + 1 \in Nat
    BY <1>6, <1>11 DEF Mapped, Arena
  <2>2. /\ Mapped(q, k.mmap_next) /\ Listed(q, k.arenas) /\ DOMAIN q = DOMAIN r
        /\ \A c \in DOMAIN r : q[c].mapped = r[c].mapped
    <3>1. PICK v \in Nat : v = r[a].active + 1
      BY <2>1
    <3>2. q = Recount(r, a, v)
      BY <1>10, <3>1
    <3> QED
      BY <1>6, <1>11, <3>2, RecountArenas
  <2> QED
    BY <1>12, <2>2, TilingOfMapped
<1>18. /\ g.block = n /\ g.arena = q /\ g.arenas = k.arenas /\ g.mmap_next = k.mmap_next
       /\ HeapFields(g)
  <2>1. k \in [block : {m}, arena : {r}, arenas : {k.arenas}, mmap_next : {k.mmap_next}]
    BY <1>3, <1>4, <1>6 DEF HeapFields
  <2>2. g = [k EXCEPT !.block = n, !.arena[a].active = @ + 1]
    BY <1>1, <1>3, <1>5, <1>7, <1>9 DEF allocator_allocate, Flagged
  <2>3. PICK u : u = [k EXCEPT !.block = n]
    OBVIOUS
  <2>4. u \in [block : {n}, arena : {r}, arenas : {k.arenas}, mmap_next : {k.mmap_next}]
    BY <2>1, <2>3
  <2>5. g = [u EXCEPT !.arena = [r EXCEPT ![a].active = @ + 1]]
    BY <2>1, <2>2, <2>3, <2>4
  <2>6. [r EXCEPT ![a].active = @ + 1] = q
    BY <1>10 DEF Recount
  <2>7. g \in [block : {n}, arena : {q}, arenas : {k.arenas}, mmap_next : {k.mmap_next}]
    BY <2>4, <2>5, <2>6
  <2>8. g.block = n /\ g.arena = q /\ g.arenas = k.arenas /\ g.mmap_next = k.mmap_next
    BY <2>7
  <2> QED
    BY <2>7, <2>8 DEF HeapFields
<1>19. Sane(g)
  BY <1>13, <1>16, <1>17, <1>18 DEF Sane
<1>20. g.block[b].size >= size
  BY <1>8, <1>11, <1>12, <1>18
<1>21. \A x \in InUse(h.block) : g.block[x].size = h.block[x].size
  BY <1>2, <1>3, <1>15, <1>18
<1> QED
  BY <1>2, <1>3, <1>14, <1>18, <1>19, <1>20, <1>21

\* A block that becomes free is joined with both of its neighbours.
LEMMA JoinedResult ==
    ASSUME NEW m, NEW r, NEW top, Mapped(r, top), Tiling(m, r), Joint(m, {}),
           NEW b \in InUse(m), NEW g, g = Joined(m, b)
    PROVE  /\ Tiling(g, r) /\ Joint(g, {}) /\ InUse(g) = InUse(m) \ {b}
           /\ \A x \in InUse(m) \ {b} : g[x].arena = m[x].arena /\ g[x].size = m[x].size
<1>1. b \in DOMAIN m /\ ~m[b].free
  BY DEF InUse
<1>2. PICK p : p = m[b].previous
  OBVIOUS
<1>3. PICK f : f = Flagged(m, b, TRUE)
  OBVIOUS
<1>4. Tiling(f, r) /\ OnlyFlag(m, f, b, TRUE)
  <2>1. PICK t \in BOOLEAN : t = TRUE
    OBVIOUS
  <2>2. Tiling(f, r) /\ OnlyFlag(m, f, b, t)
    BY <1>1, <1>3, <2>1, FlagTiling
  <2> QED
    BY <2>1, <2>2
<1>5. /\ DOMAIN f = DOMAIN m
      /\ \A x \in DOMAIN m :
          /\ f[x].free = (IF x = b THEN TRUE ELSE m[x].free)
          /\ f[x].size = m[x].size /\ f[x].next = m[x].next
          /\ f[x].previous = m[x].previous /\ f[x].arena = m[x].arena
  BY <1>4 DEF OnlyFlag
<1>6. PICK S : S = {p}
  OBVIOUS
<1>7. Joint(f, S \cup {b})
  <2> SUFFICES ASSUME NEW x \in DOMAIN f \ (S \cup {b}), f[x].free, f[x].next # 0
               PROVE  ~f[f[x].next].free
    BY DEF Joint
  <2>1. x \in DOMAIN m /\ x # b /\ x # p /\ m[x].free /\ m[x].next # 0 /\ f[x].next = m[x].next
    BY <1>5, <1>6
  <2>2. m[x].next \in DOMAIN m /\ m[m[x].next].previous = x /\ ~m[m[x].next].free
    BY <2>1, Around DEF Joint
  <2>3. m[x].next # b
    BY <1>2, <2>1, <2>2
  <2> QED
    BY <1>5, <2>1, <2>2, <2>3, ZenonT(60)
<1>8. f[b].next # 0 => f[b].next \notin S
  <2> SUFFICES ASSUME m[b].next # 0, m[b].next = p
               PROVE  FALSE
    BY <1>1, <1>5, <1>6
  <2>1. p \in DOMAIN m /\ p = BlockEnd(m, b) /\ BlockEnd(m, p) = b
    BY <1>1, <1>2, Around
  <2>2. p \in Nat /\ b \in Nat /\ m[p].size \in Nat /\ m[b].size \in Nat
    BY <1>1, <2>1, Around DEF Block
  <2> QED
    BY <2>1, <2>2, Units DEF BlockEnd
<1>9. PICK n : n = merge_next(f, b)
  OBVIOUS
<1>10. Tiling(n, r) /\ Joint(n, S) /\ Kept(f, n, b)
  BY <1>1, <1>4, <1>5, <1>7, <1>8, <1>9, MergeResult
<1>11. n[b].previous = p /\ InUse(n) = InUse(f) /\ InUse(f) = InUse(m) \ {b}
  <2>1. InUse(f) = InUse(m) \ {b}
    BY <1>5 DEF InUse
  <2> QED
    BY <1>1, <1>2, <1>5, <1>10, <2>1 DEF Kept
<1>12. \A x \in InUse(m) \ {b} : n[x].arena = m[x].arena /\ n[x].size = m[x].size
  <2> SUFFICES ASSUME NEW x \in InUse(m) \ {b}
               PROVE  n[x].arena = m[x].arena /\ n[x].size = m[x].size
    OBVIOUS
  <2>1. x \in DOMAIN m /\ x \in InUse(f)
    BY <1>11 DEF InUse
  <2> QED
    BY <1>5, <1>10, <2>1 DEF Kept
<1>13. g = IF p # 0 /\ n[p].free THEN merge_next(n, p) ELSE n
  BY <1>3, <1>9, <1>11 DEF Joined, Flagged
<1>14. CASE p # 0 /\ n[p].free
  <2>1. b \in DOMAIN n
    BY <1>10 DEF Kept
  <2>2. p \in DOMAIN n
    BY <1>10, <1>11, <1>14, <2>1, Around
  <2>3. PICK E : E = {}
    OBVIOUS
  <2>4. Joint(n, E \cup {p}) /\ (n[p].next # 0 => n[p].next \notin E) /\ g = merge_next(n, p)
    <3>1. E \cup {p} = S
      BY <1>6, <2>3
    <3> QED
      BY <1>10, <1>13, <1>14, <2>3, <3>1
  <2>5. Tiling(g, r) /\ Joint(g, E) /\ Kept(n, g, p)
    BY <1>10, <2>2, <2>4, MergeResult
  <2>6. p \notin InUse(n)
    BY <1>14 DEF InUse
  <2>7. InUse(g) = InUse(n)
        /\ \A x \in InUse(n) : g[x].arena = n[x].arena /\ (x # p => g[x].size = n[x].size)
    BY <2>5 DEF Kept
  <2> QED
    BY <1>11, <1>12, <2>3, <2>5, <2>6, <2>7
<1>15. CASE ~(p # 0 /\ n[p].free)
  <2>1. g = n
    BY <1>13, <1>15
  <2>2. 0 \notin DOMAIN n
    BY <1>10, Around
  <2>3. Joint(n, {})
    BY <1>6, <1>10, <1>15, <2>2 DEF Joint
  <2> QED
    BY <1>10, <1>11, <1>12, <2>1, <2>3
<1> QED
  BY <1>14, <1>15

\* What is left in the list when arena a goes.
LessArena(r, a) ==
    SetPrevious(SetNext(Without(r, a), r[a].previous, r[a].next), r[a].next, r[a].previous)

\* The list closes over an arena that goes.
ArenaGone(r, q, a) ==
    /\ DOMAIN q = DOMAIN r \ {a}
    /\ \A c \in DOMAIN r \ {a} : q[c].mapped = r[c].mapped /\ q[c].active = r[c].active
LEMMA LessArenaListed ==
    ASSUME NEW r, NEW head, NEW top, Mapped(r, top), Listed(r, head), NEW a \in DOMAIN r,
           NEW q, q = LessArena(r, a), NEW first,
           first = IF r[a].previous = 0 THEN r[a].next ELSE head
    PROVE  Mapped(q, top) /\ Listed(q, first) /\ ArenaGone(r, q, a)
<1>1. PICK p : p = r[a].previous
  OBVIOUS
<1>2. PICK n : n = r[a].next
  OBVIOUS
<1>3. \A c \in DOMAIN r : c \in Nat /\ c >= 1
  BY Units DEF Mapped
<1>4. /\ n # 0 => n \in DOMAIN r /\ n < a /\ r[n].previous = a /\ \A d \in DOMAIN r : d < a => d <= n
      /\ n = 0 => \A d \in DOMAIN r : ~(d < a)
  BY <1>2, <1>3 DEF Listed, GreatestOrZero, Older
<1>5. /\ p = 0 => a = head
      /\ p # 0 => p \in DOMAIN r /\ r[p].next = a /\ a < p /\ a # head
      /\ p # 0 => \A d \in DOMAIN r : d < p => d <= a
  <2>1. p = 0 => a = head
    <3>1. a # head => p \in DOMAIN r
      BY <1>1 DEF Listed
    <3>2. 0 \notin DOMAIN r
      BY <1>3
    <3> QED
      BY <3>1, <3>2
  <2>2. p # 0 => p \in DOMAIN r /\ r[p].next = a /\ a # head
    BY <1>1 DEF Listed
  <2>3. p # 0 => GreatestOrZero(a, Older(r, p))
    BY <2>2 DEF Listed
  <2>4. a # 0
    BY <1>3
  <2> QED
    BY <2>1, <2>2, <2>3, <2>4 DEF GreatestOrZero, Older
<1>6. p \in Nat /\ n \in Nat /\ r \in [DOMAIN r -> Arena]
  BY <1>1, <1>2 DEF Mapped, Arena
<1>7. PICK D : D = DOMAIN r \ {a}
  OBVIOUS
<1>8. PICK w : w = Without(r, a)
  OBVIOUS
<1>9. w \in [D -> Arena] /\ \A c \in D : w[c] = r[c]
  BY <1>6, <1>7, <1>8 DEF Without, Restrict
<1>10. PICK u : u = SetNext(w, p, n)
  OBVIOUS
<1>11. /\ u \in [D -> Arena]
       /\ \A c \in D : /\ u[c].mapped = r[c].mapped /\ u[c].active = r[c].active
                       /\ u[c].previous = r[c].previous
                       /\ u[c].next = IF c = p THEN n ELSE r[c].next
  <2>1. 0 \notin D
    BY <1>3, <1>7
  <2>2. CASE p = 0
    BY <1>9, <1>10, <2>1, <2>2 DEF SetNext
  <2>3. CASE p # 0
    <3>1. u = [w EXCEPT ![p].next = n] /\ p \in D
      BY <1>3, <1>5, <1>7, <1>10, <2>3 DEF SetNext
    <3> QED
      BY <1>6, <1>9, <3>1 DEF Arena
  <2> QED
    BY <2>2, <2>3
<1>12. /\ q \in [D -> Arena]
       /\ \A c \in D : /\ q[c].mapped = r[c].mapped /\ q[c].active = r[c].active
                       /\ q[c].previous = (IF c = n THEN p ELSE r[c].previous)
                       /\ q[c].next = (IF c = p THEN n ELSE r[c].next)
  <2>1. q = SetPrevious(u, n, p)
    BY <1>1, <1>2, <1>8, <1>10 DEF LessArena
  <2>2. 0 \notin D
    BY <1>3, <1>7
  <2>3. CASE n = 0
    BY <1>11, <2>1, <2>2, <2>3 DEF SetPrevious
  <2>4. CASE n # 0
    <3>1. q = [u EXCEPT ![n].previous = p] /\ n \in D
      BY <1>3, <1>4, <1>7, <2>1, <2>4 DEF SetPrevious
    <3> QED
      BY <1>6, <1>11, <3>1 DEF Arena
  <2> QED
    BY <2>3, <2>4
<1>13. DOMAIN q = D /\ D \subseteq DOMAIN r
  BY <1>7, <1>12
<1>14. Mapped(q, top)
  <2>1. \A c \in D : Limit(q, c) = Limit(r, c)
    BY <1>12 DEF Limit
  <2> QED
    BY <1>12, <1>13, <2>1 DEF Mapped
<1>15. GreatestOrZero(first, D)
  <2>1. GreatestOrZero(head, DOMAIN r) /\ head \in DOMAIN r /\ \A c \in DOMAIN r : c <= head
    BY DEF Listed, GreatestOrZero
  <2>2. CASE p = 0
    <3>1. first = n /\ a = head
      BY <1>1, <1>2, <1>5, <2>2
    <3>2. \A d \in D : d < a
      BY <1>3, <1>7, <2>1, <3>1
    <3>3. CASE n = 0
      BY <1>4, <1>13, <3>1, <3>2, <3>3 DEF GreatestOrZero
    <3>4. CASE n # 0
      <4>1. n \in D /\ \A d \in D : d <= n
        BY <1>3, <1>4, <1>7, <1>13, <3>2, <3>4
      <4> QED
        BY <3>1, <4>1 DEF GreatestOrZero
    <3> QED
      BY <3>3, <3>4
  <2>3. CASE p # 0
    <3>1. first = head /\ head \in D
      BY <1>1, <1>5, <1>7, <2>1, <2>3
    <3> QED
      BY <1>13, <2>1, <3>1 DEF GreatestOrZero
  <2> QED
    BY <2>2, <2>3
<1>16. ASSUME NEW c \in D
       PROVE  /\ GreatestOrZero(q[c].next, Older(q, c))
              /\ q[c].next # 0 => q[q[c].next].previous = c
              /\ c = first => q[c].previous = 0
              /\ c # first => q[c].previous \in D /\ q[q[c].previous].next = c
  <2>1. c \in DOMAIN r /\ c # a /\ c \in Nat
    BY <1>3, <1>7
  <2>2. /\ GreatestOrZero(r[c].next, Older(r, c)) /\ (r[c].next # 0 => r[r[c].next].previous = c)
        /\ c = head => r[c].previous = 0
        /\ c # head => r[c].previous \in DOMAIN r /\ r[r[c].previous].next = c
    BY <2>1 DEF Listed
  <2>3. r[c].next = a => c = p
    BY <1>1, <1>3, <2>2
  <2>4. r[c].previous = a => c = n
    BY <1>2, <1>3, <2>2, <2>1 DEF Listed
  <2>5. Older(q, c) = Older(r, c) \ {a}
    BY <1>7, <1>13 DEF Older
  <2>6. GreatestOrZero(q[c].next, Older(q, c))
    <3>1. CASE c = p
      <4>1. q[c].next = n /\ p # 0
        BY <1>3, <1>12, <2>1, <3>1
      <4>2. \A d \in Older(q, c) : d \in DOMAIN r /\ d < a
        <5> SUFFICES ASSUME NEW d \in Older(q, c)
                     PROVE  d \in DOMAIN r /\ d < a
          OBVIOUS
        <5>1. d \in DOMAIN r /\ d # a /\ d < p
          BY <2>5, <3>1 DEF Older
        <5>2. d <= a
          BY <1>5, <4>1, <5>1
        <5> QED
          BY <1>3, <5>1, <5>2
      <4>3. CASE n = 0
        <5>1. Older(q, c) = {}
          BY <1>4, <4>2, <4>3
        <5> QED
          BY <4>1, <4>3, <5>1 DEF GreatestOrZero
      <4>4. CASE n # 0
        <5>1. n \in Older(q, c)
          BY <1>3, <1>4, <1>5, <1>6, <1>7, <1>13, <2>1, <3>1, <4>1, <4>4 DEF Older
        <5>2. \A d \in Older(q, c) : d <= n
          BY <1>4, <4>2, <4>4
        <5> QED
          BY <4>1, <5>1, <5>2 DEF GreatestOrZero
      <4> QED
        BY <4>3, <4>4
    <3>2. CASE c # p
      <4>1. q[c].next = r[c].next /\ r[c].next # a
        BY <1>12, <2>3, <3>2
      <4> QED
        BY <2>2, <2>5, <4>1 DEF GreatestOrZero, Older
    <3> QED
      BY <3>1, <3>2
  <2>7. ASSUME q[c].next # 0
        PROVE  q[q[c].next].previous = c
    <3>1. q[c].next \in D
      BY <1>13, <2>6, <2>7 DEF GreatestOrZero, Older
    <3>2. CASE c = p
      BY <1>12, <3>1, <3>2
    <3>3. CASE c # p
      <4>1. q[c].next = r[c].next /\ r[r[c].next].previous = c
        BY <1>12, <2>2, <2>7, <3>3
      <4>2. r[c].next # n
        BY <1>3, <1>4, <2>1, <4>1, <2>7
      <4> QED
        BY <1>12, <3>1, <4>1, <4>2
    <3> QED
      BY <3>2, <3>3
  <2>8. ASSUME c = first
        PROVE  q[c].previous = 0
    <3>1. CASE p = 0
      BY <1>1, <1>2, <1>12, <2>8, <3>1
    <3>2. CASE p # 0
      <4>1. c = head /\ r[c].previous = 0
        BY <1>1, <2>2, <2>8, <3>2
      <4>2. c # n
        BY <1>3, <1>4, <4>1, <2>1
      <4> QED
        BY <1>12, <4>1, <4>2
    <3> QED
      BY <3>1, <3>2
  <2>9. ASSUME c # first
        PROVE  q[c].previous \in D /\ q[q[c].previous].next = c
    <3>1. CASE c = n
      <4>1. p # 0 /\ p \in D
        BY <1>1, <1>2, <1>3, <1>5, <1>7, <2>9, <3>1
      <4> QED
        BY <1>12, <3>1, <4>1
    <3>2. CASE c # n
      <4>1. c # head
        <5>1. c = head => p # 0
          BY <1>5, <2>1
        <5> QED
          BY <1>1, <2>9, <5>1
      <4>2. PICK e : e = r[c].previous
        OBVIOUS
      <4>3. e \in D /\ r[e].next = c /\ q[c].previous = e
        BY <1>7, <1>12, <2>2, <2>4, <3>2, <4>1, <4>2
      <4>4. e # p
        BY <1>5, <2>1, <4>3, <1>3, <1>7
      <4> QED
        BY <1>12, <4>3, <4>4
    <3> QED
      BY <3>1, <3>2
  <2> QED
    BY <2>6, <2>7, <2>8, <2>9
<1>17. Listed(q, first)
  BY <1>13, <1>15, <1>16 DEF Listed
<1>18. ArenaGone(r, q, a)
  BY <1>7, <1>12, <1>13 DEF ArenaGone
<1> QED
  BY <1>14, <1>17, <1>18

\* The blocks of the other arenas.
Elsewhere(m, a) == Restrict(m, {x \in DOMAIN m : m[x].arena # a})
LEMMA ElsewhereTiled ==
    ASSUME NEW m, NEW r, NEW q, NEW top, NEW a \in DOMAIN r, Mapped(r, top), Tiling(m, r),
           Joint(m, {}), Counted(m, r), ArenaGone(r, q, a), NEW g, g = Elsewhere(m, a)
    PROVE  /\ Tiling(g, q) /\ Joint(g, {}) /\ Counted(g, q)
           /\ InUse(g) = InUse(m) \ InUseOf(m, a)
           /\ \A x \in InUse(g) : g[x] = m[x]
<1>1. /\ DOMAIN q = DOMAIN r \ {a}
      /\ \A c \in DOMAIN r \ {a} : q[c].mapped = r[c].mapped /\ q[c].active = r[c].active
  BY DEF ArenaGone
<1>2. PICK X : X = {x \in DOMAIN m : m[x].arena # a}
  OBVIOUS
<1>3. g \in [X -> Block] /\ \A x \in X : g[x] = m[x]
  <2>1. m \in [DOMAIN m -> Block]
    BY DEF Tiling
  <2> QED
    BY <1>2, <2>1 DEF Elsewhere, Restrict
<1>4. \A c \in DOMAIN q : Limit(q, c) = Limit(r, c)
  BY <1>1 DEF Limit
<1>5. \A x \in X : BlockEnd(g, x) = BlockEnd(m, x) /\ x \in DOMAIN m /\ g[x].arena = m[x].arena
  BY <1>2, <1>3 DEF BlockEnd
<1>6. ASSUME NEW x \in X
      PROVE  Placed(g, q, x)
  <2>1. Placed(m, r, x) /\ x \in DOMAIN m /\ m[x].arena # a
    BY <1>2 DEF Tiling
  <2>2. m[x].arena \in DOMAIN q
    BY <1>1, <2>1 DEF Placed
  <2>3. m[x].next # 0 => m[x].next \in X
    BY <1>2, <2>1 DEF Placed
  <2>4. m[x].previous # 0 => m[x].previous \in X
    BY <1>2, <2>1 DEF Placed
  <2> QED
    BY <1>3, <1>4, <1>5, <2>1, <2>2, <2>3, <2>4 DEF Placed
<1>7. Apart(g)
  <2>1. \A x, y \in X : x < y => BlockEnd(m, x) <= y
    BY <1>5 DEF Tiling, Apart
  <2> QED
    BY <1>3, <1>5, <2>1 DEF Apart
<1>8. ASSUME NEW c \in DOMAIN q
      PROVE  Covered(g, q, c)
  <2>1. Covered(m, r, c) /\ c # a
    BY <1>1, <1>8 DEF Tiling
  <2>2. first_block(c) \in X /\ m[first_block(c)].arena = c /\ m[first_block(c)].previous = 0
    BY <1>2, <2>1 DEF Covered
  <2>3. PICK b \in X : m[b].arena = c /\ BlockEnd(m, b) = Limit(r, c)
    BY <1>2, <2>1 DEF Covered
  <2> QED
    BY <1>3, <1>4, <1>5, <2>2, <2>3 DEF Covered
<1>9. Tiling(g, q)
  BY <1>3, <1>6, <1>7, <1>8 DEF Tiling
<1>10. Joint(g, {})
  <2> SUFFICES ASSUME NEW x \in X, g[x].free, g[x].next # 0
               PROVE  ~g[g[x].next].free
    BY <1>3 DEF Joint
  <2>1. x \in DOMAIN m /\ m[x].arena # a /\ g[x] = m[x]
    BY <1>2, <1>3
  <2>2. m[x].next \in DOMAIN m /\ m[m[x].next].arena = m[x].arena /\ ~m[m[x].next].free
    BY <2>1, Around DEF Joint
  <2>3. m[x].next \in X
    BY <1>2, <2>1, <2>2
  <2> QED
    BY <1>3, <2>1, <2>2, <2>3
<1>11. InUse(g) = InUse(m) \ InUseOf(m, a)
  BY <1>2, <1>3 DEF InUse, InUseOf
<1>12. \A x \in InUse(g) : g[x] = m[x]
  BY <1>3 DEF InUse
<1>13. Counted(g, q)
  <2> SUFFICES ASSUME NEW c \in DOMAIN q
               PROVE  q[c].active = Cardinality(InUseOf(g, c))
    BY DEF Counted
  <2>1. c \in DOMAIN r /\ c # a
    BY <1>1
  <2>2. InUseOf(g, c) = InUseOf(m, c)
    BY <1>11, <1>12, <2>1 DEF InUseOf
  <2> QED
    BY <1>1, <2>1, <2>2 DEF Counted
<1> QED
  BY <1>9, <1>10, <1>11, <1>12, <1>13

\* __allocator_release takes one block out of use and leaves the others as they are.
LEMMA ReleaseResult ==
    ASSUME NEW h, Sane(h), NEW b \in InUse(h.block), NEW g, g = allocator_release(h, b)
    PROVE  /\ Sane(g) /\ InUse(g.block) = InUse(h.block) \ {b}
           /\ \A x \in InUse(h.block) \ {b} : g.block[x].size = h.block[x].size
<1>1. PICK m : m = h.block
  OBVIOUS
<1>2. PICK r : r = h.arena
  OBVIOUS
<1>3. PICK a : a = m[b].arena
  OBVIOUS
<1>4. /\ Mapped(r, h.mmap_next) /\ Listed(r, h.arenas) /\ Tiling(m, r) /\ Joint(m, {})
      /\ Counted(m, r)
      /\ h \in [block : {m}, arena : {r}, arenas : {h.arenas}, mmap_next : {h.mmap_next}]
  BY <1>1, <1>2 DEF Sane, HeapFields
<1>5. b \in DOMAIN m /\ b \in InUse(m) /\ a \in DOMAIN r
  <2>1. b \in InUse(m) /\ b \in DOMAIN m
    BY <1>1 DEF InUse
  <2> QED
    BY <1>3, <1>4, <2>1, Around
<1>6. CASE r[a].active > 1 \/ (r[a].previous = 0 /\ r[a].next = 0)
  <2>1. PICK n : n = Joined(m, b)
    OBVIOUS
  <2>2. PICK q : q = Recount(r, a, r[a].active - 1)
    OBVIOUS
  <2>3. /\ Tiling(n, r) /\ Joint(n, {}) /\ InUse(n) = InUse(m) \ {b}
        /\ \A x \in InUse(m) \ {b} : n[x].arena = m[x].arena /\ n[x].size = m[x].size
    BY <1>4, <1>5, <2>1, JoinedResult
  <2>4. r[a].active - 1 \in Nat /\ Counted(n, q)
    <3>1. \A x \in InUse(n) : n[x].arena = m[x].arena
      BY <2>3
    <3>2. q = Recount(r, m[b].arena, r[m[b].arena].active - 1)
      BY <1>3, <2>2
    <3>3. r[m[b].arena].active - 1 \in Nat /\ Counted(n, q)
      BY <1>4, <1>5, <2>3, <3>1, <3>2, CountDown
    <3> QED
      BY <1>3, <3>3
  <2>5. Mapped(q, h.mmap_next) /\ Listed(q, h.arenas) /\ Tiling(n, q)
    <3>1. PICK v \in Nat : v = r[a].active - 1
      BY <2>4
    <3>2. q = Recount(r, a, v)
      BY <2>2, <3>1
    <3>3. /\ Mapped(q, h.mmap_next) /\ Listed(q, h.arenas) /\ DOMAIN q = DOMAIN r
          /\ \A c \in DOMAIN r : q[c].mapped = r[c].mapped
      BY <1>4, <1>5, <3>2, RecountArenas
    <3> QED
      BY <2>3, <3>3, TilingOfMapped
  <2>6. g = [h EXCEPT !.block = Joined(@, b), !.arena[a].active = @ - 1]
    BY <1>1, <1>2, <1>3, <1>6 DEF allocator_release
  <2>7. g \in [block : {n}, arena : {q}, arenas : {h.arenas}, mmap_next : {h.mmap_next}]
    <3>1. PICK u : u = [h EXCEPT !.block = n]
      OBVIOUS
    <3>2. u \in [block : {n}, arena : {r}, arenas : {h.arenas}, mmap_next : {h.mmap_next}]
      BY <1>4, <3>1
    <3>3. g = [u EXCEPT !.arena = [r EXCEPT ![a].active = @ - 1]]
      BY <1>1, <1>2, <1>4, <2>1, <2>6, <3>1, <3>2
    <3>4. [r EXCEPT ![a].active = @ - 1] = q
      BY <2>2 DEF Recount
    <3> QED
      BY <3>2, <3>3, <3>4
  <2>8. g.block = n /\ g.arena = q /\ g.arenas = h.arenas /\ g.mmap_next = h.mmap_next
    BY <2>7
  <2>9. HeapFields(g)
    BY <2>7, <2>8 DEF HeapFields
  <2>10. Sane(g)
    BY <2>3, <2>4, <2>5, <2>8, <2>9 DEF Sane
  <2> QED
    BY <1>1, <2>3, <2>8, <2>10
<1>7. CASE ~(r[a].active > 1 \/ (r[a].previous = 0 /\ r[a].next = 0))
  <2>1. PICK n : n = Elsewhere(m, a)
    OBVIOUS
  <2>2. PICK q : q = LessArena(r, a)
    OBVIOUS
  <2>3. PICK first : first = IF r[a].previous = 0 THEN r[a].next ELSE h.arenas
    OBVIOUS
  <2>4. Mapped(q, h.mmap_next) /\ Listed(q, first) /\ ArenaGone(r, q, a)
    <3>1. PICK e : e = h.arenas
      OBVIOUS
    <3>2. first = (IF r[a].previous = 0 THEN r[a].next ELSE e) /\ Listed(r, e)
      BY <1>4, <2>3, <3>1
    <3> QED
      BY <1>4, <1>5, <2>2, <3>2, LessArenaListed
  <2>5. /\ Tiling(n, q) /\ Joint(n, {}) /\ Counted(n, q)
        /\ InUse(n) = InUse(m) \ InUseOf(m, a)
        /\ \A x \in InUse(n) : n[x] = m[x]
    BY <1>4, <1>5, <2>1, <2>4, ElsewhereTiled
  <2>6. InUseOf(m, a) = {b}
    <3>1. b \in InUseOf(m, a) /\ IsFiniteSet(InUseOf(m, a))
      BY <1>3, <1>4, <1>5, InUseFinite DEF InUseOf
    <3>2. r[a].active = Cardinality(InUseOf(m, a)) /\ r[a].active \in Nat
      BY <1>4, <1>5 DEF Counted, Mapped, Arena
    <3>3. /\ Cardinality(InUseOf(m, a) \ {b}) = Cardinality(InUseOf(m, a)) - 1
          /\ Cardinality(InUseOf(m, a) \ {b}) \in Nat /\ IsFiniteSet(InUseOf(m, a) \ {b})
      BY <3>1, FS_RemoveElement, FS_CardinalityType
    <3>4. Cardinality(InUseOf(m, a) \ {b}) = 0
      BY <1>7, <3>2, <3>3
    <3>5. InUseOf(m, a) \ {b} = {}
      BY <3>3, <3>4, FS_EmptySet
    <3> QED
      BY <3>1, <3>5
  <2>7. g = [h EXCEPT !.block = n, !.arena = q, !.arenas = first]
    <3>1. h.block = m /\ h.arena = r
      BY <1>1, <1>2
    <3>2. Restrict(h.block, {x \in DOMAIN h.block : h.block[x].arena # a}) = n
      BY <2>1, <3>1 DEF Elsewhere
    <3>3. SetPrevious(SetNext(Without(h.arena, a), r[a].previous, r[a].next),
                      r[a].next, r[a].previous) = q
      BY <2>2, <3>1 DEF LessArena
    <3>4. g = [h EXCEPT
                !.block = Restrict(@, {x \in DOMAIN @ : @[x].arena # a}),
                !.arena = SetPrevious(SetNext(Without(@, a), r[a].previous, r[a].next),
                                      r[a].next, r[a].previous),
                !.arenas = IF r[a].previous = 0 THEN r[a].next ELSE @]
      BY <1>1, <1>2, <1>3, <1>7 DEF allocator_release
    <3>5. DOMAIN h = {"block", "arena", "arenas", "mmap_next"}
      BY <1>4
    <3> QED
      BY <2>3, <3>2, <3>3, <3>4, <3>5
  <2>8. g \in [block : {n}, arena : {q}, arenas : {first}, mmap_next : {h.mmap_next}]
    BY <1>4, <2>7
  <2>9. g.block = n /\ g.arena = q /\ g.arenas = first /\ g.mmap_next = h.mmap_next
    BY <2>8
  <2>10. HeapFields(g)
    BY <2>8, <2>9 DEF HeapFields
  <2>11. Sane(g)
    BY <2>4, <2>5, <2>9, <2>10 DEF Sane
  <2>12. InUse(g.block) = InUse(h.block) \ {b}
    BY <1>1, <2>5, <2>6, <2>9
  <2>13. \A x \in InUse(h.block) \ {b} : g.block[x].size = h.block[x].size
    BY <1>1, <2>5, <2>9, <2>12
  <2> QED
    BY <2>11, <2>12, <2>13
<1> QED
  BY <1>6, <1>7

\* __allocator_resize gives a block room for the size, and leaves the others in use as
\* they are.
Resized(b, size) == [heap EXCEPT !.block = allocator_resize(b, size)]
LEMMA ResizeResult ==
    ASSUME Sane(heap), NEW b \in InUse(heap.block), NEW size \in Nat, size >= 1, Resizes(b, size),
           NEW g, g = Resized(b, size)
    PROVE  /\ Sane(g) /\ InUse(g.block) = InUse(heap.block) /\ g.block[b].size >= size
           /\ \A x \in InUse(heap.block) \ {b} : g.block[x].size = heap.block[x].size
<1>1. PICK m : m = heap.block
  OBVIOUS
<1>2. PICK r : r = heap.arena
  OBVIOUS
<1>3. PICK top : top = heap.mmap_next
  OBVIOUS
<1>4. /\ Mapped(r, top) /\ Listed(r, heap.arenas) /\ Tiling(m, r) /\ Joint(m, {})
      /\ Counted(m, r)
      /\ heap \in [block : {m}, arena : {r}, arenas : {heap.arenas}, mmap_next : {top}]
  BY <1>1, <1>2, <1>3 DEF Sane, HeapFields
<1>5. b \in DOMAIN m /\ ~m[b].free /\ b \in InUse(m)
  BY <1>1 DEF InUse
<1>6. PICK n : n = allocator_resize(b, size)
  OBVIOUS
<1>7. PICK w : w = IF m[b].size >= size THEN m ELSE merge_next(m, b)
  OBVIOUS
<1>8. /\ Tiling(w, r) /\ Joint(w, {}) /\ Kept(m, w, b) /\ w[b].size >= size
  <2>1. CASE m[b].size >= size
    BY <1>4, <1>5, <1>7, <2>1 DEF Kept, InUse
  <2>2. CASE ~(m[b].size >= size)
    <3>1. PICK S : S = {}
      OBVIOUS
    <3>2. Joint(m, S \cup {b}) /\ (m[b].next # 0 => m[b].next \notin S) /\ w = merge_next(m, b)
      BY <1>4, <1>7, <2>2, <3>1 DEF Joint
    <3>3. Tiling(w, r) /\ Joint(w, S) /\ Kept(m, w, b)
      BY <1>4, <1>5, <3>2, MergeResult
    <3>4. m[b].next # 0 /\ m[m[b].next].free /\ m[b].size + Header + m[m[b].next].size >= size
      BY <1>1, <2>2 DEF Resizes
    <3>5. w[b].size = MergedSize(m, b)
      BY <1>4, <1>5, <3>2, MergeResult
    <3> QED
      BY <3>1, <3>3, <3>4, <3>5 DEF MergedSize
  <2> QED
    BY <2>1, <2>2
<1>9. n = split_block(w, b, size)
  BY <1>1, <1>6, <1>7 DEF allocator_resize
<1>10. b \in DOMAIN w /\ InUse(w) = InUse(m) /\ ~w[b].free /\ Joint(w, {b})
  BY <1>5, <1>8 DEF Kept, Joint
<1>11. Tiling(n, r) /\ Joint(n, {b}) /\ Kept(w, n, b) /\ n[b].size >= size
  BY <1>4, <1>8, <1>9, <1>10, SplitResult
<1>12. InUse(n) = InUse(m) /\ ~n[b].free
  BY <1>10, <1>11 DEF Kept
<1>13. Joint(n, {})
  BY <1>11, <1>12 DEF Joint
<1>14. \A x \in InUse(m) : n[x].arena = m[x].arena /\ (x # b => n[x].size = m[x].size)
  BY <1>8, <1>10, <1>11 DEF Kept
<1>15. Counted(n, r)
  <2>1. \A a : InUseOf(n, a) = InUseOf(m, a)
    BY <1>12, <1>14 DEF InUseOf
  <2> QED
    BY <1>4, <2>1 DEF Counted
<1>16. g \in [block : {n}, arena : {r}, arenas : {heap.arenas}, mmap_next : {top}]
  BY <1>4, <1>6 DEF Resized
<1>17. g.block = n /\ g.arena = r /\ g.arenas = heap.arenas /\ g.mmap_next = top
  BY <1>16
<1>18. Sane(g)
  BY <1>4, <1>11, <1>13, <1>15, <1>16, <1>17 DEF Sane, HeapFields
<1> QED
  BY <1>1, <1>11, <1>12, <1>14, <1>17, <1>18

-----------------------------------------------------------------------------
(* The invariant. *)

\* A pointer that the program holds is the one behind the header of a block in use.
LEMMA HeldBlocks ==
    ASSUME Inv
    PROVE  /\ \A p \in DOMAIN live : /\ p - Header \in InUse(heap.block) /\ p = (p - Header) + Header
                                     /\ p \in Nat /\ p >= 1
           /\ \A b \in InUse(heap.block) : /\ b \in Nat /\ b + Header \in DOMAIN live
                                           /\ (b + Header) - Header = b
<1>1. \A b \in InUse(heap.block) : b \in Nat
  BY Around DEF Inv, Sane, InUse
<1>2. DOMAIN live = {b + Header : b \in InUse(heap.block)}
  BY DEF Inv, Held
<1> QED
  BY <1>1, <1>2, Units

\* The heap starts without arenas.
LEMMA InitInv == Init => Inv
<1> SUFFICES ASSUME Init PROVE Inv
  OBVIOUS
<1>1. PICK e : e = [b \in {} |-> 0]
  OBVIOUS
<1>2. e = [x \in {} |-> e[x]] /\ DOMAIN e = {} /\ \A S : e \in [{} -> S]
  BY <1>1
<1>3. heap = [block |-> e, arena |-> e, arenas |-> 0, mmap_next |-> MmapBase] /\ live = e
  BY <1>1 DEF Init, Empty
<1>4. heap.block = e /\ heap.arena = e /\ heap.arenas = 0 /\ heap.mmap_next = MmapBase
      /\ HeapFields(heap)
  BY <1>3 DEF HeapFields
<1>5. Mapped(e, MmapBase) /\ Listed(e, 0)
  BY <1>2, Units DEF Mapped, Listed, GreatestOrZero
<1>6. Tiling(e, e) /\ Joint(e, {}) /\ Counted(e, e) /\ InUse(e) = {}
  BY <1>2 DEF Tiling, Apart, Joint, Counted, InUse
<1> QED
  BY <1>2, <1>3, <1>4, <1>5, <1>6 DEF Inv, Sane, Held

\* A call that gives the program block b of at least n units.
Given(b, n) ==
    /\ b \notin InUse(heap.block) /\ b + Header \notin DOMAIN live
    /\ InUse(heap'.block) = InUse(heap.block) \cup {b}
    /\ heap'.block[b].size >= n
    /\ \A x \in InUse(heap.block) : heap'.block[x].size = heap.block[x].size
    /\ live' = With(live, b + Header, n)

\* malloc
LEMMA MallocStep ==
    ASSUME Inv, NEW n \in Sizes, Malloc(n)
    PROVE  Inv' /\ \E b \in Nat : Given(b, n)
<1>1. PICK size : size = IF n = 0 THEN 1 ELSE n
  OBVIOUS
<1>2. PICK b : b = Found(heap, size)
  OBVIOUS
<1>3. /\ CanAllocate(heap, size) /\ heap' = allocator_allocate(heap, size)
      /\ live' = With(live, b + Header, n)
  BY <1>1, <1>2 DEF Malloc
<1>4. n \in Nat /\ size \in Nat /\ size >= 1 /\ size >= n
  BY <1>1, UnitsAssumption
<1>5. /\ Sane(heap') /\ b \notin InUse(heap.block) /\ InUse(heap'.block) = InUse(heap.block) \cup {b}
      /\ heap'.block[b].size >= size
      /\ \A x \in InUse(heap.block) : heap'.block[x].size = heap.block[x].size
  <2>1. Sane(heap)
    BY DEF Inv
  <2>2. PICK g : g = allocator_allocate(heap, size)
    OBVIOUS
  <2>3. /\ Sane(g) /\ b \notin InUse(heap.block) /\ InUse(g.block) = InUse(heap.block) \cup {b}
        /\ g.block[b].size >= size
        /\ \A x \in InUse(heap.block) : g.block[x].size = heap.block[x].size
    BY <1>2, <1>3, <1>4, <2>1, <2>2, AllocateResult
  <2> QED
    BY <1>3, <2>2, <2>3
<1>6. b \in Nat /\ heap'.block[b].size \in Nat
  <2>1. b \in DOMAIN heap'.block /\ Mapped(heap'.arena, heap'.mmap_next) /\ Tiling(heap'.block, heap'.arena)
    BY <1>5 DEF Sane, InUse
  <2> QED
    BY <2>1, Around DEF Block
<1>7. heap'.block[b].size >= n
  BY <1>4, <1>5, <1>6
<1>8. /\ \A p \in DOMAIN live : p - Header \in InUse(heap.block) /\ p = (p - Header) + Header /\ p \in Nat
      /\ \A x \in InUse(heap.block) : x \in Nat /\ x + Header \in DOMAIN live
  BY HeldBlocks
<1>9. b + Header \notin DOMAIN live /\ (b + Header) - Header = b
  BY <1>5, <1>6, <1>8, Units
<1>10. DOMAIN live' = DOMAIN live \cup {b + Header} /\ live' = [p \in DOMAIN live' |-> live'[p]]
       /\ live'[b + Header] = n /\ \A p \in DOMAIN live : live'[p] = live[p]
  BY <1>3, <1>9 DEF With
<1>11. Held'
  <2>1. DOMAIN live' = {x + Header : x \in InUse(heap'.block)}
    BY <1>5, <1>8, <1>10 DEF Inv, Held
  <2>2. ASSUME NEW p \in DOMAIN live'
        PROVE  live'[p] \in Nat /\ live'[p] <= heap'.block[p - Header].size
    <3>1. CASE p = b + Header
      BY <1>4, <1>6, <1>7, <1>9, <1>10, <3>1
    <3>2. CASE p \in DOMAIN live
      BY <1>5, <1>8, <1>10, <3>2 DEF Inv, Held
    <3> QED
      BY <1>10, <3>1, <3>2
  <2> QED
    BY <1>10, <2>1, <2>2 DEF Held
<1>12. Given(b, n)
  BY <1>3, <1>5, <1>7, <1>9 DEF Given
<1> QED
  BY <1>5, <1>6, <1>11, <1>12 DEF Inv

\* free
LEMMA FreeStep ==
    ASSUME Inv, NEW p \in DOMAIN live, Free(p)
    PROVE  /\ Inv' /\ DOMAIN live' = DOMAIN live \ {p}
           /\ \A q \in DOMAIN live \ {p} : /\ live'[q] = live[q]
                                           /\ heap'.block[q - Header].size = heap.block[q - Header].size
<1>1. PICK b : b = p - Header
  OBVIOUS
<1>2. /\ \A q \in DOMAIN live : q - Header \in InUse(heap.block) /\ q = (q - Header) + Header /\ q \in Nat
      /\ \A x \in InUse(heap.block) : x \in Nat /\ x + Header \in DOMAIN live /\ (x + Header) - Header = x
  BY HeldBlocks
<1>3. b \in InUse(heap.block) /\ b + Header = p
  BY <1>1, <1>2
<1>4. /\ Sane(heap') /\ InUse(heap'.block) = InUse(heap.block) \ {b}
      /\ \A x \in InUse(heap.block) \ {b} : heap'.block[x].size = heap.block[x].size
  <2>1. Sane(heap)
    BY DEF Inv
  <2>2. PICK g : g = allocator_release(heap, b)
    OBVIOUS
  <2>3. /\ Sane(g) /\ InUse(g.block) = InUse(heap.block) \ {b}
        /\ \A x \in InUse(heap.block) \ {b} : g.block[x].size = heap.block[x].size
    BY <1>3, <2>1, <2>2, ReleaseResult
  <2>4. heap' = g
    BY <1>1, <2>2 DEF Free
  <2> QED
    BY <2>3, <2>4
<1>5. /\ DOMAIN live' = DOMAIN live \ {p} /\ live' = [q \in DOMAIN live' |-> live'[q]]
      /\ \A q \in DOMAIN live \ {p} : live'[q] = live[q]
  BY DEF Free, Without, Restrict
<1>6. \A q \in DOMAIN live \ {p} : q - Header \in InUse(heap.block) \ {b}
  BY <1>2, <1>3
<1>7. \A q \in DOMAIN live \ {p} : heap'.block[q - Header].size = heap.block[q - Header].size
  BY <1>4, <1>6
<1>8. Held'
  <2>1. DOMAIN live' = {x + Header : x \in InUse(heap'.block)}
    <3>1. ASSUME NEW q \in DOMAIN live'
          PROVE  \E x \in InUse(heap'.block) : q = x + Header
      BY <1>2, <1>4, <1>5, <1>6
    <3>2. ASSUME NEW x \in InUse(heap'.block)
          PROVE  x + Header \in DOMAIN live'
      <4>1. x \in InUse(heap.block) /\ x # b
        BY <1>4
      <4>2. x + Header \in DOMAIN live /\ (x + Header) - Header = x
        BY <1>2, <4>1
      <4>3. x + Header # p
        BY <1>1, <4>1, <4>2
      <4> QED
        BY <1>5, <4>2, <4>3
    <3> QED
      BY <3>1, <3>2
  <2>2. \A q \in DOMAIN live' : live'[q] \in Nat /\ live'[q] <= heap'.block[q - Header].size
    BY <1>5, <1>7 DEF Inv, Held
  <2> QED
    BY <1>5, <2>1, <2>2 DEF Held
<1> QED
  BY <1>4, <1>5, <1>7, <1>8 DEF Inv

\* realloc in place
LEMMA ResizeStep ==
    ASSUME Inv, NEW p \in DOMAIN live, NEW n \in Sizes \ {0}, ReallocInPlace(p, n)
    PROVE  /\ Inv' /\ DOMAIN live' = DOMAIN live /\ live'[p] = n
           /\ \A q \in DOMAIN live \ {p} : /\ live'[q] = live[q]
                                           /\ heap'.block[q - Header].size = heap.block[q - Header].size
<1>1. PICK b : b = p - Header
  OBVIOUS
<1>2. /\ \A q \in DOMAIN live : q - Header \in InUse(heap.block) /\ q = (q - Header) + Header /\ q \in Nat
      /\ \A x \in InUse(heap.block) : x \in Nat /\ x + Header \in DOMAIN live /\ (x + Header) - Header = x
  BY HeldBlocks
<1>3. b \in InUse(heap.block) /\ b + Header = p
  BY <1>1, <1>2
<1>4. n \in Nat /\ n >= 1 /\ Resizes(b, n)
  BY <1>1, UnitsAssumption DEF ReallocInPlace
<1>5. /\ Sane(heap') /\ InUse(heap'.block) = InUse(heap.block) /\ heap'.block[b].size >= n
      /\ \A x \in InUse(heap.block) \ {b} : heap'.block[x].size = heap.block[x].size
  <2>1. Sane(heap)
    BY DEF Inv
  <2>2. PICK g : g = Resized(b, n)
    OBVIOUS
  <2>3. /\ Sane(g) /\ InUse(g.block) = InUse(heap.block) /\ g.block[b].size >= n
        /\ \A x \in InUse(heap.block) \ {b} : g.block[x].size = heap.block[x].size
    BY <1>3, <1>4, <2>1, <2>2, ResizeResult
  <2>4. heap' = g
    BY <1>1, <2>2 DEF ReallocInPlace, Resized
  <2> QED
    BY <2>3, <2>4
<1>6. heap'.block[b].size \in Nat
  <2>1. b \in DOMAIN heap'.block /\ Mapped(heap'.arena, heap'.mmap_next) /\ Tiling(heap'.block, heap'.arena)
    BY <1>3, <1>5 DEF Sane, InUse
  <2> QED
    BY <2>1, Around DEF Block
<1>7. /\ DOMAIN live' = DOMAIN live /\ live' = [q \in DOMAIN live' |-> live'[q]]
      /\ live'[p] = n /\ \A q \in DOMAIN live \ {p} : live'[q] = live[q]
  <2>1. live' = [live EXCEPT ![p] = n]
    BY DEF ReallocInPlace
  <2> QED
    BY <2>1
<1>8. \A q \in DOMAIN live \ {p} : heap'.block[q - Header].size = heap.block[q - Header].size
  BY <1>2, <1>3, <1>5
<1>9. Held'
  <2>1. DOMAIN live' = {x + Header : x \in InUse(heap'.block)}
    BY <1>5, <1>7 DEF Inv, Held
  <2>2. ASSUME NEW q \in DOMAIN live'
        PROVE  live'[q] \in Nat /\ live'[q] <= heap'.block[q - Header].size
    <3>1. CASE q = p
      BY <1>1, <1>4, <1>5, <1>6, <1>7, <3>1
    <3>2. CASE q # p
      BY <1>7, <1>8, <3>2 DEF Inv, Held
    <3> QED
      BY <3>1, <3>2
  <2> QED
    BY <1>7, <2>1, <2>2 DEF Held
<1> QED
  BY <1>5, <1>7, <1>8, <1>9 DEF Inv

\* realloc to another block: for a moment the program has both, and they are apart.
Moves(p, b, n) ==
    /\ b + Header \notin DOMAIN live
    /\ DOMAIN live' = (DOMAIN live \ {p}) \cup {b + Header} /\ live'[b + Header] = n
    /\ heap'.block[b].size >= n /\ n > heap.block[p - Header].size
    /\ \/ p + heap.block[p - Header].size <= b
       \/ b + Header + heap'.block[b].size <= p - Header
    /\ \A q \in DOMAIN live \ {p} :
        live'[q] = live[q] /\ heap'.block[q - Header].size = heap.block[q - Header].size
LEMMA MoveStep ==
    ASSUME Inv, NEW p \in DOMAIN live, NEW n \in Sizes \ {0}, ReallocMoves(p, n)
    PROVE  Inv' /\ \E b \in Nat : Moves(p, b, n)
<1>1. PICK c : c = p - Header
  OBVIOUS
<1>2. PICK b : b = Found(heap, n)
  OBVIOUS
<1>3. /\ \A q \in DOMAIN live : q - Header \in InUse(heap.block) /\ q = (q - Header) + Header /\ q \in Nat
      /\ \A x \in InUse(heap.block) : x \in Nat /\ x + Header \in DOMAIN live /\ (x + Header) - Header = x
  BY HeldBlocks
<1>4. c \in InUse(heap.block) /\ c + Header = p /\ c \in Nat
  BY <1>1, <1>3
<1>5. n \in Nat /\ n >= 1 /\ ~Resizes(c, n) /\ CanAllocate(heap, n)
  BY <1>1, UnitsAssumption DEF ReallocMoves
<1>6. PICK g : g = allocator_allocate(heap, n)
  OBVIOUS
<1>7. /\ Sane(g) /\ b \notin InUse(heap.block) /\ InUse(g.block) = InUse(heap.block) \cup {b}
      /\ g.block[b].size >= n
      /\ \A x \in InUse(heap.block) : g.block[x].size = heap.block[x].size
  <2>1. Sane(heap)
    BY DEF Inv
  <2> QED
    BY <1>2, <1>5, <1>6, <2>1, AllocateResult
<1>8. c \in InUse(g.block) /\ b # c
  BY <1>4, <1>7
<1>9. heap' = allocator_release(g, c) /\ live' = With(Without(live, p), b + Header, n)
  BY <1>1, <1>2, <1>6 DEF ReallocMoves
<1>10. /\ Sane(heap') /\ InUse(heap'.block) = InUse(g.block) \ {c}
       /\ \A x \in InUse(g.block) \ {c} : heap'.block[x].size = g.block[x].size
  <2>1. PICK k : k = allocator_release(g, c)
    OBVIOUS
  <2>2. /\ Sane(k) /\ InUse(k.block) = InUse(g.block) \ {c}
        /\ \A x \in InUse(g.block) \ {c} : k.block[x].size = g.block[x].size
    BY <1>7, <1>8, <2>1, ReleaseResult
  <2> QED
    BY <1>9, <2>1, <2>2
<1>11. /\ Mapped(g.arena, g.mmap_next) /\ Tiling(g.block, g.arena)
       /\ b \in DOMAIN g.block /\ c \in DOMAIN g.block
  BY <1>7, <1>8 DEF Sane, InUse
<1>12. b \in Nat /\ g.block[b].size \in Nat /\ g.block[c].size \in Nat
  BY <1>11, Around DEF Block
<1>13. heap'.block[b].size = g.block[b].size
  BY <1>7, <1>8, <1>10
<1>14. heap.block[c].size = g.block[c].size /\ n > heap.block[c].size
  <2>1. heap.block[c].size = g.block[c].size
    BY <1>4, <1>7
  <2>2. ~(heap.block[c].size >= n)
    BY <1>5 DEF Resizes
  <2> QED
    BY <1>5, <1>12, <2>1, <2>2
<1>15. \/ p + heap.block[c].size <= b
       \/ b + Header + heap'.block[b].size <= c
  <2>1. \A x, y \in DOMAIN g.block : x < y => BlockEnd(g.block, x) <= y
    BY <1>11 DEF Tiling, Apart
  <2>2. c < b => c + Header + g.block[c].size <= b
    BY <1>11, <2>1 DEF BlockEnd
  <2>3. b < c => b + Header + g.block[b].size <= c
    BY <1>11, <2>1 DEF BlockEnd
  <2> QED
    BY <1>4, <1>8, <1>12, <1>13, <1>14, <2>2, <2>3, Units
<1>16. b + Header \notin DOMAIN live /\ (b + Header) - Header = b
  <2>1. (b + Header) - Header = b
    BY <1>12, Units
  <2> QED
    BY <1>3, <1>7, <2>1
<1>17. /\ DOMAIN live' = (DOMAIN live \ {p}) \cup {b + Header}
       /\ live' = [q \in DOMAIN live' |-> live'[q]]
       /\ live'[b + Header] = n /\ \A q \in DOMAIN live \ {p} : live'[q] = live[q]
  <2>1. PICK w : w = Without(live, p)
    OBVIOUS
  <2>2. DOMAIN w = DOMAIN live \ {p} /\ \A q \in DOMAIN live \ {p} : w[q] = live[q]
    BY <2>1 DEF Without, Restrict
  <2>3. live' = With(w, b + Header, n)
    BY <1>9, <2>1
  <2> QED
    BY <1>16, <2>2, <2>3 DEF With
<1>18. \A q \in DOMAIN live \ {p} : heap'.block[q - Header].size = heap.block[q - Header].size
  <2> SUFFICES ASSUME NEW q \in DOMAIN live \ {p}
               PROVE  heap'.block[q - Header].size = heap.block[q - Header].size
    OBVIOUS
  <2>1. q - Header \in InUse(heap.block) /\ q - Header # c
    BY <1>3, <1>4
  <2> QED
    BY <1>7, <1>10, <2>1
<1>19. Held'
  <2>1. DOMAIN live' = {x + Header : x \in InUse(heap'.block)}
    <3>1. ASSUME NEW q \in DOMAIN live'
          PROVE  \E x \in InUse(heap'.block) : q = x + Header
      <4>1. CASE q = b + Header
        BY <1>7, <1>8, <1>10, <4>1
      <4>2. CASE q \in DOMAIN live \ {p}
        <5>1. q - Header \in InUse(heap.block) /\ q - Header # c /\ q = (q - Header) + Header
          BY <1>3, <1>4, <4>2
        <5> QED
          BY <1>7, <1>10, <5>1
      <4> QED
        BY <1>17, <4>1, <4>2
    <3>2. ASSUME NEW x \in InUse(heap'.block)
          PROVE  x + Header \in DOMAIN live'
      <4>1. x # c /\ (x = b \/ x \in InUse(heap.block))
        BY <1>7, <1>10
      <4>2. CASE x \in InUse(heap.block)
        <5>1. x + Header \in DOMAIN live /\ (x + Header) - Header = x
          BY <1>3, <4>2
        <5>2. x + Header # p
          BY <1>1, <4>1, <5>1
        <5> QED
          BY <1>17, <5>1, <5>2
      <4> QED
        BY <1>17, <4>1, <4>2
    <3> QED
      BY <3>1, <3>2
  <2>2. ASSUME NEW q \in DOMAIN live'
        PROVE  live'[q] \in Nat /\ live'[q] <= heap'.block[q - Header].size
    <3>1. CASE q = b + Header
      BY <1>5, <1>7, <1>12, <1>13, <1>16, <1>17, <3>1
    <3>2. CASE q \in DOMAIN live \ {p}
      BY <1>17, <1>18, <3>2 DEF Inv, Held
    <3> QED
      BY <1>17, <3>1, <3>2
  <2> QED
    BY <1>17, <2>1, <2>2 DEF Held
<1>20. Moves(p, b, n)
  BY <1>1, <1>7, <1>13, <1>14, <1>15, <1>16, <1>17, <1>18 DEF Moves
<1> QED
  BY <1>10, <1>12, <1>19, <1>20 DEF Inv

\* Every call keeps the invariant.
LEMMA Invariance == Spec => []Inv
<1>1. Inv /\ [Next]_vars => Inv'
  <2> SUFFICES ASSUME Inv, [Next]_vars PROVE Inv'
    OBVIOUS
  <2>1. CASE \E n \in Sizes : Malloc(n)
    BY <2>1, MallocStep
  <2>2. CASE \E p \in DOMAIN live : Free(p)
    BY <2>2, FreeStep
  <2>3. CASE \E p \in DOMAIN live, n \in Sizes \ {0} : ReallocInPlace(p, n)
    BY <2>3, ResizeStep
  <2>4. CASE \E p \in DOMAIN live, n \in Sizes \ {0} : ReallocMoves(p, n)
    BY <2>4, MoveStep
  <2>5. CASE UNCHANGED vars
    BY <2>5 DEF vars, Inv, Held
  <2> QED
    BY <2>1, <2>2, <2>3, <2>4, <2>5 DEF Next
<1> QED
  BY <1>1, InitInv, PTL DEF Spec

-----------------------------------------------------------------------------
(* What follows from it. *)

\* The greatest element is the one that is chosen.
Chosen(S) == CHOOSE a \in S : \A c \in S : c <= a
LEMMA GreatestChosen ==
    ASSUME NEW n, NEW S, S \subseteq Nat, GreatestOrZero(n, S)
    PROVE  n = IF S = {} THEN 0 ELSE Chosen(S)
<1>1. S # {} => n \in S /\ \A c \in S : c <= n
  BY DEF GreatestOrZero
<1>2. ASSUME NEW z \in S, \A c \in S : c <= z
      PROVE  z = n
  <2>1. n <= z /\ z <= n /\ n \in Nat /\ z \in Nat
    BY <1>1, <1>2
  <2> QED
    BY <2>1
<1>3. S # {} => Chosen(S) = n
  BY <1>1, <1>2 DEF Chosen
<1> QED
  BY <1>3 DEF GreatestOrZero

\* The blocks of an arena tile it.
LEMMA InvTiled == Inv => Tiled
<1> SUFFICES ASSUME Inv, NEW a \in DOMAIN heap.arena, NEW end, end = a + heap.arena[a].mapped
             PROVE  /\ first_block(a) \in BlocksOf(a) /\ heap.block[first_block(a)].previous = 0
                    /\ \A b \in BlocksOf(a) :
                        /\ heap.block[b].size >= 1
                        /\ heap.block[b].next = (IF End(b) = end THEN 0 ELSE End(b))
                        /\ End(b) # end => End(b) \in BlocksOf(a) /\ heap.block[End(b)].previous = b
                    /\ Cardinality({b \in BlocksOf(a) : End(b) = end}) = 1
  BY DEF Tiled
<1>1. PICK m : m = heap.block
  OBVIOUS
<1>2. PICK r : r = heap.arena
  OBVIOUS
<1>3. Mapped(r, heap.mmap_next) /\ Tiling(m, r) /\ a \in DOMAIN r /\ end = Limit(r, a)
  BY <1>1, <1>2 DEF Inv, Sane, Limit
<1>4. /\ BlocksOf(a) = {b \in DOMAIN m : m[b].arena = a}
      /\ \A b : End(b) = BlockEnd(m, b)
  BY <1>1 DEF BlocksOf, End, BlockEnd
<1>5. Covered(m, r, a)
  BY <1>3 DEF Tiling
<1>6. first_block(a) \in BlocksOf(a) /\ m[first_block(a)].previous = 0
  BY <1>4, <1>5 DEF Covered
<1>7. ASSUME NEW b \in BlocksOf(a)
      PROVE  /\ m[b].size >= 1 /\ m[b].next = (IF End(b) = end THEN 0 ELSE End(b))
             /\ End(b) # end => End(b) \in BlocksOf(a) /\ m[End(b)].previous = b
             /\ End(b) \in Nat /\ b \in Nat /\ b < End(b)
  <2>1. b \in DOMAIN m /\ m[b].arena = a /\ End(b) = BlockEnd(m, b)
    BY <1>4
  <2>2. End(b) \in Nat /\ b \in Nat /\ b < End(b) /\ m[b].size >= 1
    BY <1>3, <2>1, Around, Units DEF BlockEnd, Block
  <2>3. m[b].next = (IF End(b) = end THEN 0 ELSE End(b))
    BY <1>3, <2>1, Around
  <2>4. End(b) # end => End(b) \in BlocksOf(a) /\ m[End(b)].previous = b
    <3>1. End(b) # end => m[b].next # 0 /\ m[b].next = End(b)
      BY <2>2, <2>3
    <3> QED
      BY <1>3, <1>4, <2>1, <3>1, Around
  <2> QED
    BY <2>2, <2>3, <2>4
<1>8. Cardinality({b \in BlocksOf(a) : End(b) = end}) = 1
  <2>1. PICK l \in DOMAIN m : m[l].arena = a /\ BlockEnd(m, l) = Limit(r, a)
    BY <1>5 DEF Covered
  <2>2. l \in BlocksOf(a) /\ End(l) = end
    BY <1>3, <1>4, <2>1
  <2>3. ASSUME NEW b \in BlocksOf(a), End(b) = end
        PROVE  b = l
    <3>1. \A x, y \in BlocksOf(a) : x < y => End(x) <= y
      BY <1>3, <1>4 DEF Tiling, Apart
    <3>2. b < l => End(b) <= l
      BY <2>2, <3>1
    <3>3. l < b => End(l) <= b
      BY <2>2, <3>1
    <3>4. End(b) \in Nat /\ b \in Nat /\ b < End(b) /\ End(l) \in Nat /\ l \in Nat /\ l < End(l)
      BY <1>7, <2>2
    <3> QED
      BY <2>2, <2>3, <3>2, <3>3, <3>4
  <2>4. {b \in BlocksOf(a) : End(b) = end} = {l}
    BY <2>2, <2>3
  <2> QED
    BY <2>4, FS_Singleton
<1> QED
  BY <1>1, <1>6, <1>7, <1>8

\* The list has all the arenas, and their counts are right.
LEMMA InvLinked == Inv => Linked
<1> SUFFICES ASSUME Inv PROVE Linked
  OBVIOUS
<1>1. PICK m : m = heap.block
  OBVIOUS
<1>2. PICK r : r = heap.arena
  OBVIOUS
<1>3. PICK head : head = heap.arenas
  OBVIOUS
<1>4. /\ Mapped(r, heap.mmap_next) /\ Tiling(m, r) /\ Listed(r, head) /\ Counted(m, r)
  BY <1>1, <1>2, <1>3 DEF Inv, Sane
<1>5. DOMAIN r \subseteq Nat
  BY <1>4 DEF Mapped
<1>6. head = IF DOMAIN r = {} THEN 0 ELSE Chosen(DOMAIN r)
  BY <1>4, <1>5, GreatestChosen DEF Listed
<1>7. ASSUME NEW a \in DOMAIN r, NEW older, older = {c \in DOMAIN r : c < a}
      PROVE  /\ r[a].next = (IF older = {} THEN 0 ELSE Chosen(older))
             /\ r[a].next # 0 => r[r[a].next].previous = a
             /\ a = head => r[a].previous = 0
             /\ r[a].active = Cardinality({p \in DOMAIN live : p - Header \in BlocksOf(a)})
  <2>1. older \subseteq Nat /\ GreatestOrZero(r[a].next, older)
    BY <1>4, <1>5, <1>7 DEF Listed, Older
  <2>2. r[a].next = (IF older = {} THEN 0 ELSE Chosen(older))
    BY <2>1, GreatestChosen
  <2>3. (r[a].next # 0 => r[r[a].next].previous = a) /\ (a = head => r[a].previous = 0)
    BY <1>4 DEF Listed
  <2>4. r[a].active = Cardinality(InUseOf(m, a)) /\ IsFiniteSet(InUseOf(m, a))
    BY <1>4, InUseFinite DEF Counted
  <2>5. PICK P : P = {p \in DOMAIN live : p - Header \in BlocksOf(a)}
    OBVIOUS
  <2>6. PICK f : f = [b \in InUseOf(m, a) |-> b + Header]
    OBVIOUS
  <2>7. /\ \A p \in DOMAIN live : p - Header \in InUse(m) /\ p = (p - Header) + Header
        /\ \A b \in InUse(m) : b \in Nat /\ b + Header \in DOMAIN live /\ (b + Header) - Header = b
    BY <1>1, HeldBlocks
  <2>8. \A b \in InUse(m) : b \in BlocksOf(a) <=> b \in InUseOf(m, a)
    BY <1>1 DEF BlocksOf, InUse, InUseOf
  <2>9. \A b \in InUseOf(m, a) : b \in InUse(m)
    BY DEF InUseOf
  <2>10. f \in [InUseOf(m, a) -> P]
    BY <2>5, <2>6, <2>7, <2>8, <2>9
  <2>11. \A b, c \in InUseOf(m, a) : f[b] = f[c] => b = c
    <3>1. \A b \in InUseOf(m, a) : f[b] - Header = b
      BY <2>6, <2>7, <2>9
    <3> QED
      BY <3>1
  <2>12. \A p \in P : \E b \in InUseOf(m, a) : f[b] = p
    BY <2>5, <2>6, <2>7, <2>8
  <2>13. f \in Bijection(InUseOf(m, a), P)
    BY <2>10, <2>11, <2>12 DEF Bijection, Injection, Surjection, IsInjective
  <2>14. ExistsBijection(InUseOf(m, a), P)
    BY <2>13 DEF ExistsBijection
  <2>15. Cardinality(P) = Cardinality(InUseOf(m, a))
    BY <2>4, <2>14, FS_Bijection
  <2> QED
    BY <2>2, <2>3, <2>4, <2>5, <2>15
<1>8. DOMAIN live = {b + Header : b \in {c \in DOMAIN heap.block : ~heap.block[c].free}}
  BY DEF Inv, Held, InUse
<1>9. \A a \in DOMAIN r :
        LET older == {c \in DOMAIN r : c < a}
            n == r[a].next
        IN  /\ n = (IF older = {} THEN 0 ELSE Chosen(older))
            /\ n # 0 => r[n].previous = a
            /\ a = head => r[a].previous = 0
            /\ r[a].active = Cardinality({p \in DOMAIN live : p - Header \in BlocksOf(a)})
  BY <1>7
<1> QED
  BY <1>2, <1>3, <1>6, <1>8, <1>9 DEF Linked, Chosen

\* Whatever sequence of malloc, free and realloc: blocks tile the arenas, free blocks
\* are never neighbours, and the lists and counts are right.
THEOREM HeapStaysWellFormed == Spec => []WellFormed
<1>1. Inv => WellFormed
  <2> SUFFICES ASSUME Inv PROVE WellFormed
    OBVIOUS
  <2>1. NoFreeNeighbours
    BY DEF Inv, Sane, Joint, NoFreeNeighbours
  <2> QED
    BY <2>1, InvTiled, InvLinked DEF WellFormed
<1> QED
  BY <1>1, Invariance, PTL

-----------------------------------------------------------------------------
(* Regions of memory. *)

\* Blocks are apart, so the regions behind their headers are.
LEMMA RegionsSound == Inv => HR!Sound
<1> SUFFICES ASSUME Inv PROVE HR!Sound
  OBVIOUS
<1>1. PICK m : m = heap.block
  OBVIOUS
<1>2. PICK r : r = heap.arena
  OBVIOUS
<1>3. Mapped(r, heap.mmap_next) /\ Tiling(m, r)
  BY <1>1, <1>2 DEF Inv, Sane
<1>4. \A p \in DOMAIN live : p - Header \in InUse(m) /\ p = (p - Header) + Header /\ p \in Nat
  BY <1>1, HeldBlocks
<1>5. DOMAIN Regions = DOMAIN live /\ \A p \in DOMAIN live : Regions[p] = m[p - Header].size
  BY <1>1 DEF Regions
<1>6. ASSUME NEW p \in DOMAIN live
      PROVE  /\ p - Header \in DOMAIN m /\ p - Header \in Nat /\ Regions[p] \in Nat
             /\ BlockEnd(m, p - Header) = p + Regions[p]
             /\ MmapBase <= p /\ p + Regions[p] <= MmapEnd
  <2>1. PICK b : b = p - Header
    OBVIOUS
  <2>2. b \in DOMAIN m /\ p = b + Header
    BY <1>4, <2>1 DEF InUse
  <2>3. b \in Nat /\ m[b].size \in Nat /\ m[b].arena \in DOMAIN r
        /\ first_block(m[b].arena) <= b /\ BlockEnd(m, b) <= Limit(r, m[b].arena)
    BY <1>3, <2>2, Around DEF Block
  <2>4. MmapBase <= m[b].arena /\ Limit(r, m[b].arena) <= MmapEnd /\ m[b].arena \in Nat
        /\ Limit(r, m[b].arena) \in Nat
    BY <1>3, <2>3, ArenaBounds
  <2>5. Regions[p] = m[b].size /\ BlockEnd(m, b) = p + Regions[p]
    BY <1>5, <2>1, <2>2, <2>3 DEF BlockEnd
  <2>6. p + Regions[p] <= MmapEnd
    <3>1. BlockEnd(m, b) \in Nat
      BY <2>3, Units DEF BlockEnd
    <3> QED
      BY <2>3, <2>4, <2>5, <3>1, Units
  <2>7. MmapBase <= p
    BY <2>2, <2>3, <2>4, Units DEF first_block
  <2> QED
    BY <2>1, <2>2, <2>3, <2>5, <2>6, <2>7
<1>7. ASSUME NEW p \in DOMAIN live
      PROVE  Regions[p] >= live[p] /\ HR!Cells(p) \subseteq MmapBase..(MmapEnd - 1)
  <2>1. live[p] \in Nat /\ live[p] <= Regions[p]
    BY <1>1, <1>5 DEF Inv, Held
  <2>2. HR!Cells(p) = p..(p + Regions[p] - 1)
    BY DEF HR!Cells
  <2> QED
    BY <1>4, <1>6, <2>1, <2>2, Units, SMTT(40)
<1>8. ASSUME NEW p \in DOMAIN live, NEW q \in DOMAIN live, p # q
      PROVE  HR!Cells(p) \cap HR!Cells(q) = {}
  <2>1. \A x, y \in DOMAIN m : x < y => BlockEnd(m, x) <= y
    BY <1>3 DEF Tiling, Apart
  <2>2. p - Header < q - Header => p + Regions[p] <= q - Header
    BY <1>6, <2>1
  <2>3. q - Header < p - Header => q + Regions[q] <= p - Header
    BY <1>6, <2>1
  <2>4. HR!Cells(p) = p..(p + Regions[p] - 1) /\ HR!Cells(q) = q..(q + Regions[q] - 1)
    BY DEF HR!Cells
  <2>5. p \in Nat /\ q \in Nat /\ Regions[p] \in Nat /\ Regions[q] \in Nat
    BY <1>4, <1>6
  <2> QED
    BY <1>8, <2>2, <2>3, <2>4, <2>5, Units, SMTT(40)
<1> QED
  BY <1>5, <1>7, <1>8 DEF HR!Sound

\* The region of a pointer after a call.
LEMMA RegionsNext ==
    /\ DOMAIN Regions = DOMAIN live
    /\ \A p \in DOMAIN live : Regions[p] = heap.block[p - Header].size
    /\ DOMAIN Regions' = DOMAIN live'
    /\ \A p \in DOMAIN live' : Regions'[p] = heap'.block[p - Header].size
BY DEF Regions

\* Each call is the one of the abstract specification.
LEMMA RegionsStep ==
    ASSUME Inv, Inv', Next
    PROVE  HR!Next
<1>1. HR!Sound'
  <2>1. (Inv => HR!Sound)'
    BY RegionsSound, PTL
  <2> QED
    BY <2>1
<1>2. /\ \A p \in DOMAIN live : p - Header \in InUse(heap.block) /\ p = (p - Header) + Header
                                /\ p \in Nat
  BY HeldBlocks
<1>3. ASSUME NEW n \in Sizes, Malloc(n)
      PROVE  HR!Next
  <2>1. PICK b \in Nat : Given(b, n)
    BY <1>3, MallocStep
  <2>2. PICK p : p = b + Header
    OBVIOUS
  <2>3. p \notin DOMAIN live /\ DOMAIN live' = DOMAIN live \cup {p} /\ live'[p] = n
        /\ \A q \in DOMAIN live : live'[q] = live[q]
    BY <2>1, <2>2 DEF Given, With
  <2>4. \A q \in DOMAIN live : Regions'[q] = Regions[q]
    BY <1>2, <2>1, <2>3, RegionsNext DEF Given
  <2>5. HR!Malloc(n, p) /\ p \in DOMAIN Regions'
    BY <2>3, <2>4, RegionsNext DEF HR!Malloc, HR!Same
  <2> QED
    BY <1>1, <2>5 DEF HR!Next
<1>4. ASSUME NEW p \in DOMAIN live, Free(p)
      PROVE  HR!Next
  <2>1. /\ DOMAIN live' = DOMAIN live \ {p}
        /\ \A q \in DOMAIN live \ {p} : /\ live'[q] = live[q]
                                        /\ heap'.block[q - Header].size = heap.block[q - Header].size
    BY <1>4, FreeStep
  <2>2. HR!Free(p) /\ p \in DOMAIN Regions
    BY <2>1, RegionsNext DEF HR!Free, HR!Same
  <2> QED
    BY <1>1, <2>2 DEF HR!Next
<1>5. ASSUME NEW p \in DOMAIN live, NEW n \in Sizes \ {0}, ReallocInPlace(p, n)
      PROVE  HR!Next
  <2>1. /\ DOMAIN live' = DOMAIN live /\ live'[p] = n
        /\ \A q \in DOMAIN live \ {p} : /\ live'[q] = live[q]
                                        /\ heap'.block[q - Header].size = heap.block[q - Header].size
    BY <1>5, ResizeStep
  <2>2. HR!Resize(n, p) /\ p \in DOMAIN Regions'
    BY <2>1, RegionsNext DEF HR!Resize, HR!Same
  <2> QED
    BY <1>1, <2>2 DEF HR!Next
<1>6. ASSUME NEW p \in DOMAIN live, NEW n \in Sizes \ {0}, ReallocMoves(p, n)
      PROVE  HR!Next
  <2>1. PICK b \in Nat : Moves(p, b, n)
    BY <1>6, MoveStep
  <2>2. PICK q : q = b + Header
    OBVIOUS
  <2>3. /\ q \notin DOMAIN live /\ DOMAIN live' = (DOMAIN live \ {p}) \cup {q} /\ live'[q] = n
        /\ heap'.block[b].size >= n /\ n > heap.block[p - Header].size
        /\ \/ p + heap.block[p - Header].size <= b
           \/ b + Header + heap'.block[b].size <= p - Header
        /\ \A x \in DOMAIN live \ {p} :
            live'[x] = live[x] /\ heap'.block[x - Header].size = heap.block[x - Header].size
    BY <2>1, <2>2 DEF Moves
  <2>4. PICK s : s = Regions[p]
    OBVIOUS
  <2>5. PICK t : t = Regions'[q]
    OBVIOUS
  <2>6. s = heap.block[p - Header].size /\ t = heap'.block[b].size
    <3>1. q - Header = b
      BY <2>2, Units
    <3> QED
      BY <2>3, <2>4, <2>5, <3>1, RegionsNext
  <2>7. s \in Nat /\ t \in Nat /\ n \in Nat
    <3>1. p - Header \in DOMAIN heap.block /\ Mapped(heap.arena, heap.mmap_next)
          /\ Tiling(heap.block, heap.arena)
      BY <1>2 DEF InUse, Inv, Sane
    <3>2. b \in InUse(heap'.block)
      <4>1. q \in {x + Header : x \in InUse(heap'.block)}
        BY <2>3 DEF Inv, Held
      <4>2. PICK x \in InUse(heap'.block) : q = x + Header
        BY <4>1
      <4>3. x \in DOMAIN heap'.block /\ Mapped(heap'.arena, heap'.mmap_next)
            /\ Tiling(heap'.block, heap'.arena)
        BY DEF InUse, Inv, Sane
      <4>4. x \in Nat
        BY <4>3, Around
      <4> QED
        BY <2>2, <4>2, <4>4, Units
    <3>3. b \in DOMAIN heap'.block /\ Mapped(heap'.arena, heap'.mmap_next)
          /\ Tiling(heap'.block, heap'.arena)
      BY <3>2 DEF InUse, Inv, Sane
    <3>4. heap.block[p - Header].size \in Nat
      BY <3>1, Around DEF Block
    <3>5. heap'.block[b].size \in Nat
      BY <3>3, Around DEF Block
    <3> QED
      BY <2>6, <3>4, <3>5, UnitsAssumption
  <2>8. t >= s
    BY <2>3, <2>6, <2>7
  <2>9. HR!Cells(p) \cap HR!Cells(q)' = {}
    <3>1. HR!Cells(p) = p..(p + s - 1)
      BY <2>4 DEF HR!Cells
    <3>2. HR!Cells(q)' = q..(q + t - 1)
      BY <2>5 DEF HR!Cells
    <3>3. p + s <= b \/ b + Header + t <= p - Header
      BY <2>3, <2>6
    <3>4. p \in Nat
      BY <1>2
    <3> QED
      BY <2>2, <2>7, <3>1, <3>2, <3>3, <3>4, Units
  <2>10. HR!Move(n, p, q) /\ q \in DOMAIN Regions' /\ p \in DOMAIN Regions
    BY <2>3, <2>4, <2>5, <2>8, <2>9, RegionsNext DEF HR!Move, HR!Same
  <2> QED
    BY <1>1, <2>10 DEF HR!Next
<1> QED
  BY <1>3, <1>4, <1>5, <1>6 DEF Next

\* malloc, free and realloc give the program regions as large as it asked for that
\* overlap nothing it holds, and leave the other regions where and as large as they are.
THEOREM AllocatorImplementsHeapRegions == Spec => ImplementsHeapRegions
<1>1. Init => HR!Init
  <2> SUFFICES ASSUME Init PROVE HR!Init
    OBVIOUS
  <2>1. HR!Sound
    BY InitInv, RegionsSound
  <2>2. DOMAIN Regions = {}
    BY DEF Init, Regions
  <2> QED
    BY <2>1, <2>2 DEF HR!Init
<1>2. Inv /\ Inv' /\ [Next]_vars => [HR!Next]_(HR!rvars)
  <2> SUFFICES ASSUME Inv, Inv', [Next]_vars
               PROVE  [HR!Next]_(HR!rvars)
    OBVIOUS
  <2>1. CASE Next
    BY <2>1, RegionsStep
  <2>2. CASE UNCHANGED vars
    BY <2>2 DEF vars, HR!rvars, Regions
  <2> QED
    BY <2>1, <2>2
<1> QED
  BY <1>1, <1>2, Invariance, PTL DEF Spec, ImplementsHeapRegions, HR!Spec
=============================================================================
