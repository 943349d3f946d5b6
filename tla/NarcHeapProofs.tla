------------------------- MODULE NarcHeapProofs -------------------------
(***************************************************************************)
(* Theorems about NarcHeap: the window, the physical pages and the small   *)
(* objects stay divided among their holders, kfree loses no part of the    *)
(* window, and the heap implements HeapRegions.                            *)
(*                                                                         *)
(* The invariant Good is stated of a heap in the middle of a call: T is    *)
(* the part of the window that the call has in its hands, M the part of    *)
(* that which is mapped, and L has the small objects in use other than     *)
(* the structs of ranges.                                                  *)
(***************************************************************************)
EXTENDS NarcHeap, NaturalLemmas, FiniteSetTheorems

\* The fields of a heap.
Shape(h) ==
    h \in [free : {h.free}, free_objects : {h.free_objects}, free_ranges : {h.free_ranges},
           window_next : {h.window_next}, class : {h.class}, pages : {h.pages},
           pte : {h.pte}, table : {h.table}, lost : {h.lost}]

\* Physical pages: different places hold different pages, and each page is in one.
Divided(free, small, table, pte, O) ==
    /\ free \subseteq 1..Pages /\ small \subseteq 1..Pages /\ O \subseteq 1..Pages
    /\ table \in [DOMAIN table -> 1..Pages] /\ IsInjective(table)
    /\ pte \in [DOMAIN pte -> 1..Pages] /\ IsInjective(pte)
    /\ free \cap small = {} /\ free \cap O = {} /\ small \cap O = {}
    /\ Range(table) \cap free = {} /\ Range(table) \cap small = {} /\ Range(table) \cap O = {}
    /\ Range(pte) \cap free = {} /\ Range(pte) \cap small = {} /\ Range(pte) \cap O = {}
    /\ Range(table) \cap Range(pte) = {}
    /\ 1..Pages \subseteq free \cup small \cup O \cup Range(table) \cup Range(pte)

\* The objects of the pages with headers in class, and the class of an object.
Cut(p, c) == {Objects(p, c)[k] : k \in DOMAIN Objects(p, c)}
Pieces(class) == UNION {Cut(p, class[p]) : p \in DOMAIN class}
Kind(class, o) == class[o \div PageSize]

Elements(s) == {s[i] : i \in 1..Len(s)}
Distinct(s) == \A i, j \in 1..Len(s) : s[i] = s[j] => i = j

\* Each small object is in K or once in the list of its class.
Kept(class, lists, K) ==
    /\ class \in [DOMAIN class -> Class] /\ DOMAIN class \subseteq 1..Pages
    /\ lists \in [Class -> Seq(Nat)] /\ \A c \in Class : Distinct(lists[c])
    /\ K \subseteq Pieces(class)
    /\ \A c \in Class : \A o \in Elements(lists[c]) :
        o \in Pieces(class) /\ Kind(class, o) = c /\ o \notin K
    /\ \A o \in Pieces(class) : o \notin K => o \in Elements(lists[Kind(class, o)])

\* The structs of ranges are small objects, a different one for each.
Structs(ranges) == {ranges[i].at : i \in 1..Len(ranges)}
Structured(class, ranges, L) ==
    /\ \A i, j \in 1..Len(ranges) : ranges[i].at = ranges[j].at => i = j
    /\ Structs(ranges) \cap L = {}
    /\ \A a \in Structs(ranges) : Kind(class, a) = class_for(RangeSize)

\* The list of free ranges is in order, and no two of them touch.
RangeStruct == [base : Nat, pages : Nat \ {0}, at : Nat]
Ordered(ranges) ==
    /\ ranges \in Seq(RangeStruct)
    /\ \A i, j \in 1..Len(ranges) : i < j => ranges[i].base + ranges[i].pages < ranges[j].base

\* What is free in the window, and what is in large objects.
FreeSpace(ranges) == UNION {Span(ranges[i].base, ranges[i].pages) : i \in 1..Len(ranges)}
ObjectSpace(pages) == UNION {Span(w, pages[w]) : w \in DOMAIN pages}

\* Large objects do not overlap.
Apart(pages) ==
    /\ pages \in [DOMAIN pages -> Nat \ {0}] /\ DOMAIN pages \subseteq Nat
    /\ \A v, w \in DOMAIN pages : v # w => Span(v, pages[v]) \cap Span(w, pages[w]) = {}

\* The window up to window_next is free, in objects, lost, or in hand.
Tiled(free, objects, lost, next, T) ==
    /\ next \in WindowBase..WindowEnd
    /\ free \cap objects = {} /\ free \cap lost = {} /\ objects \cap lost = {}
    /\ T \cap free = {} /\ T \cap objects = {} /\ T \cap lost = {}
    /\ free \cup objects \cup lost \cup T = WindowBase..(next - 1)

Good(h, L, O, T, M) ==
    /\ Shape(h)
    /\ Divided(h.free, DOMAIN h.class, h.table, h.pte, O)
    /\ Kept(h.class, h.free_objects, Structs(h.free_ranges) \cup L)
    /\ Structured(h.class, h.free_ranges, L)
    /\ Ordered(h.free_ranges)
    /\ Apart(h.pages)
    /\ Tiled(FreeSpace(h.free_ranges), ObjectSpace(h.pages), h.lost, h.window_next, T)
    /\ DOMAIN h.pte = ObjectSpace(h.pages) \cup M

\* The pointers that the kernel holds: small objects, and the first address behind the
\* header of a large one.
Small(h, p) == p \div PageSize \in DOMAIN h.class
Large(h, p) == p \div PageSize \in DOMAIN h.pages /\ p = (p \div PageSize) * PageSize + HeapHeader
SmallOf(h, l) == {p \in DOMAIN l : Small(h, p)}
HeldBy(h, l) ==
    /\ l \in [DOMAIN l -> Nat] /\ DOMAIN l \subseteq Nat
    /\ \A p \in DOMAIN l : (Small(h, p) \/ Large(h, p)) /\ l[p] <= usable_size(h, p)

Sound(h, l, O) == Good(h, SmallOf(h, l), O, {}, {}) /\ HeldBy(h, l)

\* Between two calls nothing is in hand.
Inv == Sound(heap, live, others)

-----------------------------------------------------------------------------
(* Arithmetic. *)

LEMMA Constants ==
    /\ PageSize \in Nat \ {0, 1} /\ HeapHeader = 1 /\ RangeSize \in Nat
    /\ Class \subseteq Nat \ {0} /\ Class # {}
    /\ \A c \in Class : class_size[c] \in Nat \ {0} /\ 1 + class_size[c] <= PageSize
<1>1. \A c \in Class : class_size[c] \in Nat \ {0}
  BY SizeAssumption DEF Class
<1> QED
  BY <1>1, SizeAssumption DEF Class, HeapHeader

\* The least element of a set, and the greatest of a finite one.
LEMMA LowestIn ==
    ASSUME NEW S, S \subseteq Nat, S # {}
    PROVE  Lowest(S) \in S /\ \A q \in S : Lowest(S) <= q
BY LeastNatural DEF Lowest

LEMMA HighestIn ==
    ASSUME NEW S, NEW n \in Nat, S \subseteq 0..n, S # {}
    PROVE  Highest(S) \in S
<1> DEFINE T == {n - s : s \in S}
<1>1. T \subseteq Nat /\ T # {}
  OBVIOUS
<1>2. PICK x \in T : \A y \in T : x <= y
  BY <1>1, LeastNatural
<1>3. PICK s \in S : x = n - s
  BY <1>2
<1>4. \A q \in S : q <= s
  <2> TAKE q \in S
  <2>1. n - q \in T /\ x <= n - q
    BY <1>2
  <2> QED
    BY <1>3, <2>1
<1>5. \E p \in S : \A q \in S : q <= p
  BY <1>4
<1> QED
  BY <1>5 DEF Highest

\* The page of an address.
LEMMA PageOf ==
    ASSUME NEW b \in Nat \ {0}, NEW p \in Nat, NEW r \in 0..(b - 1)
    PROVE  p * b \in Nat /\ (p * b + r) \div b = p
<1>1. p * b \in Nat
  OBVIOUS
<1>2. PICK n \in Nat : n = p * b + r
  BY <1>1
<1>3. PICK q \in Nat, s \in 0..(b - 1) : q = n \div b /\ n = q * b + s
  BY Division
<1>4. q * b \in Nat /\ (p + 1) * b = p * b + b /\ (q + 1) * b = q * b + b
  OBVIOUS
<1>5. ~(q < p)
  <2> SUFFICES ASSUME q < p PROVE FALSE
    OBVIOUS
  <2>1. q + 1 \in Nat /\ q + 1 <= p
    OBVIOUS
  <2>2. (q + 1) * b <= p * b
    BY <2>1, ProductGrows
  <2> QED
    BY <1>1, <1>2, <1>3, <1>4, <2>2
<1>6. ~(p < q)
  <2> SUFFICES ASSUME p < q PROVE FALSE
    OBVIOUS
  <2>1. p + 1 \in Nat /\ p + 1 <= q
    OBVIOUS
  <2>2. (p + 1) * b <= q * b
    BY <2>1, ProductGrows
  <2> QED
    BY <1>1, <1>2, <1>3, <1>4, <2>2
<1>7. q = p
  BY <1>5, <1>6
<1> QED
  BY <1>1, <1>2, <1>3, <1>7

\* Addresses are ordered as their pages are.
LEMMA PageBounds ==
    ASSUME NEW b \in Nat \ {0}, NEW a \in Nat, NEW p \in Nat, NEW q \in Nat,
           p * b <= a, a < q * b
    PROVE  a \div b \in p..(q - 1)
<1>1. PICK k \in Nat, s \in 0..(b - 1) : k = a \div b /\ a = k * b + s
  BY Division
<1>2. k * b \in Nat /\ p * b \in Nat /\ q * b \in Nat /\ (k + 1) * b = k * b + b
  OBVIOUS
<1>3. p <= k
  <2> SUFFICES ASSUME k + 1 <= p PROVE FALSE
    OBVIOUS
  <2>1. (k + 1) * b <= p * b
    BY ProductGrows
  <2> QED
    BY <1>1, <1>2, <2>1
<1>4. k < q
  <2> SUFFICES ASSUME q <= k PROVE FALSE
    OBVIOUS
  <2>1. q * b <= k * b
    BY ProductGrows
  <2> QED
    BY <1>1, <1>2, <2>1
<1> QED
  BY <1>1, <1>3, <1>4

\* class_for returns a class that is large enough; there is one for a range.
LEMMA ClassFits ==
    ASSUME NEW size \in Nat
    PROVE  /\ class_for(size) \in Class \cup {0}
           /\ class_for(size) # 0 => class_for(size) \in Class /\ size <= class_size[class_for(size)]
<1> DEFINE S == {c \in Class : size <= class_size[c]}
<1>1. CASE S # {}
  <2>1. S \subseteq Nat
    BY Constants
  <2>2. Lowest(S) \in S
    BY <1>1, <2>1, LowestIn
  <2> QED
    BY <1>1, <2>2 DEF class_for
<1>2. CASE S = {}
  BY <1>2 DEF class_for
<1> QED
  BY <1>1, <1>2

LEMMA RangeClass ==
    /\ class_for(RangeSize) \in Class
    /\ RangeSize <= class_size[class_for(RangeSize)]
<1> DEFINE S == {c \in Class : RangeSize <= class_size[c]}
<1>1. S # {} /\ S \subseteq Nat
  BY Constants, SizeAssumption
<1>2. Lowest(S) \in S
  BY <1>1, LowestIn
<1> QED
  BY <1>1, <1>2 DEF class_for

\* A large object has room for its header and what was asked for.
LEMMA PagesSuffice ==
    ASSUME NEW size \in Nat
    PROVE  /\ PagesFor(size) \in Nat \ {0}
           /\ PagesFor(size) * PageSize \in Nat
           /\ size + 1 <= PagesFor(size) * PageSize
<1>1. PageSize \in Nat \ {0} /\ HeapHeader = 1
  BY Constants
<1>2. PICK n \in Nat : n = size + HeapHeader + PageSize - 1
  BY <1>1
<1>3. PICK q \in Nat, s \in 0..(PageSize - 1) : q = n \div PageSize /\ n = q * PageSize + s
  BY <1>1, Division
<1>4. PagesFor(size) = q
  BY <1>2, <1>3 DEF PagesFor
<1>5. q * PageSize \in Nat /\ size + 1 <= q * PageSize
  BY <1>1, <1>2, <1>3
<1>6. q # 0
  BY <1>1, <1>5
<1> QED
  BY <1>4, <1>5, <1>6

\* A page is cut into objects one behind the other, all different and none reaching
\* beyond the page.
LEMMA PageCut ==
    ASSUME NEW p \in Nat \ {0}, NEW c \in Class
    PROVE  /\ Objects(p, c) \in Seq(Nat) /\ Distinct(Objects(p, c)) /\ Objects(p, c) # <<>>
           /\ Cut(p, c) = Elements(Objects(p, c))
           /\ \A o \in Cut(p, c) : /\ o \in Nat \ {0} /\ o \div PageSize = p
                                   /\ p * PageSize < o /\ o + class_size[c] <= (p + 1) * PageSize
           /\ \A o, q \in Cut(p, c) : o < q => o + class_size[c] <= q
<1>1. PICK b \in Nat \ {0, 1} : b = PageSize
  BY Constants
<1>2. PICK s \in Nat \ {0} : s = class_size[c] /\ 1 + s <= b
  BY <1>1, Constants
<1>3. PICK n \in Nat, r \in 0..(s - 1) : n = (b - 1) \div s /\ b - 1 = n * s + r
  <2>1. b - 1 \in Nat
    OBVIOUS
  <2> QED
    BY <2>1, Division
<1>4. n # 0 /\ n * s \in Nat
  <2>1. n * s \in Nat
    OBVIOUS
  <2>2. n = 0 => n * s = 0
    OBVIOUS
  <2> QED
    BY <1>2, <1>3, <2>1, <2>2
<1>5. PICK a \in Nat : a = p * b /\ (p + 1) * b = a + b /\ a >= b
  <2>1. p * b \in Nat /\ (p + 1) * b = p * b + b /\ 1 * b <= p * b
    BY ProductGrows
  <2> QED
    BY <2>1
<1>6. PICK t : t = Objects(p, c)
  OBVIOUS
<1>7. t = [k \in 1..n |-> a + 1 + (n - k) * s]
  BY <1>1, <1>2, <1>3, <1>5, <1>6, Constants DEF Objects
<1>8. ASSUME NEW k \in 1..n
      PROVE  (n - k) * s \in Nat /\ (n - k) * s + s <= n * s
  <2>1. n - k \in Nat /\ n - k + 1 \in Nat /\ n - k + 1 <= n
    OBVIOUS
  <2>2. (n - k + 1) * s <= n * s
    BY <2>1, ProductGrows
  <2>3. (n - k + 1) * s = (n - k) * s + s
    BY <2>1
  <2>4. (n - k) * s \in Nat
    BY <2>1
  <2> QED
    BY <2>2, <2>3, <2>4
<1>9. ASSUME NEW k \in 1..n, NEW l \in 1..n, k < l
      PROVE  (n - l) * s + s <= (n - k) * s
  <2>1. n - l + 1 \in Nat /\ n - k \in Nat /\ n - l + 1 <= n - k /\ n - l \in Nat
    BY <1>9
  <2>2. (n - l + 1) * s <= (n - k) * s
    BY <2>1, ProductGrows
  <2>3. (n - l + 1) * s = (n - l) * s + s
    BY <2>1
  <2> QED
    BY <2>2, <2>3
<1>10. DOMAIN t = 1..n /\ \A k \in 1..n : t[k] = a + 1 + (n - k) * s
  BY <1>7
<1>11. ASSUME NEW k \in 1..n
       PROVE  t[k] \in Nat /\ t[k] > a /\ t[k] + s <= a + b /\ t[k] - a \in 0..(b - 1)
  <2>1. PICK x \in Nat, y \in Nat : x = (n - k) * s /\ y = n * s
    BY <1>4, <1>8
  <2>2. x + s <= y /\ t[k] = a + 1 + x /\ b - 1 = y + r
    BY <1>3, <1>8, <1>10, <2>1
  <2> QED
    BY <1>2, <2>2
<1>12. ASSUME NEW k \in 1..n, NEW l \in 1..n, k < l
       PROVE  t[l] + s <= t[k]
  <2>1. PICK x \in Nat, y \in Nat : x = (n - l) * s /\ y = (n - k) * s
    BY <1>8
  <2>2. x + s <= y /\ t[l] = a + 1 + x /\ t[k] = a + 1 + y
    BY <1>9, <1>10, <1>12, <2>1
  <2> QED
    BY <2>2
<1>13. t \in Seq(Nat) /\ Len(t) = n
  <2>1. t \in [1..n -> Nat]
    BY <1>7, <1>8, SMTT(40)
  <2> QED
    BY <1>10, <2>1
<1>14. Distinct(t)
  <2> SUFFICES ASSUME NEW k \in 1..n, NEW l \in 1..n, t[k] = t[l], k # l
               PROVE  FALSE
    BY <1>13 DEF Distinct
  <2>1. k < l \/ l < k
    OBVIOUS
  <2>2. t[k] \in Nat /\ t[l] \in Nat
    BY <1>11
  <2> QED
    BY <1>2, <1>12, <2>1, <2>2
<1>15. Cut(p, c) = Elements(t)
  BY <1>6, <1>10, <1>13 DEF Cut, Elements
<1>16. ASSUME NEW o \in Elements(t)
       PROVE  /\ o \in Nat \ {0} /\ o \div PageSize = p
              /\ p * PageSize < o /\ o + class_size[c] <= (p + 1) * PageSize
  <2>1. PICK k \in 1..n : o = t[k]
    BY <1>13 DEF Elements
  <2>2. /\ o \in Nat /\ o > a /\ o + s <= a + b
    BY <1>11, <2>1
  <2>3. PICK x \in 0..(b - 1) : x = o - a
    BY <1>11, <2>1
  <2>4. o = p * b + x
    BY <1>5, <2>2, <2>3
  <2>5. o \div b = p
    BY <2>4, PageOf
  <2> QED
    BY <1>1, <1>2, <1>5, <2>2, <2>5
<1>17. ASSUME NEW o \in Elements(t), NEW q \in Elements(t), o < q
       PROVE  o + class_size[c] <= q
  <2>1. PICK k \in 1..n, l \in 1..n : q = t[k] /\ o = t[l]
    BY <1>13 DEF Elements
  <2>2. t[k] \in Nat /\ t[l] \in Nat /\ k # l
    BY <1>11, <1>17, <2>1
  <2>3. k < l
    <3> SUFFICES ASSUME l < k PROVE FALSE
      BY <2>2
    <3>1. t[k] + s <= t[l]
      BY <1>12
    <3> QED
      BY <1>2, <1>17, <2>1, <2>2, <3>1
  <2> QED
    BY <1>2, <1>12, <2>1, <2>3
<1>18. t # <<>>
  BY <1>4, <1>13
<1> QED
  BY <1>6, <1>13, <1>14, <1>15, <1>16, <1>17, <1>18

-----------------------------------------------------------------------------
(* Lists. *)

LEMMA Joined ==
    ASSUME NEW S, NEW s \in Seq(S), NEW t \in Seq(S), Distinct(s), Distinct(t),
           Elements(s) \cap Elements(t) = {}
    PROVE  /\ s \o t \in Seq(S) /\ Distinct(s \o t)
           /\ Elements(s \o t) = Elements(s) \cup Elements(t)
<1>1. PICK m \in Nat, n \in Nat : m = Len(s) /\ n = Len(t)
  OBVIOUS
<1>2. PICK u : u = s \o t /\ u \in Seq(S)
  <2>1. s \o t \in Seq(S)
    OBVIOUS
  <2> QED
    BY <2>1
<1>3. /\ Len(u) = m + n
      /\ \A k \in 1..m : u[k] = s[k]
      /\ \A k \in (m + 1)..(m + n) : u[k] = t[k - m]
  BY <1>1, <1>2
<1>4. \A k \in 1..m : u[k] \in Elements(s)
  BY <1>1, <1>3 DEF Elements
<1>5. \A k \in (m + 1)..(m + n) : k - m \in 1..n /\ u[k] \in Elements(t)
  BY <1>1, <1>3 DEF Elements
<1>6. Distinct(u)
  <2> SUFFICES ASSUME NEW k \in 1..(m + n), NEW l \in 1..(m + n), u[k] = u[l]
               PROVE  k = l
    BY <1>3 DEF Distinct
  <2>1. k \in 1..m \/ k \in (m + 1)..(m + n)
    OBVIOUS
  <2>2. l \in 1..m \/ l \in (m + 1)..(m + n)
    OBVIOUS
  <2>3. CASE k \in 1..m /\ l \in 1..m
    BY <1>1, <1>3, <2>3 DEF Distinct
  <2>4. CASE k \in (m + 1)..(m + n) /\ l \in (m + 1)..(m + n)
    <3>1. k - m \in 1..n /\ l - m \in 1..n /\ t[k - m] = t[l - m]
      BY <1>3, <1>5, <2>4
    <3>2. k - m = l - m
      BY <1>1, <3>1 DEF Distinct
    <3> QED
      BY <3>2
  <2> QED
    BY <1>4, <1>5, <2>1, <2>2, <2>3, <2>4
<1>7. Elements(u) = Elements(s) \cup Elements(t)
  <2>1. ASSUME NEW x \in Elements(u) PROVE x \in Elements(s) \cup Elements(t)
    <3>1. PICK k \in 1..(m + n) : x = u[k]
      BY <1>3 DEF Elements
    <3>2. k \in 1..m \/ k \in (m + 1)..(m + n)
      OBVIOUS
    <3> QED
      BY <1>4, <1>5, <3>1, <3>2
  <2>2. ASSUME NEW x \in Elements(s) PROVE x \in Elements(u)
    <3>1. PICK k \in 1..m : x = s[k]
      BY <1>1 DEF Elements
    <3>2. k \in 1..Len(u) /\ u[k] = x
      BY <1>3, <3>1
    <3> QED
      BY <3>2 DEF Elements
  <2>3. ASSUME NEW x \in Elements(t) PROVE x \in Elements(u)
    <3>1. PICK k \in 1..n : x = t[k]
      BY <1>1 DEF Elements
    <3>2. k + m \in (m + 1)..(m + n) /\ (k + m) - m = k
      OBVIOUS
    <3>3. k + m \in 1..Len(u) /\ u[k + m] = x
      BY <1>3, <3>1, <3>2
    <3> QED
      BY <3>3 DEF Elements
  <2> QED
    BY <2>1, <2>2, <2>3
<1> QED
  BY <1>2, <1>6, <1>7

LEMMA Singleton ==
    ASSUME NEW S, NEW x \in S
    PROVE  <<x>> \in Seq(S) /\ Distinct(<<x>>) /\ Elements(<<x>>) = {x}
BY DEF Distinct, Elements

LEMMA Popped ==
    ASSUME NEW S, NEW s \in Seq(S), Distinct(s), s # <<>>
    PROVE  /\ Head(s) \in Elements(s) /\ Tail(s) \in Seq(S) /\ Distinct(Tail(s))
           /\ Elements(Tail(s)) = Elements(s) \ {Head(s)}
<1>1. PICK n \in Nat : n = Len(s) /\ n # 0
  OBVIOUS
<1>2. PICK t : t = Tail(s) /\ t \in Seq(S)
  <2>1. Tail(s) \in Seq(S)
    OBVIOUS
  <2> QED
    BY <2>1
<1>3. Len(t) = n - 1 /\ \A k \in 1..(n - 1) : t[k] = s[k + 1]
  BY <1>1, <1>2
<1>4. Head(s) = s[1] /\ 1 \in 1..n
  BY <1>1
<1>5. Distinct(t)
  <2> SUFFICES ASSUME NEW k \in 1..(n - 1), NEW l \in 1..(n - 1), t[k] = t[l]
               PROVE  k = l
    BY <1>3 DEF Distinct
  <2>1. k + 1 \in 1..n /\ l + 1 \in 1..n /\ s[k + 1] = s[l + 1]
    BY <1>3
  <2>2. k + 1 = l + 1
    BY <1>1, <2>1 DEF Distinct
  <2> QED
    BY <2>2
<1>6. ASSUME NEW x \in Elements(t) PROVE x \in Elements(s) /\ x # s[1]
  <2>1. PICK k \in 1..(n - 1) : x = t[k]
    BY <1>3 DEF Elements
  <2>2. k + 1 \in 1..n /\ k + 1 # 1 /\ x = s[k + 1]
    BY <1>3, <2>1
  <2>3. x # s[1]
    BY <1>1, <1>4, <2>2 DEF Distinct
  <2> QED
    BY <1>1, <2>2, <2>3 DEF Elements
<1>7. ASSUME NEW x \in Elements(s), x # s[1] PROVE x \in Elements(t)
  <2>1. PICK k \in 1..n : x = s[k]
    BY <1>1 DEF Elements
  <2>2. k - 1 \in 1..(n - 1) /\ (k - 1) + 1 = k
    BY <1>7, <2>1
  <2>3. t[k - 1] = x
    BY <1>3, <2>1, <2>2
  <2> QED
    BY <1>3, <2>2, <2>3 DEF Elements
<1>8. s[1] \in Elements(s)
  BY <1>1, <1>4 DEF Elements
<1> QED
  BY <1>2, <1>4, <1>5, <1>6, <1>7, <1>8

\* RemoveAt and InsertAt, element by element.
Shortened(s, t, i) ==
    /\ Len(t) = Len(s) - 1
    /\ \A k \in 1..(Len(s) - 1) : t[k] = IF k < i THEN s[k] ELSE s[k + 1]

LEMMA Removed ==
    ASSUME NEW S, NEW s \in Seq(S), NEW i \in 1..Len(s)
    PROVE  RemoveAt(s, i) \in Seq(S) /\ Shortened(s, RemoveAt(s, i), i)
<1>1. PICK n \in Nat : n = Len(s) /\ i \in 1..n
  OBVIOUS
<1>2. PICK a : a = SubSeq(s, 1, i - 1) /\ a \in Seq(S)
  <2>1. SubSeq(s, 1, i - 1) \in Seq(S)
    BY <1>1
  <2> QED
    BY <2>1
<1>3. PICK b : b = SubSeq(s, i + 1, n) /\ b \in Seq(S)
  <2>1. SubSeq(s, i + 1, n) \in Seq(S)
    BY <1>1
  <2> QED
    BY <2>1
<1>4. Len(a) = i - 1 /\ \A k \in 1..(i - 1) : a[k] = s[k]
  BY <1>1, <1>2
<1>5. Len(b) = n - i /\ \A k \in 1..(n - i) : b[k] = s[i + k]
  BY <1>1, <1>3
<1>6. PICK r : r = a \o b /\ r \in Seq(S)
  <2>1. a \o b \in Seq(S)
    BY <1>2, <1>3
  <2> QED
    BY <2>1
<1>7. RemoveAt(s, i) = r
  BY <1>1, <1>2, <1>3, <1>6 DEF RemoveAt
<1>8. Len(r) = n - 1
  BY <1>1, <1>4, <1>5, <1>6
<1>9. ASSUME NEW k \in 1..(n - 1)
      PROVE  r[k] = IF k < i THEN s[k] ELSE s[k + 1]
  <2>1. CASE k < i
    <3>1. k \in 1..(i - 1)
      BY <2>1
    <3>2. r[k] = a[k]
      BY <1>4, <1>6, <3>1
    <3> QED
      BY <1>4, <2>1, <3>1, <3>2
  <2>2. CASE ~(k < i)
    <3>1. k - (i - 1) \in 1..(n - i) /\ i + (k - (i - 1)) = k + 1
      BY <1>1, <2>2
    <3>2. r[k] = b[k - (i - 1)]
      BY <1>4, <1>5, <1>6, <2>2, <3>1
    <3> QED
      BY <1>5, <2>2, <3>1, <3>2
  <2> QED
    BY <2>1, <2>2
<1> QED
  BY <1>1, <1>6, <1>7, <1>8, <1>9 DEF Shortened

LEMMA Inserted ==
    ASSUME NEW S, NEW s \in Seq(S), NEW i \in 1..(Len(s) + 1), NEW e \in S
    PROVE  /\ InsertAt(s, i, e) \in Seq(S) /\ Len(InsertAt(s, i, e)) = Len(s) + 1
           /\ \A k \in 1..(Len(s) + 1) :
                InsertAt(s, i, e)[k] = IF k < i THEN s[k] ELSE IF k = i THEN e ELSE s[k - 1]
<1>1. PICK n \in Nat : n = Len(s) /\ i \in 1..(n + 1)
  OBVIOUS
<1>2. PICK a : a = SubSeq(s, 1, i - 1) /\ a \in Seq(S)
  <2>1. SubSeq(s, 1, i - 1) \in Seq(S)
    BY <1>1
  <2> QED
    BY <2>1
<1>3. PICK b : b = SubSeq(s, i, n) /\ b \in Seq(S)
  <2>1. SubSeq(s, i, n) \in Seq(S)
    BY <1>1
  <2> QED
    BY <2>1
<1>4. Len(a) = i - 1 /\ \A k \in 1..(i - 1) : a[k] = s[k]
  BY <1>1, <1>2
<1>5. Len(b) = n - i + 1 /\ \A k \in 1..(n - i + 1) : b[k] = s[i + k - 1]
  BY <1>1, <1>3
<1>6. PICK d : d = a \o <<e>> /\ d \in Seq(S)
  <2>1. a \o <<e>> \in Seq(S)
    BY <1>2
  <2> QED
    BY <2>1
<1>7. Len(d) = i /\ d[i] = e /\ \A k \in 1..(i - 1) : d[k] = a[k]
  BY <1>1, <1>4, <1>6
<1>8. PICK r : r = d \o b /\ r \in Seq(S)
  <2>1. d \o b \in Seq(S)
    BY <1>3, <1>6
  <2> QED
    BY <2>1
<1>9. InsertAt(s, i, e) = r
  BY <1>1, <1>2, <1>3, <1>6, <1>8 DEF InsertAt
<1>10. Len(r) = n + 1
  BY <1>1, <1>5, <1>7, <1>8
<1>11. ASSUME NEW k \in 1..(n + 1)
       PROVE  r[k] = IF k < i THEN s[k] ELSE IF k = i THEN e ELSE s[k - 1]
  <2>1. CASE k <= i
    <3>1. k \in 1..i /\ (k < i => k \in 1..(i - 1))
      BY <2>1
    <3>2. r[k] = d[k]
      BY <1>7, <1>8, <3>1
    <3> QED
      BY <1>4, <1>7, <2>1, <3>1, <3>2
  <2>2. CASE ~(k <= i)
    <3>1. k - i \in 1..(n - i + 1) /\ i + (k - i) - 1 = k - 1 /\ ~(k < i) /\ k # i
      BY <1>1, <2>2
    <3>2. r[k] = b[k - i]
      BY <1>5, <1>7, <1>8, <2>2, <3>1
    <3> QED
      BY <1>5, <3>1, <3>2
  <2> QED
    BY <2>1, <2>2
<1> QED
  BY <1>1, <1>8, <1>9, <1>10, <1>11

-----------------------------------------------------------------------------
(* Small objects. *)

\* An object is in the page its address says, whose header has its class.
LEMMA PieceInPage ==
    ASSUME NEW class, class \in [DOMAIN class -> Class], DOMAIN class \subseteq 1..Pages,
           NEW o \in Pieces(class)
    PROVE  /\ o \in Nat \ {0} /\ o \div PageSize \in DOMAIN class
           /\ Kind(class, o) \in Class
           /\ o \in Cut(o \div PageSize, Kind(class, o))
<1>1. PICK p \in DOMAIN class : o \in Cut(p, class[p])
  BY DEF Pieces
<1>2. p \in Nat \ {0} /\ class[p] \in Class
  BY WindowAssumption
<1>3. o \in Nat \ {0} /\ o \div PageSize = p
  BY <1>1, <1>2, PageCut
<1> QED
  BY <1>1, <1>2, <1>3 DEF Kind

\* kfree puts a small object in front of the list of its class.
LEMMA Pushed ==
    ASSUME NEW class, NEW lists, NEW K, Kept(class, lists, K), NEW o \in K
    PROVE  Kept(class, [lists EXCEPT ![Kind(class, o)] = <<o>> \o @], K \ {o})
<1>1. PICK c : c = Kind(class, o)
  OBVIOUS
<1>2. o \in Pieces(class) /\ o \in Nat /\ c \in Class
  BY <1>1, PieceInPage DEF Kept
<1>3. lists[c] \in Seq(Nat) /\ Distinct(lists[c]) /\ o \notin Elements(lists[c])
  BY <1>2 DEF Kept
<1>4. PICK s : s = <<o>> \o lists[c]
  OBVIOUS
<1>5. s \in Seq(Nat) /\ Distinct(s) /\ Elements(s) = {o} \cup Elements(lists[c])
  <2>1. <<o>> \in Seq(Nat) /\ Distinct(<<o>>) /\ Elements(<<o>>) = {o}
    BY <1>2, Singleton
  <2>2. PICK a, b : a = <<o>> /\ b = lists[c]
    OBVIOUS
  <2>3. /\ a \in Seq(Nat) /\ b \in Seq(Nat) /\ Distinct(a) /\ Distinct(b)
        /\ Elements(a) \cap Elements(b) = {}
    BY <1>3, <2>1, <2>2
  <2>4. a \o b \in Seq(Nat) /\ Distinct(a \o b) /\ Elements(a \o b) = Elements(a) \cup Elements(b)
    BY <2>3, Joined
  <2> QED
    BY <1>4, <2>1, <2>2, <2>4
<1>6. PICK new : new = [lists EXCEPT ![c] = s]
  OBVIOUS
<1>7. /\ new \in [Class -> Seq(Nat)]
      /\ \A d \in Class : new[d] = IF d = c THEN s ELSE lists[d]
  BY <1>2, <1>5, <1>6 DEF Kept
<1>8. \A d \in Class : Distinct(new[d])
  BY <1>5, <1>7 DEF Kept
<1>9. ASSUME NEW d \in Class, NEW q \in Elements(new[d])
      PROVE  q \in Pieces(class) /\ Kind(class, q) = d /\ q \notin K \ {o}
  <2>1. CASE q = o
    <3>1. d = c
      BY <1>2, <1>7, <1>9, <2>1 DEF Kept
    <3> QED
      BY <1>1, <1>2, <2>1, <3>1
  <2>2. CASE q # o
    <3>1. q \in Elements(lists[d])
      BY <1>5, <1>7, <1>9, <2>2
    <3> QED
      BY <3>1 DEF Kept
  <2> QED
    BY <2>1, <2>2
<1>10. ASSUME NEW q \in Pieces(class), q \notin K \ {o}
       PROVE  q \in Elements(new[Kind(class, q)])
  <2>1. Kind(class, q) \in Class
    BY PieceInPage DEF Kept
  <2>2. CASE q = o
    BY <1>1, <1>2, <1>5, <1>7, <2>2
  <2>3. CASE q # o
    <3>1. q \in Elements(lists[Kind(class, q)])
      BY <1>10, <2>3 DEF Kept
    <3> QED
      BY <1>5, <1>7, <2>1, <3>1
  <2> QED
    BY <2>2, <2>3
<1>11. Kept(class, new, K \ {o})
  BY <1>7, <1>8, <1>9, <1>10 DEF Kept
<1> QED
  BY <1>1, <1>4, <1>6, <1>11

\* small_alloc takes the first object of the list.
LEMMA Taken ==
    ASSUME NEW class, NEW lists, NEW K, Kept(class, lists, K),
           NEW c \in Class, lists[c] # <<>>
    PROVE  /\ Kept(class, [lists EXCEPT ![c] = Tail(@)], K \cup {Head(lists[c])})
           /\ Head(lists[c]) \notin K /\ Head(lists[c]) \in Pieces(class)
           /\ Kind(class, Head(lists[c])) = c
<1>1. lists[c] \in Seq(Nat) /\ Distinct(lists[c])
  BY DEF Kept
<1>2. PICK o, s : o = Head(lists[c]) /\ s = Tail(lists[c])
  OBVIOUS
<1>3. /\ o \in Elements(lists[c]) /\ s \in Seq(Nat) /\ Distinct(s)
      /\ Elements(s) = Elements(lists[c]) \ {o}
  BY <1>1, <1>2, Popped
<1>4. o \notin K /\ o \in Pieces(class) /\ Kind(class, o) = c
  BY <1>3 DEF Kept
<1>5. PICK new : new = [lists EXCEPT ![c] = s]
  OBVIOUS
<1>6. /\ new \in [Class -> Seq(Nat)]
      /\ \A d \in Class : new[d] = IF d = c THEN s ELSE lists[d]
  BY <1>3, <1>5 DEF Kept
<1>7. \A d \in Class : Distinct(new[d])
  BY <1>3, <1>6 DEF Kept
<1>8. ASSUME NEW d \in Class, NEW q \in Elements(new[d])
      PROVE  q \in Pieces(class) /\ Kind(class, q) = d /\ q \notin K \cup {o}
  <2>1. q \in Elements(lists[d])
    BY <1>3, <1>6, <1>8
  <2>2. q \in Pieces(class) /\ Kind(class, q) = d /\ q \notin K
    BY <2>1 DEF Kept
  <2>3. q # o
    BY <1>3, <1>4, <1>6, <1>8, <2>2
  <2> QED
    BY <2>2, <2>3
<1>9. ASSUME NEW q \in Pieces(class), q \notin K \cup {o}
      PROVE  q \in Elements(new[Kind(class, q)])
  <2>1. Kind(class, q) \in Class
    BY PieceInPage DEF Kept
  <2>2. q \in Elements(lists[Kind(class, q)])
    BY <1>9 DEF Kept
  <2> QED
    BY <1>3, <1>6, <1>9, <2>1, <2>2
<1>10. K \cup {o} \subseteq Pieces(class)
  BY <1>4 DEF Kept
<1>11. Kept(class, new, K \cup {o})
  BY <1>6, <1>7, <1>8, <1>9, <1>10 DEF Kept
<1> QED
  BY <1>2, <1>4, <1>5, <1>11

\* A page that is given to a class adds its objects and changes nothing of the others.
LEMMA PieceAdded ==
    ASSUME NEW class, class \in [DOMAIN class -> Class], DOMAIN class \subseteq 1..Pages,
           NEW p \in 1..Pages, p \notin DOMAIN class, NEW c \in Class
    PROVE  /\ With(class, p, c) \in [DOMAIN class \cup {p} -> Class]
           /\ DOMAIN With(class, p, c) = DOMAIN class \cup {p}
           /\ \A q \in DOMAIN class : With(class, p, c)[q] = class[q]
           /\ Pieces(With(class, p, c)) = Pieces(class) \cup Cut(p, c)
           /\ \A o \in Pieces(class) : Kind(With(class, p, c), o) = Kind(class, o) /\ o \notin Cut(p, c)
           /\ \A o \in Cut(p, c) : Kind(With(class, p, c), o) = c
<1>1. PICK new : new = With(class, p, c)
  OBVIOUS
<1>2. /\ new \in [DOMAIN class \cup {p} -> Class] /\ DOMAIN new = DOMAIN class \cup {p}
      /\ new[p] = c /\ \A q \in DOMAIN class : new[q] = class[q]
  BY <1>1 DEF With
<1>3. p \in Nat \ {0}
  BY WindowAssumption
<1>4. \A o \in Cut(p, c) : o \div PageSize = p
  BY <1>3, PageCut
<1>5. ASSUME NEW o \in Pieces(class)
      PROVE  Kind(new, o) = Kind(class, o) /\ o \notin Cut(p, c)
  <2>1. o \div PageSize \in DOMAIN class
    BY PieceInPage
  <2> QED
    BY <1>2, <1>4, <2>1 DEF Kind
<1>6. \A o \in Cut(p, c) : Kind(new, o) = c
  BY <1>2, <1>4 DEF Kind
<1>7. Pieces(new) = Pieces(class) \cup Cut(p, c)
  BY <1>2 DEF Pieces
<1> QED
  BY <1>1, <1>2, <1>5, <1>6, <1>7

\* refill
LEMMA Refilled ==
    ASSUME NEW class, NEW lists, NEW K, Kept(class, lists, K),
           NEW p \in 1..Pages, p \notin DOMAIN class, NEW c \in Class
    PROVE  /\ Kept(With(class, p, c), [lists EXCEPT ![c] = Objects(p, c) \o @], K)
           /\ Objects(p, c) \o lists[c] # <<>>
<1>1. class \in [DOMAIN class -> Class] /\ DOMAIN class \subseteq 1..Pages
  BY DEF Kept
<1>2. p \in Nat \ {0}
  BY WindowAssumption
<1>3. PICK t : t = Objects(p, c)
  OBVIOUS
<1>4. t \in Seq(Nat) /\ Distinct(t) /\ t # <<>> /\ Cut(p, c) = Elements(t)
  BY <1>2, <1>3, PageCut
<1>5. PICK more : more = With(class, p, c)
  OBVIOUS
<1>6. /\ more \in [DOMAIN more -> Class] /\ DOMAIN more \subseteq 1..Pages
      /\ Pieces(more) = Pieces(class) \cup Elements(t)
      /\ \A o \in Pieces(class) : Kind(more, o) = Kind(class, o) /\ o \notin Elements(t)
      /\ \A o \in Elements(t) : Kind(more, o) = c
  <2>1. /\ more \in [DOMAIN class \cup {p} -> Class] /\ DOMAIN more = DOMAIN class \cup {p}
        /\ Pieces(more) = Pieces(class) \cup Cut(p, c)
        /\ \A o \in Pieces(class) : Kind(more, o) = Kind(class, o) /\ o \notin Cut(p, c)
        /\ \A o \in Cut(p, c) : Kind(more, o) = c
    BY <1>1, <1>5, PieceAdded
  <2> QED
    BY <1>1, <1>4, <2>1
<1>7. lists[c] \in Seq(Nat) /\ Distinct(lists[c]) /\ Elements(t) \cap Elements(lists[c]) = {}
  BY <1>6 DEF Kept
<1>8. PICK s : s = t \o lists[c]
  OBVIOUS
<1>9. s \in Seq(Nat) /\ Distinct(s) /\ Elements(s) = Elements(t) \cup Elements(lists[c])
  BY <1>4, <1>7, <1>8, Joined
<1>10. PICK new : new = [lists EXCEPT ![c] = s]
  OBVIOUS
<1>11. /\ new \in [Class -> Seq(Nat)]
       /\ \A d \in Class : new[d] = IF d = c THEN s ELSE lists[d]
  BY <1>9, <1>10 DEF Kept
<1>12. \A d \in Class : Distinct(new[d])
  BY <1>9, <1>11 DEF Kept
<1>13. ASSUME NEW d \in Class, NEW q \in Elements(new[d])
       PROVE  q \in Pieces(more) /\ Kind(more, q) = d /\ q \notin K
  <2>1. CASE q \in Elements(lists[d])
    BY <1>6, <2>1 DEF Kept
  <2>2. CASE q \notin Elements(lists[d])
    <3>1. d = c /\ q \in Elements(t)
      BY <1>9, <1>11, <1>13, <2>2
    <3>2. q \notin Pieces(class)
      BY <1>6, <3>1
    <3> QED
      BY <1>6, <3>1, <3>2 DEF Kept
  <2> QED
    BY <2>1, <2>2
<1>14. ASSUME NEW q \in Pieces(more), q \notin K
       PROVE  q \in Elements(new[Kind(more, q)])
  <2>1. CASE q \in Elements(t)
    BY <1>6, <1>9, <1>11, <2>1
  <2>2. CASE q \in Pieces(class)
    <3>1. Kind(class, q) \in Class
      BY <1>1, <2>2, PieceInPage
    <3>2. q \in Elements(lists[Kind(class, q)])
      BY <1>14, <2>2 DEF Kept
    <3> QED
      BY <1>6, <1>9, <1>11, <2>2, <3>1, <3>2
  <2> QED
    BY <1>6, <2>1, <2>2
<1>15. Kept(more, new, K)
  BY <1>6, <1>11, <1>12, <1>13, <1>14 DEF Kept
<1>16. s # <<>>
  BY <1>4, <1>7, <1>8
<1> QED
  BY <1>3, <1>5, <1>8, <1>10, <1>15, <1>16

\* What the calls for small objects leave alone.
Grown(h, g) == \A p \in DOMAIN h.class : p \in DOMAIN g.class /\ g.class[p] = h.class[p]
SameWindow(h, g) ==
    /\ g.free_ranges = h.free_ranges /\ g.window_next = h.window_next /\ g.lost = h.lost
    /\ g.pages = h.pages /\ g.pte = h.pte /\ g.table = h.table

LEMMA SmallFree ==
    ASSUME NEW h, NEW L, NEW O, NEW T, NEW M, Good(h, L, O, T, M), NEW o \in L
    PROVE  /\ Good(small_free(h, o), L \ {o}, O, T, M)
           /\ SameWindow(h, small_free(h, o))
           /\ small_free(h, o).class = h.class /\ small_free(h, o).free = h.free
<1>1. PICK g : g = small_free(h, o)
  OBVIOUS
<1>2. Shape(h)
  BY DEF Good
<1>3. /\ Shape(g) /\ SameWindow(h, g) /\ g.class = h.class /\ g.free = h.free
      /\ g.free_objects = [h.free_objects EXCEPT ![Kind(h.class, o)] = <<o>> \o @]
  BY <1>1, <1>2 DEF small_free, Shape, SameWindow, Kind
<1>4. PICK K : K = Structs(h.free_ranges) \cup L
  OBVIOUS
<1>5. Kept(h.class, h.free_objects, K) /\ o \in K
  BY <1>4 DEF Good
<1>6. Kept(h.class, g.free_objects, K \ {o})
  BY <1>3, <1>5, Pushed
<1>7. K \ {o} = Structs(h.free_ranges) \cup (L \ {o})
  BY <1>4 DEF Good, Structured
<1>8. Structured(h.class, h.free_ranges, L \ {o})
  BY DEF Good, Structured
<1>9. Good(g, L \ {o}, O, T, M)
  BY <1>3, <1>6, <1>7, <1>8 DEF Good, SameWindow
<1> QED
  BY <1>1, <1>3, <1>9

\* The structs of ranges stay what they are when pages are added.
LEMMA StructsStay ==
    ASSUME NEW class, NEW more, NEW ranges, NEW L,
           \A o \in Structs(ranges) : Kind(more, o) = Kind(class, o),
           Structured(class, ranges, L)
    PROVE  Structured(more, ranges, L)
BY DEF Structured

LEMMA Refill ==
    ASSUME NEW h, NEW L, NEW O, NEW T, NEW M, Good(h, L, O, T, M), NEW c \in Class,
           h.free # {}
    PROVE  /\ Good(refill(h, c), L, O, T, M)
           /\ SameWindow(h, refill(h, c)) /\ Grown(h, refill(h, c))
           /\ refill(h, c).free_objects[c] # <<>>
<1>1. PICK g, p : g = refill(h, c) /\ p = Lowest(h.free)
  OBVIOUS
<1>2. Shape(h) /\ Divided(h.free, DOMAIN h.class, h.table, h.pte, O)
  BY DEF Good
<1>3. p \in h.free /\ p \in 1..Pages /\ p \notin DOMAIN h.class
  <2>1. h.free \subseteq Nat
    BY <1>2, WindowAssumption DEF Divided
  <2>2. p \in h.free
    BY <1>1, <2>1, LowestIn
  <2> QED
    BY <1>2, <2>2 DEF Divided
<1>4. /\ Shape(g) /\ SameWindow(h, g)
      /\ g.free = h.free \ {p} /\ g.class = With(h.class, p, c)
      /\ g.free_objects = [h.free_objects EXCEPT ![c] = Objects(p, c) \o @]
  BY <1>1, <1>2 DEF refill, Shape, SameWindow
<1>5. PICK K : K = Structs(h.free_ranges) \cup L
  OBVIOUS
<1>6. Kept(h.class, h.free_objects, K)
  BY <1>5 DEF Good
<1>7. Kept(g.class, g.free_objects, K) /\ Objects(p, c) \o h.free_objects[c] # <<>>
  <2>1. PICK class, lists : class = h.class /\ lists = h.free_objects
    OBVIOUS
  <2>2. Kept(class, lists, K) /\ p \notin DOMAIN class
    BY <1>3, <1>6, <2>1
  <2>3. /\ Kept(With(class, p, c), [lists EXCEPT ![c] = Objects(p, c) \o @], K)
        /\ Objects(p, c) \o lists[c] # <<>>
    BY <1>3, <2>2, Refilled
  <2> QED
    BY <1>4, <2>1, <2>3
<1>8. g.free_objects[c] # <<>>
  BY <1>4, <1>6, <1>7 DEF Kept
<1>9. /\ DOMAIN g.class = DOMAIN h.class \cup {p}
      /\ \A q \in DOMAIN h.class : g.class[q] = h.class[q]
      /\ \A o \in Pieces(h.class) : Kind(g.class, o) = Kind(h.class, o)
  <2>1. PICK class : class = h.class
    OBVIOUS
  <2>2. class \in [DOMAIN class -> Class] /\ DOMAIN class \subseteq 1..Pages
    BY <1>6, <2>1 DEF Kept
  <2>3. p \notin DOMAIN class
    BY <1>3, <2>1
  <2>4. /\ DOMAIN With(class, p, c) = DOMAIN class \cup {p}
        /\ \A q \in DOMAIN class : With(class, p, c)[q] = class[q]
        /\ \A o \in Pieces(class) : Kind(With(class, p, c), o) = Kind(class, o) /\ o \notin Cut(p, c)
    BY <1>3, <2>2, <2>3, PieceAdded
  <2> QED
    BY <1>4, <2>1, <2>4
<1>10. Structured(g.class, h.free_ranges, L)
  <2>1. \A o \in Structs(h.free_ranges) : Kind(g.class, o) = Kind(h.class, o)
    BY <1>5, <1>6, <1>9 DEF Kept
  <2>2. Structured(h.class, h.free_ranges, L)
    BY DEF Good
  <2> QED
    BY <2>1, <2>2, StructsStay
<1>11. Divided(g.free, DOMAIN g.class, g.table, g.pte, O)
  <2>1. PICK small : small = DOMAIN h.class
    OBVIOUS
  <2>2. Divided(h.free \ {p}, small \cup {p}, h.table, h.pte, O)
    BY <1>2, <1>3, <2>1 DEF Divided
  <2> QED
    BY <1>4, <1>9, <2>1, <2>2 DEF SameWindow
<1>12. Good(g, L, O, T, M)
  BY <1>4, <1>5, <1>7, <1>10, <1>11 DEF Good, SameWindow
<1>13. Grown(h, g)
  BY <1>9 DEF Grown
<1> QED
  BY <1>1, <1>4, <1>8, <1>12, <1>13

\* small_alloc takes an object that nobody has, and fails only without free pages.
SmallTaken(h, r, c, L, O, T, M) ==
    /\ r.ptr = 0 => r.heap = h /\ h.free = {}
    /\ r.ptr # 0 => /\ Good(r.heap, L \cup {r.ptr}, O, T, M)
                    /\ r.ptr \notin L /\ r.ptr \notin Structs(h.free_ranges)
                    /\ r.ptr \in Nat /\ r.ptr \div PageSize \in DOMAIN r.heap.class
                    /\ Kind(r.heap.class, r.ptr) = c
    /\ SameWindow(h, r.heap) /\ Grown(h, r.heap)

LEMMA SmallAlloc ==
    ASSUME NEW h, NEW L, NEW O, NEW T, NEW M, Good(h, L, O, T, M), NEW c \in Class,
           NEW r, r = small_alloc(h, c)
    PROVE  SmallTaken(h, r, c, L, O, T, M)
<1> USE DEF SmallTaken
<1>1. CASE h.free_objects[c] = <<>> /\ h.free = {}
  <2>1. r.heap = h /\ r.ptr = 0
    BY <1>1 DEF small_alloc, Result
  <2> QED
    BY <1>1, <2>1 DEF SameWindow, Grown
<1>2. CASE ~(h.free_objects[c] = <<>> /\ h.free = {})
  <2>1. PICK g : g = IF h.free_objects[c] = <<>> THEN refill(h, c) ELSE h
    OBVIOUS
  <2>2. Good(g, L, O, T, M) /\ SameWindow(h, g) /\ Grown(h, g) /\ g.free_objects[c] # <<>>
    <3>1. CASE h.free_objects[c] = <<>>
      BY <1>2, <2>1, <3>1, Refill
    <3>2. CASE h.free_objects[c] # <<>>
      BY <2>1, <3>2 DEF SameWindow, Grown
    <3> QED
      BY <3>1, <3>2
  <2>3. PICK o : o = Head(g.free_objects[c])
    OBVIOUS
  <2>4. r.ptr = o /\ r.heap = [g EXCEPT !.free_objects[c] = Tail(@)]
    BY <1>2, <2>1, <2>3 DEF small_alloc, Result
  <2>5. PICK n : n = r.heap
    OBVIOUS
  <2>6. Shape(g)
    BY <2>2 DEF Good
  <2>7. /\ Shape(n) /\ SameWindow(g, n) /\ n.class = g.class /\ n.free = g.free
        /\ n.free_objects = [g.free_objects EXCEPT ![c] = Tail(@)]
    BY <2>4, <2>5, <2>6 DEF Shape, SameWindow
  <2>8. PICK K : K = Structs(g.free_ranges) \cup L
    OBVIOUS
  <2>9. Kept(g.class, g.free_objects, K)
    BY <2>2, <2>8 DEF Good
  <2>10. /\ Kept(g.class, n.free_objects, K \cup {o}) /\ o \notin K
         /\ o \in Pieces(g.class) /\ Kind(g.class, o) = c
    <3>1. PICK class, lists : class = g.class /\ lists = g.free_objects
      OBVIOUS
    <3>2. Kept(class, lists, K) /\ lists[c] # <<>>
      BY <2>2, <2>9, <3>1
    <3>3. /\ Kept(class, [lists EXCEPT ![c] = Tail(@)], K \cup {Head(lists[c])})
          /\ Head(lists[c]) \notin K /\ Head(lists[c]) \in Pieces(class)
          /\ Kind(class, Head(lists[c])) = c
      BY <3>2, Taken
    <3> QED
      BY <2>3, <2>7, <3>1, <3>3
  <2>11. o \in Nat \ {0} /\ o \div PageSize \in DOMAIN g.class
    BY <2>9, <2>10, PieceInPage DEF Kept
  <2>12. Structured(g.class, g.free_ranges, L \cup {o})
    BY <2>2, <2>8, <2>10 DEF Good, Structured
  <2>13. K \cup {o} = Structs(g.free_ranges) \cup (L \cup {o})
    BY <2>8
  <2>14. Good(n, L \cup {o}, O, T, M)
    BY <2>2, <2>7, <2>10, <2>12, <2>13 DEF Good, SameWindow
  <2>15. SameWindow(h, n) /\ Grown(h, n)
    BY <2>2, <2>7 DEF SameWindow, Grown
  <2> QED
    BY <2>2, <2>4, <2>5, <2>7, <2>8, <2>10, <2>11, <2>14, <2>15 DEF SameWindow
<1> QED
  BY <1>1, <1>2

-----------------------------------------------------------------------------
(* The list of free ranges. *)

LEMMA SpanIs ==
    ASSUME NEW b \in Nat, NEW n \in Nat, NEW x
    PROVE  x \in Span(b, n) <=> x \in Nat /\ b <= x /\ x < b + n
BY DEF Span

LEMMA RangeFields ==
    ASSUME NEW s, Ordered(s), NEW i \in 1..Len(s)
    PROVE  s[i] \in RangeStruct /\ s[i].base \in Nat /\ s[i].pages \in Nat \ {0} /\ s[i].at \in Nat
<1>1. s \in Seq(RangeStruct)
  BY DEF Ordered
<1>2. s[i] \in RangeStruct
  BY <1>1
<1> QED
  BY <1>2 DEF RangeStruct

LEMMA InFreeSpace ==
    ASSUME NEW s, Ordered(s), NEW x
    PROVE  x \in FreeSpace(s) <=>
              x \in Nat /\ \E i \in 1..Len(s) : s[i].base <= x /\ x < s[i].base + s[i].pages
<1>1. \A i \in 1..Len(s) : s[i].base \in Nat /\ s[i].pages \in Nat
  BY RangeFields
<1> QED
  BY <1>1, SMTT(40) DEF FreeSpace, Span

\* Ranges have no page in common.
LEMMA RangesApart ==
    ASSUME NEW s, Ordered(s), NEW i \in 1..Len(s), NEW j \in 1..Len(s), i # j, NEW x \in Nat,
           s[i].base <= x, x < s[i].base + s[i].pages
    PROVE  ~(s[j].base <= x /\ x < s[j].base + s[j].pages)
<1>1. s[i].base \in Nat /\ s[i].pages \in Nat /\ s[j].base \in Nat /\ s[j].pages \in Nat
  BY RangeFields
<1>2. Len(s) \in Nat
  BY DEF Ordered
<1>3. i < j \/ j < i
  BY <1>2
<1>4. CASE i < j
  <2>1. s[i].base + s[i].pages < s[j].base
    BY <1>4 DEF Ordered
  <2> QED
    BY <1>1, <2>1
<1>5. CASE j < i
  <2>1. s[j].base + s[j].pages < s[i].base
    BY <1>5 DEF Ordered
  <2> QED
    BY <1>1, <2>1
<1> QED
  BY <1>3, <1>4, <1>5

\* The ranges before i end below x, those from i on begin above it.
EndBelow(s, i, x) == \A j \in 1..Len(s) : j < i => s[j].base + s[j].pages < x
BeginAbove(s, i, x) == \A j \in 1..Len(s) : i <= j => x < s[j].base

\* A range that becomes larger or smaller.
Resized(s, t, i, e) ==
    /\ Ordered(t) /\ Len(t) = Len(s) /\ \A j \in 1..Len(s) : t[j].at = s[j].at
    /\ FreeSpace(t) = (FreeSpace(s) \ Span(s[i].base, s[i].pages)) \cup Span(e.base, e.pages)

LEMMA RangeReplaced ==
    ASSUME NEW s, Ordered(s), NEW i \in 1..Len(s), NEW e \in RangeStruct, e.at = s[i].at,
           EndBelow(s, i, e.base), BeginAbove(s, i + 1, e.base + e.pages),
           NEW t, t = [s EXCEPT ![i] = e]
    PROVE  Resized(s, t, i, e)
<1>1. s \in Seq(RangeStruct) /\ Len(s) \in Nat
  BY DEF Ordered
<1>2. /\ t \in Seq(RangeStruct) /\ Len(t) = Len(s)
      /\ \A j \in 1..Len(s) : t[j] = IF j = i THEN e ELSE s[j]
  BY <1>1
<1>3. Ordered(t)
  <2> SUFFICES ASSUME NEW j \in 1..Len(s), NEW k \in 1..Len(s), j < k
               PROVE  t[j].base + t[j].pages < t[k].base
    BY <1>2 DEF Ordered
  <2>1. CASE j = i
    BY <1>2, <2>1 DEF BeginAbove
  <2>2. CASE k = i
    BY <1>2, <2>2 DEF EndBelow
  <2>3. CASE j # i /\ k # i
    BY <1>2, <2>3 DEF Ordered
  <2> QED
    BY <2>1, <2>2, <2>3
<1>4. \A j \in 1..Len(s) : t[j].at = s[j].at
  BY <1>2
<1>5. e.base \in Nat /\ e.pages \in Nat /\ s[i].base \in Nat /\ s[i].pages \in Nat
  BY RangeFields DEF RangeStruct
<1>6. ASSUME NEW x
      PROVE  x \in FreeSpace(t) <=>
                \/ x \in FreeSpace(s) /\ x \notin Span(s[i].base, s[i].pages)
                \/ x \in Span(e.base, e.pages)
  <2>1. x \in Span(e.base, e.pages) <=> x \in Nat /\ e.base <= x /\ x < e.base + e.pages
    BY <1>5, SpanIs
  <2>2. x \in Span(s[i].base, s[i].pages) <=> x \in Nat /\ s[i].base <= x /\ x < s[i].base + s[i].pages
    BY <1>5, SpanIs
  <2>3. x \in FreeSpace(t) <=>
            x \in Nat /\ \E j \in 1..Len(s) : t[j].base <= x /\ x < t[j].base + t[j].pages
    BY <1>2, <1>3, InFreeSpace
  <2>4. x \in FreeSpace(s) <=>
            x \in Nat /\ \E j \in 1..Len(s) : s[j].base <= x /\ x < s[j].base + s[j].pages
    BY InFreeSpace
  <2>5. ASSUME x \in FreeSpace(t), x \notin Span(e.base, e.pages)
        PROVE  x \in FreeSpace(s) /\ x \notin Span(s[i].base, s[i].pages)
    <3>1. PICK j \in 1..Len(s) : t[j].base <= x /\ x < t[j].base + t[j].pages
      BY <2>3, <2>5
    <3>2. x \in Nat /\ j # i /\ s[j].base <= x /\ x < s[j].base + s[j].pages
      BY <1>2, <2>1, <2>3, <2>5, <3>1
    <3>3. ~(s[i].base <= x /\ x < s[i].base + s[i].pages)
      BY <3>2, RangesApart
    <3> QED
      BY <2>2, <2>4, <3>2, <3>3
  <2>6. ASSUME x \in FreeSpace(s), x \notin Span(s[i].base, s[i].pages)
        PROVE  x \in FreeSpace(t)
    <3>1. PICK j \in 1..Len(s) : s[j].base <= x /\ x < s[j].base + s[j].pages
      BY <2>4, <2>6
    <3>2. j # i /\ t[j] = s[j]
      BY <1>2, <2>2, <2>4, <2>6, <3>1
    <3> QED
      BY <2>3, <2>4, <2>6, <3>1, <3>2
  <2>7. ASSUME x \in Span(e.base, e.pages) PROVE x \in FreeSpace(t)
    <3>1. t[i] = e
      BY <1>2
    <3> QED
      BY <2>1, <2>3, <2>7, <3>1
  <2> QED
    BY <2>5, <2>6, <2>7
<1>7. FreeSpace(t) = (FreeSpace(s) \ Span(s[i].base, s[i].pages)) \cup Span(e.base, e.pages)
  BY <1>6
<1> QED
  BY <1>2, <1>3, <1>4, <1>7 DEF Resized

\* A range that is used up.
LEMMA RangeRemoved ==
    ASSUME NEW s, Ordered(s), NEW i \in 1..Len(s), NEW t, t = RemoveAt(s, i)
    PROVE  /\ Ordered(t) /\ Shortened(s, t, i)
           /\ FreeSpace(t) = FreeSpace(s) \ Span(s[i].base, s[i].pages)
<1>1. s \in Seq(RangeStruct) /\ Len(s) \in Nat
  BY DEF Ordered
<1>2. PICK n \in Nat : n = Len(s) /\ i \in 1..n
  BY <1>1
<1>3. /\ t \in Seq(RangeStruct) /\ Len(t) = n - 1
      /\ \A k \in 1..(n - 1) : t[k] = IF k < i THEN s[k] ELSE s[k + 1]
  BY <1>1, <1>2, Removed DEF Shortened
<1>4. Ordered(t)
  <2> SUFFICES ASSUME NEW j \in 1..(n - 1), NEW k \in 1..(n - 1), j < k
               PROVE  t[j].base + t[j].pages < t[k].base
    BY <1>3 DEF Ordered
  <2>1. j \in 1..n /\ k \in 1..n /\ j + 1 \in 1..n /\ k + 1 \in 1..n /\ j < k + 1 /\ j + 1 < k + 1
    OBVIOUS
  <2>2. PICK a \in 1..n, b \in 1..n : a < b /\ t[j] = s[a] /\ t[k] = s[b]
    <3>1. CASE k < i
      BY <1>3, <2>1, <3>1
    <3>2. CASE j < i /\ ~(k < i)
      BY <1>3, <2>1, <3>2
    <3>3. CASE ~(j < i)
      BY <1>3, <2>1, <3>3
    <3> QED
      BY <3>1, <3>2, <3>3
  <2> QED
    BY <1>2, <2>2 DEF Ordered
<1>5. s[i].base \in Nat /\ s[i].pages \in Nat
  BY RangeFields
<1>6. ASSUME NEW x
      PROVE  x \in FreeSpace(t) <=> x \in FreeSpace(s) /\ x \notin Span(s[i].base, s[i].pages)
  <2>1. x \in Span(s[i].base, s[i].pages) <=> x \in Nat /\ s[i].base <= x /\ x < s[i].base + s[i].pages
    BY <1>5, SpanIs
  <2>2. x \in FreeSpace(t) <=>
            x \in Nat /\ \E j \in 1..(n - 1) : t[j].base <= x /\ x < t[j].base + t[j].pages
    BY <1>3, <1>4, InFreeSpace
  <2>3. x \in FreeSpace(s) <=>
            x \in Nat /\ \E j \in 1..n : s[j].base <= x /\ x < s[j].base + s[j].pages
    BY <1>2, InFreeSpace
  <2>4. ASSUME x \in FreeSpace(t)
        PROVE  x \in FreeSpace(s) /\ x \notin Span(s[i].base, s[i].pages)
    <3>1. PICK j \in 1..(n - 1) : t[j].base <= x /\ x < t[j].base + t[j].pages
      BY <2>2, <2>4
    <3>2. PICK k \in 1..n : k # i /\ t[j] = s[k]
      <4>1. j \in 1..n /\ j + 1 \in 1..n
        OBVIOUS
      <4>2. CASE j < i
        BY <1>3, <4>1, <4>2
      <4>3. CASE ~(j < i)
        BY <1>3, <4>1, <4>3
      <4> QED
        BY <4>2, <4>3
    <3>3. x \in Nat /\ s[k].base <= x /\ x < s[k].base + s[k].pages
      BY <2>2, <2>4, <3>1, <3>2
    <3>4. ~(s[i].base <= x /\ x < s[i].base + s[i].pages)
      BY <1>2, <3>2, <3>3, RangesApart
    <3> QED
      BY <2>1, <2>3, <3>3, <3>4
  <2>5. ASSUME x \in FreeSpace(s), x \notin Span(s[i].base, s[i].pages)
        PROVE  x \in FreeSpace(t)
    <3>1. PICK k \in 1..n : s[k].base <= x /\ x < s[k].base + s[k].pages
      BY <2>3, <2>5
    <3>2. k # i
      BY <2>1, <2>3, <2>5, <3>1
    <3>3. PICK j \in 1..(n - 1) : t[j] = s[k]
      <4>1. CASE k < i
        <5>1. k \in 1..(n - 1)
          BY <1>2, <4>1
        <5> QED
          BY <1>3, <4>1, <5>1
      <4>2. CASE ~(k < i)
        <5>1. k - 1 \in 1..(n - 1) /\ ~(k - 1 < i) /\ (k - 1) + 1 = k
          BY <1>2, <3>2, <4>2
        <5> QED
          BY <1>3, <5>1
      <4> QED
        BY <4>1, <4>2
    <3> QED
      BY <2>2, <2>3, <2>5, <3>1, <3>3
  <2> QED
    BY <2>4, <2>5
<1> QED
  BY <1>2, <1>3, <1>4, <1>6 DEF Shortened

\* A new range.
Enlarged(s, t, i, e) ==
    /\ Ordered(t) /\ Len(t) = Len(s) + 1
    /\ \A k \in 1..(Len(s) + 1) : t[k] = IF k < i THEN s[k] ELSE IF k = i THEN e ELSE s[k - 1]
    /\ FreeSpace(t) = FreeSpace(s) \cup Span(e.base, e.pages)

LEMMA RangeInserted ==
    ASSUME NEW s, Ordered(s), NEW i \in 1..(Len(s) + 1), NEW e \in RangeStruct,
           EndBelow(s, i, e.base), BeginAbove(s, i, e.base + e.pages),
           NEW t, t = InsertAt(s, i, e)
    PROVE  Enlarged(s, t, i, e)
<1>1. s \in Seq(RangeStruct) /\ Len(s) \in Nat
  BY DEF Ordered
<1>2. PICK n \in Nat : n = Len(s) /\ i \in 1..(n + 1)
  BY <1>1
<1>3. /\ t \in Seq(RangeStruct) /\ Len(t) = n + 1
      /\ \A k \in 1..(n + 1) : t[k] = IF k < i THEN s[k] ELSE IF k = i THEN e ELSE s[k - 1]
  BY <1>1, <1>2, Inserted, SMTT(40)
<1>4. Ordered(t)
  <2> SUFFICES ASSUME NEW j \in 1..(n + 1), NEW k \in 1..(n + 1), j < k
               PROVE  t[j].base + t[j].pages < t[k].base
    BY <1>3 DEF Ordered
  <2>1. CASE k < i
    <3>1. j \in 1..n /\ k \in 1..n /\ j < i
      BY <1>2, <2>1
    <3>2. t[j] = s[j] /\ t[k] = s[k]
      BY <1>3, <2>1, <3>1
    <3> QED
      BY <1>2, <3>1, <3>2 DEF Ordered
  <2>2. CASE k = i
    <3>1. j \in 1..n /\ j < i
      BY <1>2, <2>2
    <3>2. t[j] = s[j] /\ t[k] = e
      BY <1>3, <2>2, <3>1
    <3> QED
      BY <1>2, <3>1, <3>2 DEF EndBelow
  <2>3. CASE k > i /\ j < i
    <3>1. j \in 1..n /\ k - 1 \in 1..n /\ j < k - 1
      BY <1>2, <2>3
    <3>2. t[j] = s[j] /\ t[k] = s[k - 1]
      BY <1>3, <2>3, <3>1
    <3> QED
      BY <1>2, <3>1, <3>2 DEF Ordered
  <2>4. CASE j = i
    <3>1. k - 1 \in 1..n /\ i <= k - 1 /\ ~(k < i) /\ k # i
      BY <1>2, <2>4
    <3>2. t[j] = e /\ t[k] = s[k - 1]
      BY <1>3, <2>4, <3>1
    <3> QED
      BY <1>2, <3>1, <3>2 DEF BeginAbove
  <2>5. CASE j > i
    <3>1. k - 1 \in 1..n /\ j - 1 \in 1..n /\ j - 1 < k - 1 /\ k # i /\ ~(k < i) /\ ~(j < i) /\ j # i
      BY <1>2, <2>5
    <3>2. t[j] = s[j - 1] /\ t[k] = s[k - 1]
      BY <1>3, <3>1
    <3> QED
      BY <1>2, <3>1, <3>2 DEF Ordered
  <2> QED
    BY <2>1, <2>2, <2>3, <2>4, <2>5
<1>5. e.base \in Nat /\ e.pages \in Nat
  BY DEF RangeStruct
<1>6. ASSUME NEW x
      PROVE  x \in FreeSpace(t) <=> x \in FreeSpace(s) \/ x \in Span(e.base, e.pages)
  <2>1. x \in Span(e.base, e.pages) <=> x \in Nat /\ e.base <= x /\ x < e.base + e.pages
    BY <1>5, SpanIs
  <2>2. x \in FreeSpace(t) <=>
            x \in Nat /\ \E j \in 1..(n + 1) : t[j].base <= x /\ x < t[j].base + t[j].pages
    BY <1>3, <1>4, InFreeSpace
  <2>3. x \in FreeSpace(s) <=>
            x \in Nat /\ \E j \in 1..n : s[j].base <= x /\ x < s[j].base + s[j].pages
    BY <1>2, InFreeSpace
  <2>4. ASSUME x \in FreeSpace(t)
        PROVE  x \in FreeSpace(s) \/ x \in Span(e.base, e.pages)
    <3>1. PICK j \in 1..(n + 1) : t[j].base <= x /\ x < t[j].base + t[j].pages
      BY <2>2, <2>4
    <3>2. t[j] = e \/ \E k \in 1..n : t[j] = s[k]
      <4>1. CASE j < i
        <5>1. j \in 1..n
          BY <1>2, <4>1
        <5> QED
          BY <1>3, <4>1, <5>1
      <4>2. CASE j = i
        BY <1>3, <4>2
      <4>3. CASE j > i
        <5>1. j - 1 \in 1..n /\ ~(j < i) /\ j # i
          BY <1>2, <4>3
        <5> QED
          BY <1>3, <5>1
      <4> QED
        BY <4>1, <4>2, <4>3
    <3> QED
      BY <2>1, <2>2, <2>3, <2>4, <3>1, <3>2
  <2>5. ASSUME x \in Span(e.base, e.pages) PROVE x \in FreeSpace(t)
    <3>1. i \in 1..(n + 1) /\ t[i] = e
      BY <1>2, <1>3
    <3> QED
      BY <2>1, <2>2, <2>5, <3>1
  <2>6. ASSUME x \in FreeSpace(s) PROVE x \in FreeSpace(t)
    <3>1. PICK k \in 1..n : s[k].base <= x /\ x < s[k].base + s[k].pages
      BY <2>3, <2>6
    <3>2. PICK j \in 1..(n + 1) : t[j] = s[k]
      <4>1. CASE k < i
        <5>1. k \in 1..(n + 1)
          OBVIOUS
        <5> QED
          BY <1>3, <4>1, <5>1
      <4>2. CASE ~(k < i)
        <5>1. k + 1 \in 1..(n + 1) /\ ~(k + 1 < i) /\ k + 1 # i /\ (k + 1) - 1 = k
          BY <1>2, <4>2
        <5> QED
          BY <1>3, <5>1
      <4> QED
        BY <4>1, <4>2
    <3> QED
      BY <2>2, <2>3, <2>6, <3>1, <3>2
  <2> QED
    BY <2>4, <2>5, <2>6
<1> QED
  BY <1>2, <1>3, <1>4, <1>6 DEF Enlarged

LEMMA StructsSame ==
    ASSUME NEW s, NEW t, NEW class, NEW L, Len(t) = Len(s),
           \A j \in 1..Len(s) : t[j].at = s[j].at, Structured(class, s, L)
    PROVE  Structs(t) = Structs(s) /\ Structured(class, t, L)
<1>1. Structs(t) = Structs(s)
  BY DEF Structs
<1> QED
  BY <1>1 DEF Structured

LEMMA StructsRemoved ==
    ASSUME NEW s, NEW t, NEW class, NEW L, NEW n \in Nat, n = Len(s), NEW i \in 1..n,
           Shortened(s, t, i), Structured(class, s, L)
    PROVE  /\ s[i].at \in Structs(s) /\ Structs(t) = Structs(s) \ {s[i].at}
           /\ Structured(class, t, L \cup {s[i].at})
<1>0. Len(t) = n - 1 /\ \A k \in 1..(n - 1) : t[k] = IF k < i THEN s[k] ELSE s[k + 1]
  BY DEF Shortened
<1>1. \A j, k \in 1..n : s[j].at = s[k].at => j = k
  BY DEF Structured
<1>2. ASSUME NEW j \in 1..(n - 1)
      PROVE  /\ j < i => t[j] = s[j] /\ j \in 1..n /\ j # i
             /\ ~(j < i) => t[j] = s[j + 1] /\ j + 1 \in 1..n /\ j + 1 # i
  BY <1>0
<1>3. ASSUME NEW j \in 1..(n - 1)
      PROVE  t[j].at \in Structs(s) /\ t[j].at # s[i].at
  <2>1. PICK k \in 1..n : k # i /\ t[j] = s[k]
    BY <1>2
  <2> QED
    BY <1>1, <2>1 DEF Structs
<1>4. ASSUME NEW a \in Structs(s), a # s[i].at PROVE a \in Structs(t)
  <2>1. PICK k \in 1..n : a = s[k].at
    BY DEF Structs
  <2>2. k # i
    BY <1>4, <2>1
  <2>3. CASE k < i
    <3>1. k \in 1..(n - 1) /\ t[k] = s[k]
      BY <1>0, <2>3
    <3> QED
      BY <1>0, <2>1, <3>1 DEF Structs
  <2>4. CASE ~(k < i)
    <3>1. k - 1 \in 1..(n - 1) /\ ~(k - 1 < i) /\ (k - 1) + 1 = k
      BY <2>2, <2>4
    <3>2. t[k - 1] = s[k]
      BY <1>0, <3>1
    <3> QED
      BY <1>0, <2>1, <3>1, <3>2 DEF Structs
  <2> QED
    BY <2>3, <2>4
<1>5. Structs(t) = Structs(s) \ {s[i].at}
  <2>1. Structs(t) \subseteq Structs(s) \ {s[i].at}
    BY <1>0, <1>3 DEF Structs
  <2> QED
    BY <1>4, <2>1
<1>6. ASSUME NEW j \in 1..(n - 1), NEW k \in 1..(n - 1), t[j].at = t[k].at
      PROVE  j = k
  <2>1. CASE j < i /\ k < i
    BY <1>1, <1>2, <1>6, <2>1
  <2>2. CASE j < i /\ ~(k < i)
    <3>1. j = k + 1
      BY <1>1, <1>2, <1>6, <2>2
    <3> QED
      BY <2>2, <3>1
  <2>3. CASE ~(j < i) /\ k < i
    <3>1. j + 1 = k
      BY <1>1, <1>2, <1>6, <2>3
    <3> QED
      BY <2>3, <3>1
  <2>4. CASE ~(j < i) /\ ~(k < i)
    <3>1. j + 1 = k + 1
      BY <1>1, <1>2, <1>6, <2>4
    <3> QED
      BY <3>1
  <2> QED
    BY <2>1, <2>2, <2>3, <2>4
<1>7. s[i].at \in Structs(s)
  BY DEF Structs
<1>8. Structured(class, t, L \cup {s[i].at})
  BY <1>0, <1>5, <1>6 DEF Structured
<1> QED
  BY <1>5, <1>7, <1>8

FreshStruct(class, s, L, a) ==
    a \notin L /\ Structured(class, s, L \cup {a}) /\ Kind(class, a) = class_for(RangeSize)

StructMore(class, s, t, L, a) ==
    Structs(t) = Structs(s) \cup {a} /\ Structured(class, t, L)

LEMMA StructsInserted ==
    ASSUME NEW s, NEW t, NEW class, NEW L, NEW n \in Nat, n = Len(s), NEW i \in 1..(n + 1),
           NEW e, Enlarged(s, t, i, e), NEW a, FreshStruct(class, s, L, a), e.at = a
    PROVE  StructMore(class, s, t, L, a)
<1> USE DEF FreshStruct, StructMore
<1>0. /\ Len(t) = n + 1
      /\ \A k \in 1..(n + 1) : t[k] = IF k < i THEN s[k] ELSE IF k = i THEN e ELSE s[k - 1]
  BY DEF Enlarged
<1> USE <1>0
<1>1. /\ \A j, k \in 1..n : s[j].at = s[k].at => j = k
      /\ \A j \in 1..n : s[j].at # e.at
  BY DEF Structured, Structs
<1>2. ASSUME NEW j \in 1..(n + 1)
      PROVE  /\ j < i => t[j] = s[j] /\ j \in 1..n
             /\ j = i => t[j] = e
             /\ j > i => t[j] = s[j - 1] /\ j - 1 \in 1..n
  OBVIOUS
<1>3. ASSUME NEW j \in 1..(n + 1)
      PROVE  t[j].at \in Structs(s) \cup {e.at}
  <2>1. j < i \/ j = i \/ j > i
    OBVIOUS
  <2>2. t[j] = e \/ \E k \in 1..n : t[j] = s[k]
    BY <1>2, <2>1
  <2> QED
    BY <2>2 DEF Structs
<1>4. ASSUME NEW x \in Structs(s) PROVE x \in Structs(t)
  <2>1. PICK k \in 1..n : x = s[k].at
    BY DEF Structs
  <2>2. CASE k < i
    <3>1. k \in 1..(n + 1) /\ t[k] = s[k]
      BY <2>2
    <3> QED
      BY <2>1, <3>1 DEF Structs
  <2>3. CASE ~(k < i)
    <3>1. k + 1 \in 1..(n + 1) /\ k + 1 > i /\ (k + 1) - 1 = k
      BY <2>3
    <3>2. t[k + 1] = s[k]
      BY <1>2, <3>1
    <3> QED
      BY <2>1, <3>1, <3>2 DEF Structs
  <2> QED
    BY <2>2, <2>3
<1>5. e.at \in Structs(t)
  <2>1. t[i] = e
    BY <1>2
  <2> QED
    BY <2>1 DEF Structs
<1>6. Structs(t) = Structs(s) \cup {e.at}
  <2>1. Structs(t) \subseteq Structs(s) \cup {e.at}
    BY <1>3 DEF Structs
  <2> QED
    BY <1>4, <1>5, <2>1
<1>7. ASSUME NEW j \in 1..(n + 1), NEW k \in 1..(n + 1), t[j].at = t[k].at, j < k
      PROVE  FALSE
  <2>1. CASE k < i
    <3>1. j = k
      BY <1>1, <1>2, <1>7, <2>1
    <3> QED
      BY <1>7, <3>1
  <2>2. CASE k = i
    BY <1>1, <1>2, <1>7, <2>2
  <2>3. CASE k > i /\ j < i
    <3>1. j = k - 1
      BY <1>1, <1>2, <1>7, <2>3
    <3> QED
      BY <2>3, <3>1
  <2>4. CASE j = i
    BY <1>1, <1>2, <1>7, <2>4
  <2>5. CASE j > i
    <3>1. j - 1 = k - 1
      BY <1>1, <1>2, <1>7, <2>5
    <3> QED
      BY <1>7, <3>1
  <2> QED
    BY <2>1, <2>2, <2>3, <2>4, <2>5
<1>8. \A j, k \in 1..(n + 1) : t[j].at = t[k].at => j = k
  <2> SUFFICES ASSUME NEW j \in 1..(n + 1), NEW k \in 1..(n + 1), t[j].at = t[k].at
               PROVE  j = k
    OBVIOUS
  <2>1. j < k \/ k < j \/ j = k
    OBVIOUS
  <2> QED
    BY <1>7, <2>1
<1>9. Structured(class, t, L)
  BY <1>6, <1>8 DEF Structured
<1> QED
  BY <1>6, <1>9

\* Where Following finds the place for the pages b..b+n-1, when they are free in no range.
LEMMA Gap ==
    ASSUME NEW s, Ordered(s), NEW b \in Nat, NEW n \in Nat \ {0},
           Span(b, n) \cap FreeSpace(s) = {},
           NEW k, k = Lowest({i \in 1..Len(s) : s[i].base >= b} \cup {Len(s) + 1})
    PROVE  /\ k \in 1..(Len(s) + 1)
           /\ \A j \in 1..Len(s) : j < k => s[j].base + s[j].pages <= b
           /\ \A j \in 1..Len(s) : k <= j => b + n <= s[j].base
<1> DEFINE S == {i \in 1..Len(s) : s[i].base >= b} \cup {Len(s) + 1}
<1>1. Len(s) \in Nat
  BY DEF Ordered
<1>2. S \subseteq 1..(Len(s) + 1) /\ S \subseteq Nat /\ S # {}
  BY <1>1
<1>3. k \in S /\ \A q \in S : k <= q
  BY <1>2, LowestIn
<1>4. ASSUME NEW j \in 1..Len(s)
      PROVE  /\ s[j].base \in Nat /\ s[j].pages \in Nat \ {0}
             /\ \A x \in Nat : ~(b <= x /\ x < b + n /\ s[j].base <= x /\ x < s[j].base + s[j].pages)
  <2>1. s[j].base \in Nat /\ s[j].pages \in Nat \ {0}
    BY RangeFields
  <2>2. ASSUME NEW x \in Nat, b <= x, x < b + n, s[j].base <= x, x < s[j].base + s[j].pages
        PROVE  FALSE
    <3>1. x \in Span(b, n)
      BY <2>2, SpanIs
    <3>2. x \in FreeSpace(s)
      BY <2>2, InFreeSpace
    <3> QED
      BY <3>1, <3>2
  <2> QED
    BY <2>1, <2>2
<1>5. ASSUME NEW j \in 1..Len(s), j < k
      PROVE  s[j].base + s[j].pages <= b
  <2>1. ~(s[j].base >= b)
    BY <1>1, <1>2, <1>3, <1>5
  <2>2. s[j].base < b
    BY <1>4, <2>1
  <2> QED
    BY <1>4, <2>2
<1>6. ASSUME NEW j \in 1..Len(s), k <= j
      PROVE  b + n <= s[j].base
  <2>1. k \in 1..Len(s) /\ s[k].base >= b
    BY <1>1, <1>2, <1>3, <1>6
  <2>2. s[j].base >= b
    <3>1. CASE j = k
      BY <2>1, <3>1
    <3>2. CASE j # k
      <4>1. k < j
        BY <1>1, <1>6, <2>1, <3>2
      <4>2. s[k].base + s[k].pages < s[j].base
        BY <2>1, <4>1 DEF Ordered
      <4> QED
        BY <1>4, <2>1, <4>2
    <3> QED
      BY <3>1, <3>2
  <2>3. PICK x \in Nat, m \in Nat \ {0} : x = s[j].base /\ m = s[j].pages
    BY <1>4
  <2>4. ~(b <= x /\ x < b + n /\ x <= x /\ x < x + m)
    BY <1>4, <2>3
  <2> QED
    BY <2>2, <2>3, <2>4
<1> QED
  BY <1>2, <1>3, <1>5, <1>6

-----------------------------------------------------------------------------
(* The window. *)

\* A change of the list of ranges, of the end of what was handed out, or of what is lost.
SameRest(h, g) ==
    /\ g.free = h.free /\ g.class = h.class /\ g.free_objects = h.free_objects
    /\ g.pages = h.pages /\ g.pte = h.pte /\ g.table = h.table

LEMMA RangesChanged ==
    ASSUME NEW h, NEW g, NEW L, NEW O, NEW T, NEW M, NEW K, NEW V, Good(h, L, O, T, M),
           Shape(g), SameRest(h, g), Ordered(g.free_ranges),
           Structured(h.class, g.free_ranges, K),
           Structs(g.free_ranges) \cup K = Structs(h.free_ranges) \cup L,
           Tiled(FreeSpace(g.free_ranges), ObjectSpace(h.pages), g.lost, g.window_next, V)
    PROVE  Good(g, K, O, V, M)
BY DEF Good, SameRest

\* Pages of the window that change hands.
LEMMA TileTaken ==
    ASSUME NEW F, NEW B, NEW lost, NEW next, NEW T, NEW X, Tiled(F, B, lost, next, T), X \subseteq F
    PROVE  Tiled(F \ X, B, lost, next, T \cup X) /\ T \cap X = {} /\ X \subseteq WindowBase..(next - 1)
BY DEF Tiled

LEMMA TileGiven ==
    ASSUME NEW F, NEW B, NEW lost, NEW next, NEW X, Tiled(F, B, lost, next, X)
    PROVE  Tiled(F \cup X, B, lost, next, {}) /\ Tiled(F, B, lost \cup X, next, {}) /\ F \cap X = {}
BY DEF Tiled

LEMMA TileGrown ==
    ASSUME NEW F, NEW B, NEW lost, NEW next, NEW T, NEW n \in Nat, Tiled(F, B, lost, next, T),
           n <= WindowEnd - next
    PROVE  /\ Tiled(F, B, lost, next + n, T \cup Span(next, n))
           /\ T \cap Span(next, n) = {} /\ Span(next, n) \subseteq WindowBase..(next + n - 1)
           /\ next + n \in WindowBase..WindowEnd /\ next \in Nat
<1>1. next \in Nat /\ next + n \in WindowBase..WindowEnd /\ WindowBase \in Nat /\ WindowBase <= next
  BY WindowAssumption DEF Tiled
<1>2. PICK X : X = Span(next, n)
  OBVIOUS
<1>3. X = next..(next + n - 1)
  BY <1>2 DEF Span
<1>4. X \cap (WindowBase..(next - 1)) = {} /\ (WindowBase..(next - 1)) \cup X = WindowBase..(next + n - 1)
  BY <1>1, <1>3
<1>5. F \cup B \cup lost \cup T = WindowBase..(next - 1)
  BY DEF Tiled
<1>6. F \cup B \cup lost \cup (T \cup X) = WindowBase..(next + n - 1)
  BY <1>4, <1>5
<1>7. X \cap F = {} /\ X \cap B = {} /\ X \cap lost = {} /\ X \cap T = {}
  BY <1>4, <1>5
<1>8. Tiled(F, B, lost, next + n, T \cup X)
  BY <1>1, <1>6, <1>7 DEF Tiled
<1>9. X \subseteq WindowBase..(next + n - 1)
  BY <1>4
<1> QED
  BY <1>1, <1>2, <1>7, <1>8, <1>9

\* What window_alloc leaves alone.
SameObjects(h, g) ==
    /\ g.class = h.class /\ g.pages = h.pages /\ g.pte = h.pte /\ g.table = h.table
    /\ g.free = h.free /\ g.lost = h.lost

\* The call has the span b..b+n-1 in its hands, which it did not have before.
HandedOut(h, g, L, O, T, M, b, n) ==
    /\ Good(g, L, O, T \cup Span(b, n), M) /\ SameObjects(h, g)
    /\ b \in Nat \ {0} /\ T \cap Span(b, n) = {}
    /\ Span(b, n) \subseteq WindowBase..(WindowEnd - 1)

LEMMA SpanInWindow ==
    ASSUME NEW b \in Nat, NEW n \in Nat \ {0}, NEW next \in WindowBase..WindowEnd,
           Span(b, n) \subseteq WindowBase..(next - 1)
    PROVE  b # 0 /\ Span(b, n) \subseteq WindowBase..(WindowEnd - 1)
<1>1. b \in Span(b, n)
  BY SpanIs
<1>2. b \in WindowBase..(next - 1)
  BY <1>1
<1>3. WindowBase \in Nat \ {0} /\ WindowEnd \in Nat
  BY WindowAssumption
<1>4. WindowBase..(next - 1) \subseteq WindowBase..(WindowEnd - 1)
  BY <1>3
<1> QED
  BY <1>2, <1>3, <1>4

\* A range that is larger than what is asked for.
LEMMA AllocFromRange ==
    ASSUME NEW h, NEW L, NEW O, NEW T, NEW M, Good(h, L, O, T, M), NEW n \in Nat \ {0},
           NEW i \in 1..Len(h.free_ranges), h.free_ranges[i].pages > n,
           NEW g, g = [h EXCEPT !.free_ranges[i].base = @ + n, !.free_ranges[i].pages = @ - n]
    PROVE  HandedOut(h, g, L, O, T, M, h.free_ranges[i].base, n)
<1>1. PICK s : s = h.free_ranges
  OBVIOUS
<1>2. /\ Shape(h) /\ Ordered(s) /\ Structured(h.class, s, L)
      /\ Tiled(FreeSpace(s), ObjectSpace(h.pages), h.lost, h.window_next, T)
  BY <1>1 DEF Good
<1>3. s \in Seq(RangeStruct) /\ Len(s) \in Nat /\ i \in 1..Len(s)
  BY <1>1, <1>2 DEF Ordered
<1>4. s[i] \in RangeStruct
  BY <1>2, <1>3, RangeFields
<1>5. PICK b \in Nat, m \in Nat \ {0}, a \in Nat : s[i] = [base |-> b, pages |-> m, at |-> a] /\ m > n
  BY <1>1, <1>4 DEF RangeStruct
<1>6. PICK e : e = [base |-> b + n, pages |-> m - n, at |-> a]
  OBVIOUS
<1>7. e \in RangeStruct /\ e.base = b + n /\ e.pages = m - n /\ e.at = s[i].at
  BY <1>5, <1>6 DEF RangeStruct
<1>8. PICK t : t = [s EXCEPT ![i] = e]
  OBVIOUS
<1>9. /\ Shape(g) /\ SameRest(h, g) /\ g.window_next = h.window_next /\ g.lost = h.lost
      /\ g.free_ranges = [s EXCEPT ![i].base = @ + n, ![i].pages = @ - n]
  BY <1>1, <1>2 DEF Shape, SameRest
<1>10. g.free_ranges = t
  <2>1. PICK u : u = [s EXCEPT ![i].base = @ + n]
    OBVIOUS
  <2>2. u \in Seq(RangeStruct) /\ u[i] = [base |-> b + n, pages |-> m, at |-> a]
    <3>1. [base |-> b + n, pages |-> m, at |-> a] \in RangeStruct
      BY DEF RangeStruct
    <3>2. [s[i] EXCEPT !.base = @ + n] = [base |-> b + n, pages |-> m, at |-> a]
      BY <1>5
    <3> QED
      BY <1>3, <2>1, <3>1, <3>2
  <2>3. [u[i] EXCEPT !.pages = @ - n] = e
    BY <1>6, <2>2
  <2>4. [u EXCEPT ![i].pages = @ - n] = [u EXCEPT ![i] = e]
    BY <2>2, <2>3
  <2>5. [u EXCEPT ![i] = e] = [s EXCEPT ![i] = e]
    BY <1>3, <2>1, <2>2
  <2>6. g.free_ranges = [u EXCEPT ![i].pages = @ - n]
    BY <1>9, <2>1
  <2> QED
    BY <1>8, <2>4, <2>5, <2>6
<1>11. ASSUME NEW j \in 1..Len(s)
       PROVE  /\ j < i => s[j].base + s[j].pages < e.base
              /\ i < j => e.base + e.pages < s[j].base
  <2>1. s[j].base \in Nat /\ s[j].pages \in Nat
    BY <1>2, RangeFields
  <2>2. CASE j < i
    <3>1. s[j].base + s[j].pages < b
      BY <1>2, <1>3, <1>5, <2>2 DEF Ordered
    <3> QED
      BY <1>7, <2>1, <2>2, <3>1
  <2>3. CASE i < j
    <3>1. b + m < s[j].base
      BY <1>2, <1>3, <1>5, <2>3 DEF Ordered
    <3> QED
      BY <1>7, <2>1, <2>3, <3>1
  <2> QED
    BY <2>2, <2>3
<1>12. /\ Ordered(t) /\ Len(t) = Len(s) /\ \A j \in 1..Len(s) : t[j].at = s[j].at
       /\ FreeSpace(t) = (FreeSpace(s) \ Span(s[i].base, s[i].pages)) \cup Span(e.base, e.pages)
  <2>1. EndBelow(s, i, e.base) /\ BeginAbove(s, i + 1, e.base + e.pages)
    BY <1>3, <1>11 DEF EndBelow, BeginAbove
  <2>2. Resized(s, t, i, e)
    BY <1>2, <1>3, <1>7, <1>8, <2>1, RangeReplaced
  <2> QED
    BY <2>2 DEF Resized
<1>13. PICK X : X = Span(b, n)
  OBVIOUS
<1>14. X \subseteq FreeSpace(s)
  <2> SUFFICES ASSUME NEW x \in X PROVE x \in FreeSpace(s)
    OBVIOUS
  <2>1. x \in Nat /\ b <= x /\ x < b + n
    BY <1>13, SpanIs
  <2>2. s[i].base <= x /\ x < s[i].base + s[i].pages
    BY <1>5, <2>1
  <2> QED
    BY <1>2, <1>3, <2>1, <2>2, InFreeSpace
<1>15. FreeSpace(t) = FreeSpace(s) \ X
  <2>1. ASSUME NEW x
        PROVE  /\ x \in Span(b, m) <=> x \in X \/ x \in Span(b + n, m - n)
               /\ ~(x \in X /\ x \in Span(b + n, m - n))
    <3>1. x \in Span(b, m) <=> x \in Nat /\ b <= x /\ x < b + m
      BY SpanIs
    <3>2. x \in X <=> x \in Nat /\ b <= x /\ x < b + n
      BY <1>13, SpanIs
    <3>3. x \in Span(b + n, m - n) <=> x \in Nat /\ b + n <= x /\ x < (b + n) + (m - n)
      <4>1. b + n \in Nat /\ m - n \in Nat
        BY <1>5
      <4> QED
        BY <4>1, SpanIs
    <3> QED
      BY <1>5, <3>1, <3>2, <3>3
  <2>2. Span(b, m) \subseteq FreeSpace(s)
    BY <1>3, <1>5 DEF FreeSpace
  <2>3. s[i].base = b /\ s[i].pages = m
    BY <1>5
  <2>4. FreeSpace(t) = (FreeSpace(s) \ Span(b, m)) \cup Span(b + n, m - n)
    BY <1>7, <1>12, <2>3
  <2> QED
    BY <2>1, <2>2, <2>4
<1>16. Structs(t) = Structs(s) /\ Structured(h.class, t, L)
  BY <1>2, <1>12, StructsSame
<1>17. /\ Tiled(FreeSpace(t), ObjectSpace(h.pages), h.lost, h.window_next, T \cup X)
       /\ T \cap X = {} /\ X \subseteq WindowBase..(h.window_next - 1)
  <2>1. PICK F, B, lost, next :
            F = FreeSpace(s) /\ B = ObjectSpace(h.pages) /\ lost = h.lost /\ next = h.window_next
    OBVIOUS
  <2>2. Tiled(F, B, lost, next, T) /\ X \subseteq F
    BY <1>2, <1>14, <2>1
  <2>3. Tiled(F \ X, B, lost, next, T \cup X) /\ T \cap X = {} /\ X \subseteq WindowBase..(next - 1)
    BY <2>2, TileTaken
  <2> QED
    BY <1>15, <2>1, <2>3
<1>18. Good(g, L, O, T \cup X, M)
  <2>1. PICK V : V = T \cup X
    OBVIOUS
  <2>2. /\ Ordered(g.free_ranges) /\ Structured(h.class, g.free_ranges, L)
        /\ Structs(g.free_ranges) \cup L = Structs(h.free_ranges) \cup L
        /\ Tiled(FreeSpace(g.free_ranges), ObjectSpace(h.pages), g.lost, g.window_next, V)
    BY <1>1, <1>9, <1>10, <1>12, <1>16, <1>17, <2>1
  <2>3. Good(g, L, O, V, M)
    BY <1>9, <2>2, RangesChanged
  <2> QED
    BY <2>1, <2>3
<1>19. b # 0 /\ X \subseteq WindowBase..(WindowEnd - 1)
  <2>1. h.window_next \in WindowBase..WindowEnd
    BY <1>2 DEF Tiled
  <2> QED
    BY <1>13, <1>17, <2>1, SpanInWindow
<1>20. h.free_ranges[i].base = b
  BY <1>1, <1>5
<1> QED
  BY <1>9, <1>13, <1>17, <1>18, <1>19, <1>20 DEF HandedOut, SameObjects, SameRest

\* A range that fits exactly: its struct is freed.
LEMMA AllocWholeRange ==
    ASSUME NEW h, NEW L, NEW O, NEW T, NEW M, Good(h, L, O, T, M), NEW n \in Nat \ {0},
           NEW i \in 1..Len(h.free_ranges), h.free_ranges[i].pages = n,
           NEW g, g = small_free([h EXCEPT !.free_ranges = RemoveAt(@, i)], h.free_ranges[i].at)
    PROVE  HandedOut(h, g, L, O, T, M, h.free_ranges[i].base, n)
<1>1. PICK s : s = h.free_ranges
  OBVIOUS
<1>2. /\ Shape(h) /\ Ordered(s) /\ Structured(h.class, s, L)
      /\ Tiled(FreeSpace(s), ObjectSpace(h.pages), h.lost, h.window_next, T)
  BY <1>1 DEF Good
<1>3. s \in Seq(RangeStruct) /\ Len(s) \in Nat /\ i \in 1..Len(s)
  BY <1>1, <1>2 DEF Ordered
<1>4. PICK b \in Nat, a \in Nat : b = s[i].base /\ a = s[i].at /\ s[i].pages = n
  BY <1>1, <1>2, <1>3, RangeFields
<1>5. PICK d : d = [h EXCEPT !.free_ranges = RemoveAt(@, i)]
  OBVIOUS
<1>6. PICK t : t = RemoveAt(s, i)
  OBVIOUS
<1>7. /\ Shape(d) /\ SameRest(h, d) /\ d.window_next = h.window_next /\ d.lost = h.lost
      /\ d.free_ranges = t
  BY <1>1, <1>2, <1>5, <1>6 DEF Shape, SameRest
<1>8. /\ Ordered(t) /\ Shortened(s, t, i)
      /\ FreeSpace(t) = FreeSpace(s) \ Span(s[i].base, s[i].pages)
  BY <1>2, <1>3, <1>6, RangeRemoved
<1>9. /\ s[i].at \in Structs(s) /\ Structs(t) = Structs(s) \ {s[i].at}
      /\ Structured(h.class, t, L \cup {s[i].at})
  <2>1. PICK m \in Nat : m = Len(s)
    BY <1>3
  <2>2. PICK class : class = h.class
    OBVIOUS
  <2>3. i \in 1..m /\ Shortened(s, t, i) /\ Structured(class, s, L)
    BY <1>2, <1>3, <1>8, <2>1, <2>2
  <2>4. /\ s[i].at \in Structs(s) /\ Structs(t) = Structs(s) \ {s[i].at}
        /\ Structured(class, t, L \cup {s[i].at})
    BY <2>1, <2>3, StructsRemoved
  <2> QED
    BY <2>2, <2>4
<1>10. PICK X : X = Span(b, n)
  OBVIOUS
<1>11. X \subseteq FreeSpace(s) /\ FreeSpace(t) = FreeSpace(s) \ X
  BY <1>3, <1>4, <1>8, <1>10 DEF FreeSpace
<1>12. /\ Tiled(FreeSpace(t), ObjectSpace(h.pages), h.lost, h.window_next, T \cup X)
       /\ T \cap X = {} /\ X \subseteq WindowBase..(h.window_next - 1)
  <2>1. PICK F, B, lost, next :
            F = FreeSpace(s) /\ B = ObjectSpace(h.pages) /\ lost = h.lost /\ next = h.window_next
    OBVIOUS
  <2>2. Tiled(F, B, lost, next, T) /\ X \subseteq F
    BY <1>2, <1>11, <2>1
  <2>3. Tiled(F \ X, B, lost, next, T \cup X) /\ T \cap X = {} /\ X \subseteq WindowBase..(next - 1)
    BY <2>2, TileTaken
  <2> QED
    BY <1>11, <2>1, <2>3
<1>13. PICK K, V : K = L \cup {a} /\ V = T \cup X
  OBVIOUS
<1>14. Good(d, K, O, V, M)
  <2>1. /\ Ordered(d.free_ranges) /\ Structured(h.class, d.free_ranges, K)
        /\ Structs(d.free_ranges) \cup K = Structs(h.free_ranges) \cup L
        /\ Tiled(FreeSpace(d.free_ranges), ObjectSpace(h.pages), d.lost, d.window_next, V)
    BY <1>1, <1>4, <1>7, <1>8, <1>9, <1>12, <1>13
  <2> QED
    BY <1>7, <2>1, RangesChanged
<1>15. a \in K /\ K \ {a} = L
  <2>1. a \notin L
    BY <1>2, <1>4, <1>9 DEF Structured
  <2> QED
    BY <1>13, <2>1
<1>16. g = small_free(d, a)
  BY <1>1, <1>4, <1>5
<1>17. Good(g, L, O, V, M) /\ SameWindow(d, g) /\ g.class = d.class /\ g.free = d.free
  <2>1. /\ Good(small_free(d, a), K \ {a}, O, V, M)
        /\ SameWindow(d, small_free(d, a))
        /\ small_free(d, a).class = d.class /\ small_free(d, a).free = d.free
    BY <1>14, <1>15, SmallFree
  <2> QED
    BY <1>15, <1>16, <2>1
<1>18. b # 0 /\ X \subseteq WindowBase..(WindowEnd - 1)
  <2>1. h.window_next \in WindowBase..WindowEnd
    BY <1>2 DEF Tiled
  <2> QED
    BY <1>10, <1>12, <2>1, SpanInWindow
<1>19. SameObjects(h, g)
  BY <1>7, <1>17 DEF SameObjects, SameWindow, SameRest
<1>20. h.free_ranges[i].base = b
  BY <1>1, <1>4
<1> QED
  BY <1>10, <1>12, <1>13, <1>17, <1>18, <1>19, <1>20 DEF HandedOut

\* Pages of the window that were never used.
LEMMA AllocNew ==
    ASSUME NEW h, NEW L, NEW O, NEW T, NEW M, Good(h, L, O, T, M), NEW n \in Nat \ {0},
           n <= WindowEnd - h.window_next,
           NEW g, g = [h EXCEPT !.window_next = @ + n]
    PROVE  HandedOut(h, g, L, O, T, M, h.window_next, n)
<1>1. PICK F, B, lost, next :
          F = FreeSpace(h.free_ranges) /\ B = ObjectSpace(h.pages) /\ lost = h.lost /\ next = h.window_next
  OBVIOUS
<1>2. Shape(h) /\ Tiled(F, B, lost, next, T) /\ n <= WindowEnd - next
  BY <1>1 DEF Good
<1>3. /\ Tiled(F, B, lost, next + n, T \cup Span(next, n))
      /\ T \cap Span(next, n) = {} /\ Span(next, n) \subseteq WindowBase..(next + n - 1)
      /\ next + n \in WindowBase..WindowEnd /\ next \in Nat
  BY <1>2, TileGrown
<1>4. /\ Shape(g) /\ SameRest(h, g) /\ g.free_ranges = h.free_ranges /\ g.lost = h.lost
      /\ g.window_next = next + n
  BY <1>1, <1>2 DEF Shape, SameRest
<1>5. PICK V : V = T \cup Span(next, n)
  OBVIOUS
<1>6. Good(g, L, O, V, M)
  BY <1>1, <1>3, <1>4, <1>5 DEF Good, SameRest
<1>7. next # 0 /\ Span(next, n) \subseteq WindowBase..(WindowEnd - 1)
  <2>1. PICK end \in WindowBase..WindowEnd : end = next + n
    BY <1>3
  <2>2. Span(next, n) \subseteq WindowBase..(end - 1)
    BY <1>3, <2>1
  <2> QED
    BY <1>3, <2>2, SpanInWindow
<1> QED
  BY <1>1, <1>3, <1>4, <1>5, <1>6, <1>7 DEF HandedOut, SameObjects, SameRest

\* window_alloc hands out pages of the window that nobody has, or changes nothing.
LEMMA WindowAlloc ==
    ASSUME NEW h, NEW L, NEW O, NEW T, NEW M, Good(h, L, O, T, M), NEW n \in Nat \ {0},
           NEW r, r = window_alloc(h, n)
    PROVE  /\ r.ptr = 0 => r.heap = h
           /\ r.ptr # 0 => HandedOut(h, r.heap, L, O, T, M, r.ptr, n)
<1>1. PICK s : s = h.free_ranges
  OBVIOUS
<1>2. PICK i : i = Fitting(h, n)
  OBVIOUS
<1>3. Ordered(s) /\ Len(s) \in Nat
  BY <1>1 DEF Good, Ordered
<1>4. i \in 1..(Len(s) + 1) /\ (i <= Len(s) => s[i].pages >= n)
  <2> DEFINE S == {k \in 1..Len(s) : s[k].pages >= n} \cup {Len(s) + 1}
  <2>1. i = Lowest(S)
    BY <1>1, <1>2 DEF Fitting
  <2>2. S \subseteq Nat /\ S \subseteq 1..(Len(s) + 1) /\ S # {}
    BY <1>3
  <2>3. i \in S
    BY <2>1, <2>2, LowestIn
  <2> QED
    BY <1>3, <2>2, <2>3
<1>5. CASE i <= Len(s)
  <2>1. i \in 1..Len(s) /\ s[i].pages >= n
    BY <1>3, <1>4, <1>5
  <2>2. s[i].pages \in Nat
    BY <1>3, <2>1, RangeFields
  <2>3. CASE s[i].pages > n
    <3>1. /\ r.heap = [h EXCEPT !.free_ranges[i].base = @ + n, !.free_ranges[i].pages = @ - n]
          /\ r.ptr = h.free_ranges[i].base
      <4>1. r = Result([h EXCEPT !.free_ranges[i].base = @ + n, !.free_ranges[i].pages = @ - n],
                       h.free_ranges[i].base)
        BY <1>1, <1>2, <1>3, <1>4, <1>5, <2>2, <2>3 DEF window_alloc
      <4> QED
        BY <4>1 DEF Result
    <3>2. HandedOut(h, r.heap, L, O, T, M, h.free_ranges[i].base, n)
      BY <1>1, <2>1, <2>3, <3>1, AllocFromRange
    <3> QED
      BY <3>1, <3>2 DEF HandedOut
  <2>4. CASE s[i].pages = n
    <3>1. /\ r.heap = small_free([h EXCEPT !.free_ranges = RemoveAt(@, i)], h.free_ranges[i].at)
          /\ r.ptr = h.free_ranges[i].base
      <4>1. ~(s[i].pages > n)
        BY <2>2, <2>4
      <4>2. r = Result(small_free([h EXCEPT !.free_ranges = RemoveAt(@, i)], h.free_ranges[i].at),
                       h.free_ranges[i].base)
        BY <1>1, <1>2, <1>3, <1>4, <1>5, <2>4, <4>1 DEF window_alloc
      <4> QED
        BY <4>2 DEF Result
    <3>2. HandedOut(h, r.heap, L, O, T, M, h.free_ranges[i].base, n)
      BY <1>1, <2>1, <2>4, <3>1, AllocWholeRange
    <3> QED
      BY <3>1, <3>2 DEF HandedOut
  <2> QED
    BY <2>1, <2>2, <2>3, <2>4
<1>6. CASE i > Len(s)
  <2>1. ~(i <= Len(s))
    BY <1>3, <1>4, <1>6
  <2>2. CASE n <= WindowEnd - h.window_next
    <3>1. r.heap = [h EXCEPT !.window_next = @ + n] /\ r.ptr = h.window_next
      BY <1>1, <1>2, <1>6, <2>1, <2>2 DEF window_alloc, Result
    <3>2. HandedOut(h, r.heap, L, O, T, M, h.window_next, n)
      BY <2>2, <3>1, AllocNew
    <3> QED
      BY <3>1, <3>2 DEF HandedOut
  <2>3. CASE ~(n <= WindowEnd - h.window_next)
    BY <1>1, <1>2, <1>6, <2>1, <2>3 DEF window_alloc, Result
  <2> QED
    BY <2>2, <2>3
<1> QED
  BY <1>3, <1>4, <1>5, <1>6

\* The pages in hand become free.
LEMMA RangesGiven ==
    ASSUME NEW h, NEW d, NEW L, NEW O, NEW X, NEW M, NEW K, Good(h, L, O, X, M),
           Shape(d), SameRest(h, d), d.lost = h.lost, d.window_next = h.window_next,
           Ordered(d.free_ranges), Structured(h.class, d.free_ranges, K),
           Structs(d.free_ranges) \cup K = Structs(h.free_ranges) \cup L,
           FreeSpace(d.free_ranges) = FreeSpace(h.free_ranges) \cup X
    PROVE  Good(d, K, O, {}, M)
<1>1. PICK F, B, lost, next :
          F = FreeSpace(h.free_ranges) /\ B = ObjectSpace(h.pages) /\ lost = h.lost /\ next = h.window_next
  OBVIOUS
<1>2. Tiled(F, B, lost, next, X)
  BY <1>1 DEF Good
<1>3. Tiled(F \cup X, B, lost, next, {})
  BY <1>2, TileGiven
<1>4. Tiled(FreeSpace(d.free_ranges), ObjectSpace(h.pages), d.lost, d.window_next, {})
  BY <1>1, <1>3
<1>5. PICK V : V = {}
  OBVIOUS
<1>6. Good(d, K, O, V, M)
  BY <1>4, <1>5, RangesChanged
<1> QED
  BY <1>5, <1>6

\* The ranges around the pages b..b+n-1.
Around(s, k, b, n) ==
    /\ k \in 1..(Len(s) + 1)
    /\ \A j \in 1..Len(s) : j < k => s[j].base + s[j].pages <= b
    /\ \A j \in 1..Len(s) : k <= j => b + n <= s[j].base

\* When the one before does not touch, none before does; likewise behind.
LEMMA NoneBefore ==
    ASSUME NEW s, Ordered(s), NEW k, NEW b \in Nat, NEW n \in Nat, Around(s, k, b, n),
           ~(k > 1 /\ s[k - 1].base + s[k - 1].pages = b)
    PROVE  EndBelow(s, k, b)
<1> SUFFICES ASSUME NEW j \in 1..Len(s), j < k
             PROVE  s[j].base + s[j].pages < b
  BY DEF EndBelow
<1>1. Len(s) \in Nat /\ k \in 1..(Len(s) + 1)
  BY DEF Ordered, Around
<1>2. k - 1 \in 1..Len(s) /\ k > 1 /\ k - 1 < k
  BY <1>1
<1>3. /\ s[j].base \in Nat /\ s[j].pages \in Nat
      /\ s[k - 1].base \in Nat /\ s[k - 1].pages \in Nat
  BY <1>2, RangeFields
<1>4. s[j].base + s[j].pages <= b /\ s[k - 1].base + s[k - 1].pages <= b
  BY <1>2 DEF Around
<1>5. CASE j = k - 1
  BY <1>2, <1>3, <1>4, <1>5
<1>6. CASE j # k - 1
  <2>1. j < k - 1
    BY <1>1, <1>6
  <2>2. s[j].base + s[j].pages < s[k - 1].base
    BY <1>2, <2>1 DEF Ordered
  <2> QED
    BY <1>3, <1>4, <2>2, SMTT(40)
<1> QED
  BY <1>5, <1>6

LEMMA NoneBehind ==
    ASSUME NEW s, Ordered(s), NEW k, NEW b \in Nat, NEW n \in Nat, Around(s, k, b, n),
           ~(k <= Len(s) /\ b + n = s[k].base)
    PROVE  BeginAbove(s, k, b + n)
<1> SUFFICES ASSUME NEW j \in 1..Len(s), k <= j
             PROVE  b + n < s[j].base
  BY DEF BeginAbove
<1>1. Len(s) \in Nat /\ k \in 1..(Len(s) + 1)
  BY DEF Ordered, Around
<1>2. k \in 1..Len(s) /\ k <= Len(s) /\ k <= k
  BY <1>1
<1>3. s[j].base \in Nat /\ s[k].base \in Nat /\ s[k].pages \in Nat
  BY <1>2, RangeFields
<1>4. b + n <= s[j].base /\ b + n <= s[k].base
  BY <1>2 DEF Around
<1>5. CASE j = k
  BY <1>2, <1>3, <1>4, <1>5
<1>6. CASE j # k
  <2>1. k < j
    BY <1>1, <1>6
  <2>2. s[k].base + s[k].pages < s[j].base
    BY <1>2, <2>1 DEF Ordered
  <2> QED
    BY <1>3, <1>4, <2>2
<1> QED
  BY <1>5, <1>6

\* Spans that lie end to end.
LEMMA SpansJoined ==
    ASSUME NEW a \in Nat, NEW m \in Nat, NEW b \in Nat, NEW n \in Nat, a + m = b
    PROVE  Span(a, m) \cup Span(b, n) = Span(a, m + n)
<1>1. ASSUME NEW x
      PROVE  x \in Span(a, m + n) <=> x \in Span(a, m) \/ x \in Span(b, n)
  <2>1. x \in Span(a, m) <=> x \in Nat /\ a <= x /\ x < a + m
    BY SpanIs
  <2>2. x \in Span(b, n) <=> x \in Nat /\ b <= x /\ x < b + n
    BY SpanIs
  <2>3. x \in Span(a, m + n) <=> x \in Nat /\ a <= x /\ x < a + (m + n)
    <3>1. m + n \in Nat
      OBVIOUS
    <3> QED
      BY <3>1, SpanIs
  <2> QED
    BY <2>1, <2>2, <2>3
<1> QED
  BY <1>1

\* A list of ranges one of which now has the pages X too.
Lengthened(s, t, X) ==
    /\ Ordered(t) /\ Len(t) = Len(s) /\ \A j \in 1..Len(s) : t[j].at = s[j].at
    /\ FreeSpace(t) = FreeSpace(s) \cup X

TouchedBefore(s, k, b, n) ==
    k > 1 /\ s[k - 1].base + s[k - 1].pages = b /\ ~(k <= Len(s) /\ b + n = s[k].base)
TouchedBehind(s, k, b, n) ==
    ~(k > 1 /\ s[k - 1].base + s[k - 1].pages = b) /\ k <= Len(s) /\ b + n = s[k].base

\* The pages join the range before.
LEMMA JoinBefore ==
    ASSUME NEW s, Ordered(s), NEW k, NEW b \in Nat, NEW n \in Nat \ {0}, Around(s, k, b, n),
           TouchedBefore(s, k, b, n), NEW t, t = [s EXCEPT ![k - 1].pages = @ + n]
    PROVE  Lengthened(s, t, Span(b, n))
<1> USE DEF TouchedBefore
<1>1. Len(s) \in Nat /\ k \in 1..(Len(s) + 1) /\ s \in Seq(RangeStruct)
  BY DEF Ordered, Around
<1>2. PICK i \in 1..Len(s) : i = k - 1 /\ k = i + 1
  BY <1>1
<1>3. s[i] \in RangeStruct
  BY RangeFields
<1>4. PICK a \in Nat, m \in Nat \ {0}, c \in Nat : s[i] = [base |-> a, pages |-> m, at |-> c]
  BY <1>3 DEF RangeStruct
<1>5. a + m = b
  BY <1>2, <1>4
<1>6. PICK e : e = [base |-> a, pages |-> m + n, at |-> c]
  OBVIOUS
<1>7. e \in RangeStruct /\ e.base = a /\ e.pages = m + n /\ e.at = s[i].at
  BY <1>4, <1>6 DEF RangeStruct
<1>8. t = [s EXCEPT ![i] = e]
  <2>1. [s[i] EXCEPT !.pages = @ + n] = e
    BY <1>4, <1>6
  <2> QED
    BY <1>1, <1>2, <2>1
<1>9. EndBelow(s, i, e.base)
  BY <1>4, <1>7 DEF EndBelow, Ordered
<1>10. BeginAbove(s, i + 1, e.base + e.pages)
  <2>1. BeginAbove(s, k, b + n)
    BY NoneBehind
  <2>2. e.base + e.pages = b + n
    BY <1>5, <1>7
  <2> QED
    BY <1>2, <2>1, <2>2
<1>11. Resized(s, t, i, e)
  BY <1>7, <1>8, <1>9, <1>10, RangeReplaced
<1>12. FreeSpace(t) = (FreeSpace(s) \ Span(a, m)) \cup Span(a, m + n)
  <2>1. s[i].base = a /\ s[i].pages = m
    BY <1>4
  <2> QED
    BY <1>7, <1>11, <2>1 DEF Resized
<1>13. Span(a, m) \cup Span(b, n) = Span(a, m + n)
  BY <1>5, SpansJoined
<1>14. Span(a, m) \subseteq FreeSpace(s)
  BY <1>4 DEF FreeSpace
<1>15. FreeSpace(t) = FreeSpace(s) \cup Span(b, n)
  BY <1>12, <1>13, <1>14
<1> QED
  BY <1>11, <1>15 DEF Resized, Lengthened

\* The pages join the range behind.
LEMMA JoinBehind ==
    ASSUME NEW s, Ordered(s), NEW k, NEW b \in Nat, NEW n \in Nat \ {0}, Around(s, k, b, n),
           TouchedBehind(s, k, b, n), NEW t, t = [s EXCEPT ![k].base = b, ![k].pages = @ + n]
    PROVE  Lengthened(s, t, Span(b, n))
<1> USE DEF TouchedBehind
<1>1. Len(s) \in Nat /\ k \in 1..Len(s) /\ s \in Seq(RangeStruct)
  BY DEF Ordered, Around
<1>2. s[k] \in RangeStruct
  BY <1>1, RangeFields
<1>3. PICK a \in Nat, m \in Nat \ {0}, c \in Nat : s[k] = [base |-> a, pages |-> m, at |-> c]
  BY <1>2 DEF RangeStruct
<1>4. b + n = a
  BY <1>3
<1>5. PICK e : e = [base |-> b, pages |-> n + m, at |-> c]
  OBVIOUS
<1>6. e \in RangeStruct /\ e.base = b /\ e.pages = n + m /\ e.at = s[k].at
  BY <1>3, <1>5 DEF RangeStruct
<1>7. t = [s EXCEPT ![k] = e]
  <2>1. PICK u : u = [s EXCEPT ![k].base = b]
    OBVIOUS
  <2>2. u \in Seq(RangeStruct) /\ u[k] = [base |-> b, pages |-> m, at |-> c]
    <3>1. [base |-> b, pages |-> m, at |-> c] \in RangeStruct
      BY DEF RangeStruct
    <3>2. [s[k] EXCEPT !.base = b] = [base |-> b, pages |-> m, at |-> c]
      BY <1>3
    <3> QED
      BY <1>1, <2>1, <3>1, <3>2
  <2>3. [u[k] EXCEPT !.pages = @ + n] = e
    BY <1>5, <2>2
  <2>4. [u EXCEPT ![k].pages = @ + n] = [u EXCEPT ![k] = e]
    BY <2>2, <2>3
  <2>5. [u EXCEPT ![k] = e] = [s EXCEPT ![k] = e]
    BY <1>1, <2>1, <2>2
  <2>6. t = [u EXCEPT ![k].pages = @ + n]
    BY <2>1
  <2> QED
    BY <2>4, <2>5, <2>6
<1>8. EndBelow(s, k, e.base)
  BY <1>6, NoneBefore
<1>9. BeginAbove(s, k + 1, e.base + e.pages)
  <2>1. e.base + e.pages = a + m
    BY <1>4, <1>6
  <2>2. ASSUME NEW j \in 1..Len(s), k + 1 <= j PROVE a + m < s[j].base
    <3>1. k < j
      BY <1>1, <2>2
    <3> QED
      BY <1>1, <1>3, <3>1 DEF Ordered
  <2> QED
    BY <2>1, <2>2 DEF BeginAbove
<1>10. Resized(s, t, k, e)
  BY <1>1, <1>6, <1>7, <1>8, <1>9, RangeReplaced
<1>11. FreeSpace(t) = (FreeSpace(s) \ Span(a, m)) \cup Span(b, n + m)
  <2>1. s[k].base = a /\ s[k].pages = m
    BY <1>3
  <2> QED
    BY <1>6, <1>10, <2>1 DEF Resized
<1>12. Span(b, n) \cup Span(a, m) = Span(b, n + m)
  BY <1>4, SpansJoined
<1>13. Span(a, m) \subseteq FreeSpace(s)
  BY <1>1, <1>3 DEF FreeSpace
<1>14. FreeSpace(t) = FreeSpace(s) \cup Span(b, n)
  BY <1>11, <1>12, <1>13
<1> QED
  BY <1>10, <1>14 DEF Resized, Lengthened

LEMMA PagesSet ==
    ASSUME NEW a, NEW m, NEW c, NEW q, NEW r, r = [base |-> a, pages |-> m, at |-> c]
    PROVE  [r EXCEPT !.pages = q] = [base |-> a, pages |-> q, at |-> c]
OBVIOUS

\* Three spans, each where the one before it ends.
InARow(a, m, b, n, o, q, A, X, Z) ==
    /\ a + m = b /\ q = m + n + o
    /\ A = Span(a, m) /\ X = Span(b, n) /\ Z = Span(b + n, o)

LEMMA ThreeSpans ==
    ASSUME NEW a \in Nat, NEW m \in Nat, NEW b \in Nat, NEW n \in Nat, NEW o \in Nat, NEW q,
           NEW A, NEW X, NEW Z, InARow(a, m, b, n, o, q, A, X, Z)
    PROVE  A \cup X \cup Z = Span(a, q)
<1> USE DEF InARow
<1>1. m + n \in Nat /\ b + n \in Nat /\ a + (m + n) = b + n
  OBVIOUS
<1>2. A \cup X = Span(a, m + n)
  BY SpansJoined
<1>3. Span(a, m + n) \cup Z = Span(a, m + n + o)
  BY <1>1, SpansJoined
<1> QED
  BY <1>2, <1>3

\* The pages close the gap between two ranges; the second struct is not needed any more.
Closed(s, k, n) == RemoveAt([s EXCEPT ![k - 1].pages = @ + n + s[k].pages], k)
Touched(s, k, b, n) ==
    k > 1 /\ s[k - 1].base + s[k - 1].pages = b /\ k <= Len(s) /\ b + n = s[k].base

LEMMA JoinBoth ==
    ASSUME NEW s, Ordered(s), NEW k, NEW b \in Nat, NEW n \in Nat \ {0}, Around(s, k, b, n),
           Touched(s, k, b, n),
           NEW t, t = Closed(s, k, n),
           NEW class, NEW L, Structured(class, s, L)
    PROVE  /\ Ordered(t) /\ FreeSpace(t) = FreeSpace(s) \cup Span(b, n)
           /\ s[k].at \in Structs(s) /\ Structs(t) = Structs(s) \ {s[k].at}
           /\ Structured(class, t, L \cup {s[k].at})
<1>1. Len(s) \in Nat /\ k \in 1..Len(s) /\ k > 1 /\ s \in Seq(RangeStruct)
  BY DEF Ordered, Around, Touched
<1>2. PICK i \in 1..Len(s) : i = k - 1 /\ k = i + 1
  BY <1>1
<1>3. PICK N \in Nat : N = Len(s) /\ k \in 1..N /\ i \in 1..(N - 1)
  BY <1>1, <1>2
<1>4. s[i] \in RangeStruct /\ s[k] \in RangeStruct
  BY <1>1, RangeFields
<1>5. PICK a \in Nat, m \in Nat \ {0}, c \in Nat : s[i] = [base |-> a, pages |-> m, at |-> c]
  BY <1>4 DEF RangeStruct
<1>6. PICK o \in Nat : o = s[k].pages /\ o # 0
  BY <1>1, RangeFields
<1>7. a + m = b /\ s[k].base = b + n
  BY <1>2, <1>5 DEF Touched
<1>8. PICK e : e = [base |-> a, pages |-> m + n + o, at |-> c]
  OBVIOUS
<1>9. e \in RangeStruct /\ e.base = a /\ e.pages = m + n + o /\ e.at = c
  BY <1>8 DEF RangeStruct
<1>10. PICK u : u = RemoveAt(s, k)
  OBVIOUS
<1>11. /\ Ordered(u) /\ Len(u) = N - 1
       /\ \A j \in 1..(N - 1) : u[j] = IF j < k THEN s[j] ELSE s[j + 1]
       /\ FreeSpace(u) = FreeSpace(s) \ Span(s[k].base, s[k].pages)
  <2>1. /\ Ordered(u) /\ Shortened(s, u, k)
        /\ FreeSpace(u) = FreeSpace(s) \ Span(s[k].base, s[k].pages)
    BY <1>1, <1>10, RangeRemoved
  <2> QED
    BY <1>3, <2>1 DEF Shortened
<1>12. i < k /\ u[i] = s[i] /\ u \in Seq(RangeStruct)
  BY <1>2, <1>3, <1>11 DEF Ordered
<1>13. t = [u EXCEPT ![i] = e]
  <2>1. PICK v : v = [s EXCEPT ![i] = e]
    OBVIOUS
  <2>2. /\ v \in Seq(RangeStruct) /\ Len(v) = N
        /\ \A j \in 1..N : v[j] = IF j = i THEN e ELSE s[j]
    BY <1>1, <1>3, <1>9, <2>1
  <2>3. t = RemoveAt(v, k)
    <3>1. [s[i] EXCEPT !.pages = @ + n + o] = e
      <4>1. PICK q : q = m + n + o
        OBVIOUS
      <4>2. s[i].pages + n + o = q /\ e = [base |-> a, pages |-> q, at |-> c]
        BY <1>5, <1>8, <4>1
      <4>3. PICK r : r = s[i]
        OBVIOUS
      <4>4. r = [base |-> a, pages |-> m, at |-> c]
        BY <1>5, <4>3
      <4>5. [r EXCEPT !.pages = q] = e
        BY <4>2, <4>4, PagesSet
      <4> QED
        BY <4>2, <4>3, <4>5
    <3>2. [s EXCEPT ![i].pages = @ + n + o] = v
      BY <1>1, <2>1, <3>1
    <3> QED
      BY <1>2, <1>6, <3>2 DEF Closed
  <2>4. /\ t \in Seq(RangeStruct) /\ Len(t) = N - 1
        /\ \A j \in 1..(N - 1) : t[j] = IF j < k THEN v[j] ELSE v[j + 1]
    <3>1. k \in 1..Len(v)
      BY <1>3, <2>2
    <3>2. t \in Seq(RangeStruct) /\ Shortened(v, t, k)
      BY <2>2, <2>3, <3>1, Removed
    <3> QED
      BY <2>2, <3>2 DEF Shortened
  <2>5. PICK w : w = [u EXCEPT ![i] = e]
    OBVIOUS
  <2>6. /\ w \in Seq(RangeStruct) /\ Len(w) = N - 1
        /\ \A j \in 1..(N - 1) : w[j] = IF j = i THEN e ELSE u[j]
    BY <1>3, <1>9, <1>11, <1>12, <2>5, SMTT(40)
  <2>7. ASSUME NEW j \in 1..(N - 1) PROVE t[j] = w[j]
    <3>1. j \in 1..N /\ j + 1 \in 1..N
      OBVIOUS
    <3>2. CASE j < k
      BY <1>11, <2>2, <2>4, <2>6, <3>1, <3>2
    <3>3. CASE ~(j < k)
      <4>1. j # i /\ j + 1 # i
        BY <1>2, <3>3
      <4> QED
        <5>1. t[j] = v[j + 1] /\ v[j + 1] = s[j + 1]
          BY <2>2, <2>4, <3>1, <3>3, <4>1
        <5>2. w[j] = u[j] /\ u[j] = s[j + 1]
          BY <1>11, <2>6, <3>3, <4>1
        <5> QED
          BY <5>1, <5>2
    <3> QED
      BY <3>2, <3>3
  <2>8. N - 1 \in Nat
    BY <1>3
  <2>9. t = w
    <3>1. t = [j \in 1..(N - 1) |-> t[j]]
      BY <2>4, <2>8
    <3>2. w = [j \in 1..(N - 1) |-> w[j]]
      BY <2>6, <2>8
    <3> QED
      BY <2>7, <3>1, <3>2
  <2> QED
    BY <2>5, <2>9
<1>14. EndBelow(u, i, e.base)
  <2>1. u[i].base = e.base /\ i \in 1..Len(u)
    BY <1>3, <1>5, <1>9, <1>11, <1>12
  <2> QED
    BY <1>11, <2>1 DEF EndBelow, Ordered
<1>15. BeginAbove(u, i + 1, e.base + e.pages)
  <2> SUFFICES ASSUME NEW j \in 1..(N - 1), i + 1 <= j
               PROVE  e.base + e.pages < u[j].base
    BY <1>11 DEF BeginAbove
  <2>1. j + 1 \in 1..N /\ k < j + 1 /\ ~(j < k)
    BY <1>2, <1>3
  <2>2. u[j] = s[j + 1]
    BY <1>11, <2>1
  <2>3. s[k].base + s[k].pages < s[j + 1].base
    BY <1>3, <2>1 DEF Ordered
  <2>4. e.base + e.pages = (b + n) + o
    <3>1. a + m = b /\ e.base = a /\ e.pages = m + n + o
      BY <1>7, <1>9
    <3>2. a + (m + n + o) = ((a + m) + n) + o
      BY <1>5, <1>6
    <3> QED
      BY <3>1, <3>2
  <2> QED
    BY <1>6, <1>7, <2>2, <2>3, <2>4
<1>16. Resized(u, t, i, e)
  <2>1. i \in 1..Len(u) /\ e.at = u[i].at
    BY <1>3, <1>5, <1>9, <1>11, <1>12
  <2> QED
    BY <1>9, <1>11, <1>13, <1>14, <1>15, <2>1, RangeReplaced
<1>17. FreeSpace(t) = FreeSpace(s) \cup Span(b, n)
  <2>1. PICK A, X, Z : A = Span(a, m) /\ X = Span(b, n) /\ Z = Span(b + n, o)
    OBVIOUS
  <2>2. FreeSpace(t) = (FreeSpace(u) \ A) \cup Span(a, m + n + o)
    <3>1. u[i].base = a /\ u[i].pages = m
      BY <1>5, <1>12
    <3> QED
      BY <1>9, <1>16, <2>1, <3>1 DEF Resized
  <2>3. FreeSpace(u) = FreeSpace(s) \ Z
    BY <1>6, <1>7, <1>11, <2>1
  <2>4. m \in Nat /\ n \in Nat
    OBVIOUS
  <2>5. A \cup X \cup Z = Span(a, m + n + o)
    <3>1. PICK q : q = m + n + o
      OBVIOUS
    <3>2. PICK x \in Nat, y \in Nat : x = m /\ y = n
      BY <2>4
    <3>3. InARow(a, x, b, y, o, q, A, X, Z)
      BY <1>7, <2>1, <3>1, <3>2 DEF InARow
    <3>4. A \cup X \cup Z = Span(a, q)
      BY <3>3, ThreeSpans, SMTT(40)
    <3> QED
      BY <3>1, <3>4
  <2>6. A \subseteq FreeSpace(s) /\ Z \subseteq FreeSpace(s)
    <3>1. A = Span(s[i].base, s[i].pages) /\ Z = Span(s[k].base, s[k].pages)
      BY <1>5, <1>6, <1>7, <2>1
    <3> QED
      BY <1>1, <3>1 DEF FreeSpace
  <2> QED
    BY <2>1, <2>2, <2>3, <2>5, <2>6
<1>18. /\ s[k].at \in Structs(s) /\ Structs(u) = Structs(s) \ {s[k].at}
       /\ Structured(class, u, L \cup {s[k].at})
  <2>1. Shortened(s, u, k)
    BY <1>3, <1>11 DEF Shortened
  <2> QED
    BY <1>3, <2>1, StructsRemoved
<1>19. PICK K : K = L \cup {s[k].at}
  OBVIOUS
<1>20. Structs(t) = Structs(u) /\ Structured(class, t, K)
  <2>1. Len(t) = Len(u) /\ (\A j \in 1..Len(u) : t[j].at = u[j].at) /\ Structured(class, u, K)
    BY <1>16, <1>18, <1>19 DEF Resized
  <2> QED
    BY <2>1, StructsSame
<1> QED
  BY <1>16, <1>17, <1>18, <1>19, <1>20 DEF Resized

\* What window_free does: the pages X in hand are free or, without memory, lost.
Given(h, g, L, O, M) ==
    /\ Good(g, L, O, {}, M) /\ Grown(h, g)
    /\ g.pages = h.pages /\ g.pte = h.pte /\ g.table = h.table
    /\ h.free # {} => g.lost = h.lost

OnlyRanges(h, g, t) ==
    /\ Shape(g) /\ SameRest(h, g) /\ g.lost = h.lost /\ g.window_next = h.window_next
    /\ g.free_ranges = t

\* They join one of the ranges.
LEMMA GiveOne ==
    ASSUME NEW h, NEW L, NEW O, NEW X, NEW M, Good(h, L, O, X, M),
           NEW t, Lengthened(h.free_ranges, t, X), NEW g, OnlyRanges(h, g, t)
    PROVE  Given(h, g, L, O, M)
<1>1. PICK s, class : s = h.free_ranges /\ class = h.class
  OBVIOUS
<1>2. Shape(h) /\ Structured(class, s, L)
  BY <1>1 DEF Good
<1>3. /\ Shape(g) /\ SameRest(h, g) /\ g.lost = h.lost /\ g.window_next = h.window_next
      /\ g.free_ranges = t
  BY DEF OnlyRanges
<1>4. Structs(t) = Structs(s) /\ Structured(class, t, L)
  <2>1. Len(t) = Len(s) /\ \A j \in 1..Len(s) : t[j].at = s[j].at
    BY <1>1 DEF Lengthened
  <2> QED
    BY <1>2, <2>1, StructsSame
<1>5. Good(g, L, O, {}, M)
  <2>1. /\ Ordered(g.free_ranges) /\ Structured(h.class, g.free_ranges, L)
        /\ Structs(g.free_ranges) \cup L = Structs(h.free_ranges) \cup L
        /\ FreeSpace(g.free_ranges) = FreeSpace(h.free_ranges) \cup X
    BY <1>1, <1>3, <1>4 DEF Lengthened
  <2> QED
    BY <1>3, <2>1, RangesGiven
<1> QED
  BY <1>3, <1>5 DEF Given, SameRest, Grown

\* They close the gap between two ranges.
LEMMA GiveBoth ==
    ASSUME NEW h, NEW L, NEW O, NEW M, NEW b \in Nat, NEW n \in Nat \ {0},
           Good(h, L, O, Span(b, n), M), NEW k, Around(h.free_ranges, k, b, n),
           Touched(h.free_ranges, k, b, n),
           NEW u, u = Closed(h.free_ranges, k, n),
           NEW g, g = small_free([h EXCEPT !.free_ranges = u], h.free_ranges[k].at)
    PROVE  Given(h, g, L, O, M)
<1>1. PICK s, class, X : s = h.free_ranges /\ class = h.class /\ X = Span(b, n)
  OBVIOUS
<1>2. Shape(h) /\ Ordered(s) /\ Structured(class, s, L) /\ Good(h, L, O, X, M)
  BY <1>1 DEF Good
<1>3. PICK t : t = Closed(s, k, n)
  OBVIOUS
<1>4. PICK a : a = s[k].at
  OBVIOUS
<1>5. /\ Ordered(t) /\ FreeSpace(t) = FreeSpace(s) \cup Span(b, n)
      /\ s[k].at \in Structs(s) /\ Structs(t) = Structs(s) \ {s[k].at}
      /\ Structured(class, t, L \cup {s[k].at})
  <2>1. Around(s, k, b, n) /\ Touched(s, k, b, n)
    BY <1>1
  <2> QED
    BY <1>2, <1>3, <2>1, JoinBoth
<1>6. PICK K : K = L \cup {a}
  OBVIOUS
<1>7. PICK d : d = [h EXCEPT !.free_ranges = u]
  OBVIOUS
<1>8. /\ Shape(d) /\ SameRest(h, d) /\ d.lost = h.lost /\ d.window_next = h.window_next
      /\ d.free_ranges = t
  BY <1>1, <1>2, <1>3, <1>7 DEF Shape, SameRest
<1>9. Good(d, K, O, {}, M)
  <2>1. /\ Ordered(d.free_ranges) /\ Structured(h.class, d.free_ranges, K)
        /\ Structs(d.free_ranges) \cup K = Structs(h.free_ranges) \cup L
        /\ FreeSpace(d.free_ranges) = FreeSpace(h.free_ranges) \cup X
    BY <1>1, <1>4, <1>5, <1>6, <1>8
  <2> QED
    BY <1>2, <1>8, <2>1, RangesGiven
<1>10. a \in K /\ K \ {a} = L
  <2>1. a \notin L
    BY <1>2, <1>4, <1>5 DEF Structured
  <2> QED
    BY <1>6, <2>1
<1>11. PICK V : V = {}
  OBVIOUS
<1>12. /\ Good(small_free(d, a), K \ {a}, O, V, M)
       /\ SameWindow(d, small_free(d, a))
       /\ small_free(d, a).class = d.class /\ small_free(d, a).free = d.free
  BY <1>9, <1>10, <1>11, SmallFree
<1>13. g = small_free(d, a)
  BY <1>1, <1>4, <1>7
<1>14. Good(g, L, O, {}, M) /\ SameWindow(d, g) /\ g.class = h.class
  BY <1>8, <1>10, <1>11, <1>12, <1>13 DEF SameRest
<1> QED
  BY <1>8, <1>14 DEF Given, SameWindow, SameRest, Grown

\* They become a range of their own, with the struct a that was allocated for it.
LEMMA GiveNew ==
    ASSUME NEW h, NEW L, NEW O, NEW M, NEW b \in Nat, NEW n \in Nat \ {0}, NEW a \in Nat,
           Good(h, L \cup {a}, O, Span(b, n), M), a \notin L,
           Kind(h.class, a) = class_for(RangeSize),
           NEW k, Around(h.free_ranges, k, b, n),
           EndBelow(h.free_ranges, k, b), BeginAbove(h.free_ranges, k, b + n),
           NEW g, g = [h EXCEPT !.free_ranges =
                        InsertAt(@, k, [base |-> b, pages |-> n, at |-> a])]
    PROVE  Given(h, g, L, O, M)
<1>1. PICK s, class, X, K, e : /\ s = h.free_ranges /\ class = h.class /\ X = Span(b, n)
                               /\ K = L \cup {a} /\ e = [base |-> b, pages |-> n, at |-> a]
  OBVIOUS
<1>2. Shape(h) /\ Ordered(s) /\ Structured(class, s, K) /\ Good(h, K, O, X, M)
  BY <1>1 DEF Good
<1>3. e \in RangeStruct /\ e.base = b /\ e.pages = n /\ e.at = a
  BY <1>1 DEF RangeStruct
<1>4. PICK t : t = InsertAt(s, k, e)
  OBVIOUS
<1>5. Len(s) \in Nat /\ k \in 1..(Len(s) + 1)
  BY <1>1, <1>2 DEF Ordered, Around
<1>6. Enlarged(s, t, k, e)
  <2>1. EndBelow(s, k, e.base) /\ BeginAbove(s, k, e.base + e.pages)
    BY <1>1, <1>3
  <2> QED
    BY <1>2, <1>3, <1>4, <1>5, <2>1, RangeInserted
<1>7. /\ Shape(g) /\ SameRest(h, g) /\ g.lost = h.lost /\ g.window_next = h.window_next
      /\ g.free_ranges = t
  BY <1>1, <1>2, <1>4 DEF Shape, SameRest
<1>8. Structs(t) = Structs(s) \cup {a} /\ Structured(class, t, L)
  <2>1. PICK N \in Nat : N = Len(s)
    BY <1>5
  <2>2. k \in 1..(N + 1)
    BY <1>5, <2>1
  <2>3. FreshStruct(class, s, L, a)
    BY <1>1, <1>2 DEF FreshStruct
  <2>4. e.at = a /\ Enlarged(s, t, k, e)
    BY <1>3, <1>6
  <2>5. StructMore(class, s, t, L, a)
    BY <2>1, <2>2, <2>3, <2>4, StructsInserted
  <2> QED
    BY <2>5 DEF StructMore
<1>9. Good(g, L, O, {}, M)
  <2>1. /\ Ordered(g.free_ranges) /\ Structured(h.class, g.free_ranges, L)
        /\ Structs(g.free_ranges) \cup L = Structs(h.free_ranges) \cup K
        /\ FreeSpace(g.free_ranges) = FreeSpace(h.free_ranges) \cup X
    BY <1>1, <1>3, <1>6, <1>7, <1>8 DEF Enlarged
  <2> QED
    BY <1>2, <1>7, <2>1, RangesGiven
<1> QED
  BY <1>7, <1>9 DEF Given, SameRest, Grown

\* There is no memory for a struct: they are lost.
LEMMA GiveUp ==
    ASSUME NEW h, NEW L, NEW O, NEW X, NEW M, Good(h, L, O, X, M), h.free = {},
           NEW g, g = [h EXCEPT !.lost = @ \cup X]
    PROVE  Given(h, g, L, O, M)
<1>1. PICK F, B, lost, next :
          F = FreeSpace(h.free_ranges) /\ B = ObjectSpace(h.pages) /\ lost = h.lost /\ next = h.window_next
  OBVIOUS
<1>2. Shape(h) /\ Tiled(F, B, lost, next, X)
  BY <1>1 DEF Good
<1>3. Tiled(F, B, lost \cup X, next, {})
  BY <1>2, TileGiven
<1>4. /\ Shape(g) /\ SameRest(h, g) /\ g.lost = lost \cup X /\ g.window_next = next
      /\ g.free_ranges = h.free_ranges
  BY <1>1, <1>2 DEF Shape, SameRest
<1>5. Good(g, L, O, {}, M)
  BY <1>1, <1>3, <1>4 DEF Good, SameRest
<1> QED
  BY <1>4, <1>5 DEF Given, SameRest, Grown

\* window_free, arm by arm.
LEMMA WindowFree ==
    ASSUME NEW h, NEW L, NEW O, NEW M, NEW b \in Nat, NEW n \in Nat \ {0},
           Good(h, L, O, Span(b, n), M), NEW g, g = window_free(h, b, n)
    PROVE  Given(h, g, L, O, M)
<1>1. PICK s, X, k : s = h.free_ranges /\ X = Span(b, n) /\ k = Following(h, b)
  OBVIOUS
<1>2. Shape(h) /\ Ordered(s) /\ Good(h, L, O, X, M) /\ Len(s) \in Nat
  BY <1>1 DEF Good, Ordered
<1>3. Span(b, n) \cap FreeSpace(s) = {}
  BY <1>1 DEF Good, Tiled
<1>4. Around(s, k, b, n)
  <2>1. k = Lowest({i \in 1..Len(s) : s[i].base >= b} \cup {Len(s) + 1})
    BY <1>1 DEF Following
  <2>2. /\ k \in 1..(Len(s) + 1)
        /\ \A j \in 1..Len(s) : j < k => s[j].base + s[j].pages <= b
        /\ \A j \in 1..Len(s) : k <= j => b + n <= s[j].base
    BY <1>2, <1>3, <2>1, Gap
  <2> QED
    BY <2>2 DEF Around
<1> DEFINE before == k > 1 /\ s[k - 1].base + s[k - 1].pages = b
           behind == k <= Len(s) /\ b + n = s[k].base
<1>5. k \in Nat /\ 1 <= k /\ k <= Len(s) + 1
  BY <1>2, <1>4 DEF Around
<1>6. CASE before /\ behind
  <2>1. PICK t : t = Closed(s, k, n)
    OBVIOUS
  <2>2. g = small_free([h EXCEPT !.free_ranges = t], s[k].at)
    BY <1>1, <1>6, <2>1 DEF window_free, Closed
  <2>3. Around(h.free_ranges, k, b, n) /\ Touched(h.free_ranges, k, b, n)
    BY <1>1, <1>4, <1>6 DEF Touched
  <2> QED
    BY <1>1, <2>1, <2>2, <2>3, GiveBoth
<1>7. CASE before /\ ~behind
  <2>1. PICK t : t = [s EXCEPT ![k - 1].pages = @ + n]
    OBVIOUS
  <2>2. g = [h EXCEPT !.free_ranges[k - 1].pages = @ + n]
    BY <1>1, <1>7 DEF window_free
  <2>3. OnlyRanges(h, g, t)
    BY <1>1, <1>2, <2>1, <2>2 DEF OnlyRanges, Shape, SameRest
  <2>4. Lengthened(h.free_ranges, t, X)
    <3>1. TouchedBefore(s, k, b, n)
      BY <1>7 DEF TouchedBefore
    <3>2. Lengthened(s, t, Span(b, n))
      BY <1>2, <1>4, <2>1, <3>1, JoinBefore
    <3> QED
      BY <1>1, <3>2
  <2> QED
    BY <1>2, <2>3, <2>4, GiveOne
<1>8. CASE ~before /\ behind
  <2>1. PICK t : t = [s EXCEPT ![k].base = b, ![k].pages = @ + n]
    OBVIOUS
  <2>2. g = [h EXCEPT !.free_ranges[k].base = b, !.free_ranges[k].pages = @ + n]
    BY <1>1, <1>8 DEF window_free
  <2>3. OnlyRanges(h, g, t)
    BY <1>1, <1>2, <2>1, <2>2 DEF OnlyRanges, Shape, SameRest
  <2>4. Lengthened(h.free_ranges, t, X)
    <3>1. TouchedBehind(s, k, b, n)
      BY <1>8 DEF TouchedBehind
    <3>2. Lengthened(s, t, Span(b, n))
      BY <1>2, <1>4, <2>1, <3>1, JoinBehind
    <3> QED
      BY <1>1, <3>2
  <2> QED
    BY <1>2, <2>3, <2>4, GiveOne
<1>9. CASE ~before /\ ~behind
  <2>1. PICK c, r : c = class_for(RangeSize) /\ r = small_alloc(h, c)
    OBVIOUS
  <2>2. c \in Class
    BY <2>1, RangeClass
  <2>3. SmallTaken(h, r, c, L, O, X, M)
    BY <1>2, <2>1, <2>2, SmallAlloc
  <2>4. CASE r.ptr # 0
    <3>1. PICK d, a : d = r.heap /\ a = r.ptr
      OBVIOUS
    <3>2. g = [d EXCEPT !.free_ranges = InsertAt(@, k, [base |-> b, pages |-> n, at |-> a])]
      BY <1>1, <1>9, <2>1, <2>4, <3>1 DEF window_free
    <3>3. /\ Good(d, L \cup {a}, O, Span(b, n), M) /\ a \notin L /\ a \in Nat
          /\ Kind(d.class, a) = class_for(RangeSize) /\ d.free_ranges = s
      BY <1>1, <2>1, <2>3, <2>4, <3>1 DEF SmallTaken, SameWindow
    <3>4. EndBelow(s, k, b) /\ BeginAbove(s, k, b + n)
      BY <1>2, <1>4, <1>9, NoneBefore, NoneBehind
    <3>5. Given(d, g, L, O, M)
      <4>1. /\ Around(d.free_ranges, k, b, n) /\ EndBelow(d.free_ranges, k, b)
            /\ BeginAbove(d.free_ranges, k, b + n)
        BY <1>4, <3>3, <3>4
      <4> QED
        BY <3>2, <3>3, <4>1, GiveNew
    <3>6. g.lost = h.lost
      <4>1. g.lost = d.lost
        <5>1. Shape(d)
          BY <3>3 DEF Good
        <5> QED
          BY <3>2, <5>1 DEF Shape
      <4> QED
        BY <2>3, <3>1, <4>1 DEF SmallTaken, SameWindow
    <3> QED
      BY <2>3, <3>1, <3>5, <3>6 DEF SmallTaken, Given, SameWindow, Grown
  <2>5. CASE r.ptr = 0
    <3>1. g = [h EXCEPT !.lost = @ \cup X]
      BY <1>1, <1>9, <2>1, <2>5 DEF window_free, Span
    <3> QED
      BY <1>2, <2>3, <2>5, <3>1, GiveUp DEF SmallTaken
  <2> QED
    BY <2>4, <2>5
<1> QED
  BY <1>6, <1>7, <1>8, <1>9

-----------------------------------------------------------------------------
(* Pages of large objects. *)

\* A free page becomes a page of the window, or a page table.
OneToOne(f, S) == f \in [DOMAIN f -> S] /\ IsInjective(f)
OneMore(f, g, w, p) == Range(g) = Range(f) \cup {p} /\ DOMAIN g = DOMAIN f \cup {w}

LEMMA WithOne ==
    ASSUME NEW f, NEW S, OneToOne(f, S), NEW w, w \notin DOMAIN f,
           NEW p \in S, p \notin Range(f), NEW g, g = With(f, w, p)
    PROVE  OneToOne(g, S) /\ OneMore(f, g, w, p)
<1> USE DEF OneToOne, OneMore
<1>1. /\ DOMAIN g = DOMAIN f \cup {w} /\ g[w] = p
      /\ \A x \in DOMAIN f : g[x] = f[x]
      /\ g = [x \in DOMAIN f \cup {w} |-> g[x]]
  BY DEF With
<1>2. \A x \in DOMAIN f : f[x] \in S /\ f[x] \in Range(f)
  BY DEF Range
<1>3. IsInjective(g)
  BY <1>1, <1>2 DEF IsInjective
<1>4. Range(g) = Range(f) \cup {p}
  <2>1. ASSUME NEW y \in Range(g) PROVE y \in Range(f) \cup {p}
    <3>1. PICK x \in DOMAIN f \cup {w} : y = g[x]
      BY <1>1 DEF Range
    <3> QED
      BY <1>1, <1>2, <3>1
  <2>2. ASSUME NEW y \in Range(f) PROVE y \in Range(g)
    <3>1. PICK x \in DOMAIN f : y = f[x]
      BY DEF Range
    <3> QED
      BY <1>1, <3>1 DEF Range
  <2>3. p \in Range(g)
    BY <1>1 DEF Range
  <2> QED
    BY <2>1, <2>2, <2>3
<1>5. g \in [DOMAIN g -> S]
  BY <1>1, <1>2
<1> QED
  BY <1>1, <1>3, <1>4, <1>5

LEMMA PageMapped ==
    ASSUME NEW free, NEW small, NEW table, NEW pte, NEW O, Divided(free, small, table, pte, O),
           NEW w, w \notin DOMAIN pte, NEW p \in free, NEW rest, rest = free \ {p},
           NEW g, g = With(pte, w, p)
    PROVE  Divided(rest, small, table, g, O) /\ DOMAIN g = DOMAIN pte \cup {w}
<1>1. p \in 1..Pages /\ p \notin Range(pte)
  BY DEF Divided
<1>2. PICK S : S = 1..Pages
  OBVIOUS
<1>3. OneToOne(pte, S) /\ p \in S
  BY <1>1, <1>2 DEF Divided, OneToOne
<1>4. OneToOne(g, S) /\ OneMore(pte, g, w, p)
  BY <1>1, <1>3, WithOne
<1> QED
  BY <1>2, <1>4 DEF Divided, OneToOne, OneMore

LEMMA TableAdded ==
    ASSUME NEW free, NEW small, NEW table, NEW pte, NEW O, Divided(free, small, table, pte, O),
           NEW w, w \notin DOMAIN table, NEW p \in free, NEW g, g = With(table, w, p)
    PROVE  Divided(free \ {p}, small, g, pte, O)
<1>1. p \in 1..Pages /\ p \notin Range(table)
  BY DEF Divided
<1>2. PICK S : S = 1..Pages
  OBVIOUS
<1>3. OneToOne(table, S) /\ p \in S
  BY <1>1, <1>2 DEF Divided, OneToOne
<1>4. OneToOne(g, S) /\ OneMore(table, g, w, p)
  BY <1>1, <1>3, WithOne
<1> QED
  BY <1>2, <1>4 DEF Divided, OneToOne, OneMore

\* Pages of the window become free again.
GivenBack(free, pte, ws, more, g) ==
    /\ ws \subseteq DOMAIN pte /\ g = Without(pte, ws)
    /\ more = free \cup {pte[w] : w \in ws}

LEMMA PagesUnmapped ==
    ASSUME NEW free, NEW small, NEW table, NEW pte, NEW O, Divided(free, small, table, pte, O),
           NEW ws, NEW g, NEW more, GivenBack(free, pte, ws, more, g)
    PROVE  Divided(more, small, table, g, O)
<1> USE DEF GivenBack
<1>1. /\ DOMAIN g = DOMAIN pte \ ws /\ \A x \in DOMAIN pte \ ws : g[x] = pte[x]
      /\ g = [x \in DOMAIN pte \ ws |-> g[x]]
  BY DEF Without
<1>2. PICK S : S = 1..Pages
  OBVIOUS
<1>3. pte \in [DOMAIN pte -> S] /\ \A x, y \in DOMAIN pte : pte[x] = pte[y] => x = y
  BY <1>2 DEF Divided, IsInjective
<1>4. \A x \in DOMAIN pte : pte[x] \in S /\ pte[x] \in Range(pte)
  BY <1>3 DEF Range
<1>5. g \in [DOMAIN g -> S] /\ IsInjective(g)
  BY <1>1, <1>3, <1>4 DEF IsInjective
<1>6. PICK X : X = {pte[w] : w \in ws}
  OBVIOUS
<1>7. Range(g) \cap X = {}
  BY <1>1, <1>3, <1>6 DEF Range
<1>8. Range(g) \cup X = Range(pte)
  BY <1>1, <1>6 DEF Range
<1>9. X \subseteq S
  BY <1>4, <1>6
<1> QED
  BY <1>1, <1>2, <1>5, <1>6, <1>7, <1>8, <1>9 DEF Divided

\* After i pages of map_pages: m.mapped of them are mapped, all when it goes on.
OnlyMapping(h, g) ==
    /\ g.class = h.class /\ g.free_objects = h.free_objects /\ g.free_ranges = h.free_ranges
    /\ g.window_next = h.window_next /\ g.pages = h.pages /\ g.lost = h.lost
MapState(h, m, i, b, L, O, T) ==
    /\ m \in [heap : {m.heap}, mapped : {m.mapped}, ok : {m.ok}]
    /\ m.ok \in BOOLEAN /\ m.mapped \in 0..i /\ (m.ok => m.mapped = i)
    /\ Good(m.heap, L, O, T, Span(b, m.mapped)) /\ OnlyMapping(h, m.heap)

\* What the mapping of page w changes in a heap.
MapsOne(h, g, w) ==
    LET p == Lowest(h.free)
        rest == h.free \ {p}
        k == w \div PerTable
    IN  /\ h.free # {} /\ g.pte = With(h.pte, w, p)
        /\ \/ k \in DOMAIN h.table /\ g.table = h.table /\ g.free = rest
           \/ /\ k \notin DOMAIN h.table /\ rest # {}
              /\ g.table = With(h.table, k, Lowest(rest)) /\ g.free = rest \ {Lowest(rest)}

LEMMA MapOne ==
    ASSUME NEW h, NEW L, NEW O, NEW T, NEW b \in Nat, NEW i \in Nat, b + i \in T,
           Good(h, L, O, T, Span(b, i)),
           NEW g, Shape(g), OnlyMapping(h, g), MapsOne(h, g, b + i)
    PROVE  Good(g, L, O, T, Span(b, i + 1))
<1>1. PICK free, small, table, pte : /\ free = h.free /\ small = DOMAIN h.class
                                     /\ table = h.table /\ pte = h.pte
  OBVIOUS
<1>2. Divided(free, small, table, pte, O) /\ free \subseteq Nat
  <2>1. Divided(free, small, table, pte, O)
    BY <1>1 DEF Good
  <2> QED
    BY <2>1 DEF Divided
<1>3. PICK w, p, k : w = b + i /\ p = Lowest(free) /\ k = w \div PerTable
  OBVIOUS
<1>4. p \in free /\ g.pte = With(pte, w, p)
  <2>1. free # {} /\ g.pte = With(pte, w, p)
    BY <1>1, <1>3 DEF MapsOne
  <2> QED
    BY <1>2, <1>3, <2>1, LowestIn
<1>5. w \notin DOMAIN pte /\ DOMAIN pte = ObjectSpace(h.pages) \cup Span(b, i)
  <2>1. DOMAIN pte = ObjectSpace(h.pages) \cup Span(b, i) /\ T \cap ObjectSpace(h.pages) = {}
    BY <1>1 DEF Good, Tiled
  <2>2. w \notin Span(b, i)
    BY <1>3 DEF Span
  <2> QED
    BY <1>3, <2>1, <2>2
<1>6. PICK more, rest : more = g.pte /\ rest = free \ {p}
  OBVIOUS
<1>7. Divided(rest, small, table, more, O) /\ DOMAIN more = DOMAIN pte \cup {w}
  <2>1. more = With(pte, w, p)
    BY <1>4, <1>6
  <2>2. w \notin DOMAIN pte /\ p \in free /\ rest = free \ {p}
    BY <1>4, <1>5, <1>6
  <2>3. Divided(free, small, table, pte, O)
    BY <1>2
  <2> QED
    BY <2>1, <2>2, <2>3, PageMapped
<1>8. Divided(g.free, small, g.table, more, O)
  <2>1. CASE k \in DOMAIN table /\ g.table = table /\ g.free = rest
    BY <1>7, <2>1
  <2>2. CASE /\ k \notin DOMAIN table /\ rest # {}
             /\ g.table = With(table, k, Lowest(rest)) /\ g.free = rest \ {Lowest(rest)}
    <3>1. PICK q, t : q = Lowest(rest) /\ t = g.table
      OBVIOUS
    <3>2. q \in rest
      <4>1. rest \subseteq Nat
        BY <1>2, <1>6
      <4> QED
        BY <2>2, <3>1, <4>1, LowestIn
    <3>3. Divided(rest \ {q}, small, t, more, O)
      BY <1>7, <2>2, <3>1, <3>2, TableAdded
    <3> QED
      BY <2>2, <3>1, <3>3
  <2> QED
    BY <1>1, <1>3, <1>6, <2>1, <2>2 DEF MapsOne
<1>9. DOMAIN g.pte = ObjectSpace(g.pages) \cup Span(b, i + 1)
  <2>1. Span(b, i + 1) = Span(b, i) \cup {w}
    BY <1>3 DEF Span
  <2>2. g.pages = h.pages
    BY DEF OnlyMapping
  <2> QED
    BY <1>5, <1>6, <1>7, <2>1, <2>2
<1>10. Divided(g.free, DOMAIN g.class, g.table, g.pte, O)
  BY <1>1, <1>6, <1>8 DEF OnlyMapping
<1> QED
  BY <1>9, <1>10 DEF Good, OnlyMapping

LEMMA MapPage ==
    ASSUME NEW h, NEW L, NEW O, NEW T, NEW b \in Nat, NEW i \in Nat, b + i \in T,
           NEW m, MapState(h, m, i, b, L, O, T), NEW g, g = map_page(m, b + i)
    PROVE  MapState(h, g, i + 1, b, L, O, T)
<1>1. PICK s : s = m.heap
  OBVIOUS
<1>2. /\ m \in [heap : {m.heap}, mapped : {m.mapped}, ok : {m.ok}]
      /\ m.ok \in BOOLEAN /\ m.mapped \in 0..i /\ (m.ok => m.mapped = i)
      /\ Good(s, L, O, T, Span(b, m.mapped)) /\ OnlyMapping(h, s) /\ Shape(s)
  BY <1>1 DEF MapState, Good
<1>3. PICK p, rest, k, w : /\ p = Lowest(s.free) /\ rest = s.free \ {p} /\ w = b + i
                           /\ k = w \div PerTable
  OBVIOUS
<1>4. CASE ~m.ok \/ s.free = {} \/ (k \notin DOMAIN s.table /\ rest = {})
  <2>1. g = [m EXCEPT !.ok = FALSE]
    BY <1>1, <1>3, <1>4 DEF map_page
  <2>2. /\ g \in [heap : {g.heap}, mapped : {g.mapped}, ok : {g.ok}]
        /\ g.heap = s /\ g.mapped = m.mapped /\ g.ok = FALSE
    BY <1>1, <1>2, <2>1
  <2>3. m.mapped \in 0..(i + 1)
    BY <1>2
  <2> QED
    BY <1>2, <2>2, <2>3 DEF MapState
<1>5. CASE ~(~m.ok \/ s.free = {} \/ (k \notin DOMAIN s.table /\ rest = {}))
  <2>1. m.ok /\ m.mapped = i /\ s.free # {}
    BY <1>2, <1>5
  <2>2. g = [m EXCEPT
                !.mapped = @ + 1,
                !.heap.pte = With(@, w, p),
                !.heap.table = IF k \notin DOMAIN s.table THEN With(@, k, Lowest(rest)) ELSE @,
                !.heap.free = IF k \notin DOMAIN s.table THEN rest \ {Lowest(rest)} ELSE rest]
    BY <1>1, <1>3, <1>5 DEF map_page
  <2>3. PICK d : d = [s EXCEPT
                !.pte = With(@, w, p),
                !.table = IF k \notin DOMAIN s.table THEN With(@, k, Lowest(rest)) ELSE @,
                !.free = IF k \notin DOMAIN s.table THEN rest \ {Lowest(rest)} ELSE rest]
    OBVIOUS
  <2>4. /\ g \in [heap : {g.heap}, mapped : {g.mapped}, ok : {g.ok}]
        /\ g.heap = d /\ g.mapped = i + 1 /\ g.ok = m.ok
    BY <1>1, <1>2, <2>1, <2>2, <2>3
  <2>5. /\ Shape(d) /\ OnlyMapping(s, d) /\ d.pte = With(s.pte, w, p)
        /\ d.table = IF k \notin DOMAIN s.table THEN With(s.table, k, Lowest(rest)) ELSE s.table
        /\ d.free = IF k \notin DOMAIN s.table THEN rest \ {Lowest(rest)} ELSE rest
    BY <1>2, <2>3 DEF Shape, OnlyMapping
  <2>6. MapsOne(s, d, b + i)
    BY <1>3, <1>5, <2>1, <2>5 DEF MapsOne
  <2>7. Good(s, L, O, T, Span(b, i))
    BY <1>2, <2>1
  <2>8. Good(d, L, O, T, Span(b, i + 1))
    BY <2>5, <2>6, <2>7, MapOne
  <2>9. OnlyMapping(h, d)
    BY <1>2, <2>5 DEF OnlyMapping
  <2>10. g.mapped \in 0..(i + 1)
    BY <2>4
  <2> QED
    BY <1>2, <2>4, <2>8, <2>9, <2>10 DEF MapState
<1> QED
  BY <1>4, <1>5

\* The values that map_pages goes through.
Unmapped(h) == [heap |-> h, mapped |-> 0, ok |-> TRUE]
Mapping(h, b, f, n) ==
    f = [i \in 0..n |-> IF i = 0 THEN Unmapped(h) ELSE map_page(f[i - 1], b + i - 1)]

LEMMA MappingExists ==
    ASSUME NEW h, NEW b, NEW n \in Nat
    PROVE  \E f : Mapping(h, b, f, n)
<1> DEFINE S == {j \in Nat : \E f : Mapping(h, b, f, j)}
<1>1. 0 \in S
  <2> DEFINE f == [i \in 0..0 |-> Unmapped(h)]
  <2>1. Mapping(h, b, f, 0)
    BY DEF Mapping
  <2> QED
    BY <2>1
<1>2. ASSUME NEW j \in Nat, j \in S PROVE j + 1 \in S
  <2>1. PICK f : Mapping(h, b, f, j)
    BY <1>2
  <2>2. /\ f[0] = Unmapped(h)
        /\ \A i \in 1..j : f[i] = map_page(f[i - 1], b + i - 1)
    BY <2>1 DEF Mapping
  <2>3. PICK e : e = map_page(f[j], b + (j + 1) - 1)
    OBVIOUS
  <2>4. PICK g : g = [i \in 0..(j + 1) |-> IF i \in 0..j THEN f[i] ELSE e]
    OBVIOUS
  <2>5. ASSUME NEW i \in 0..(j + 1)
        PROVE  g[i] = IF i = 0 THEN Unmapped(h) ELSE map_page(g[i - 1], b + i - 1)
    <3>1. CASE i = 0
      BY <2>2, <2>4, <3>1
    <3>2. CASE i \in 1..j
      <4>1. g[i] = f[i] /\ g[i - 1] = f[i - 1] /\ i # 0
        BY <2>4, <3>2
      <4> QED
        BY <2>2, <3>2, <4>1
    <3>3. CASE i = j + 1
      <4>1. g[i] = e /\ g[i - 1] = f[j] /\ i # 0
        BY <2>4, <3>3
      <4> QED
        BY <2>3, <3>3, <4>1
    <3> QED
      BY <3>1, <3>2, <3>3
  <2>6. Mapping(h, b, g, j + 1)
    BY <2>4, <2>5 DEF Mapping
  <2> QED
    BY <2>6
<1>3. n \in S
  <2> HIDE DEF S
  <2> QED
    BY <1>1, <1>2, SetInduction
<1> QED
  BY <1>3

LEMMA MapPages ==
    ASSUME NEW h, NEW L, NEW O, NEW T, NEW b \in Nat, NEW n \in Nat, Span(b, n) \subseteq T,
           Good(h, L, O, T, {}), NEW m, m = map_pages(h, b, n)
    PROVE  MapState(h, m, n, b, L, O, T)
<1>1. PICK f : Mapping(h, b, f, n) /\ m = f[n]
  <2>1. PICK f : f = CHOOSE x : Mapping(h, b, x, n)
    OBVIOUS
  <2>2. m = f[n]
    BY <2>1 DEF map_pages, Mapping, Unmapped
  <2>3. Mapping(h, b, f, n)
    <3>1. \E x : Mapping(h, b, x, n)
      BY MappingExists
    <3> QED
      BY <2>1, <3>1
  <2> QED
    BY <2>2, <2>3
<1>2. /\ f[0] = Unmapped(h)
      /\ \A i \in 1..n : f[i] = map_page(f[i - 1], b + i - 1)
  BY <1>1 DEF Mapping
<1> DEFINE S == {i \in Nat : i <= n => MapState(h, f[i], i, b, L, O, T)}
<1>3. 0 \in S
  <2>1. PICK u : u = f[0]
    OBVIOUS
  <2>2. /\ u \in [heap : {u.heap}, mapped : {u.mapped}, ok : {u.ok}]
        /\ u.heap = h /\ u.mapped = 0 /\ u.ok = TRUE
    BY <1>2, <2>1 DEF Unmapped
  <2>3. Span(b, 0) = {} /\ 0 \in 0..0
    BY DEF Span
  <2>4. MapState(h, u, 0, b, L, O, T)
    BY <2>2, <2>3 DEF MapState, OnlyMapping
  <2> QED
    BY <2>1, <2>4
<1>4. ASSUME NEW i \in Nat, i \in S PROVE i + 1 \in S
  <2> SUFFICES ASSUME i + 1 <= n PROVE MapState(h, f[i + 1], i + 1, b, L, O, T)
    OBVIOUS
  <2>1. i + 1 \in 1..n /\ (i + 1) - 1 = i /\ b + (i + 1) - 1 = b + i
    OBVIOUS
  <2>2. PICK u, v : u = f[i] /\ v = f[i + 1]
    OBVIOUS
  <2>3. v = map_page(u, b + i)
    BY <1>2, <2>1, <2>2
  <2>4. MapState(h, u, i, b, L, O, T)
    BY <1>4, <2>1, <2>2
  <2>5. b + i \in T
    <3>1. b + i \in Span(b, n)
      BY <2>1 DEF Span
    <3> QED
      BY <3>1
  <2>6. MapState(h, v, i + 1, b, L, O, T)
    BY <2>3, <2>4, <2>5, MapPage
  <2> QED
    BY <2>2, <2>6
<1>5. n \in S
  <2> HIDE DEF S
  <2> QED
    BY <1>3, <1>4, SetInduction
<1> QED
  BY <1>1, <1>5

\* unmap_pages gives the pages of the span back.
LEMMA UnmapPages ==
    ASSUME NEW h, NEW L, NEW O, NEW T, NEW b \in Nat, NEW k \in Nat, Span(b, k) \subseteq T,
           Good(h, L, O, T, Span(b, k)), NEW g, g = unmap_pages(h, b, k)
    PROVE  /\ Good(g, L, O, T, {}) /\ OnlyMapping(h, g) /\ g.table = h.table
           /\ k # 0 => g.free # {}
<1>1. PICK free, small, table, pte : /\ free = h.free /\ small = DOMAIN h.class
                                     /\ table = h.table /\ pte = h.pte
  OBVIOUS
<1>2. /\ Shape(h) /\ Divided(free, small, table, pte, O)
      /\ DOMAIN pte = ObjectSpace(h.pages) \cup Span(b, k) /\ T \cap ObjectSpace(h.pages) = {}
  BY <1>1 DEF Good, Tiled
<1>3. PICK ws : ws = Span(b, k)
  OBVIOUS
<1>4. ws \subseteq DOMAIN pte /\ (b..(b + k - 1)) \cap DOMAIN pte = ws
  BY <1>2, <1>3 DEF Span
<1>5. PICK more, rest : more = free \cup {pte[w] : w \in ws} /\ rest = Without(pte, ws)
  OBVIOUS
<1>6. Divided(more, small, table, rest, O) /\ DOMAIN rest = DOMAIN pte \ ws
  <2>1. Divided(free, small, table, pte, O)
    BY <1>2
  <2>2. GivenBack(free, pte, ws, more, rest)
    BY <1>4, <1>5 DEF GivenBack
  <2>3. Divided(more, small, table, rest, O)
    BY <2>1, <2>2, PagesUnmapped
  <2>4. DOMAIN rest = DOMAIN pte \ ws
    BY <1>5 DEF Without
  <2> QED
    BY <2>3, <2>4
<1>7. g = [h EXCEPT !.pte = rest, !.free = more]
  BY <1>1, <1>4, <1>5 DEF unmap_pages
<1>8. /\ Shape(g) /\ OnlyMapping(h, g) /\ g.table = table /\ g.pte = rest /\ g.free = more
  BY <1>1, <1>2, <1>7 DEF Shape, OnlyMapping
<1>9. DOMAIN g.pte = ObjectSpace(g.pages) \cup {}
  <2>1. g.pages = h.pages
    BY <1>8 DEF OnlyMapping
  <2> QED
    BY <1>2, <1>3, <1>6, <1>8, <2>1
<1>10. Good(g, L, O, T, {})
  <2>1. Divided(g.free, DOMAIN g.class, g.table, g.pte, O)
    BY <1>1, <1>6, <1>8 DEF OnlyMapping
  <2> QED
    BY <1>8, <1>9, <2>1 DEF Good, OnlyMapping
<1>11. k # 0 => g.free # {}
  <2> SUFFICES ASSUME k # 0 PROVE g.free # {}
    OBVIOUS
  <2>1. b \in ws
    BY <1>3 DEF Span
  <2> QED
    BY <1>5, <1>8, <2>1
<1> QED
  BY <1>1, <1>8, <1>10, <1>11

\* A large object more, or one less.
ObjectMore(pages, g, b, n) ==
    /\ b \notin DOMAIN pages /\ DOMAIN g = DOMAIN pages \cup {b} /\ g[b] = n
    /\ \A w \in DOMAIN pages : g[w] = pages[w]
    /\ ObjectSpace(g) = ObjectSpace(pages) \cup Span(b, n)

LEMMA ObjectAdded ==
    ASSUME NEW pages, Apart(pages), NEW b \in Nat, NEW n \in Nat \ {0},
           Span(b, n) \cap ObjectSpace(pages) = {}, NEW g, g = With(pages, b, n)
    PROVE  Apart(g) /\ ObjectMore(pages, g, b, n)
<1>1. ASSUME NEW w \in DOMAIN pages
      PROVE  w \in Nat /\ pages[w] \in Nat \ {0} /\ Span(w, pages[w]) \subseteq ObjectSpace(pages)
  BY DEF Apart, ObjectSpace
<1>2. b \notin DOMAIN pages
  <2>1. b \in Span(b, n)
    BY DEF Span
  <2>2. b \in DOMAIN pages => b \in Span(b, pages[b])
    BY <1>1 DEF Span
  <2> QED
    BY <1>1, <2>1, <2>2
<1>3. /\ DOMAIN g = DOMAIN pages \cup {b} /\ g[b] = n
      /\ \A w \in DOMAIN pages : g[w] = pages[w]
      /\ g = [w \in DOMAIN pages \cup {b} |-> g[w]]
  BY <1>2 DEF With
<1>4. PICK X : X = Span(b, n)
  OBVIOUS
<1>5. ObjectSpace(g) = ObjectSpace(pages) \cup X
  <2>1. ASSUME NEW x \in ObjectSpace(g) PROVE x \in ObjectSpace(pages) \cup X
    <3>1. PICK w \in DOMAIN pages \cup {b} : x \in Span(w, g[w])
      BY <1>3 DEF ObjectSpace
    <3>2. CASE w = b
      BY <1>3, <1>4, <3>1, <3>2
    <3>3. CASE w \in DOMAIN pages
      BY <1>1, <1>3, <3>1, <3>3
    <3> QED
      BY <3>2, <3>3
  <2>2. ASSUME NEW x \in ObjectSpace(pages) PROVE x \in ObjectSpace(g)
    <3>1. PICK w \in DOMAIN pages : x \in Span(w, pages[w])
      BY DEF ObjectSpace
    <3>2. w \in DOMAIN g /\ x \in Span(w, g[w])
      BY <1>3, <3>1
    <3> QED
      BY <3>2 DEF ObjectSpace
  <2>3. X \subseteq ObjectSpace(g)
    <3>1. b \in DOMAIN g /\ X = Span(b, g[b])
      BY <1>3, <1>4
    <3> QED
      BY <3>1 DEF ObjectSpace
  <2> QED
    BY <2>1, <2>2, <2>3
<1>6. Apart(g)
  <2>1. g \in [DOMAIN g -> Nat \ {0}] /\ DOMAIN g \subseteq Nat
    BY <1>1, <1>3
  <2>2. ASSUME NEW v \in DOMAIN g, NEW w \in DOMAIN g, v # w
        PROVE  Span(v, g[v]) \cap Span(w, g[w]) = {}
    <3>1. PICK V, W : V = Span(v, g[v]) /\ W = Span(w, g[w])
      OBVIOUS
    <3>2. CASE v = b
      <4>1. V = X /\ W \subseteq ObjectSpace(pages)
        BY <1>1, <1>3, <1>4, <2>2, <3>1, <3>2
      <4> QED
        BY <1>4, <3>1, <4>1
    <3>3. CASE w = b
      <4>1. W = X /\ V \subseteq ObjectSpace(pages)
        BY <1>1, <1>3, <1>4, <2>2, <3>1, <3>3
      <4> QED
        BY <1>4, <3>1, <4>1
    <3>4. CASE v # b /\ w # b
      <4>1. v \in DOMAIN pages /\ w \in DOMAIN pages /\ V = Span(v, pages[v]) /\ W = Span(w, pages[w])
        BY <1>3, <3>1, <3>4
      <4>2. V \cap W = {}
        BY <2>2, <4>1 DEF Apart
      <4> QED
        BY <3>1, <4>2
    <3> QED
      BY <3>2, <3>3, <3>4
  <2> QED
    BY <2>1, <2>2 DEF Apart
<1> QED
  BY <1>2, <1>3, <1>4, <1>5, <1>6 DEF ObjectMore

ObjectLess(pages, g, b, X) ==
    /\ DOMAIN g = DOMAIN pages \ {b} /\ \A w \in DOMAIN g : g[w] = pages[w]
    /\ X \subseteq ObjectSpace(pages) /\ ObjectSpace(g) = ObjectSpace(pages) \ X

LEMMA ObjectRemoved ==
    ASSUME NEW pages, Apart(pages), NEW b \in DOMAIN pages, NEW g, g = Without(pages, {b}),
           NEW X, X = Span(b, pages[b])
    PROVE  Apart(g) /\ ObjectLess(pages, g, b, X)
<1>1. /\ DOMAIN g = DOMAIN pages \ {b} /\ \A w \in DOMAIN g : g[w] = pages[w]
      /\ g = [w \in DOMAIN pages \ {b} |-> g[w]]
  BY DEF Without
<1>2. ASSUME NEW w \in DOMAIN pages, w # b PROVE Span(w, pages[w]) \cap X = {}
  BY <1>2 DEF Apart
<1>3. X \subseteq ObjectSpace(pages)
  BY DEF ObjectSpace
<1>4. ASSUME NEW x \in ObjectSpace(g) PROVE x \in ObjectSpace(pages) \ X
  <2>1. PICK w \in DOMAIN g : x \in Span(w, g[w])
    BY DEF ObjectSpace
  <2>2. w \in DOMAIN pages /\ w # b /\ x \in Span(w, pages[w])
    BY <1>1, <2>1
  <2>3. x \notin X
    BY <1>2, <2>2
  <2> QED
    BY <2>2, <2>3 DEF ObjectSpace
<1>5. ASSUME NEW x \in ObjectSpace(pages) \ X PROVE x \in ObjectSpace(g)
  <2>1. PICK w \in DOMAIN pages : x \in Span(w, pages[w])
    BY DEF ObjectSpace
  <2>2. w \in DOMAIN g /\ x \in Span(w, g[w])
    BY <1>1, <2>1
  <2> QED
    BY <2>2 DEF ObjectSpace
<1>6. ObjectSpace(g) = ObjectSpace(pages) \ X
  BY <1>4, <1>5
<1>7. Apart(g)
  <2>1. g \in [DOMAIN g -> Nat \ {0}] /\ DOMAIN g \subseteq Nat
    BY <1>1 DEF Apart
  <2>2. ASSUME NEW v \in DOMAIN g, NEW w \in DOMAIN g, v # w
        PROVE  Span(v, g[v]) \cap Span(w, g[w]) = {}
    <3>1. v \in DOMAIN pages /\ w \in DOMAIN pages /\ g[v] = pages[v] /\ g[w] = pages[w]
      BY <1>1
    <3>2. Span(v, pages[v]) \cap Span(w, pages[w]) = {}
      BY <2>2, <3>1 DEF Apart
    <3> QED
      BY <3>1, <3>2
  <2> QED
    BY <2>1, <2>2 DEF Apart
<1> QED
  BY <1>1, <1>3, <1>6, <1>7 DEF ObjectLess

LEMMA TileObject ==
    ASSUME NEW F, NEW B, NEW lost, NEW next, NEW X
    PROVE  /\ Tiled(F, B, lost, next, X) => Tiled(F, B \cup X, lost, next, {})
           /\ Tiled(F, B, lost, next, {}) /\ X \subseteq B => Tiled(F, B \ X, lost, next, X)
BY DEF Tiled

-----------------------------------------------------------------------------
(* kmalloc and kfree. *)

\* What a large allocation does: an object of n pages more, which nobody had, or,
\* without memory, the same objects.
LargeTaken(h, r, n, L, O) ==
    /\ Good(r.heap, L, O, {}, {}) /\ Grown(h, r.heap)
    /\ r.ptr = 0 => r.heap.pages = h.pages
    /\ r.ptr # 0 => /\ r.heap.class = h.class /\ r.heap.lost = h.lost
                    /\ \E b \in Nat \ {0} :
                        /\ r.ptr = b * PageSize + HeapHeader
                        /\ ObjectMore(h.pages, r.heap.pages, b, n)

LEMMA LargeAlloc ==
    ASSUME NEW h, NEW L, NEW O, Good(h, L, O, {}, {}), NEW size \in Nat,
           NEW r, r = large_alloc(h, size), NEW n, n = PagesFor(size)
    PROVE  LargeTaken(h, r, n, L, O)
<1>1. n \in Nat \ {0}
  BY PagesSuffice
<1>2. PICK window, N : window = window_alloc(h, n) /\ N = {}
  OBVIOUS
<1>3. PICK b, s : b = window.ptr /\ s = window.heap
  OBVIOUS
<1>4. (b = 0 => s = h) /\ (b # 0 => HandedOut(h, s, L, O, N, N, b, n))
  <2>1. Good(h, L, O, N, N)
    BY <1>2
  <2>2. /\ window.ptr = 0 => window.heap = h
        /\ window.ptr # 0 => HandedOut(h, window.heap, L, O, N, N, window.ptr, n)
    BY <1>1, <1>2, <2>1, WindowAlloc
  <2> QED
    BY <1>3, <2>2
<1>5. CASE b = 0
  <2>1. r = window
    BY <1>2, <1>3, <1>5 DEF large_alloc
  <2> QED
    BY <1>3, <1>4, <1>5, <2>1 DEF LargeTaken, Grown
<1>6. CASE b # 0
  <2>1. PICK T, m : T = Span(b, n) /\ m = map_pages(s, b, n)
    OBVIOUS
  <2>2. /\ Good(s, L, O, T, {}) /\ SameObjects(h, s) /\ b \in Nat \ {0}
        /\ Span(b, n) \subseteq T
    <3>1. HandedOut(h, s, L, O, N, N, b, n)
      BY <1>4, <1>6
    <3> QED
      BY <1>2, <2>1, <3>1 DEF HandedOut
  <2>3. MapState(s, m, n, b, L, O, T)
    <3>1. b \in Nat /\ n \in Nat
      BY <1>1, <2>2
    <3> QED
      BY <2>1, <2>2, <3>1, MapPages
  <2>4. PICK d, k : d = m.heap /\ k = m.mapped
    OBVIOUS
  <2>5. /\ k \in 0..n /\ (m.ok => k = n) /\ m.ok \in BOOLEAN
        /\ Good(d, L, O, T, Span(b, k)) /\ OnlyMapping(s, d)
    BY <2>3, <2>4 DEF MapState
  <2>6. d.class = h.class /\ d.pages = h.pages /\ d.lost = h.lost
    BY <2>2, <2>5 DEF OnlyMapping, SameObjects
  <2>7. CASE m.ok
    <3>1. /\ r.heap = [d EXCEPT !.pages = With(@, b, n)]
          /\ r.ptr = b * PageSize + HeapHeader
      BY <1>2, <1>3, <1>6, <2>1, <2>4, <2>7 DEF large_alloc, Result
    <3>2. PICK g, more, B : g = r.heap /\ more = With(d.pages, b, n) /\ B = ObjectSpace(d.pages)
      OBVIOUS
    <3>3. /\ Shape(d) /\ Apart(d.pages) /\ DOMAIN d.pte = B \cup T
          /\ Tiled(FreeSpace(d.free_ranges), B, d.lost, d.window_next, T)
      BY <2>1, <2>5, <2>7, <3>2 DEF Good
    <3>4. Apart(more) /\ ObjectMore(d.pages, more, b, n)
      <4>1. PICK pages : pages = d.pages
        OBVIOUS
      <4>2. Apart(pages) /\ Span(b, n) \cap ObjectSpace(pages) = {} /\ more = With(pages, b, n)
        BY <2>1, <3>2, <3>3, <4>1 DEF Tiled
      <4>3. Apart(more) /\ ObjectMore(pages, more, b, n)
        BY <1>1, <2>2, <4>2, ObjectAdded
      <4> QED
        BY <4>1, <4>3
    <3>5. /\ Shape(g) /\ g.pages = more /\ g.free = d.free /\ g.free_objects = d.free_objects
          /\ g.free_ranges = d.free_ranges /\ g.window_next = d.window_next /\ g.class = d.class
          /\ g.pte = d.pte /\ g.table = d.table /\ g.lost = d.lost
      BY <3>1, <3>2, <3>3 DEF Shape
    <3>6. PICK C : C = ObjectSpace(more)
      OBVIOUS
    <3>7. C = B \cup T
      BY <2>1, <3>2, <3>4, <3>6 DEF ObjectMore
    <3>8. Tiled(FreeSpace(g.free_ranges), ObjectSpace(g.pages), g.lost, g.window_next, {})
      <4>1. PICK F, lost, next : F = FreeSpace(d.free_ranges) /\ lost = d.lost /\ next = d.window_next
        OBVIOUS
      <4>2. Tiled(F, B, lost, next, T)
        BY <3>3, <4>1
      <4>3. Tiled(F, B \cup T, lost, next, {})
        BY <4>2, TileObject
      <4> QED
        BY <3>5, <3>6, <3>7, <4>1, <4>3
    <3>9. DOMAIN g.pte = ObjectSpace(g.pages) \cup {}
      BY <3>3, <3>5, <3>6, <3>7
    <3>10. Good(g, L, O, {}, {})
      BY <2>5, <3>4, <3>5, <3>8, <3>9 DEF Good
    <3>11. r.ptr # 0
      <4>1. PICK x \in Nat : x = b * PageSize
        BY <2>2, Constants
      <4> QED
        BY <3>1, <4>1, Constants
    <3>12. ObjectMore(h.pages, r.heap.pages, b, n)
      BY <2>6, <3>2, <3>4, <3>5
    <3> QED
      BY <2>2, <2>6, <3>1, <3>2, <3>5, <3>10, <3>11, <3>12 DEF LargeTaken, Grown
  <2>8. CASE ~m.ok
    <3>1. PICK u : u = unmap_pages(d, b, k)
      OBVIOUS
    <3>2. r.heap = window_free(u, b, n) /\ r.ptr = 0
      BY <1>2, <1>3, <1>6, <2>1, <2>4, <2>8, <3>1 DEF large_alloc, Result
    <3>3. Good(u, L, O, T, {}) /\ OnlyMapping(d, u)
      <4>1. b \in Nat /\ k \in Nat /\ Span(b, k) \subseteq T
        BY <1>1, <2>1, <2>2, <2>5 DEF Span
      <4>2. /\ Good(u, L, O, T, {}) /\ OnlyMapping(d, u) /\ u.table = d.table
            /\ k # 0 => u.free # {}
        BY <2>5, <3>1, <4>1, UnmapPages
      <4> QED
        BY <4>2
    <3>4. PICK g : g = window_free(u, b, n)
      OBVIOUS
    <3>5. Given(u, g, L, O, {})
      <4>1. Good(u, L, O, Span(b, n), N) /\ b \in Nat
        BY <1>2, <2>1, <2>2, <3>3
      <4>2. Given(u, g, L, O, N)
        BY <1>1, <3>4, <4>1, WindowFree
      <4> QED
        BY <1>2, <4>2
    <3>6. u.class = h.class /\ u.pages = h.pages
      BY <2>6, <3>3 DEF OnlyMapping
    <3>7. Good(g, L, O, {}, {}) /\ Grown(h, g) /\ g.pages = h.pages
      BY <3>5, <3>6 DEF Given, Grown
    <3> QED
      BY <3>2, <3>4, <3>7 DEF LargeTaken
  <2> QED
    BY <2>5, <2>7, <2>8
<1> QED
  BY <1>5, <1>6

\* Large objects lie in the window, and small ones do not.
LEMMA LargeInWindow ==
    ASSUME NEW h, NEW L, NEW O, NEW T, NEW M, Good(h, L, O, T, M), NEW w \in DOMAIN h.pages
    PROVE  /\ w \in Nat \ {0} /\ h.pages[w] \in Nat \ {0}
           /\ WindowBase <= w /\ w + h.pages[w] <= WindowEnd /\ w > Pages
<1>1. PICK pages, next : pages = h.pages /\ next = h.window_next
  OBVIOUS
<1>2. /\ pages[w] \in Nat \ {0} /\ w \in Nat /\ next \in WindowBase..WindowEnd
      /\ ObjectSpace(pages) \subseteq WindowBase..(next - 1)
  BY <1>1 DEF Good, Apart, Tiled
<1>3. PICK n \in Nat \ {0} : n = pages[w]
  BY <1>2
<1>4. Span(w, n) \subseteq ObjectSpace(pages)
  BY <1>1, <1>3 DEF ObjectSpace
<1>5. w \in Span(w, n) /\ w + n - 1 \in Span(w, n)
  BY <1>2 DEF Span
<1>6. w \in WindowBase..(next - 1) /\ w + n - 1 \in WindowBase..(next - 1)
  BY <1>2, <1>4, <1>5
<1> QED
  BY <1>1, <1>2, <1>3, <1>6, WindowAssumption

LEMMA NotBoth ==
    ASSUME NEW h, NEW L, NEW O, NEW T, NEW M, Good(h, L, O, T, M), NEW w \in DOMAIN h.class
    PROVE  w \in 1..Pages /\ h.class[w] \in Class
BY DEF Good, Kept

\* What a call does to an object that it is not about.
Stays(h, g, q) ==
    /\ Small(h, q) <=> Small(g, q)
    /\ Large(h, q) => Large(g, q)
    /\ usable_size(g, q) = usable_size(h, q)

SameLarge(h, g, w) == w \in DOMAIN g.pages /\ g.pages[w] = h.pages[w]

LEMMA ObjectStays ==
    ASSUME NEW h, NEW L, NEW O, NEW T, NEW M, Good(h, L, O, T, M),
           NEW g, NEW K, NEW P, NEW V, NEW N, Good(g, K, P, V, N), Grown(h, g),
           NEW q, Small(h, q) \/ Large(h, q),
           Large(h, q) => SameLarge(h, g, q \div PageSize)
    PROVE  Stays(h, g, q)
<1>1. PICK w : w = q \div PageSize
  OBVIOUS
<1>2. CASE Small(h, q)
  <2>1. w \in DOMAIN h.class /\ w \in DOMAIN g.class /\ g.class[w] = h.class[w]
    BY <1>1, <1>2 DEF Small, Grown
  <2>2. ~Large(h, q)
    <3> SUFFICES ASSUME Large(h, q) PROVE FALSE
      OBVIOUS
    <3>1. w \in DOMAIN h.pages
      BY <1>1 DEF Large
    <3>2. w > Pages
      BY <3>1, LargeInWindow
    <3>3. w \in 1..Pages
      BY <2>1, NotBoth
    <3> QED
      BY <3>2, <3>3, WindowAssumption
  <2> QED
    BY <1>1, <1>2, <2>1, <2>2 DEF Stays, Small, usable_size
<1>3. CASE ~Small(h, q)
  <2>1. /\ Large(h, q) /\ w \in DOMAIN g.pages /\ g.pages[w] = h.pages[w] /\ w \notin DOMAIN h.class
    BY <1>1, <1>3 DEF SameLarge, Small
  <2>2. w \notin DOMAIN g.class
    <3> SUFFICES ASSUME w \in DOMAIN g.class PROVE FALSE
      OBVIOUS
    <3>1. w > Pages
      BY <2>1, LargeInWindow
    <3>2. w \in 1..Pages
      BY NotBoth
    <3> QED
      BY <3>1, <3>2, WindowAssumption
  <2>3. Large(g, q)
    BY <1>1, <2>1 DEF Large
  <2>4. usable_size(g, q) = usable_size(h, q)
    BY <1>1, <2>1, <2>2 DEF usable_size
  <2>5. ~Small(g, q)
    BY <1>1, <2>2 DEF Small
  <2> QED
    BY <1>3, <2>1, <2>3, <2>4, <2>5 DEF Stays
<1> QED
  BY <1>2, <1>3

\* The kernel's objects in another heap, where they stay.
LEMMA HeldStays ==
    ASSUME NEW h, NEW g, NEW l, HeldBy(h, l), \A q \in DOMAIN l : Stays(h, g, q)
    PROVE  HeldBy(g, l) /\ SmallOf(g, l) = SmallOf(h, l)
BY DEF HeldBy, SmallOf, Stays

\* One object more, and one less.
LEMMA HeldMore ==
    ASSUME NEW h, NEW l, HeldBy(h, l), NEW a \in Nat, NEW n \in Nat,
           Small(h, a) \/ Large(h, a), n <= usable_size(h, a), NEW k, k = With(l, a, n)
    PROVE  /\ HeldBy(h, k)
           /\ SmallOf(h, k) = IF Small(h, a) THEN SmallOf(h, l) \cup {a} ELSE SmallOf(h, l) \ {a}
<1>1. /\ DOMAIN k = DOMAIN l \cup {a} /\ k[a] = n
      /\ \A q \in DOMAIN l : q # a => k[q] = l[q]
      /\ k = [q \in DOMAIN l \cup {a} |-> k[q]]
  BY DEF With
<1>2. HeldBy(h, k)
  <2>1. k \in [DOMAIN k -> Nat] /\ DOMAIN k \subseteq Nat
    BY <1>1 DEF HeldBy
  <2>2. \A p \in DOMAIN k : (Small(h, p) \/ Large(h, p)) /\ k[p] <= usable_size(h, p)
    BY <1>1 DEF HeldBy
  <2> QED
    BY <2>1, <2>2 DEF HeldBy
<1>3. SmallOf(h, k) = IF Small(h, a) THEN SmallOf(h, l) \cup {a} ELSE SmallOf(h, l) \ {a}
  BY <1>1 DEF SmallOf
<1> QED
  BY <1>2, <1>3

LEMMA HeldLess ==
    ASSUME NEW h, NEW l, HeldBy(h, l), NEW p, NEW k, k = Without(l, {p})
    PROVE  HeldBy(h, k) /\ SmallOf(h, k) = SmallOf(h, l) \ {p} /\ DOMAIN k = DOMAIN l \ {p}
<1>1. /\ DOMAIN k = DOMAIN l \ {p} /\ \A q \in DOMAIN k : k[q] = l[q]
      /\ k = [q \in DOMAIN l \ {p} |-> k[q]]
  BY DEF Without
<1>2. HeldBy(h, k)
  <2>1. k \in [DOMAIN k -> Nat] /\ DOMAIN k \subseteq Nat
    BY <1>1 DEF HeldBy
  <2>2. \A q \in DOMAIN k : (Small(h, q) \/ Large(h, q)) /\ k[q] <= usable_size(h, q)
    BY <1>1 DEF HeldBy
  <2> QED
    BY <2>1, <2>2 DEF HeldBy
<1>3. SmallOf(h, k) = SmallOf(h, l) \ {p}
  BY <1>1 DEF SmallOf
<1> QED
  BY <1>1, <1>2, <1>3

\* kmalloc: a new object that is large enough, or the same objects as before.
Obtained(h, r, l, O, n) ==
    /\ r.ptr = 0 => Sound(r.heap, l, O)
    /\ r.ptr # 0 => /\ Sound(r.heap, With(l, r.ptr, n), O) /\ r.ptr \notin DOMAIN l
                    /\ r.ptr \in Nat /\ n <= usable_size(r.heap, r.ptr) /\ r.heap.lost = h.lost
    /\ \A q \in DOMAIN l : Stays(h, r.heap, q)

LEMMA KmallocSmall ==
    ASSUME NEW h, NEW l, NEW O, Sound(h, l, O), NEW size \in Nat, NEW n \in Nat, n <= size,
           class_for(size) # 0, NEW r, r = small_alloc(h, class_for(size))
    PROVE  Obtained(h, r, l, O, n)
<1>1. PICK c \in Class : c = class_for(size) /\ size <= class_size[c] /\ class_size[c] \in Nat
  BY ClassFits, Constants
<1>2. PICK L, N : L = SmallOf(h, l) /\ N = {}
  OBVIOUS
<1>3. Good(h, L, O, N, N) /\ HeldBy(h, l)
  BY <1>2 DEF Sound
<1>4. SmallTaken(h, r, c, L, O, N, N)
  BY <1>1, <1>3, SmallAlloc
<1>5. PICK g, a : g = r.heap /\ a = r.ptr
  OBVIOUS
<1>6. SameWindow(h, g) /\ Grown(h, g) /\ (a = 0 => g = h)
  BY <1>4, <1>5 DEF SmallTaken
<1>7. ASSUME NEW K, Good(g, K, O, N, N) PROVE \A q \in DOMAIN l : Stays(h, g, q)
  <2> TAKE q \in DOMAIN l
  <2>1. Small(h, q) \/ Large(h, q)
    BY <1>3 DEF HeldBy
  <2>2. Large(h, q) => SameLarge(h, g, q \div PageSize)
    BY <1>6 DEF Large, SameLarge, SameWindow
  <2> QED
    BY <1>3, <1>6, <1>7, <2>1, <2>2, ObjectStays
<1>8. CASE a = 0
  <2>1. \A q \in DOMAIN l : Stays(h, g, q)
    BY <1>3, <1>6, <1>7, <1>8
  <2>2. Sound(g, l, O)
    BY <1>6, <1>8
  <2> QED
    BY <1>5, <1>8, <2>1, <2>2 DEF Obtained
<1>9. CASE a # 0
  <2>1. PICK K : K = L \cup {a}
    OBVIOUS
  <2>2. /\ Good(g, K, O, N, N) /\ a \notin L /\ a \in Nat /\ a \div PageSize \in DOMAIN g.class
        /\ Kind(g.class, a) = c
    BY <1>4, <1>5, <1>9, <2>1 DEF SmallTaken
  <2>3. \A q \in DOMAIN l : Stays(h, g, q)
    BY <1>7, <2>2
  <2>4. HeldBy(g, l) /\ SmallOf(g, l) = L
    BY <1>2, <1>3, <2>3, HeldStays
  <2>5. Small(g, a)
    BY <2>2 DEF Small
  <2>6. a \notin DOMAIN l
    BY <2>2, <2>4, <2>5 DEF SmallOf
  <2>7. n <= usable_size(g, a)
    <3>1. usable_size(g, a) = class_size[c]
      BY <2>2 DEF usable_size, Kind
    <3> QED
      BY <1>1, <3>1
  <2>8. PICK k : k = With(l, a, n)
    OBVIOUS
  <2>9. /\ HeldBy(g, k)
        /\ SmallOf(g, k) = IF Small(g, a) THEN SmallOf(g, l) \cup {a} ELSE SmallOf(g, l) \ {a}
    BY <2>2, <2>4, <2>5, <2>7, <2>8, HeldMore
  <2>10. Sound(g, k, O)
    BY <1>2, <2>1, <2>2, <2>4, <2>5, <2>9 DEF Sound
  <2>11. g.lost = h.lost
    BY <1>6 DEF SameWindow
  <2> QED
    BY <1>5, <1>9, <2>2, <2>3, <2>6, <2>7, <2>8, <2>10, <2>11 DEF Obtained
<1> QED
  BY <1>8, <1>9

LEMMA KmallocLarge ==
    ASSUME NEW h, NEW l, NEW O, Sound(h, l, O), NEW size \in Nat, NEW n \in Nat, n <= size,
           NEW r, r = large_alloc(h, size)
    PROVE  Obtained(h, r, l, O, n)
<1>1. PICK L, m : L = SmallOf(h, l) /\ m = PagesFor(size)
  OBVIOUS
<1>2. Good(h, L, O, {}, {}) /\ HeldBy(h, l)
  BY <1>1 DEF Sound
<1>3. LargeTaken(h, r, m, L, O)
  BY <1>1, <1>2, LargeAlloc
<1>4. PICK g, a : g = r.heap /\ a = r.ptr
  OBVIOUS
<1>5. Good(g, L, O, {}, {}) /\ Grown(h, g)
  BY <1>3, <1>4 DEF LargeTaken
<1>6. \A q \in DOMAIN l : Stays(h, g, q)
  <2> TAKE q \in DOMAIN l
  <2>1. Small(h, q) \/ Large(h, q)
    BY <1>2 DEF HeldBy
  <2>2. Large(h, q) => SameLarge(h, g, q \div PageSize)
    BY <1>3, <1>4 DEF Large, SameLarge, LargeTaken, ObjectMore
  <2> QED
    BY <1>2, <1>5, <2>1, <2>2, ObjectStays
<1>7. HeldBy(g, l) /\ SmallOf(g, l) = L
  BY <1>1, <1>2, <1>6, HeldStays
<1>8. CASE a = 0
  <2>1. Sound(g, l, O)
    BY <1>5, <1>7 DEF Sound
  <2> QED
    BY <1>4, <1>6, <1>8, <2>1 DEF Obtained
<1>9. CASE a # 0
  <2>1. PICK b \in Nat \ {0} : a = b * PageSize + HeapHeader /\ ObjectMore(h.pages, g.pages, b, m)
    BY <1>3, <1>4, <1>9 DEF LargeTaken
  <2>2. /\ b \in DOMAIN g.pages /\ b \notin DOMAIN h.pages /\ g.pages[b] = m
    BY <2>1 DEF ObjectMore
  <2>3. b * PageSize \in Nat /\ a \div PageSize = b /\ a = b * PageSize + 1
    <3>1. PICK s \in Nat \ {0, 1} : s = PageSize /\ HeapHeader = 1
      BY Constants
    <3>2. 1 \in 0..(s - 1)
      OBVIOUS
    <3>3. b * s \in Nat /\ (b * s + 1) \div s = b
      BY <3>2, PageOf
    <3> QED
      BY <2>1, <3>1, <3>3
  <2>4. a \in Nat /\ Large(g, a)
    BY <2>1, <2>2, <2>3 DEF Large
  <2>5. b > Pages
    BY <1>5, <2>2, LargeInWindow
  <2>6. ~Small(g, a)
    <3> SUFFICES ASSUME Small(g, a) PROVE FALSE
      OBVIOUS
    <3>1. b \in DOMAIN g.class
      BY <2>3 DEF Small
    <3>2. b \in 1..Pages
      BY <1>5, <3>1, NotBoth
    <3> QED
      BY <2>5, <3>2, WindowAssumption
  <2>7. n <= usable_size(g, a)
    <3>1. usable_size(g, a) = m * PageSize - HeapHeader
      BY <2>2, <2>3, <2>6 DEF usable_size, Small
    <3>2. m * PageSize \in Nat /\ size + 1 <= m * PageSize
      BY <1>1, PagesSuffice
    <3>3. PICK x \in Nat : x = m * PageSize
      BY <3>2
    <3> QED
      BY <3>1, <3>2, <3>3, Constants
  <2>8. a \notin DOMAIN l
    <3> SUFFICES ASSUME a \in DOMAIN l PROVE FALSE
      OBVIOUS
    <3>1. Stays(h, g, a) /\ (Small(h, a) \/ Large(h, a))
      BY <1>2, <1>6 DEF HeldBy
    <3>2. Large(h, a)
      BY <2>6, <3>1 DEF Stays
    <3> QED
      BY <2>2, <2>3, <3>2 DEF Large
  <2>9. PICK k : k = With(l, a, n)
    OBVIOUS
  <2>10. /\ HeldBy(g, k)
         /\ SmallOf(g, k) = IF Small(g, a) THEN SmallOf(g, l) \cup {a} ELSE SmallOf(g, l) \ {a}
    BY <1>7, <2>4, <2>7, <2>9, HeldMore
  <2>11. SmallOf(g, k) = L
    <3>1. a \notin SmallOf(g, l)
      BY <2>8 DEF SmallOf
    <3> QED
      BY <1>7, <2>6, <2>10, <3>1
  <2>12. Sound(g, k, O)
    BY <1>5, <2>10, <2>11 DEF Sound
  <2>13. g.lost = h.lost
    BY <1>3, <1>4, <1>9 DEF LargeTaken
  <2> QED
    BY <1>4, <1>6, <1>9, <2>4, <2>7, <2>8, <2>9, <2>12, <2>13 DEF Obtained
<1> QED
  BY <1>8, <1>9

LEMMA Kmalloc ==
    ASSUME NEW h, NEW l, NEW O, Sound(h, l, O), NEW n \in Nat, NEW r, r = kmalloc(h, n)
    PROVE  Obtained(h, r, l, O, n)
<1>1. PICK size \in Nat : size = (IF n = 0 THEN 1 ELSE n) /\ n <= size
  OBVIOUS
<1>2. CASE class_for(size) # 0
  <2>1. r = small_alloc(h, class_for(size))
    BY <1>1, <1>2 DEF kmalloc
  <2> QED
    BY <1>1, <1>2, <2>1, KmallocSmall
<1>3. CASE class_for(size) = 0
  <2>1. r = large_alloc(h, size)
    BY <1>1, <1>3 DEF kmalloc
  <2> QED
    BY <1>1, <2>1, KmallocLarge
<1> QED
  BY <1>2, <1>3

\* kfree: the object is gone, the others stay, and no part of the window is lost.
Released(h, g, l, O, p) ==
    /\ Sound(g, Without(l, {p}), O) /\ g.lost = h.lost
    /\ \A q \in DOMAIN l : q # p => Stays(h, g, q)

LEMMA KfreeSmall ==
    ASSUME NEW h, NEW l, NEW O, Sound(h, l, O), NEW p \in DOMAIN l, Small(h, p),
           NEW g, g = small_free(h, p)
    PROVE  Released(h, g, l, O, p)
<1>1. PICK L, K, N : L = SmallOf(h, l) /\ K = L \ {p} /\ N = {}
  OBVIOUS
<1>2. Good(h, L, O, N, N) /\ HeldBy(h, l) /\ p \in L
  BY <1>1 DEF Sound, SmallOf
<1>3. Good(g, K, O, N, N) /\ SameWindow(h, g) /\ g.class = h.class
  <2>1. /\ Good(small_free(h, p), L \ {p}, O, N, N)
        /\ SameWindow(h, small_free(h, p))
        /\ small_free(h, p).class = h.class /\ small_free(h, p).free = h.free
    BY <1>2, SmallFree
  <2> QED
    BY <1>1, <2>1
<1>4. Grown(h, g)
  BY <1>3 DEF Grown
<1>5. \A q \in DOMAIN l : Stays(h, g, q)
  <2> TAKE q \in DOMAIN l
  <2>1. Small(h, q) \/ Large(h, q)
    BY <1>2 DEF HeldBy
  <2>2. Large(h, q) => SameLarge(h, g, q \div PageSize)
    BY <1>3 DEF Large, SameLarge, SameWindow
  <2> QED
    BY <1>2, <1>3, <1>4, <2>1, <2>2, ObjectStays
<1>6. PICK k : k = Without(l, {p})
  OBVIOUS
<1>7. HeldBy(h, k) /\ SmallOf(h, k) = SmallOf(h, l) \ {p} /\ DOMAIN k = DOMAIN l \ {p}
  BY <1>2, <1>6, HeldLess
<1>8. HeldBy(g, k) /\ SmallOf(g, k) = SmallOf(h, k)
  <2>1. \A q \in DOMAIN k : Stays(h, g, q)
    BY <1>5, <1>7
  <2> QED
    BY <1>7, <2>1, HeldStays
<1>9. Sound(g, k, O)
  BY <1>1, <1>3, <1>7, <1>8 DEF Sound
<1> QED
  BY <1>3, <1>5, <1>6, <1>9 DEF Released, SameWindow

\* The header of a large object is gone: its pages are in the hands of kfree.
ObjectTaken(h, d, L, O, w, X) ==
    /\ Good(d, L, O, X, X) /\ d.class = h.class /\ d.lost = h.lost
    /\ ObjectLess(h.pages, d.pages, w, X)

LEMMA TakeObject ==
    ASSUME NEW h, NEW L, NEW O, Good(h, L, O, {}, {}), NEW w \in DOMAIN h.pages,
           NEW X, X = Span(w, h.pages[w]), NEW d, d = [h EXCEPT !.pages = Without(@, {w})]
    PROVE  ObjectTaken(h, d, L, O, w, X)
<1>1. PICK pages, less, B, C : /\ pages = h.pages /\ less = Without(pages, {w})
                               /\ B = ObjectSpace(pages) /\ C = ObjectSpace(less)
  OBVIOUS
<1>2. /\ Shape(h) /\ Apart(pages) /\ DOMAIN h.pte = B
      /\ Tiled(FreeSpace(h.free_ranges), B, h.lost, h.window_next, {})
  BY <1>1 DEF Good
<1>3. Apart(less) /\ ObjectLess(pages, less, w, X)
  BY <1>1, <1>2, ObjectRemoved
<1>4. X \subseteq B /\ C = B \ X /\ C \cup X = B
  BY <1>1, <1>3 DEF ObjectLess
<1>5. /\ Shape(d) /\ d.pages = less /\ d.free = h.free /\ d.free_objects = h.free_objects
      /\ d.free_ranges = h.free_ranges /\ d.window_next = h.window_next /\ d.class = h.class
      /\ d.pte = h.pte /\ d.table = h.table /\ d.lost = h.lost
  BY <1>1, <1>2 DEF Shape
<1>6. Tiled(FreeSpace(d.free_ranges), C, d.lost, d.window_next, X)
  <2>1. PICK F, lost, next : F = FreeSpace(h.free_ranges) /\ lost = h.lost /\ next = h.window_next
    OBVIOUS
  <2>2. Tiled(F, B, lost, next, {})
    BY <1>2, <2>1
  <2>3. Tiled(F, B \ X, lost, next, X)
    BY <1>4, <2>2, TileObject
  <2> QED
    BY <1>4, <1>5, <2>1, <2>3
<1>7. DOMAIN d.pte = C \cup X
  BY <1>2, <1>4, <1>5
<1>8. Good(d, L, O, X, X)
  BY <1>1, <1>3, <1>5, <1>6, <1>7 DEF Good
<1> QED
  BY <1>1, <1>3, <1>5, <1>8 DEF ObjectTaken

LEMMA KfreeLarge ==
    ASSUME NEW h, NEW l, NEW O, Sound(h, l, O), NEW p \in DOMAIN l, ~Small(h, p),
           NEW g, g = kfree(h, p)
    PROVE  Released(h, g, l, O, p)
<1>1. PICK L, w, n : L = SmallOf(h, l) /\ w = p \div PageSize /\ n = h.pages[w]
  OBVIOUS
<1>2. Good(h, L, O, {}, {}) /\ HeldBy(h, l) /\ Large(h, p)
  BY <1>1 DEF Sound, HeldBy
<1>3. w \in DOMAIN h.pages /\ w \notin DOMAIN h.class /\ p = w * PageSize + HeapHeader
  BY <1>1, <1>2 DEF Large, Small
<1>4. w \in Nat /\ n \in Nat \ {0}
  BY <1>1, <1>2, <1>3, LargeInWindow
<1>5. PICK d : d = [h EXCEPT !.pages = Without(@, {w})]
  OBVIOUS
<1>6. PICK X, u, N : X = Span(w, n) /\ u = unmap_pages(d, w, n) /\ N = {}
  OBVIOUS
<1>7. g = window_free(u, w, n)
  BY <1>1, <1>3, <1>5, <1>6 DEF kfree
<1>8. /\ Good(d, L, O, X, X) /\ d.class = h.class /\ d.lost = h.lost
      /\ ObjectLess(h.pages, d.pages, w, X)
  <2>1. X = Span(w, h.pages[w])
    BY <1>1, <1>6
  <2>2. ObjectTaken(h, d, L, O, w, X)
    BY <1>2, <1>3, <1>5, <2>1, TakeObject
  <2> QED
    BY <2>2 DEF ObjectTaken
<1>9. Good(u, L, O, X, N) /\ OnlyMapping(d, u) /\ u.free # {}
  <2>1. n \in Nat /\ Good(d, L, O, X, Span(w, n)) /\ Span(w, n) \subseteq X
    BY <1>4, <1>6, <1>8
  <2>2. /\ Good(u, L, O, X, {}) /\ OnlyMapping(d, u) /\ u.table = d.table
        /\ n # 0 => u.free # {}
    BY <1>4, <1>6, <2>1, UnmapPages
  <2> QED
    BY <1>4, <1>6, <2>2
<1>10. Given(u, g, L, O, N)
  <2>1. Good(u, L, O, Span(w, n), N)
    BY <1>6, <1>9
  <2> QED
    BY <1>4, <1>7, <2>1, WindowFree
<1>11. /\ Good(g, L, O, N, N) /\ Grown(h, g) /\ g.lost = h.lost
       /\ ObjectLess(h.pages, g.pages, w, X)
  BY <1>6, <1>8, <1>9, <1>10 DEF Given, OnlyMapping, Grown
<1>12. PICK k : k = Without(l, {p})
  OBVIOUS
<1>13. HeldBy(h, k) /\ SmallOf(h, k) = SmallOf(h, l) \ {p} /\ DOMAIN k = DOMAIN l \ {p}
  BY <1>2, <1>12, HeldLess, SMTT(40)
<1>14. \A q \in DOMAIN k : Stays(h, g, q)
  <2> TAKE q \in DOMAIN k
  <2>1. Small(h, q) \/ Large(h, q)
    BY <1>13 DEF HeldBy
  <2>2. Large(h, q) => SameLarge(h, g, q \div PageSize)
    <3> SUFFICES ASSUME Large(h, q) PROVE SameLarge(h, g, q \div PageSize)
      OBVIOUS
    <3>1. PICK v : v = q \div PageSize
      OBVIOUS
    <3>2. v \in DOMAIN h.pages /\ q = v * PageSize + HeapHeader
      BY <3>1 DEF Large
    <3>3. v # w
      BY <1>3, <1>13, <3>2
    <3> QED
      BY <1>11, <3>1, <3>2, <3>3 DEF SameLarge, ObjectLess
  <2>3. Good(h, L, O, N, N)
    BY <1>2, <1>6
  <2> QED
    BY <1>11, <2>1, <2>2, <2>3, ObjectStays
<1>15. HeldBy(g, k) /\ SmallOf(g, k) = SmallOf(h, k)
  BY <1>13, <1>14, HeldStays
<1>16. SmallOf(h, k) = L
  BY <1>1, <1>13 DEF SmallOf
<1>17. Sound(g, k, O)
  BY <1>6, <1>11, <1>15, <1>16 DEF Sound
<1> QED
  BY <1>11, <1>12, <1>13, <1>14, <1>17 DEF Released

LEMMA Kfree ==
    ASSUME NEW h, NEW l, NEW O, Sound(h, l, O), NEW p \in DOMAIN l, NEW g, g = kfree(h, p)
    PROVE  Released(h, g, l, O, p)
<1>1. CASE Small(h, p)
  <2>1. g = small_free(h, p)
    BY <1>1 DEF kfree, Small
  <2> QED
    BY <1>1, <2>1, KfreeSmall
<1>2. CASE ~Small(h, p)
  BY <1>2, KfreeLarge
<1> QED
  BY <1>1, <1>2

-----------------------------------------------------------------------------
(* The invariant. *)

LEMMA InitInv == Init => Inv
<1> SUFFICES ASSUME Init PROVE Inv
  OBVIOUS
<1>1. /\ Shape(heap) /\ heap.free = 1..Pages /\ heap.free_objects = [c \in Class |-> <<>>]
      /\ heap.free_ranges = <<>> /\ heap.window_next = WindowBase /\ heap.lost = {}
      /\ DOMAIN heap.class = {} /\ DOMAIN heap.pages = {} /\ DOMAIN heap.pte = {}
      /\ DOMAIN heap.table = {}
      /\ heap.class = [p \in {} |-> 0] /\ heap.pages = [p \in {} |-> 0]
      /\ heap.pte = [p \in {} |-> 0] /\ heap.table = [p \in {} |-> 0]
  BY DEF Init, Shape
<1>2. DOMAIN live = {} /\ live = [p \in {} |-> 0] /\ others = {}
  BY DEF Init
<1>3. Divided(heap.free, DOMAIN heap.class, heap.table, heap.pte, others)
  <2>1. Range(heap.table) = {} /\ Range(heap.pte) = {}
    BY <1>1 DEF Range
  <2>2. IsInjective(heap.table) /\ IsInjective(heap.pte)
    BY <1>1 DEF IsInjective
  <2>3. heap.table \in [DOMAIN heap.table -> 1..Pages] /\ heap.pte \in [DOMAIN heap.pte -> 1..Pages]
    BY <1>1
  <2> QED
    BY <1>1, <1>2, <2>1, <2>2, <2>3 DEF Divided
<1>4. Structs(heap.free_ranges) = {} /\ FreeSpace(heap.free_ranges) = {} /\ Ordered(heap.free_ranges)
  <2>1. PICK s : s = heap.free_ranges
    OBVIOUS
  <2>2. Len(s) = 0 /\ 1..Len(s) = {} /\ s \in Seq(RangeStruct)
    BY <1>1, <2>1
  <2> QED
    BY <2>1, <2>2 DEF Structs, FreeSpace, Ordered
<1>5. SmallOf(heap, live) = {} /\ HeldBy(heap, live)
  BY <1>2 DEF SmallOf, HeldBy
<1>6. Kept(heap.class, heap.free_objects, {})
  <2>1. Pieces(heap.class) = {}
    BY <1>1 DEF Pieces
  <2>2. heap.class \in [DOMAIN heap.class -> Class]
    BY <1>1
  <2>3. \A c \in Class : heap.free_objects[c] = <<>> /\ Elements(heap.free_objects[c]) = {}
                         /\ Distinct(heap.free_objects[c])
    BY <1>1 DEF Elements, Distinct
  <2>4. heap.free_objects \in [Class -> Seq(Nat)]
    BY <1>1
  <2> QED
    BY <1>1, <2>1, <2>2, <2>3, <2>4 DEF Kept
<1>7. Structured(heap.class, heap.free_ranges, {})
  <2>1. 1..Len(heap.free_ranges) = {}
    BY <1>1
  <2> QED
    BY <1>4, <2>1 DEF Structured
<1>8. Apart(heap.pages) /\ ObjectSpace(heap.pages) = {}
  BY <1>1 DEF Apart, ObjectSpace
<1>9. Tiled({}, {}, {}, WindowBase, {})
  BY WindowAssumption DEF Tiled
<1>10. Good(heap, {}, others, {}, {})
  BY <1>1, <1>3, <1>4, <1>6, <1>7, <1>8, <1>9 DEF Good
<1> QED
  BY <1>5, <1>10 DEF Inv, Sound

\* Physical pages that the rest of the kernel takes or gives back.
LEMMA PageToOthers ==
    ASSUME NEW free, NEW small, NEW table, NEW pte, NEW O, Divided(free, small, table, pte, O), NEW p
    PROVE  /\ p \in free => Divided(free \ {p}, small, table, pte, O \cup {p})
           /\ p \in O => Divided(free \cup {p}, small, table, pte, O \ {p})
BY DEF Divided

OnlyFree(h, g) ==
    /\ Shape(g) /\ OnlyMapping(h, g) /\ g.table = h.table /\ g.pte = h.pte

LEMMA OthersChange ==
    ASSUME NEW h, NEW l, NEW O, NEW P, Sound(h, l, O), NEW g, OnlyFree(h, g),
           Divided(g.free, DOMAIN h.class, h.table, h.pte, P)
    PROVE  Sound(g, l, P) /\ \A q : usable_size(g, q) = usable_size(h, q)
<1>1. \A q : (Small(g, q) <=> Small(h, q)) /\ (Large(g, q) <=> Large(h, q))
             /\ usable_size(g, q) = usable_size(h, q)
  BY DEF OnlyFree, OnlyMapping, Small, Large, usable_size
<1>2. SmallOf(g, l) = SmallOf(h, l) /\ HeldBy(g, l)
  BY <1>1 DEF SmallOf, HeldBy, Sound
<1>3. PICK L : L = SmallOf(h, l)
  OBVIOUS
<1>4. Good(g, L, P, {}, {})
  BY <1>3 DEF Sound, Good, OnlyFree, OnlyMapping
<1> QED
  BY <1>1, <1>2, <1>3, <1>4 DEF Sound

LEMMA TakeInv ==
    ASSUME Inv, OthersTake
    PROVE  Inv' /\ heap'.class = heap.class /\ heap'.pages = heap.pages /\ heap'.lost = heap.lost
<1>1. PICK h, g, l, O, p, free : /\ h = heap /\ g = heap' /\ l = live /\ O = others
                                 /\ p = Lowest(free) /\ free = heap.free
  OBVIOUS
<1>2. Sound(h, l, O) /\ Shape(h) /\ Divided(free, DOMAIN h.class, h.table, h.pte, O)
  BY <1>1 DEF Inv, Sound, Good
<1>3. p \in free
  <2>1. free \subseteq Nat /\ free # {}
    BY <1>1, <1>2 DEF Divided, OthersTake
  <2> QED
    BY <1>1, <2>1, LowestIn
<1>4. g = [h EXCEPT !.free = @ \ {p}] /\ others' = O \cup {p} /\ live' = l
  BY <1>1 DEF OthersTake
<1>5. OnlyFree(h, g) /\ g.free = free \ {p}
  BY <1>1, <1>2, <1>4 DEF OnlyFree, OnlyMapping, Shape
<1>6. PICK P : P = O \cup {p}
  OBVIOUS
<1>7. Divided(g.free, DOMAIN h.class, h.table, h.pte, P)
  <2>1. PICK small, table, pte : small = DOMAIN h.class /\ table = h.table /\ pte = h.pte
    OBVIOUS
  <2>2. Divided(free, small, table, pte, O)
    BY <1>2, <2>1
  <2>3. Divided(free \ {p}, small, table, pte, O \cup {p})
    BY <1>3, <2>2, PageToOthers
  <2> QED
    BY <1>5, <1>6, <2>1, <2>3
<1>8. Sound(g, l, P)
  BY <1>2, <1>5, <1>7, OthersChange
<1> QED
  BY <1>1, <1>4, <1>5, <1>6, <1>8 DEF Inv, OnlyFree, OnlyMapping

LEMMA GiveInv ==
    ASSUME Inv, OthersGive
    PROVE  Inv' /\ heap'.class = heap.class /\ heap'.pages = heap.pages /\ heap'.lost = heap.lost
<1>1. PICK h, g, l, O, p, free : /\ h = heap /\ g = heap' /\ l = live /\ O = others
                                 /\ p = Highest(O) /\ free = heap.free
  OBVIOUS
<1>2. Sound(h, l, O) /\ Shape(h) /\ Divided(free, DOMAIN h.class, h.table, h.pte, O)
  BY <1>1 DEF Inv, Sound, Good
<1>3. p \in O
  <2>1. O \subseteq 0..Pages /\ O # {}
    BY <1>1, <1>2 DEF Divided, OthersGive
  <2> QED
    BY <1>1, <2>1, WindowAssumption, HighestIn
<1>4. g = [h EXCEPT !.free = @ \cup {p}] /\ others' = O \ {p} /\ live' = l
  BY <1>1 DEF OthersGive
<1>5. OnlyFree(h, g) /\ g.free = free \cup {p}
  BY <1>1, <1>2, <1>4 DEF OnlyFree, OnlyMapping, Shape
<1>6. PICK P : P = O \ {p}
  OBVIOUS
<1>7. Divided(g.free, DOMAIN h.class, h.table, h.pte, P)
  <2>1. PICK small, table, pte : small = DOMAIN h.class /\ table = h.table /\ pte = h.pte
    OBVIOUS
  <2>2. Divided(free, small, table, pte, O)
    BY <1>2, <2>1
  <2>3. Divided(free \cup {p}, small, table, pte, O \ {p})
    BY <1>3, <2>2, PageToOthers
  <2> QED
    BY <1>5, <1>6, <2>1, <2>3
<1>8. Sound(g, l, P)
  BY <1>2, <1>5, <1>7, OthersChange
<1> QED
  BY <1>1, <1>4, <1>5, <1>6, <1>8 DEF Inv, OnlyFree, OnlyMapping

\* What the calls of the kernel do.
MallocDoes(r, n) ==
    /\ Obtained(heap, r, live, others, n) /\ n \in Nat /\ heap' = r.heap /\ others' = others
    /\ live' = IF r.ptr = 0 THEN live ELSE With(live, r.ptr, n)

LEMMA MallocInv ==
    ASSUME Inv, NEW n \in Sizes, Malloc(n)
    PROVE  Inv' /\ \E r : MallocDoes(r, n)
<1>1. PICK h, l, O : h = heap /\ l = live /\ O = others
  OBVIOUS
<1>2. PICK r : r = kmalloc(h, n)
  OBVIOUS
<1>3. n \in Nat /\ Sound(h, l, O)
  BY <1>1, SizeAssumption DEF Inv
<1>4. Obtained(h, r, l, O, n)
  BY <1>2, <1>3, Kmalloc
<1>5. heap' = r.heap /\ others' = O /\ live' = IF r.ptr = 0 THEN l ELSE With(l, r.ptr, n)
  BY <1>1, <1>2 DEF Malloc
<1>6. MallocDoes(r, n)
  BY <1>1, <1>3, <1>4, <1>5 DEF MallocDoes
<1>7. Inv'
  BY <1>4, <1>5 DEF Inv, Obtained
<1> QED
  BY <1>6, <1>7

LEMMA FreeInv ==
    ASSUME Inv, NEW p \in DOMAIN live, Free(p)
    PROVE  /\ Inv' /\ Released(heap, heap', live, others, p)
           /\ live' = Without(live, {p})
<1>1. PICK h, g, l, O : h = heap /\ g = heap' /\ l = live /\ O = others
  OBVIOUS
<1>2. p \in DOMAIN l /\ g = kfree(h, p) /\ live' = Without(l, {p}) /\ others' = O
  BY <1>1 DEF Free
<1>3. Released(h, g, l, O, p)
  BY <1>1, <1>2, Kfree DEF Inv
<1>4. Inv'
  BY <1>1, <1>2, <1>3 DEF Inv, Released
<1> QED
  BY <1>1, <1>2, <1>3, <1>4

LEMMA InPlaceInv ==
    ASSUME Inv, NEW p \in DOMAIN live, NEW n \in Sizes, ReallocInPlace(p, n)
    PROVE  Inv'
<1>1. PICK h, l, k, O : h = heap /\ l = live /\ k = live' /\ O = others
  OBVIOUS
<1>2. /\ heap' = h /\ others' = O /\ k = [l EXCEPT ![p] = n] /\ n \in Nat /\ p \in DOMAIN l
      /\ n <= usable_size(h, p) /\ Sound(h, l, O)
  BY <1>1, SizeAssumption DEF ReallocInPlace, Inv
<1>3. /\ DOMAIN k = DOMAIN l /\ k[p] = n /\ \A q \in DOMAIN l : q # p => k[q] = l[q]
      /\ k = [q \in DOMAIN l |-> k[q]]
  BY <1>2
<1>4. k \in [DOMAIN k -> Nat] /\ DOMAIN k \subseteq Nat
  BY <1>2, <1>3 DEF Sound, HeldBy
<1>5. HeldBy(h, k)
  BY <1>2, <1>3, <1>4 DEF Sound, HeldBy
<1>6. SmallOf(h, k) = SmallOf(h, l)
  BY <1>3 DEF SmallOf
<1>7. Sound(h, k, O)
  BY <1>2, <1>5, <1>6 DEF Sound
<1> QED
  BY <1>1, <1>2, <1>7 DEF Inv

MovesTo(r, p, n) ==
    /\ Obtained(heap, r, live, others, n) /\ n \in Nat /\ r.ptr # 0
    /\ Released(r.heap, heap', With(live, r.ptr, n), others, p)
    /\ live' = With(Without(live, {p}), r.ptr, n)

LEMMA MoveInv ==
    ASSUME Inv, NEW p \in DOMAIN live, NEW n \in Sizes, ReallocMoves(p, n)
    PROVE  /\ Inv'
           /\ \E r : \/ Obtained(heap, r, live, others, n) /\ heap' = r.heap /\ live' = live
                     \/ MovesTo(r, p, n)
<1>1. PICK h, g, l, O : h = heap /\ g = heap' /\ l = live /\ O = others
  OBVIOUS
<1>2. PICK r : r = kmalloc(h, n)
  OBVIOUS
<1>3. n \in Nat /\ Sound(h, l, O) /\ p \in DOMAIN l /\ others' = O
  BY <1>1, SizeAssumption DEF Inv, ReallocMoves
<1>4. Obtained(h, r, l, O, n)
  BY <1>2, <1>3, Kmalloc
<1>5. CASE r.ptr = 0
  <2>1. g = r.heap /\ live' = l
    BY <1>1, <1>2, <1>5 DEF ReallocMoves
  <2>2. Inv'
    BY <1>1, <1>3, <1>4, <1>5, <2>1 DEF Inv, Obtained
  <2> QED
    BY <1>1, <1>4, <2>1, <2>2
<1>6. CASE r.ptr # 0
  <2>1. PICK d, k, m, a : d = r.heap /\ a = r.ptr /\ k = With(l, a, n) /\ m = live'
    OBVIOUS
  <2>2. g = kfree(d, p) /\ m = With(Without(l, {p}), a, n)
    BY <1>1, <1>2, <1>6, <2>1 DEF ReallocMoves
  <2>3. Sound(d, k, O) /\ a \notin DOMAIN l
    BY <1>4, <1>6, <2>1 DEF Obtained
  <2>4. p \in DOMAIN k /\ p # a
    BY <1>3, <2>1, <2>3 DEF With
  <2>5. Released(d, g, k, O, p)
    BY <2>2, <2>3, <2>4, Kfree
  <2>6. Without(k, {p}) = m
    <3>1. PICK v : v = Without(l, {p})
      OBVIOUS
    <3>2. DOMAIN v = DOMAIN l \ {p} /\ \A q \in DOMAIN v : v[q] = l[q]
      BY <3>1 DEF Without
    <3>3. m = [q \in DOMAIN v \cup {a} |-> IF q = a THEN n ELSE v[q]]
      BY <2>2, <3>1 DEF With
    <3>4. k = [q \in DOMAIN l \cup {a} |-> IF q = a THEN n ELSE l[q]]
      BY <2>1 DEF With
    <3>5. Without(k, {p}) = [q \in DOMAIN k \ {p} |-> k[q]]
      BY DEF Without
    <3>6. DOMAIN k \ {p} = DOMAIN v \cup {a}
      BY <2>4, <3>2, <3>4
    <3>7. \A q \in DOMAIN v \cup {a} : k[q] = IF q = a THEN n ELSE v[q]
      BY <3>2, <3>4
    <3> QED
      BY <3>3, <3>5, <3>6, <3>7
  <2>7. Inv'
    BY <1>1, <1>3, <2>1, <2>5, <2>6 DEF Inv, Released
  <2>8. MovesTo(r, p, n)
    BY <1>1, <1>3, <1>4, <1>6, <2>1, <2>2, <2>5 DEF MovesTo
  <2> QED
    BY <2>7, <2>8
<1> QED
  BY <1>5, <1>6

LEMMA InvStep == Inv /\ [Next]_vars => Inv'
<1> SUFFICES ASSUME Inv, [Next]_vars PROVE Inv'
  OBVIOUS
<1>1. ASSUME NEW n \in Sizes, Malloc(n) PROVE Inv'
  BY <1>1, MallocInv
<1>2. ASSUME NEW p \in DOMAIN live, Free(p) PROVE Inv'
  BY <1>2, FreeInv
<1>3. ASSUME NEW p \in DOMAIN live, NEW n \in Sizes, ReallocInPlace(p, n) PROVE Inv'
  BY <1>3, InPlaceInv
<1>4. ASSUME NEW p \in DOMAIN live, NEW n \in Sizes, ReallocMoves(p, n) PROVE Inv'
  BY <1>4, MoveInv
<1>5. CASE OthersTake
  BY <1>5, TakeInv
<1>6. CASE OthersGive
  BY <1>6, GiveInv
<1>7. CASE UNCHANGED vars
  BY <1>7 DEF vars, Inv
<1> QED
  BY <1>1, <1>2, <1>3, <1>4, <1>5, <1>6, <1>7 DEF Next

LEMMA Invariance == Spec => []Inv
BY InitInv, InvStep, PTL DEF Spec

-----------------------------------------------------------------------------
(* What the invariant says of the window, the pages and the small objects. *)

LEMMA WindowIsTiled == Inv => WindowTiled
<1> SUFFICES ASSUME Inv PROVE WindowTiled
  OBVIOUS
<1>1. PICK s, pages, lost, next : /\ s = heap.free_ranges /\ pages = heap.pages /\ lost = heap.lost
                                  /\ next = heap.window_next
  OBVIOUS
<1>2. Ordered(s) /\ Apart(pages) /\ Tiled(FreeSpace(s), ObjectSpace(pages), lost, next, {})
  BY <1>1 DEF Inv, Sound, Good
<1> DEFINE range(i) == Span(s[i].base, s[i].pages)
           object(w) == Span(w, pages[w])
           parts == {range(i) : i \in 1..Len(s)} \cup {object(w) : w \in DOMAIN pages}
<1>3. Ranges = 1..Len(s) /\ Len(s) \in Nat
  <2>1. s \in Seq(RangeStruct)
    BY <1>2 DEF Ordered
  <2> QED
    BY <1>1, <2>1 DEF Ranges
<1>4. (UNION parts) = FreeSpace(s) \cup ObjectSpace(pages)
  BY DEF FreeSpace, ObjectSpace
<1>5. \A i \in 1..Len(s) : s[i].pages > 0 /\ range(i) \subseteq FreeSpace(s)
  <2> TAKE i \in 1..Len(s)
  <2>1. s[i].pages \in Nat \ {0}
    BY <1>2, RangeFields
  <2> QED
    BY <2>1 DEF FreeSpace
<1>6. \A w \in DOMAIN pages : object(w) \subseteq ObjectSpace(pages)
  BY DEF ObjectSpace
<1>7. Span(WindowBase, next - WindowBase) = WindowBase..(next - 1)
  <2>1. WindowBase \in Nat /\ next \in Nat
    BY <1>2, WindowAssumption DEF Tiled
  <2>2. WindowBase + (next - WindowBase) - 1 = next - 1
    BY <2>1
  <2> QED
    BY <2>2 DEF Span
<1>8. (UNION parts) \cup lost = Span(WindowBase, next - WindowBase)
  BY <1>2, <1>4, <1>7 DEF Tiled
<1>9. ASSUME NEW i \in 1..Len(s), NEW j \in 1..Len(s), i # j PROVE range(i) \cap range(j) = {}
  <2> SUFFICES ASSUME NEW x, x \in range(i), x \in range(j) PROVE FALSE
    OBVIOUS
  <2>1. /\ s[i].base \in Nat /\ s[i].pages \in Nat /\ s[j].base \in Nat /\ s[j].pages \in Nat
    BY <1>2, RangeFields
  <2>2. x \in Nat /\ s[i].base <= x /\ x < s[i].base + s[i].pages
    BY <2>1, SpanIs
  <2>3. s[j].base <= x /\ x < s[j].base + s[j].pages
    BY <2>1, SpanIs
  <2> QED
    BY <1>2, <1>9, <2>2, <2>3, RangesApart
<1>10. ASSUME NEW a \in parts, NEW b \in parts, a # b PROVE a \cap b = {}
  <2>1. \/ \E i \in 1..Len(s) : a = range(i)
        \/ \E w \in DOMAIN pages : a = object(w)
    OBVIOUS
  <2>2. \/ \E i \in 1..Len(s) : b = range(i)
        \/ \E w \in DOMAIN pages : b = object(w)
    OBVIOUS
  <2>3. CASE (\E i \in 1..Len(s) : a = range(i)) /\ (\E i \in 1..Len(s) : b = range(i))
    <3>1. PICK i \in 1..Len(s), j \in 1..Len(s) : a = range(i) /\ b = range(j)
      BY <2>3
    <3>2. i # j
      BY <1>10, <3>1
    <3> HIDE DEF range, object, parts
    <3>3. range(i) \cap range(j) = {}
      BY <1>9, <3>2
    <3> QED
      BY <3>1, <3>3
  <2>4. CASE (\E w \in DOMAIN pages : a = object(w)) /\ (\E w \in DOMAIN pages : b = object(w))
    <3>1. PICK v \in DOMAIN pages, w \in DOMAIN pages : a = object(v) /\ b = object(w)
      BY <2>4
    <3>2. v # w
      BY <1>10, <3>1
    <3> QED
      BY <1>2, <3>1, <3>2 DEF Apart
  <2>5. FreeSpace(s) \cap ObjectSpace(pages) = {}
    BY <1>2 DEF Tiled
  <2>6. CASE (\E i \in 1..Len(s) : a = range(i)) /\ (\E w \in DOMAIN pages : b = object(w))
    <3>1. a \subseteq FreeSpace(s) /\ b \subseteq ObjectSpace(pages)
      BY <1>5, <1>6, <2>6
    <3> QED
      BY <2>5, <3>1
  <2>7. CASE (\E w \in DOMAIN pages : a = object(w)) /\ (\E i \in 1..Len(s) : b = range(i))
    <3>1. b \subseteq FreeSpace(s) /\ a \subseteq ObjectSpace(pages)
      BY <1>5, <1>6, <2>7
    <3> QED
      BY <2>5, <3>1
  <2> QED
    BY <2>1, <2>2, <2>3, <2>4, <2>6, <2>7
<1>11. ASSUME NEW a \in parts PROVE a \cap lost = {}
  <2>1. a \subseteq FreeSpace(s) \cup ObjectSpace(pages)
    BY <1>4
  <2> QED
    BY <1>2, <2>1 DEF Tiled
<1>12. \A i, j \in 1..Len(s) : i < j => s[i].base + s[i].pages < s[j].base
  BY <1>2 DEF Ordered
<1>13. \A i \in 1..Len(s) : s[i].pages > 0
  BY <1>5
<1>14. PICK Q : Q = parts
  OBVIOUS
<1>15. Q = {Span(heap.free_ranges[i].base, heap.free_ranges[i].pages) : i \in Ranges}
           \cup {Span(w, heap.pages[w]) : w \in DOMAIN heap.pages}
  BY <1>1, <1>3, <1>14
<1>16. /\ \A i \in Ranges : heap.free_ranges[i].pages > 0
       /\ \A i, j \in Ranges : i < j =>
            heap.free_ranges[i].base + heap.free_ranges[i].pages < heap.free_ranges[j].base
  BY <1>1, <1>3, <1>12, <1>13
<1>17. (UNION Q) \cup heap.lost = Span(WindowBase, heap.window_next - WindowBase)
  BY <1>1, <1>8, <1>14
<1>18. (\A a, b \in Q : a # b => a \cap b = {}) /\ (\A a \in Q : a \cap heap.lost = {})
  <2> HIDE DEF parts
  <2> QED
    BY <1>1, <1>10, <1>11, <1>14
<1> QED
  BY <1>15, <1>16, <1>17, <1>18 DEF WindowTiled

\* A page is in one place.
Places(free, small, table, pte, O, p) ==
    {<<"free", q>> : q \in free \cap {p}}
    \cup {<<"others", q>> : q \in O \cap {p}}
    \cup {<<"small", q>> : q \in small \cap {p}}
    \cup {<<"table", k>> : k \in {l \in DOMAIN table : table[l] = p}}
    \cup {<<"window", w>> : w \in {x \in DOMAIN pte : pte[x] = p}}

LEMMA OneOwner ==
    ASSUME NEW free, NEW small, NEW table, NEW pte, NEW O, Divided(free, small, table, pte, O),
           NEW p \in 1..Pages
    PROVE  Cardinality(Places(free, small, table, pte, O, p)) = 1
<1>0. PICK A, B, C, D, E :
          /\ A = {<<"free", q>> : q \in free \cap {p}}
          /\ B = {<<"others", q>> : q \in O \cap {p}}
          /\ C = {<<"small", q>> : q \in small \cap {p}}
          /\ D = {<<"table", k>> : k \in {l \in DOMAIN table : table[l] = p}}
          /\ E = {<<"window", w>> : w \in {x \in DOMAIN pte : pte[x] = p}}
  OBVIOUS
<1> USE <1>0
<1>1. /\ p \notin free => A = {}
      /\ p \notin O => B = {}
      /\ p \notin small => C = {}
  OBVIOUS
<1>2. p \notin Range(table) => D = {}
  BY DEF Range
<1>3. p \notin Range(pte) => E = {}
  BY DEF Range
<1>4. \E x : A \cup B \cup C \cup D \cup E = {x}
  <2>1. CASE p \in free
    <3>1. A = {<<"free", p>>}
      BY <2>1
    <3>2. B = {} /\ C = {} /\ D = {} /\ E = {}
      BY <1>1, <1>2, <1>3, <2>1 DEF Divided
    <3> QED
      BY <3>1, <3>2
  <2>2. CASE p \in O
    <3>1. B = {<<"others", p>>}
      BY <2>2
    <3>2. A = {} /\ C = {} /\ D = {} /\ E = {}
      BY <1>1, <1>2, <1>3, <2>2 DEF Divided
    <3> QED
      BY <3>1, <3>2
  <2>3. CASE p \in small
    <3>1. C = {<<"small", p>>}
      BY <2>3
    <3>2. A = {} /\ B = {} /\ D = {} /\ E = {}
      BY <1>1, <1>2, <1>3, <2>3 DEF Divided
    <3> QED
      BY <3>1, <3>2
  <2>4. CASE p \in Range(table)
    <3>1. PICK k \in DOMAIN table : table[k] = p
      BY <2>4 DEF Range
    <3>2. {l \in DOMAIN table : table[l] = p} = {k}
      BY <3>1 DEF Divided, IsInjective
    <3>3. D = {<<"table", k>>}
      BY <3>2
    <3>4. A = {} /\ B = {} /\ C = {} /\ E = {}
      BY <1>1, <1>2, <1>3, <2>4 DEF Divided
    <3> QED
      BY <3>3, <3>4
  <2>5. CASE p \in Range(pte)
    <3>1. PICK k \in DOMAIN pte : pte[k] = p
      BY <2>5 DEF Range
    <3>2. {x \in DOMAIN pte : pte[x] = p} = {k}
      BY <3>1 DEF Divided, IsInjective
    <3>3. E = {<<"window", k>>}
      BY <3>2
    <3>4. A = {} /\ B = {} /\ C = {} /\ D = {}
      BY <1>1, <1>2, <1>3, <2>5 DEF Divided
    <3> QED
      BY <3>3, <3>4
  <2> QED
    BY <2>1, <2>2, <2>3, <2>4, <2>5 DEF Divided
<1>5. Places(free, small, table, pte, O, p) = A \cup B \cup C \cup D \cup E
  BY DEF Places
<1> HIDE <1>0
<1> QED
  BY <1>4, <1>5, FS_Singleton

LEMMA PagesAreHeldOnce == Inv => PagesHeldOnce
<1> SUFFICES ASSUME Inv PROVE PagesHeldOnce
  OBVIOUS
<1>1. PICK free, small, table, pte, pages, O :
          /\ free = heap.free /\ small = DOMAIN heap.class /\ table = heap.table /\ pte = heap.pte
          /\ pages = heap.pages /\ O = others
  OBVIOUS
<1>2. Divided(free, small, table, pte, O) /\ DOMAIN pte = ObjectSpace(pages)
  BY <1>1 DEF Inv, Sound, Good
<1>3. \A p \in 1..Pages : Cardinality(Places(free, small, table, pte, O, p)) = 1
  BY <1>2, OneOwner
<1> QED
  BY <1>1, <1>2, <1>3 DEF PagesHeldOnce, Places, ObjectSpace

\* The places in the lists of free objects that hold o.
Spots(lists, o) == UNION {{c} \X {j \in DOMAIN lists[c] : lists[c][j] = o} : c \in Class}
Uses(ranges, o) == {i \in DOMAIN ranges : ranges[i].at = o}

LEMMA ObjectOnce ==
    ASSUME NEW class, NEW lists, NEW ranges, NEW L, Kept(class, lists, Structs(ranges) \cup L),
           Structured(class, ranges, L), Ordered(ranges), NEW o \in Pieces(class)
    PROVE  /\ Cardinality(Spots(lists, o)) + Cardinality(Uses(ranges, o)) + Cardinality({o} \cap L) = 1
           /\ \A f \in Spots(lists, o) : f[1] = Kind(class, o)
           /\ Uses(ranges, o) # {} => RangeSize <= class_size[Kind(class, o)]
<1>1. PICK K, c0 : K = Structs(ranges) \cup L /\ c0 = Kind(class, o)
  OBVIOUS
<1>2. /\ class \in [DOMAIN class -> Class] /\ DOMAIN class \subseteq 1..Pages
      /\ lists \in [Class -> Seq(Nat)] /\ \A c \in Class : Distinct(lists[c])
      /\ \A c \in Class : \A x \in Elements(lists[c]) : Kind(class, x) = c /\ x \notin K
      /\ o \notin K => o \in Elements(lists[c0])
  BY <1>1 DEF Kept
<1>3. c0 \in Class
  BY <1>1, <1>2, PieceInPage
<1>4. \A c \in Class : DOMAIN lists[c] = 1..Len(lists[c])
  BY <1>2
<1>5. ASSUME NEW c \in Class, NEW j \in DOMAIN lists[c], lists[c][j] = o
      PROVE  c = c0 /\ o \notin K
  <2>1. o \in Elements(lists[c])
    BY <1>4, <1>5 DEF Elements
  <2> QED
    BY <1>1, <1>2, <2>1
<1>6. ASSUME NEW f \in Spots(lists, o)
      PROVE  f[1] = c0 /\ f = <<c0, f[2]>> /\ f[2] \in DOMAIN lists[c0] /\ lists[c0][f[2]] = o /\ o \notin K
  <2>1. PICK c \in Class : f \in {c} \X {j \in DOMAIN lists[c] : lists[c][j] = o}
    BY DEF Spots
  <2>2. PICK j \in DOMAIN lists[c] : f = <<c, j>> /\ lists[c][j] = o
    BY <2>1
  <2>3. c = c0 /\ o \notin K
    BY <1>5, <2>2
  <2> QED
    BY <2>2, <2>3
<1>7. ranges \in Seq(RangeStruct) /\ DOMAIN ranges = 1..Len(ranges)
  BY DEF Ordered
<1>8. ASSUME NEW i \in Uses(ranges, o) PROVE o \in Structs(ranges) /\ i \in 1..Len(ranges)
  BY <1>7 DEF Uses, Structs
<1>9. Uses(ranges, o) # {} => RangeSize <= class_size[Kind(class, o)]
  <2> SUFFICES ASSUME Uses(ranges, o) # {} PROVE RangeSize <= class_size[Kind(class, o)]
    OBVIOUS
  <2>1. o \in Structs(ranges)
    BY <1>8
  <2>2. Kind(class, o) = class_for(RangeSize)
    BY <2>1 DEF Structured
  <2> QED
    BY <2>2, RangeClass
<1>10. PICK S, U : S = Spots(lists, o) /\ U = Uses(ranges, o)
  OBVIOUS
<1>11. Cardinality(S) + Cardinality(U) + Cardinality({o} \cap L) = 1
  <2>1. CASE o \notin K
    <3>1. PICK j \in 1..Len(lists[c0]) : lists[c0][j] = o
      BY <1>2, <2>1 DEF Elements
    <3>2. <<c0, j>> \in S
      <4>1. <<c0, j>> \in {c0} \X {x \in DOMAIN lists[c0] : lists[c0][x] = o}
        BY <1>3, <1>4, <3>1
      <4> QED
        BY <1>3, <1>10, <4>1 DEF Spots
    <3>3. ASSUME NEW f \in S PROVE f = <<c0, j>>
      <4>1. f = <<c0, f[2]>> /\ f[2] \in 1..Len(lists[c0]) /\ lists[c0][f[2]] = o
        BY <1>3, <1>4, <1>6, <1>10
      <4>2. f[2] = j
        BY <1>2, <1>3, <3>1, <4>1 DEF Distinct
      <4> QED
        BY <4>1, <4>2
    <3>4. S = {<<c0, j>>}
      BY <3>2, <3>3
    <3>5. U = {} /\ {o} \cap L = {}
      BY <1>1, <1>8, <1>10, <2>1
    <3>6. Cardinality(S) = 1 /\ Cardinality(U) = 0 /\ Cardinality({o} \cap L) = 0
      BY <3>4, <3>5, FS_Singleton, FS_EmptySet
    <3> QED
      BY <3>6
  <2>2. CASE o \in K
    <3>1. S = {}
      BY <1>6, <1>10, <2>2
    <3>2. CASE o \in Structs(ranges)
      <4>1. PICK i \in 1..Len(ranges) : ranges[i].at = o
        BY <3>2 DEF Structs
      <4>2. i \in U
        BY <1>7, <1>10, <4>1 DEF Uses
      <4>3. ASSUME NEW k \in U PROVE k = i
        <5>1. k \in 1..Len(ranges) /\ ranges[k].at = o
          BY <1>7, <1>10 DEF Uses
        <5> QED
          BY <4>1, <5>1 DEF Structured
      <4>4. U = {i}
        BY <4>2, <4>3
      <4>5. {o} \cap L = {}
        BY <3>2 DEF Structured
      <4>6. Cardinality(S) = 0 /\ Cardinality(U) = 1 /\ Cardinality({o} \cap L) = 0
        BY <3>1, <4>4, <4>5, FS_Singleton, FS_EmptySet
      <4> QED
        BY <4>6
    <3>3. CASE o \notin Structs(ranges)
      <4>1. U = {} /\ {o} \cap L = {o}
        BY <1>1, <1>8, <1>10, <2>2, <3>3
      <4>2. Cardinality(S) = 0 /\ Cardinality(U) = 0 /\ Cardinality({o} \cap L) = 1
        BY <3>1, <4>1, FS_Singleton, FS_EmptySet
      <4> QED
        BY <4>2
    <3> QED
      BY <3>2, <3>3
  <2> QED
    BY <2>1, <2>2
<1>12. \A f \in Spots(lists, o) : f[1] = Kind(class, o)
  BY <1>1, <1>6
<1> QED
  BY <1>9, <1>10, <1>11, <1>12

HeldOnce(class, lists, ranges, l, p, o) ==
    /\ Cardinality(Spots(lists, o)) + Cardinality(Uses(ranges, o)) + Cardinality({o} \cap DOMAIN l) = 1
    /\ \A f \in Spots(lists, o) : f[1] = class[p]
    /\ Uses(ranges, o) # {} => class_size[class[p]] >= RangeSize

LEMMA ObjectsAreHeldOnce == Inv => ObjectsHeldOnce
<1> SUFFICES ASSUME Inv PROVE ObjectsHeldOnce
  OBVIOUS
<1>1. PICK class, lists, ranges, L, l :
          /\ class = heap.class /\ lists = heap.free_objects /\ ranges = heap.free_ranges
          /\ l = live /\ L = SmallOf(heap, live)
  OBVIOUS
<1>2. /\ Kept(class, lists, Structs(ranges) \cup L) /\ Structured(class, ranges, L)
      /\ Ordered(ranges)
  BY <1>1 DEF Inv, Sound, Good
<1>3. class \in [DOMAIN class -> Class] /\ DOMAIN class \subseteq 1..Pages
  BY <1>2 DEF Kept
<1>4. ASSUME NEW p \in DOMAIN class, NEW k \in DOMAIN Objects(p, class[p]),
             NEW o, o = Objects(p, class[p])[k]
      PROVE  HeldOnce(class, lists, ranges, l, p, o)
  <2>1. o \in Cut(p, class[p])
    BY <1>4 DEF Cut
  <2>2. o \in Pieces(class)
    BY <2>1 DEF Pieces
  <2>3. o \div PageSize = p
    <3>1. p \in Nat \ {0} /\ class[p] \in Class
      BY <1>3, WindowAssumption
    <3> QED
      BY <2>1, <3>1, PageCut
  <2>4. Kind(class, o) = class[p]
    BY <2>3 DEF Kind
  <2>5. {o} \cap DOMAIN l = {o} \cap L
    BY <1>1, <2>3 DEF SmallOf, Small
  <2>6. /\ Cardinality(Spots(lists, o)) + Cardinality(Uses(ranges, o)) + Cardinality({o} \cap L) = 1
        /\ \A f \in Spots(lists, o) : f[1] = Kind(class, o)
        /\ Uses(ranges, o) # {} => RangeSize <= class_size[Kind(class, o)]
    BY <1>2, <2>2, ObjectOnce
  <2>7. class[p] \in Class /\ class_size[class[p]] \in Nat /\ RangeSize \in Nat
    BY <1>3, Constants
  <2> QED
    BY <2>4, <2>5, <2>6, <2>7 DEF HeldOnce
<1>5. ASSUME NEW p \in DOMAIN heap.class, NEW k \in DOMAIN Objects(p, heap.class[p]),
             NEW o, o = Objects(p, heap.class[p])[k]
      PROVE  HeldOnce(heap.class, heap.free_objects, heap.free_ranges, live, p, o)
  BY <1>1, <1>4, <1>5
<1> QED
  BY <1>5, SMTT(40) DEF HeldOnce, ObjectsHeldOnce, Spots, Uses, Ranges

\* Whatever the kernel allocates and frees, whatever fails for want of memory and however
\* the rest of the kernel takes pages: the window, the physical pages and the small objects
\* are each divided among their holders, none out and none twice.
THEOREM KernelHeapWellFormed == Spec => []WellFormed
<1>1. Inv => WellFormed
  BY WindowIsTiled, PagesAreHeldOnce, ObjectsAreHeldOnce DEF WellFormed
<1> QED
  BY <1>1, Invariance, PTL

\* kfree, and krealloc when it moves an object, lose no part of the window.
THEOREM KernelHeapFreeLosesNothing == Spec => FreeLosesNothing
<1>1. Inv /\ [Next]_vars
        => [\A p \in DOMAIN live : p \notin DOMAIN live' => heap'.lost = heap.lost]_vars
  <2> SUFFICES ASSUME Inv, [Next]_vars, NEW x \in DOMAIN live, x \notin DOMAIN live'
               PROVE  heap'.lost = heap.lost
    OBVIOUS
  <2>1. ASSUME NEW n \in Sizes, Malloc(n) PROVE FALSE
    <3>1. PICK r : MallocDoes(r, n)
      BY <2>1, MallocInv
    <3> QED
      BY <3>1 DEF MallocDoes, With
  <2>2. ASSUME NEW p \in DOMAIN live, Free(p) PROVE heap'.lost = heap.lost
    BY <2>2, FreeInv DEF Released
  <2>3. ASSUME NEW p \in DOMAIN live, NEW n \in Sizes, ReallocInPlace(p, n) PROVE FALSE
    BY <2>3 DEF ReallocInPlace
  <2>4. ASSUME NEW p \in DOMAIN live, NEW n \in Sizes, ReallocMoves(p, n)
        PROVE  heap'.lost = heap.lost
    <3>1. PICK r : \/ Obtained(heap, r, live, others, n) /\ heap' = r.heap /\ live' = live
                   \/ MovesTo(r, p, n)
      BY <2>4, MoveInv
    <3>2. MovesTo(r, p, n)
      BY <3>1
    <3>3. r.heap.lost = heap.lost /\ heap'.lost = r.heap.lost
      BY <3>2 DEF MovesTo, Obtained, Released
    <3> QED
      BY <3>3
  <2>5. CASE OthersTake \/ OthersGive
    BY <2>5 DEF OthersTake, OthersGive
  <2>6. CASE UNCHANGED vars
    BY <2>6 DEF vars
  <2> QED
    BY <2>1, <2>2, <2>3, <2>4, <2>5, <2>6 DEF Next
<1> QED
  BY <1>1, Invariance, PTL DEF Spec, FreeLosesNothing

-----------------------------------------------------------------------------
(* Regions of memory. *)

\* The pages that an object lies in, and where its addresses are.
Home(h, p) ==
    IF Small(h, p) THEN {p \div PageSize} ELSE Span(p \div PageSize, h.pages[p \div PageSize])
Region(h, p) == p..(p + usable_size(h, p) - 1)

LEMMA SmallCut ==
    ASSUME NEW h, NEW l, NEW O, Sound(h, l, O), NEW p \in DOMAIN l, Small(h, p),
           NEW w, w = p \div PageSize
    PROVE  /\ w \in DOMAIN h.class /\ w \in 1..Pages /\ w \in Nat \ {0} /\ h.class[w] \in Class
           /\ p \in Cut(w, h.class[w]) /\ usable_size(h, p) = class_size[h.class[w]]
<1>1. PICK class, L : class = h.class /\ L = SmallOf(h, l)
  OBVIOUS
<1>2. /\ class \in [DOMAIN class -> Class] /\ DOMAIN class \subseteq 1..Pages
      /\ L \subseteq Pieces(class)
  BY <1>1 DEF Sound, Good, Kept
<1>3. p \in Pieces(class)
  BY <1>1, <1>2 DEF SmallOf
<1>4. w \in DOMAIN class /\ p \in Cut(w, class[w])
  BY <1>2, <1>3, PieceInPage DEF Kind
<1>5. w \in 1..Pages /\ w \in Nat \ {0} /\ class[w] \in Class
  BY <1>2, <1>4, WindowAssumption
<1> QED
  BY <1>1, <1>4, <1>5 DEF usable_size

\* The addresses of an object are within its pages.
Placed(h, p) ==
    /\ p \in Nat /\ usable_size(h, p) \in Nat /\ PageSize <= p
    /\ p + usable_size(h, p) <= WindowEnd * PageSize
    /\ \A x \in Region(h, p) : x \div PageSize \in Home(h, p)

LEMMA InPages ==
    ASSUME NEW p \in Nat, NEW u \in Nat, NEW v \in Nat \ {0}, NEW w \in Nat, w <= WindowEnd,
           v * PageSize <= p, p + u <= w * PageSize
    PROVE  /\ PageSize <= p /\ p + u <= WindowEnd * PageSize
           /\ \A x \in p..(p + u - 1) : x \div PageSize \in v..(w - 1)
<1>1. PICK b \in Nat \ {0} : b = PageSize
  BY Constants
<1>2. PICK vb \in Nat, wb \in Nat, eb \in Nat : vb = v * b /\ wb = w * b /\ eb = WindowEnd * b
  <2>1. WindowEnd \in Nat
    BY WindowAssumption
  <2> QED
    BY <2>1
<1>3. b <= vb
  <2>1. 1 * b <= v * b
    BY ProductGrows
  <2> QED
    BY <1>2, <2>1
<1>4. wb <= eb
  BY <1>2, WindowAssumption, ProductGrows
<1>5. vb <= p /\ p + u <= wb
  BY <1>1, <1>2
<1>6. ASSUME NEW x \in p..(p + u - 1) PROVE x \div PageSize \in v..(w - 1)
  <2>1. x \in Nat /\ v * b <= x /\ x < w * b
    BY <1>2, <1>5
  <2>2. x \div b \in v..(w - 1)
    BY <2>1, PageBounds
  <2> QED
    BY <1>1, <2>2
<1> QED
  BY <1>1, <1>2, <1>3, <1>4, <1>5, <1>6

LEMMA ObjectPlaced ==
    ASSUME NEW h, NEW l, NEW O, Sound(h, l, O), NEW p \in DOMAIN l
    PROVE  Placed(h, p)
<1>1. PICK u, w, L : u = usable_size(h, p) /\ w = p \div PageSize /\ L = SmallOf(h, l)
  OBVIOUS
<1>2. p \in Nat /\ Good(h, L, O, {}, {})
  BY <1>1 DEF Sound, HeldBy
<1>3. CASE Small(h, p)
  <2>1. /\ w \in Nat \ {0} /\ w \in 1..Pages /\ h.class[w] \in Class
        /\ p \in Cut(w, h.class[w]) /\ u = class_size[h.class[w]]
    BY <1>1, <1>3, SmallCut
  <2>2. w * PageSize < p /\ p + u <= (w + 1) * PageSize /\ u \in Nat
    BY <2>1, PageCut, Constants
  <2>3. w + 1 \in Nat /\ w + 1 <= WindowEnd
    BY <2>1, WindowAssumption
  <2>4. w * PageSize <= p
    <3>1. w * PageSize \in Nat
      BY <2>1, Constants
    <3> QED
      BY <1>2, <2>2, <3>1
  <2>5. /\ PageSize <= p /\ p + u <= WindowEnd * PageSize
        /\ \A x \in p..(p + u - 1) : x \div PageSize \in w..((w + 1) - 1)
    BY <1>2, <2>1, <2>2, <2>3, <2>4, InPages
  <2>6. w..((w + 1) - 1) = {w}
    BY <2>1
  <2>7. Home(h, p) = {w}
    BY <1>1, <1>3 DEF Home
  <2> QED
    BY <1>1, <1>2, <2>2, <2>5, <2>6, <2>7 DEF Placed, Region
<1>4. CASE ~Small(h, p)
  <2>1. w \in DOMAIN h.pages /\ p = w * PageSize + HeapHeader /\ w \notin DOMAIN h.class
    BY <1>1, <1>4 DEF Sound, HeldBy, Large, Small
  <2>2. PICK n \in Nat \ {0} : n = h.pages[w] /\ w \in Nat \ {0} /\ w + n <= WindowEnd
    BY <1>2, <2>1, LargeInWindow
  <2>3. PICK b \in Nat \ {0} : b = PageSize /\ HeapHeader = 1
    BY Constants
  <2>4. PICK wb \in Nat, nb \in Nat : wb = w * b /\ nb = n * b /\ (w + n) * b = wb + nb /\ nb > 0
    <3>1. w * b \in Nat /\ n * b \in Nat /\ (w + n) * b = w * b + n * b
      BY <2>2
    <3>2. 1 * b <= n * b
      BY ProductGrows
    <3> QED
      BY <3>1, <3>2
  <2>5. u = nb - 1 /\ p = wb + 1
    BY <1>1, <2>1, <2>2, <2>3, <2>4 DEF usable_size
  <2>6. u \in Nat /\ w * PageSize <= p /\ p + u <= (w + n) * PageSize
    BY <2>3, <2>4, <2>5
  <2>7. w + n \in Nat
    BY <2>2
  <2>8. /\ PageSize <= p /\ p + u <= WindowEnd * PageSize
        /\ \A x \in p..(p + u - 1) : x \div PageSize \in w..((w + n) - 1)
    BY <1>2, <2>2, <2>6, <2>7, InPages
  <2>9. Home(h, p) = w..((w + n) - 1)
    BY <1>1, <1>4, <2>2 DEF Home, Span
  <2> QED
    BY <1>1, <1>2, <2>6, <2>8, <2>9 DEF Placed, Region
<1> QED
  BY <1>3, <1>4

\* Different objects do not overlap.
LEMMA RegionsDisjoint ==
    ASSUME NEW h, NEW l, NEW O, Sound(h, l, O), NEW p \in DOMAIN l, NEW q \in DOMAIN l, p # q
    PROVE  Region(h, p) \cap Region(h, q) = {}
<1>1. PICK L, v, w : L = SmallOf(h, l) /\ v = p \div PageSize /\ w = q \div PageSize
  OBVIOUS
<1>2. Placed(h, p) /\ Placed(h, q) /\ Good(h, L, O, {}, {})
  BY <1>1, ObjectPlaced DEF Sound
<1>3. CASE Home(h, p) \cap Home(h, q) = {}
  BY <1>2, <1>3 DEF Placed
<1>4. CASE Small(h, p) /\ Small(h, q) /\ v = w
  <2>1. PICK c : c = h.class[v]
    OBVIOUS
  <2>2. /\ v \in Nat \ {0} /\ c \in Class /\ p \in Cut(v, c) /\ usable_size(h, p) = class_size[c]
    BY <1>1, <1>4, <2>1, SmallCut
  <2>3. q \in Cut(v, c) /\ usable_size(h, q) = class_size[c]
    BY <1>1, <1>4, <2>1, SmallCut
  <2>4. PICK s \in Nat : s = class_size[c]
    BY <2>2, Constants
  <2>5. p \in Nat /\ q \in Nat
    BY <1>2 DEF Placed
  <2>6. (p < q => p + s <= q) /\ (q < p => q + s <= p)
    BY <2>2, <2>3, <2>4, PageCut
  <2>7. Region(h, p) = p..(p + s - 1) /\ Region(h, q) = q..(q + s - 1)
    BY <2>2, <2>3, <2>4 DEF Region
  <2> QED
    BY <2>5, <2>6, <2>7
<1>5. CASE Small(h, p) /\ Small(h, q) /\ v # w
  <2>1. Home(h, p) \cap Home(h, q) = {}
    BY <1>1, <1>5 DEF Home
  <2> QED
    BY <1>3, <2>1
<1>6. ASSUME NEW a \in DOMAIN l, ~Small(h, a)
      PROVE  /\ a \div PageSize \in DOMAIN h.pages /\ a = (a \div PageSize) * PageSize + HeapHeader
             /\ Home(h, a) = Span(a \div PageSize, h.pages[a \div PageSize])
             /\ Home(h, a) \cap (1..Pages) = {}
  <2>1. PICK x : x = a \div PageSize
    OBVIOUS
  <2>2. x \in DOMAIN h.pages /\ a = x * PageSize + HeapHeader
    BY <1>6, <2>1 DEF Sound, HeldBy, Large, Small
  <2>3. Home(h, a) = Span(x, h.pages[x])
    BY <1>6, <2>1 DEF Home
  <2>4. x \in Nat /\ x > Pages /\ h.pages[x] \in Nat
    BY <1>2, <2>2, LargeInWindow
  <2>5. Home(h, a) \cap (1..Pages) = {}
    BY <2>3, <2>4, WindowAssumption DEF Span
  <2> QED
    BY <2>1, <2>2, <2>3, <2>5
<1>7. ASSUME NEW a \in DOMAIN l, Small(h, a) PROVE Home(h, a) \subseteq 1..Pages
  <2>1. PICK x : x = a \div PageSize
    OBVIOUS
  <2>2. x \in 1..Pages
    BY <1>7, <2>1, SmallCut
  <2> QED
    BY <1>7, <2>1, <2>2 DEF Home
<1>8. CASE Small(h, p) /\ ~Small(h, q)
  BY <1>3, <1>6, <1>7, <1>8
<1>9. CASE ~Small(h, p) /\ Small(h, q)
  BY <1>3, <1>6, <1>7, <1>9
<1>10. CASE ~Small(h, p) /\ ~Small(h, q)
  <2>1. /\ v \in DOMAIN h.pages /\ p = v * PageSize + HeapHeader /\ Home(h, p) = Span(v, h.pages[v])
        /\ w \in DOMAIN h.pages /\ q = w * PageSize + HeapHeader /\ Home(h, q) = Span(w, h.pages[w])
    BY <1>1, <1>6, <1>10
  <2>2. v # w
    BY <2>1
  <2>3. Apart(h.pages)
    BY <1>2 DEF Good
  <2>4. Home(h, p) \cap Home(h, q) = {}
    BY <2>1, <2>2, <2>3 DEF Apart
  <2> QED
    BY <1>3, <2>4
<1> QED
  BY <1>4, <1>5, <1>8, <1>9, <1>10

LEMMA RegionsSound == Inv => HR!Sound
<1> SUFFICES ASSUME Inv PROVE HR!Sound
  OBVIOUS
<1>1. PICK h, l, O : h = heap /\ l = live /\ O = others
  OBVIOUS
<1>2. Sound(h, l, O)
  BY <1>1 DEF Inv
<1>3. DOMAIN Usable = DOMAIN l /\ \A p \in DOMAIN l : Usable[p] = usable_size(h, p)
  BY <1>1 DEF Usable
<1>4. \A p \in DOMAIN l : HR!Cells(p) = Region(h, p)
  BY <1>3 DEF HR!Cells, Region
<1>5. ASSUME NEW p \in DOMAIN l
      PROVE  Usable[p] >= l[p] /\ HR!Cells(p) \subseteq PageSize..(WindowEnd * PageSize - 1)
  <2>1. PICK u : u = usable_size(h, p)
    OBVIOUS
  <2>2. l[p] \in Nat /\ l[p] <= u
    BY <1>2, <2>1 DEF Sound, HeldBy
  <2>3. Placed(h, p)
    BY <1>2, ObjectPlaced
  <2>4. p \in Nat /\ u \in Nat /\ PageSize <= p /\ p + u <= WindowEnd * PageSize
    BY <2>1, <2>3 DEF Placed
  <2>5. PICK e \in Nat : e = WindowEnd * PageSize
    BY WindowAssumption, Constants
  <2>6. HR!Cells(p) = p..(p + u - 1)
    BY <1>4, <2>1 DEF Region
  <2>7. PageSize \in Nat
    BY Constants
  <2>8. p..(p + u - 1) \subseteq PageSize..(e - 1)
    BY <2>4, <2>5, <2>7
  <2> QED
    BY <1>3, <2>1, <2>2, <2>4, <2>5, <2>6, <2>8
<1>6. ASSUME NEW p \in DOMAIN l, NEW q \in DOMAIN l, p # q
      PROVE  HR!Cells(p) \cap HR!Cells(q) = {}
  <2>1. Region(h, p) \cap Region(h, q) = {}
    BY <1>2, <1>6, RegionsDisjoint
  <2> QED
    BY <1>4, <2>1
<1> QED
  BY <1>1, <1>3, <1>5, <1>6 DEF HR!Sound

\* The regions before and after a call.
LEMMA RegionsNext ==
    /\ DOMAIN Usable = DOMAIN live
    /\ \A p \in DOMAIN live : Usable[p] = usable_size(heap, p)
    /\ DOMAIN Usable' = DOMAIN live'
    /\ \A p \in DOMAIN live' : Usable'[p] = usable_size(heap', p)
BY DEF Usable

\* A call that changes no object and the steps of the rest of the kernel are not seen.
LEMMA RegionsStutter ==
    ASSUME live' = live, \A p \in DOMAIN live : usable_size(heap', p) = usable_size(heap, p)
    PROVE  UNCHANGED HR!rvars
<1>1. Usable' = [p \in DOMAIN live' |-> usable_size(heap', p)]
  BY DEF Usable
<1>2. Usable = [p \in DOMAIN live |-> usable_size(heap, p)]
  BY DEF Usable
<1>3. Usable' = Usable
  BY <1>1, <1>2
<1> QED
  BY <1>3 DEF HR!rvars

\* While krealloc copies, both objects are there and do not overlap.
LEMMA MoveApart ==
    ASSUME Inv, NEW p \in DOMAIN live, NEW n \in Nat, NEW r, MovesTo(r, p, n),
           n > usable_size(heap, p)
    PROVE  /\ Usable'[r.ptr] >= Usable[p] /\ HR!Cells(p) \cap HR!Cells(r.ptr)' = {}
<1>1. PICK h, d, g, l, k, O, q : /\ h = heap /\ d = r.heap /\ g = heap' /\ l = live /\ O = others
                                 /\ q = r.ptr /\ k = With(live, r.ptr, n)
  OBVIOUS
<1>2. /\ Sound(h, l, O) /\ Obtained(h, r, l, O, n) /\ q # 0 /\ Released(d, g, k, O, p)
      /\ live' = With(Without(l, {p}), q, n)
  BY <1>1 DEF Inv, MovesTo
<1>3. Sound(d, k, O) /\ q \notin DOMAIN l /\ n <= usable_size(d, q) /\ Stays(h, d, p) /\ p \in DOMAIN l
  BY <1>1, <1>2 DEF Obtained
<1>4. p \in DOMAIN k /\ q \in DOMAIN k /\ p # q
  BY <1>1, <1>3 DEF With
<1>5. Stays(d, g, q)
  BY <1>2, <1>4 DEF Released
<1>6. PICK s, t : s = usable_size(d, p) /\ t = usable_size(d, q)
  OBVIOUS
<1>7. usable_size(h, p) = s /\ usable_size(g, q) = t
  BY <1>3, <1>5, <1>6 DEF Stays
<1>8. Placed(d, p) /\ Placed(d, q)
  BY <1>3, <1>4, ObjectPlaced
<1>9. s \in Nat /\ t \in Nat
  BY <1>6, <1>8 DEF Placed
<1>10. q \in DOMAIN live'
  BY <1>2 DEF With
<1>11. Usable[p] = s /\ Usable'[q] = t
  BY <1>1, <1>7, <1>10, RegionsNext
<1>12. t >= s
  BY <1>1, <1>3, <1>6, <1>7, <1>9
<1>13. Region(d, p) \cap Region(d, q) = {}
  BY <1>3, <1>4, RegionsDisjoint
<1>14. HR!Cells(p) = Region(d, p)
  BY <1>6, <1>11 DEF HR!Cells, Region
<1>15. HR!Cells(q)' = Region(d, q)
  <2>1. HR!Cells(q)' = q..(q + Usable'[q] - 1)
    BY DEF HR!Cells
  <2> QED
    BY <1>6, <1>11, <2>1 DEF Region
<1> QED
  BY <1>1, <1>11, <1>12, <1>13, <1>14, <1>15

\* Each call is the one of the abstract specification.
LEMMA RegionsStep ==
    ASSUME Inv, Inv', Next
    PROVE  [HR!Next]_(HR!rvars)
<1>1. HR!Sound'
  <2>1. (Inv => HR!Sound)'
    BY RegionsSound, PTL
  <2> QED
    BY <2>1
<1>2. ASSUME NEW n \in Sizes, Malloc(n)
      PROVE  [HR!Next]_(HR!rvars)
  <2>1. PICK r : MallocDoes(r, n)
    BY <1>2, MallocInv
  <2>2. \A q \in DOMAIN live : usable_size(heap', q) = usable_size(heap, q)
    BY <2>1 DEF MallocDoes, Obtained, Stays
  <2>3. CASE r.ptr = 0
    <3>1. live' = live
      BY <2>1, <2>3 DEF MallocDoes
    <3> QED
      BY <2>2, <3>1, RegionsStutter
  <2>4. CASE r.ptr # 0
    <3>1. PICK p : p = r.ptr
      OBVIOUS
    <3>2. live' = With(live, p, n) /\ p \notin DOMAIN live
      BY <2>1, <2>4, <3>1 DEF MallocDoes, Obtained
    <3>3. DOMAIN live' = DOMAIN live \cup {p} /\ live'[p] = n
          /\ \A q \in DOMAIN live : live'[q] = live[q]
      BY <3>2 DEF With
    <3>4. HR!Malloc(n, p) /\ p \in DOMAIN Usable'
      BY <2>2, <3>2, <3>3, RegionsNext DEF HR!Malloc, HR!Same
    <3> QED
      BY <1>1, <3>4 DEF HR!Next
  <2> QED
    BY <2>3, <2>4
<1>3. ASSUME NEW p \in DOMAIN live, Free(p)
      PROVE  HR!Next
  <2>1. Released(heap, heap', live, others, p) /\ live' = Without(live, {p})
    BY <1>3, FreeInv
  <2>2. DOMAIN live' = DOMAIN live \ {p} /\ \A q \in DOMAIN live' : live'[q] = live[q]
    BY <2>1 DEF Without
  <2>3. \A q \in DOMAIN live' : usable_size(heap', q) = usable_size(heap, q)
    BY <2>1, <2>2 DEF Released, Stays
  <2>4. HR!Free(p) /\ p \in DOMAIN Usable
    BY <2>2, <2>3, RegionsNext DEF HR!Free, HR!Same
  <2> QED
    BY <1>1, <2>4 DEF HR!Next
<1>4. ASSUME NEW p \in DOMAIN live, NEW n \in Sizes, ReallocInPlace(p, n)
      PROVE  HR!Next
  <2>1. /\ DOMAIN live' = DOMAIN live /\ live'[p] = n /\ heap' = heap
        /\ \A q \in DOMAIN live : q # p => live'[q] = live[q]
    BY <1>4 DEF ReallocInPlace
  <2>2. HR!Resize(n, p) /\ p \in DOMAIN Usable'
    BY <2>1, RegionsNext DEF HR!Resize, HR!Same
  <2> QED
    BY <1>1, <2>2 DEF HR!Next
<1>5. ASSUME NEW p \in DOMAIN live, NEW n \in Sizes, ReallocMoves(p, n)
      PROVE  [HR!Next]_(HR!rvars)
  <2>1. PICK r : \/ Obtained(heap, r, live, others, n) /\ heap' = r.heap /\ live' = live
                 \/ MovesTo(r, p, n)
    BY <1>5, MoveInv
  <2>2. CASE Obtained(heap, r, live, others, n) /\ heap' = r.heap /\ live' = live
    <3>1. \A q \in DOMAIN live : usable_size(heap', q) = usable_size(heap, q)
      BY <2>2 DEF Obtained, Stays
    <3> QED
      BY <2>2, <3>1, RegionsStutter
  <2>3. CASE MovesTo(r, p, n)
    <3>1. n \in Nat /\ n > usable_size(heap, p)
      BY <1>5, SizeAssumption DEF ReallocMoves
    <3>2. PICK q : q = r.ptr
      OBVIOUS
    <3>3. Usable'[q] >= Usable[p] /\ HR!Cells(p) \cap HR!Cells(q)' = {}
      <4>1. /\ Usable'[r.ptr] >= Usable[p] /\ HR!Cells(p) \cap HR!Cells(r.ptr)' = {}
        BY <2>3, <3>1, MoveApart
      <4>2. HR!Cells(r.ptr)' = HR!Cells(q)'
        BY <3>2 DEF HR!Cells
      <4> QED
        BY <3>2, <4>1, <4>2
    <3>4. q \notin DOMAIN live /\ live' = With(Without(live, {p}), q, n)
      BY <2>3, <3>2 DEF MovesTo, Obtained
    <3>5. DOMAIN live' = (DOMAIN live \ {p}) \cup {q} /\ live'[q] = n
          /\ \A x \in DOMAIN live \ {p} : live'[x] = live[x]
      BY <3>4 DEF With, Without
    <3>6. \A x \in DOMAIN live \ {p} : usable_size(heap', x) = usable_size(heap, x)
      <4>1. \A x \in DOMAIN live : Stays(heap, r.heap, x)
        BY <2>3 DEF MovesTo, Obtained
      <4>2. \A x \in DOMAIN live : x # p => Stays(r.heap, heap', x)
        BY <2>3 DEF MovesTo, Released, With
      <4> QED
        BY <4>1, <4>2 DEF Stays
    <3>7. HR!Move(n, p, q) /\ q \in DOMAIN Usable' /\ p \in DOMAIN Usable
      BY <3>3, <3>4, <3>5, <3>6, RegionsNext DEF HR!Move, HR!Same
    <3> QED
      BY <1>1, <3>7 DEF HR!Next
  <2> QED
    BY <2>1, <2>2, <2>3
<1>6. ASSUME OthersTake \/ OthersGive
      PROVE  UNCHANGED HR!rvars
  <2>1. live' = live /\ heap'.class = heap.class /\ heap'.pages = heap.pages
    BY <1>6, TakeInv, GiveInv DEF OthersTake, OthersGive
  <2>2. \A q : usable_size(heap', q) = usable_size(heap, q)
    BY <2>1 DEF usable_size
  <2> QED
    BY <2>1, <2>2, RegionsStutter
<1> QED
  BY <1>2, <1>3, <1>4, <1>5, <1>6 DEF Next

\* kmalloc, krealloc and kfree give the kernel objects as large as it asked for that
\* overlap none of those it holds, and leave the other objects where and as large as
\* they are.
THEOREM KernelHeapImplementsRegions == Spec => ImplementsHeapRegions
<1>1. Init => HR!Init
  <2> SUFFICES ASSUME Init PROVE HR!Init
    OBVIOUS
  <2>1. HR!Sound
    BY InitInv, RegionsSound
  <2>2. DOMAIN Usable = {}
    BY DEF Init, Usable
  <2> QED
    BY <2>1, <2>2 DEF HR!Init
<1>2. Inv /\ Inv' /\ [Next]_vars => [HR!Next]_(HR!rvars)
  <2> SUFFICES ASSUME Inv, Inv', [Next]_vars
               PROVE  [HR!Next]_(HR!rvars)
    OBVIOUS
  <2>1. CASE Next
    BY <2>1, RegionsStep
  <2>2. CASE UNCHANGED vars
    BY <2>2 DEF vars, HR!rvars, Usable
  <2> QED
    BY <2>1, <2>2
<1> QED
  BY <1>1, <1>2, Invariance, PTL DEF Spec, ImplementsHeapRegions, HR!Spec
=============================================================================
