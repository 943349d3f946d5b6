--------------------------- MODULE HeapRegions ---------------------------
(***************************************************************************)
(* What a program may assume of malloc, realloc and free: it holds regions *)
(* of memory, each as large as it asked for, that do not overlap.          *)
(***************************************************************************)
EXTENDS Integers

CONSTANTS Sizes, MmapBase, MmapEnd

VARIABLES
    asked,          \* pointer -> size the program asked for
    size            \* pointer -> size of the region it got

rvars == <<asked, size>>

Cells(p) == p..(p + size[p] - 1)

Sound ==
    /\ DOMAIN asked = DOMAIN size
    /\ \A p \in DOMAIN size : size[p] >= asked[p] /\ Cells(p) \subseteq MmapBase..(MmapEnd - 1)
    /\ \A p, q \in DOMAIN size : p # q => Cells(p) \cap Cells(q) = {}

\* Regions that a call leaves alone.
Same(ps) == \A p \in ps : asked'[p] = asked[p] /\ size'[p] = size[p]

Init == DOMAIN size = {} /\ Sound

\* malloc(n) returns p.
Malloc(n, p) ==
    /\ p \notin DOMAIN size
    /\ DOMAIN size' = DOMAIN size \cup {p}
    /\ asked'[p] = n
    /\ Same(DOMAIN size)

Free(p) ==
    /\ p \in DOMAIN size
    /\ DOMAIN size' = DOMAIN size \ {p}
    /\ Same(DOMAIN size')

\* realloc(p, n) in place.
Resize(n, p) ==
    /\ p \in DOMAIN size
    /\ DOMAIN size' = DOMAIN size
    /\ asked'[p] = n
    /\ Same(DOMAIN size \ {p})

\* realloc(p, n) returns q.  While the bytes are copied p and q are both in use, and
\* q has room for all that p holds.
Move(n, p, q) ==
    /\ p \in DOMAIN size /\ q \notin DOMAIN size
    /\ DOMAIN size' = (DOMAIN size \ {p}) \cup {q}
    /\ asked'[q] = n
    /\ size'[q] >= size[p] /\ Cells(p) \cap Cells(q)' = {}
    /\ Same(DOMAIN size \ {p})

Next ==
    /\ Sound'
    /\ \/ \E n \in Sizes, p \in DOMAIN size' : Malloc(n, p) \/ Resize(n, p)
       \/ \E p \in DOMAIN size : Free(p)
       \/ \E n \in Sizes, p \in DOMAIN size, q \in DOMAIN size' : Move(n, p, q)

Spec == Init /\ [][Next]_rvars
=============================================================================
