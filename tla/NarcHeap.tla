----------------------------- MODULE NarcHeap -----------------------------
(***************************************************************************)
(* The kernel's heap, kernel/mm/heap.c: kmalloc, krealloc and kfree.       *)
(*                                                                         *)
(* Small objects come from physical pages that are cut into objects of one *)
(* size and never given back.  Larger ones are mapped page by page into a  *)
(* window of kernel addresses; the free ranges of the window are kept in a *)
(* list whose structs are small objects of this same heap.                 *)
(*                                                                         *)
(* Sizes and addresses are in units of HEAP_HEADER.  Pages are numbered:   *)
(* 1..Pages are the physical ones, seen through the direct map, and those  *)
(* from WindowBase on are pages of the window.  0 is the null pointer.     *)
(* Calls run with interrupts off, so each is one step; the rest of the     *)
(* kernel takes physical pages and gives them back between the steps.      *)
(***************************************************************************)
EXTENDS Integers, FiniteSets, Sequences, SequencesExt

CONSTANTS
    PageSize,       \* PAGE_SIZE
    class_size,     \* the sizes of small objects, in ascending order
    RangeSize,      \* sizeof(struct range)
    Pages,          \* physical pages
    WindowBase, WindowEnd,  \* vmm_kernel_window, in pages
    PerTable,       \* pages that one page table maps
    Sizes,          \* bound: what the kernel asks for
    MaxLive         \* bound: objects the kernel holds at a time

HeapHeader == 1
Class == 1..Len(class_size)

ASSUME SizeAssumption ==
    /\ PageSize \in Nat /\ RangeSize \in Nat /\ class_size \in Seq(Nat \ {0})
    /\ \A c \in Class : HeapHeader + class_size[c] <= PageSize
    /\ \A c, d \in Class : c < d => class_size[c] < class_size[d]
    /\ \E c \in Class : RangeSize <= class_size[c]
    /\ Sizes \subseteq Nat /\ MaxLive \in Nat
ASSUME WindowAssumption ==
    /\ Pages \in Nat /\ PerTable \in Nat \ {0}
    /\ WindowBase \in Nat /\ WindowEnd \in Nat
    /\ Pages < WindowBase /\ WindowBase <= WindowEnd

VARIABLES
    heap,           \* see Init
    live,           \* pointer the kernel holds -> size it asked for
    others          \* physical pages that the rest of the kernel holds

vars == <<heap, live, others>>

With(f, a, x) == [y \in DOMAIN f \cup {a} |-> IF y = a THEN x ELSE f[y]]
Without(f, S) == [y \in DOMAIN f \ S |-> f[y]]
Lowest(S) == CHOOSE p \in S : \A q \in S : p <= q
Highest(S) == CHOOSE p \in S : \A q \in S : q <= p

\* heap_init.  free: pages that pmm_alloc_page can return, the least one first.
\* class, pages: fields of the page headers.  pte and table: what vmm_map_kernel has
\* put into the window.  lost: pages of the window that no list has any more.
Init ==
    /\ heap = [free |-> 1..Pages,
               free_objects |-> [c \in Class |-> <<>>],
               free_ranges |-> <<>>,
               window_next |-> WindowBase,
               class |-> [p \in {} |-> 0],
               pages |-> [w \in {} |-> 0],
               pte |-> [w \in {} |-> 0],
               table |-> [k \in {} |-> 0],
               lost |-> {}]
    /\ live = [p \in {} |-> 0]
    /\ others = {}

-----------------------------------------------------------------------------
(* Small objects.  An allocation is the heap after it and the pointer. *)

Result(h, p) == [heap |-> h, ptr |-> p]

\* class_for, 0 when only a large allocation will do.
class_for(size) ==
    IF \E c \in Class : size <= class_size[c]
    THEN Lowest({c \in Class : size <= class_size[c]})
    ELSE 0

\* The objects of page p, last one first: each is pushed on the list.
Objects(p, c) ==
    LET n == (PageSize - HeapHeader) \div class_size[c]
    IN  [k \in 1..n |-> p * PageSize + HeapHeader + (n - k) * class_size[c]]

\* refill, when there is a page.
refill(h, c) ==
    LET p == Lowest(h.free)
    IN  [h EXCEPT !.free = @ \ {p}, !.class = With(@, p, c),
                  !.free_objects[c] = Objects(p, c) \o @]

small_alloc(h, c) ==
    IF h.free_objects[c] = <<>> /\ h.free = {} THEN Result(h, 0)
    ELSE LET r == IF h.free_objects[c] = <<>> THEN refill(h, c) ELSE h
         IN  Result([r EXCEPT !.free_objects[c] = Tail(@)], Head(r.free_objects[c]))

\* kfree of a small object: the header of its page has its class.
small_free(h, p) ==
    [h EXCEPT !.free_objects[h.class[p \div PageSize]] = <<p>> \o @]

-----------------------------------------------------------------------------
(* Ranges of the window. *)

\* The loops of window_alloc and window_free: the first range that is large enough, and
\* the first that lies behind; one past the end of the list when there is none.
Fitting(h, pages) ==
    LET n == Len(h.free_ranges)
    IN  Lowest({i \in 1..n : h.free_ranges[i].pages >= pages} \cup {n + 1})

Following(h, base) ==
    LET n == Len(h.free_ranges)
    IN  Lowest({i \in 1..n : h.free_ranges[i].base >= base} \cup {n + 1})

\* window_alloc: the pointer is a page of the window.
window_alloc(h, pages) ==
    LET i == Fitting(h, pages)
        r == h.free_ranges[i]
    IN  CASE i <= Len(h.free_ranges) /\ r.pages > pages ->
                Result([h EXCEPT !.free_ranges[i].base = @ + pages,
                                 !.free_ranges[i].pages = @ - pages], r.base)
          [] i <= Len(h.free_ranges) /\ r.pages = pages ->
                Result(small_free([h EXCEPT !.free_ranges = RemoveAt(@, i)], r.at), r.base)
          [] i > Len(h.free_ranges) /\ pages <= WindowEnd - h.window_next ->
                Result([h EXCEPT !.window_next = @ + pages], h.window_next)
          [] OTHER -> Result(h, 0)

\* Mutant of window_free: the range behind is not looked at after joining the one before.
WindowFreeJoinsOne(h, base, pages) ==
    LET n == Following(h, base)
        before == n > 1 /\ h.free_ranges[n - 1].base + h.free_ranges[n - 1].pages = base
        behind == n <= Len(h.free_ranges) /\ base + pages = h.free_ranges[n].base
        new == small_alloc(h, class_for(RangeSize))
    IN  CASE before -> [h EXCEPT !.free_ranges[n - 1].pages = @ + pages]
          [] ~before /\ behind ->
                [h EXCEPT !.free_ranges[n].base = base, !.free_ranges[n].pages = @ + pages]
          [] ~before /\ ~behind /\ new.ptr # 0 ->
                [new.heap EXCEPT !.free_ranges =
                    InsertAt(@, n, [base |-> base, pages |-> pages, at |-> new.ptr])]
          [] OTHER -> [h EXCEPT !.lost = @ \cup base..(base + pages - 1)]

\* window_free: the pages join the ranges next to them, or become a range of their
\* own when there is memory for its struct.
window_free(h, base, pages) ==
    LET n == Following(h, base)
        before == n > 1 /\ h.free_ranges[n - 1].base + h.free_ranges[n - 1].pages = base
        behind == n <= Len(h.free_ranges) /\ base + pages = h.free_ranges[n].base
        joined == [h.free_ranges EXCEPT ![n - 1].pages = @ + pages + h.free_ranges[n].pages]
        new == small_alloc(h, class_for(RangeSize))
    IN  CASE before /\ behind ->
                small_free([h EXCEPT !.free_ranges = RemoveAt(joined, n)], h.free_ranges[n].at)
          [] before /\ ~behind -> [h EXCEPT !.free_ranges[n - 1].pages = @ + pages]
          [] ~before /\ behind ->
                [h EXCEPT !.free_ranges[n].base = base, !.free_ranges[n].pages = @ + pages]
          [] ~before /\ ~behind /\ new.ptr # 0 ->
                [new.heap EXCEPT !.free_ranges =
                    InsertAt(@, n, [base |-> base, pages |-> pages, at |-> new.ptr])]
          [] OTHER -> [h EXCEPT !.lost = @ \cup base..(base + pages - 1)]

-----------------------------------------------------------------------------
(* Large objects. *)

\* pmm_alloc_page and vmm_map_kernel for one more page of m.heap; the table over it is
\* created after the page has been taken, and stays.
map_page(m, w) ==
    LET p == Lowest(m.heap.free)
        rest == m.heap.free \ {p}
        k == w \div PerTable
        new == k \notin DOMAIN m.heap.table
    IN  IF ~m.ok \/ m.heap.free = {} \/ (new /\ rest = {}) THEN [m EXCEPT !.ok = FALSE]
        ELSE [m EXCEPT
                !.mapped = @ + 1,
                !.heap.pte = With(@, w, p),
                !.heap.table = IF new THEN With(@, k, Lowest(rest)) ELSE @,
                !.heap.free = IF new THEN rest \ {Lowest(rest)} ELSE rest]

map_pages(h, base, pages) ==
    LET m[i \in 0..pages] == IF i = 0 THEN [heap |-> h, mapped |-> 0, ok |-> TRUE]
                             ELSE map_page(m[i - 1], base + i - 1)
    IN  m[pages]

unmap_pages(h, base, pages) ==
    LET ws == (base..(base + pages - 1)) \cap DOMAIN h.pte
    IN  [h EXCEPT !.pte = Without(@, ws), !.free = @ \cup {h.pte[w] : w \in ws}]

\* Mutant of PagesFor: no room for the header.
PagesWithoutHeader(size) == (size + PageSize - 1) \div PageSize

\* The pages of a large object and its header.
PagesFor(size) == (size + HeapHeader + PageSize - 1) \div PageSize

large_alloc(h, size) ==
    LET pages == PagesFor(size)
        window == window_alloc(h, pages)
        m == map_pages(window.heap, window.ptr, pages)
    IN  CASE window.ptr = 0 -> window
          [] window.ptr # 0 /\ m.ok ->
                Result([m.heap EXCEPT !.pages = With(@, window.ptr, pages)],
                       window.ptr * PageSize + HeapHeader)
          [] OTHER ->
                Result(window_free(unmap_pages(m.heap, window.ptr, m.mapped), window.ptr, pages), 0)

-----------------------------------------------------------------------------
(* kmalloc, krealloc and kfree. *)

kmalloc(h, n) ==
    LET size == IF n = 0 THEN 1 ELSE n
    IN  IF class_for(size) # 0 THEN small_alloc(h, class_for(size)) ELSE large_alloc(h, size)

\* Mutant of kfree: the range is given back before the pages.
FreeRangeFirst(h, p) ==
    LET page == p \div PageSize
    IN  IF page \in DOMAIN h.class THEN small_free(h, p)
        ELSE unmap_pages(window_free([h EXCEPT !.pages = Without(@, {page})], page, h.pages[page]),
                         page, h.pages[page])

kfree(h, p) ==
    LET page == p \div PageSize
    IN  IF page \in DOMAIN h.class THEN small_free(h, p)
        ELSE window_free(unmap_pages([h EXCEPT !.pages = Without(@, {page})], page, h.pages[page]),
                         page, h.pages[page])

usable_size(h, p) ==
    LET page == p \div PageSize
    IN  IF page \in DOMAIN h.class THEN class_size[h.class[page]]
        ELSE h.pages[page] * PageSize - HeapHeader

\* kmalloc and kzalloc, and krealloc of the null pointer.
Malloc(n) ==
    LET r == kmalloc(heap, n)
    IN  /\ Cardinality(DOMAIN live) < MaxLive
        /\ heap' = r.heap
        /\ live' = IF r.ptr = 0 THEN live ELSE With(live, r.ptr, n)
        /\ UNCHANGED others

Free(p) ==
    /\ p \in DOMAIN live
    /\ heap' = kfree(heap, p)
    /\ live' = Without(live, {p})
    /\ UNCHANGED others

\* krealloc, when the object has room already.
ReallocInPlace(p, n) ==
    /\ p \in DOMAIN live /\ n <= usable_size(heap, p)
    /\ live' = [live EXCEPT ![p] = n]
    /\ UNCHANGED <<heap, others>>

\* krealloc, when it takes another object; without memory for it the old one stays.
ReallocMoves(p, n) ==
    LET r == kmalloc(heap, n)
    IN  /\ p \in DOMAIN live /\ n > usable_size(heap, p)
        /\ heap' = IF r.ptr = 0 THEN r.heap ELSE kfree(r.heap, p)
        /\ live' = IF r.ptr = 0 THEN live ELSE With(Without(live, {p}), r.ptr, n)
        /\ UNCHANGED others

\* Address spaces, files and pipes take pages and give them back; which ones is of no
\* account to the heap.
OthersTake ==
    /\ heap.free # {}
    /\ heap' = [heap EXCEPT !.free = @ \ {Lowest(heap.free)}]
    /\ others' = others \cup {Lowest(heap.free)}
    /\ UNCHANGED live

OthersGive ==
    /\ others # {}
    /\ heap' = [heap EXCEPT !.free = @ \cup {Highest(others)}]
    /\ others' = others \ {Highest(others)}
    /\ UNCHANGED live

Next ==
    \/ \E n \in Sizes : Malloc(n)
    \/ \E p \in DOMAIN live : Free(p)
    \/ \E p \in DOMAIN live, n \in Sizes : ReallocInPlace(p, n) \/ ReallocMoves(p, n)
    \/ OthersTake
    \/ OthersGive

Spec == Init /\ [][Next]_vars

-----------------------------------------------------------------------------
(* Properties. *)

Ranges == DOMAIN heap.free_ranges
Span(base, pages) == base..(base + pages - 1)

\* window_alloc and window_free keep the ranges in order and apart, with no two that
\* touch, and every page of the window that was ever handed out is in one large object,
\* in one range, or lost.
WindowTiled ==
    LET range(i) == Span(heap.free_ranges[i].base, heap.free_ranges[i].pages)
        object(w) == Span(w, heap.pages[w])
        parts == {range(i) : i \in Ranges} \cup {object(w) : w \in DOMAIN heap.pages}
    IN  /\ \A i \in Ranges : heap.free_ranges[i].pages > 0
        /\ \A i, j \in Ranges : i < j =>
            heap.free_ranges[i].base + heap.free_ranges[i].pages < heap.free_ranges[j].base
        /\ (UNION parts) \cup heap.lost = Span(WindowBase, heap.window_next - WindowBase)
        /\ \A a, b \in parts : a # b => a \cap b = {}
        /\ \A a \in parts : a \cap heap.lost = {}

\* Whatever failed half way, every physical page is free, with the rest of the kernel,
\* cut into small objects, a page table, or behind exactly one page of one large object.
PagesHeldOnce ==
    LET owner(p) == {<<"free", q>> : q \in heap.free \cap {p}}
                    \cup {<<"others", q>> : q \in others \cap {p}}
                    \cup {<<"small", q>> : q \in DOMAIN heap.class \cap {p}}
                    \cup {<<"table", k>> : k \in {l \in DOMAIN heap.table : heap.table[l] = p}}
                    \cup {<<"window", w>> : w \in {x \in DOMAIN heap.pte : heap.pte[x] = p}}
    IN  /\ \A p \in 1..Pages : Cardinality(owner(p)) = 1
        /\ DOMAIN heap.pte = UNION {Span(w, heap.pages[w]) : w \in DOMAIN heap.pages}

\* Every small object is once in the list of its class, or the kernel holds it, or it is
\* the struct of one range: kfree within window_alloc and kmalloc within window_free
\* leave none out and none twice.
ObjectsHeldOnce ==
    \A p \in DOMAIN heap.class : \A k \in DOMAIN Objects(p, heap.class[p]) :
        LET o == Objects(p, heap.class[p])[k]
            at(c) == {j \in DOMAIN heap.free_objects[c] : heap.free_objects[c][j] = o}
            free == UNION {{c} \X at(c) : c \in Class}
            structs == {i \in Ranges : heap.free_ranges[i].at = o}
        IN  /\ Cardinality(free) + Cardinality(structs)
                + Cardinality({o} \cap DOMAIN live) = 1
            /\ \A f \in free : f[1] = heap.class[p]
            /\ structs # {} => class_size[heap.class[p]] >= RangeSize

\* Whatever sequence of calls, failures and pages taken by others: the window, the
\* physical pages and the small objects are each divided among their holders.
WellFormed == WindowTiled /\ PagesHeldOnce /\ ObjectsHeldOnce

\* kfree loses no part of the window: it gives the pages back before it needs memory for
\* the struct of a range.  Only a large allocation that fails can lose its range.
FreeLosesNothing ==
    [][\A p \in DOMAIN live : p \notin DOMAIN live' => heap'.lost = heap.lost]_vars

\* The kernel gets objects of at least the size it asked for that overlap none of those
\* it holds; krealloc moves an object to one that can take its bytes.
Usable == [p \in DOMAIN live |-> usable_size(heap, p)]
HR == INSTANCE HeapRegions WITH
    MmapBase <- PageSize, MmapEnd <- WindowEnd * PageSize, asked <- live, size <- Usable
ImplementsHeapRegions == HR!Spec
=============================================================================
