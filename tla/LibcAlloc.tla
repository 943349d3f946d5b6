---------------------------- MODULE LibcAlloc ----------------------------
(***************************************************************************)
(* malloc, free and realloc: lib/libc/src/stdlib/allocator.c and its       *)
(* callers, in one process with one thread.                                *)
(*                                                                         *)
(* An arena is a mapping that starts with a struct allocation_arena; after *)
(* it come blocks, each a header and the bytes behind it, linked both ways.*)
(* Arenas are linked both ways as well.  Addresses and sizes are counted   *)
(* in units of the alignment, so align_up only turns 0 into 1; 0 is the    *)
(* null pointer.  The program is a correct one: it frees and resizes what  *)
(* it was given and has not yet freed.                                     *)
(***************************************************************************)
EXTENDS Integers, FiniteSets, Functions

CONSTANTS
    Header,         \* sizeof(allocation_block_t)
    ArenaHeader,    \* arena_header_size()
    ArenaSize,      \* ARENA_SIZE
    PageSize,       \* PAGE_SIZE
    MmapBase,       \* where the first mapping goes
    MmapEnd,        \* bound: where mappings end
    Sizes           \* bound: what the program asks for

ASSUME UnitsAssumption ==
    /\ Header \in Nat \ {0} /\ ArenaHeader \in Nat \ {0}
    /\ PageSize \in Nat \ {0} /\ ArenaSize \in Nat /\ ArenaSize % PageSize = 0
    /\ ArenaHeader + Header < ArenaSize
    /\ MmapBase \in Nat \ {0} /\ MmapEnd \in Nat
    /\ Sizes \subseteq Nat

VARIABLES
    heap,           \* the arenas and blocks in memory, see Empty
    live            \* pointer that the program holds -> size it asked for

vars == <<heap, live>>

\* block and arena are the headers at an address, arenas is the first arena, and
\* mmap_next is where the kernel puts the next mapping.
Empty == [block |-> [b \in {} |-> 0], arena |-> [a \in {} |-> 0],
          arenas |-> 0, mmap_next |-> MmapBase]

Overhead == ArenaHeader + Header
first_block(a) == a + ArenaHeader

\* Changes to a map from addresses to headers.
With(m, a, r) == [x \in DOMAIN m \cup {a} |-> IF x = a THEN r ELSE m[x]]
Without(m, a) == Restrict(m, DOMAIN m \ {a})
SetPrevious(m, a, p) == IF a = 0 THEN m ELSE [m EXCEPT ![a].previous = p]
SetNext(m, a, n) == IF a = 0 THEN m ELSE [m EXCEPT ![a].next = n]

-----------------------------------------------------------------------------
(* Blocks. *)

\* Mutant of merge_next: the block behind the merged one still points to it.
MergeOneWay(bs, b) ==
    LET n == bs[b].next
    IN  IF n = 0 \/ ~bs[n].free THEN bs
        ELSE [Without(bs, n) EXCEPT ![b].size = @ + Header + bs[n].size, ![b].next = bs[n].next]

\* merge_next: a free block behind b becomes part of b.
merge_next(bs, b) ==
    LET n == bs[b].next
    IN  IF n = 0 \/ ~bs[n].free THEN bs
        ELSE SetPrevious(
                [Without(bs, n) EXCEPT ![b].size = @ + Header + bs[n].size, ![b].next = bs[n].next],
                bs[n].next, b)

\* The least rest that becomes a block of its own.
MinSplit == Header + 1

\* split_block: the rest becomes a free block, merged with a free one behind it.
split_block(bs, b, size) ==
    LET rest == bs[b].size - size
        s == b + Header + size
        new == [size |-> rest - Header, previous |-> b, next |-> bs[b].next,
                arena |-> bs[b].arena, free |-> TRUE]
    IN  IF rest < MinSplit THEN bs
        ELSE [merge_next(SetPrevious(With(bs, s, new), new.next, s), s)
                EXCEPT ![b].next = s, ![b].size = size]

\* The first block that is free and large enough, or 0.  Arenas are listed from
\* the newest, so from the highest address, and blocks from the lowest: see Linked.
find_block(h, size) ==
    LET fits == {b \in DOMAIN h.block : h.block[b].free /\ h.block[b].size >= size}
    IN  IF fits = {} THEN 0
        ELSE CHOOSE b \in fits : \A c \in fits :
            \/ h.block[b].arena > h.block[c].arena
            \/ h.block[b].arena = h.block[c].arena /\ b <= c

-----------------------------------------------------------------------------
(* __allocator_allocate and __allocator_release. *)

\* The size of a new arena.
Mapping(size) ==
    LET required == ((size + Overhead + PageSize - 1) \div PageSize) * PageSize
    IN  IF required > ArenaSize THEN required ELSE ArenaSize

\* create_arena
create_arena(h, size) ==
    LET a == h.mmap_next
        mapped == Mapping(size)
    IN  [block |-> With(h.block, first_block(a), [size |-> mapped - Overhead, previous |-> 0,
                                                  next |-> 0, arena |-> a, free |-> TRUE]),
         arena |-> SetPrevious(With(h.arena, a, [mapped |-> mapped, active |-> 0, previous |-> 0,
                                                 next |-> h.arenas]), h.arenas, a),
         arenas |-> a,
         mmap_next |-> a + mapped]

\* The heap in which a block is at hand, and that block.
Ready(h, size) == IF find_block(h, size) # 0 THEN h ELSE create_arena(h, size)
Found(h, size) == IF find_block(h, size) # 0 THEN find_block(h, size) ELSE first_block(h.mmap_next)

\* There may be memory: in the arenas, or for another one.
CanAllocate(h, size) == find_block(h, size) # 0 \/ h.mmap_next + Mapping(size) <= MmapEnd

allocator_allocate(h, size) ==
    LET g == Ready(h, size)
        b == Found(h, size)
    IN  [g EXCEPT !.block = [split_block(g.block, b, size) EXCEPT ![b].free = FALSE],
                  !.arena[g.block[b].arena].active = @ + 1]

\* The blocks once b is free: joined with the one behind it and the one before it.
Joined(bs, b) ==
    LET m == merge_next([bs EXCEPT ![b].free = TRUE], b)
        p == m[b].previous
    IN  IF p # 0 /\ m[p].free THEN merge_next(m, p) ELSE m

\* An arena without blocks in use goes, unless it is the only one.
allocator_release(h, b) ==
    LET a == h.block[b].arena
        r == h.arena[a]
    IN  IF r.active > 1 \/ (r.previous = 0 /\ r.next = 0)
        THEN [h EXCEPT !.block = Joined(@, b), !.arena[a].active = @ - 1]
        ELSE [h EXCEPT
                !.block = Restrict(@, {x \in DOMAIN @ : @[x].arena # a}),
                !.arena = SetPrevious(SetNext(Without(@, a), r.previous, r.next),
                                      r.next, r.previous),
                !.arenas = IF r.previous = 0 THEN r.next ELSE @]

-----------------------------------------------------------------------------
(* What the program calls. *)

Init == heap = Empty /\ live = [p \in {} |-> 0]

\* malloc and calloc; nothing changes when there is no memory.
Malloc(n) ==
    LET size == IF n = 0 THEN 1 ELSE n
    IN  /\ CanAllocate(heap, size)
        /\ heap' = allocator_allocate(heap, size)
        /\ live' = With(live, Found(heap, size) + Header, n)

Free(p) ==
    /\ p \in DOMAIN live
    /\ heap' = allocator_release(heap, p - Header)
    /\ live' = Without(live, p)

\* Mutant of Resizes: any free block behind will do.
ResizesAnyway(b, size) ==
    LET n == heap.block[b].next
    IN  heap.block[b].size >= size \/ (n # 0 /\ heap.block[n].free)

\* __allocator_resize can do it in place: the block is large enough, or with the
\* free one behind it.
Resizes(b, size) ==
    LET n == heap.block[b].next
    IN  \/ heap.block[b].size >= size
        \/ n # 0 /\ heap.block[n].free /\ heap.block[b].size + Header + heap.block[n].size >= size

\* __allocator_resize
allocator_resize(b, size) ==
    IF heap.block[b].size >= size THEN split_block(heap.block, b, size)
    ELSE split_block(merge_next(heap.block, b), b, size)

\* realloc in place.
ReallocInPlace(p, size) ==
    /\ p \in DOMAIN live /\ Resizes(p - Header, size)
    /\ heap' = [heap EXCEPT !.block = allocator_resize(p - Header, size)]
    /\ live' = [live EXCEPT ![p] = size]

\* realloc that moves the block: malloc, copy, free.
ReallocMoves(p, size) ==
    /\ p \in DOMAIN live /\ ~Resizes(p - Header, size)
    /\ CanAllocate(heap, size)
    /\ heap' = allocator_release(allocator_allocate(heap, size), p - Header)
    /\ live' = With(Without(live, p), Found(heap, size) + Header, size)

Next ==
    \/ \E n \in Sizes : Malloc(n)
    \/ \E p \in DOMAIN live : Free(p)
    \/ \E p \in DOMAIN live, n \in Sizes \ {0} : ReallocInPlace(p, n) \/ ReallocMoves(p, n)

Spec == Init /\ [][Next]_vars

-----------------------------------------------------------------------------
(* Properties. *)

BlocksOf(a) == {b \in DOMAIN heap.block : heap.block[b].arena = a}
End(b) == b + Header + heap.block[b].size

\* The blocks of an arena fill it from end to end without overlap, each linked to
\* its neighbours in both directions, whatever splits and joins led there.
Tiled ==
    \A a \in DOMAIN heap.arena :
        LET end == a + heap.arena[a].mapped
        IN  /\ first_block(a) \in BlocksOf(a) /\ heap.block[first_block(a)].previous = 0
            /\ \A b \in BlocksOf(a) :
                /\ heap.block[b].size >= 1
                /\ heap.block[b].next = (IF End(b) = end THEN 0 ELSE End(b))
                /\ End(b) # end => End(b) \in BlocksOf(a) /\ heap.block[End(b)].previous = b
            /\ Cardinality({b \in BlocksOf(a) : End(b) = end}) = 1

\* Free blocks are never neighbours: free and realloc join them at once, so memory
\* that was freed can be had again in one piece.
NoFreeNeighbours ==
    \A b \in DOMAIN heap.block :
        heap.block[b].free /\ heap.block[b].next # 0 => ~heap.block[heap.block[b].next].free

\* The list of arenas has all of them, newest first, linked both ways, and each
\* counts the blocks that the program holds in it.
Linked ==
    /\ heap.arenas = (IF DOMAIN heap.arena = {} THEN 0
                      ELSE CHOOSE a \in DOMAIN heap.arena : \A c \in DOMAIN heap.arena : c <= a)
    /\ \A a \in DOMAIN heap.arena :
        LET older == {c \in DOMAIN heap.arena : c < a}
            n == heap.arena[a].next
        IN  /\ n = (IF older = {} THEN 0 ELSE CHOOSE c \in older : \A d \in older : d <= c)
            /\ n # 0 => heap.arena[n].previous = a
            /\ a = heap.arenas => heap.arena[a].previous = 0
            /\ heap.arena[a].active = Cardinality({p \in DOMAIN live : p - Header \in BlocksOf(a)})
    /\ DOMAIN live = {b + Header : b \in {c \in DOMAIN heap.block : ~heap.block[c].free}}

\* Every structure above at once: it takes all of them to carry any of them on.
WellFormed == Tiled /\ NoFreeNeighbours /\ Linked

\* The program gets regions of at least the size it asked for that overlap none of
\* those it holds; a region stays where it is and as large as it is until it is
\* freed or resized, and realloc moves it to one that can take its bytes.
Regions == [p \in DOMAIN live |-> heap.block[p - Header].size]
HR == INSTANCE HeapRegions WITH asked <- live, size <- Regions
ImplementsHeapRegions == HR!Spec
=============================================================================
