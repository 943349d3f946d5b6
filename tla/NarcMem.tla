----------------------------- MODULE NarcMem -----------------------------
(***************************************************************************)
(* Physical pages and the address spaces of tasks: kernel/mm/mm.c, the map *)
(* and unmap calls of kernel/syscall.c, and the places in task.c and       *)
(* user.c that create, copy, replace and destroy address spaces.           *)
(*                                                                         *)
(* A page table is a root, tables below it and user pages below those.  An *)
(* address space is a function from the entries that are present to the    *)
(* pages they hold: entry 0 is the root itself, and the entries of a table *)
(* follow it in the order in which clone_table meets them.  The tables     *)
(* between the root and the last level are not told apart.                 *)
(*                                                                         *)
(* Free pages differ only in whether the processor may still translate to  *)
(* them, so that is all that is kept of their order on the free list, and  *)
(* any order is possible.  Addresses are counted in pages, and wrap as the *)
(* 64-bit ones do.  Every call runs with interrupts off: it is one step.   *)
(***************************************************************************)
EXTENDS Integers, FiniteSets, Functions

CONSTANTS
    Pages,          \* number of physical pages
    PerTable,       \* user pages that one table maps
    Program,        \* what the loader puts into the segments and the stack
    MmapBase,       \* USER_MMAP_BASE
    MmapEnd,        \* USER_MMAP_END
    UserEnd,        \* the end of user addresses
    IndexPages,     \* addresses that the indices into the tables tell apart
    AddressPages,   \* addresses of 64 bits
    KernelMax,      \* bound: pages that the rest of the kernel holds
    Task,           \* structs of tasks
    Val,            \* contents of a page; 0 is a page of zeros
    Link            \* contents of a page on the free list

Image == DOMAIN Program

ASSUME PageAssumption == Pages \in Nat /\ PerTable \in Nat \ {0} /\ KernelMax \in Nat
ASSUME LayoutAssumption ==
    /\ MmapBase \in Nat /\ MmapEnd \in Nat /\ UserEnd \in Nat
    /\ MmapBase <= MmapEnd /\ MmapEnd <= UserEnd
    /\ Image \subseteq 0..(MmapBase - 1)
ASSUME AddressAssumption ==
    /\ IndexPages \in Nat /\ AddressPages \in Nat
    /\ UserEnd < IndexPages /\ IndexPages < AddressPages
ASSUME ValAssumption == 0 \in Val /\ Link \notin Val /\ Program \in [Image -> Val]

VARIABLES
    free,           \* pages on the free list or not yet handed out
    kernel,         \* pages that files, pipes and the kernel's heap hold
    mem,            \* contents of pages
    space,          \* task -> its address space, empty without a root
    mmap_next,      \* task -> where the next mapping goes
    current,
    cr3,            \* the root the processor uses
    stale,          \* unmapped pages that the processor may still translate to
    blocked         \* task asleep in wait -> user pages of its status word

vars == <<free, kernel, mem, space, mmap_next, current, cr3, stale, blocked>>

Page == 1..Pages
UserPage == 0..(UserEnd - 1)
Address == 0..(AddressPages - 1)
NoSpace == [k \in {} |-> 0]

\* The entries of the table over user page u, and of u itself.
Table(u) == ((u \div PerTable) + 1) * (PerTable + 1)
Leaf(u) == Table(u) + 1 + (u % PerTable)
Entries(us) == {Table(u) : u \in us} \cup {Leaf(u) : u \in us}
Entry == {0} \cup Entries(UserPage)

Mapped(sp) == {u \in UserPage : Leaf(u) \in DOMAIN sp}
Live == {t \in Task : space[t] # NoSpace}

\* The tasks that next_task can choose instead of the current one.
Ready == Live \ (DOMAIN blocked \cup {current})

-----------------------------------------------------------------------------
(* The page allocator and the tables. *)

Rank(S, k) == Cardinality({j \in S : j <= k})
Least(S, i) == CHOOSE p \in S : Rank(S, p) = i

\* The orders of the free list: the places of its stale pages.
Orders == {o \in SUBSET (1..Cardinality(free)) : Cardinality(o) = Cardinality(free \cap stale)}

\* The i-th page that pmm_alloc_page returns from now on.
Nth(i, order) ==
    IF i \in order THEN Least(free \cap stale, Rank(order, i))
                   ELSE Least(free \ stale, Rank((1..Cardinality(free)) \ order, i))

\* Pages for these entries, allocated in their order, as far as there are pages.
Reached(entries) == {k \in entries : Rank(entries, k) <= Cardinality(free)}
Built(entries, order) == [k \in Reached(entries) |-> Nth(Rank(entries, k), order)]

\* pmm_free_page puts its link into the page, so what was there is gone.
pmm_free_page(ps, m) == [p \in Page |-> IF p \in ps THEN Link ELSE m[p]]

\* Mutant of pmm_alloc_page: the page keeps what its last owner left.
NotCleared(sp) == mem

\* pmm_alloc_page clears the page.
pmm_alloc_page(sp) == [p \in Page |-> IF p \in Range(sp) THEN 0 ELSE mem[p]]

\* Contents m once the pages us of space sp hold content[u].
Written(sp, us, content, m) ==
    [p \in Page |->
        IF \E u \in us : sp[Leaf(u)] = p
        THEN content[CHOOSE u \in us : sp[Leaf(u)] = p]
        ELSE m[p]]

\* Contents once a new space has been filled.
Filled(sp, content) == Written(sp, Mapped(sp), content, pmm_alloc_page(sp))

\* Contents of the user pages of a space.
Contents(sp) == [u \in Mapped(sp) |-> mem[sp[Leaf(u)]]]

\* The pages that vmm_space_destroy gives back: none from the space in use.
vmm_space_destroy(sp, root) ==
    IF sp = NoSpace \/ sp[0] = root THEN {} ELSE Range(sp)

-----------------------------------------------------------------------------
ImageEntries == {0} \cup Entries(Image)

\* The kernel comes this far when there is memory for init; a program has a stack.
ASSUME MemoryAssumption == Cardinality(ImageEntries) <= Pages /\ Image # {}

\* user_start: init has been loaded, and runs.
Init ==
    /\ kernel = {}
    /\ current \in Task
    /\ LET sp == [k \in ImageEntries |-> Rank(ImageEntries, k)]
       IN  /\ space = [t \in Task |-> IF t = current THEN sp ELSE NoSpace]
           /\ free = Page \ Range(sp)
           /\ cr3 = sp[0]
           /\ mem = Written(sp, Image, Program,
                            [p \in Page |-> IF p \in Range(sp) THEN 0 ELSE Link])
    /\ mmap_next = [t \in Task |-> MmapBase]
    /\ stale = {}
    /\ blocked = [t \in {} |-> {}]

\* The running program, or copy_to_user for it, writes to its memory.
Store(u, v) ==
    /\ u \in Mapped(space[current])
    /\ mem' = [mem EXCEPT ![space[current][Leaf(u)]] = v]
    /\ UNCHANGED <<free, kernel, space, mmap_next, current, cr3, stale, blocked>>

\* The running program writes through a translation that invlpg has missed, to a
\* page that is user page u of task t by now.
StaleStore(t, u, v) ==
    /\ u \in Mapped(space[t])
    /\ space[t][Leaf(u)] \in stale
    /\ mem' = [mem EXCEPT ![space[t][Leaf(u)]] = v]
    /\ UNCHANGED <<free, kernel, space, mmap_next, current, cr3, stale, blocked>>

\* Mutant of switch_to: the new task's space is not activated.
SwitchOnly(next) ==
    /\ current' = next
    /\ stale' = {}
    /\ UNCHANGED cr3

\* switch_to: loading cr3 drops every cached translation.
switch_to(next) ==
    /\ current' = next
    /\ cr3' = space[next][0]
    /\ stale' = {}

\* A tick or a yield.
Switch(next) ==
    /\ next \in Ready
    /\ switch_to(next)
    /\ UNCHANGED <<free, kernel, mem, space, mmap_next, blocked>>

\* Where a status word can lie: nowhere, in one user page or across two.
Word == {us \in {u..w : u, w \in UserPage} : Cardinality(us) <= 2}

\* task_wait puts the task to sleep, with its status word in us.  A wait that finds
\* a zombie is a Store to each of these pages.
Wait(us, next) ==
    /\ us \subseteq Mapped(space[current])
    /\ next \in Ready
    /\ blocked' = [t \in DOMAIN blocked \cup {current} |->
                     IF t = current THEN us ELSE blocked[t]]
    /\ switch_to(next)
    /\ UNCHANGED <<free, kernel, mem, space, mmap_next>>

\* Files, pipes and the kernel's heap take pages and give them back.
KernelTakes ==
    /\ free # {} /\ Cardinality(kernel) < KernelMax
    /\ \E order \in Orders :
        LET sp == Built({0}, order)
        IN  /\ kernel' = kernel \cup Range(sp)
            /\ free' = free \ Range(sp)
            /\ mem' = pmm_alloc_page(sp)
    /\ UNCHANGED <<space, mmap_next, current, cr3, stale, blocked>>

KernelGives(p) ==
    /\ p \in kernel
    /\ kernel' = kernel \ {p}
    /\ free' = free \cup {p}
    /\ mem' = pmm_free_page({p}, mem)
    /\ UNCHANGED <<space, mmap_next, current, cr3, stale, blocked>>

-----------------------------------------------------------------------------
(* fork, exec and exit. *)

\* task_fork
Fork(child) ==
    /\ child \notin Live
    /\ \E order \in Orders :
        LET sp == Built(DOMAIN space[current], order)
        IN  /\ DOMAIN sp = DOMAIN space[current]
            /\ free' = free \ Range(sp)
            /\ mem' = Filled(sp, Contents(space[current]))
            /\ space' = [space EXCEPT ![child] = sp]
    /\ mmap_next' = [mmap_next EXCEPT ![child] = mmap_next[current]]
    /\ UNCHANGED <<kernel, current, cr3, stale, blocked>>

\* task_fork when vmm_space_clone runs out of pages half way, or the copy is done
\* and there is no memory for the descriptors: the copy is destroyed.
ForkFails ==
    /\ \E order \in Orders :
        LET sp == Built(DOMAIN space[current], order)
        IN  /\ free' = (free \ Range(sp)) \cup vmm_space_destroy(sp, cr3)
            /\ mem' = pmm_free_page(vmm_space_destroy(sp, cr3), Filled(sp, Contents(space[current])))
    /\ UNCHANGED <<kernel, space, mmap_next, current, cr3, stale, blocked>>

\* Mutant of task_exec: the old space is destroyed before it is left.
DestroyedFirst(sp) == vmm_space_destroy(space[current], cr3)

\* The pages that task_exec gives back: it activates the new space first.
task_exec(sp) == vmm_space_destroy(space[current], sp[0])

\* user_exec
Exec ==
    /\ \E order \in Orders :
        LET sp == Built(ImageEntries, order)
        IN  /\ DOMAIN sp = ImageEntries
            /\ free' = (free \ Range(sp)) \cup task_exec(sp)
            /\ mem' = pmm_free_page(task_exec(sp), Filled(sp, Program))
            /\ space' = [space EXCEPT ![current] = sp]
            /\ cr3' = sp[0] /\ stale' = {}
    /\ mmap_next' = [mmap_next EXCEPT ![current] = MmapBase]
    /\ UNCHANGED <<kernel, current, blocked>>

\* user_exec when load fails part way: pages run out, or the file is no program.
ExecFails ==
    /\ \E us \in SUBSET Image, order \in Orders :
        LET sp == Built({0} \cup Entries(us), order)
        IN  /\ free' = (free \ Range(sp)) \cup vmm_space_destroy(sp, cr3)
            /\ mem' = pmm_free_page(vmm_space_destroy(sp, cr3), Filled(sp, Program))
    /\ UNCHANGED <<kernel, space, mmap_next, current, cr3, stale, blocked>>

\* The processor leaves the space of the current task, then it is destroyed.
Leave(next, m) ==
    /\ switch_to(next)
    /\ LET gone == vmm_space_destroy(space[current], space[next][0])
       IN  free' = free \cup gone /\ mem' = pmm_free_page(gone, m)
    /\ space' = [space EXCEPT ![current] = NoSpace]
    /\ mmap_next' = [mmap_next EXCEPT ![current] = MmapBase]
    /\ UNCHANGED kernel

\* task_exit; the last task's exit halts the machine.
Exit(next) ==
    /\ next \in Ready
    /\ Leave(next, mem)
    /\ UNCHANGED blocked

\* copy_status: contents once w is in the status word of task t, if it is mapped.
copy_status(t, w) ==
    IF DOMAIN w \subseteq Mapped(space[t]) THEN Written(space[t], DOMAIN w, w, mem) ELSE mem

\* task_exit when the parent sleeps in wait: it gets the status, and may run next.
\* Which task is whose parent is left to NarcTasks.
ExitWakes(parent, next) ==
    /\ parent \in DOMAIN blocked
    /\ next \in Ready \cup {parent}
    /\ \E w \in [blocked[parent] -> Val] : Leave(next, copy_status(parent, w))
    /\ blocked' = Restrict(blocked, DOMAIN blocked \ {parent})

-----------------------------------------------------------------------------
(* NARC_SYS_MAP and NARC_SYS_UNMAP. *)

\* The pages that a mapping of n pages covers, and the entries it allocates: every
\* page, and the tables that are not there.
Wanted(n) == mmap_next[current]..(mmap_next[current] + n - 1)
Needed(n) ==
    {Leaf(u) : u \in Wanted(n)} \cup ({Table(u) : u \in Wanted(n)} \ DOMAIN space[current])

\* An address space with more entries.
Extended(sp, more) ==
    [k \in DOMAIN sp \cup DOMAIN more |-> IF k \in DOMAIN more THEN more[k] ELSE sp[k]]

\* handle_map's size check.
MapFits(n) == n <= MmapEnd - mmap_next[current]

\* handle_map
Map(n) ==
    /\ MapFits(n)
    /\ Cardinality(Needed(n)) <= Cardinality(free)
    /\ \E order \in Orders :
        LET sp == Built(Needed(n), order)
        IN  /\ free' = free \ Range(sp)
            /\ mem' = pmm_alloc_page(sp)
            /\ space' = [space EXCEPT ![current] = Extended(@, sp)]
    /\ mmap_next' = [mmap_next EXCEPT ![current] = @ + n]
    /\ UNCHANGED <<kernel, current, cr3, stale, blocked>>

\* Mutant of Kept: the pages mapped so far stay as well.
KeptAll(n) == Reached(Needed(n))

\* The tables that stay when the memory ends within handle_map, which allocates a
\* page before the table it goes into.
Kept(n) ==
    {Table(u) : u \in {w \in Wanted(n) : Leaf(w) \in Reached(Needed(n))}}
    \ DOMAIN space[current]

\* handle_map when the memory ends: what was mapped is unmapped.
MapFails(n) ==
    /\ MapFits(n)
    /\ Cardinality(Needed(n)) > Cardinality(free)
    /\ \E order \in Orders :
        LET sp == Built(Kept(n), order)
        IN  /\ free' = free \ Range(sp)
            /\ mem' = pmm_alloc_page(sp)
            /\ space' = [space EXCEPT ![current] = Extended(@, sp)]
    /\ UNCHANGED <<kernel, mmap_next, current, cr3, stale, blocked>>

\* get_pte: the page whose entry an address leads to.
lookup(v) == v % IndexPages

\* handle_unmap; the tables stay.  The difference of the size check wraps, and so
\* does the loop.  invlpg is given the address, not the page.
Unmap(a, n) ==
    LET vs == {(a + i) % AddressPages : i \in 0..(n - 1)}
        us == {lookup(v) : v \in vs}
        sp == space[current]
        gone == {Leaf(u) : u \in us}
        ps == {sp[k] : k \in gone}
    IN  /\ a >= MmapBase
        /\ n <= (MmapEnd - a) % AddressPages
        /\ us \subseteq Mapped(sp)
        /\ free' = free \cup ps
        /\ mem' = pmm_free_page(ps, mem)
        /\ space' = [space EXCEPT ![current] = Restrict(sp, DOMAIN sp \ gone)]
        /\ stale' = stale \cup {sp[Leaf(lookup(v))] : v \in {w \in vs : w # lookup(w)}}
        /\ UNCHANGED <<kernel, mmap_next, current, cr3, blocked>>

-----------------------------------------------------------------------------
Calls ==
    \/ \E child \in Task : Fork(child)
    \/ ForkFails
    \/ Exec
    \/ ExecFails
    \/ \E next \in Task : Exit(next) \/ \E parent \in Task : ExitWakes(parent, next)
    \/ \E us \in Word, next \in Task : Wait(us, next)
    \/ \E n \in 1..(MmapEnd - MmapBase) : Map(n) \/ MapFails(n)
    \/ \E a, n \in Address : n > 0 /\ Unmap(a, n)

Next ==
    \/ \E u \in UserPage, v \in Val : Store(u, v) \/ \E t \in Task : StaleStore(t, u, v)
    \/ \E next \in Task : Switch(next)
    \/ KernelTakes
    \/ \E p \in Page : KernelGives(p)
    \/ Calls

Spec == Init /\ [][Next]_vars

-----------------------------------------------------------------------------
(* Properties. *)

\* Everything that holds page p: the free list, the kernel, an entry of a task.
Holders(p) ==
    {x \in {"free"} : p \in free} \cup {x \in {"kernel"} : p \in kernel}
    \cup {x \in Task \X Entry : x[2] \in DOMAIN space[x[1]] /\ space[x[1]][x[2]] = p}

\* Every physical page has one holder, whatever forks, execs, exits and mappings
\* succeed or run out of memory half way: no page is lost, none is given to two
\* tasks, and none is on the free list while a table still points to it.
PagesHeldOnce == \A p \in Page : Cardinality(Holders(p)) = 1

\* The processor always uses the page table of the current task, which is whole:
\* it has its root, and each of its user pages hangs below a table.  No call
\* destroys the space it runs in.
RunsInItsSpace ==
    /\ current \in Live /\ cr3 = space[current][0]
    /\ \A t \in Live : 0 \in DOMAIN space[t] /\ \A u \in Mapped(space[t]) : Table(u) \in DOMAIN space[t]

\* A task has nothing mapped where its next mapping will go, also after a fork and
\* after unmapping, so handle_map never writes over an entry in use; and the next
\* mapping starts in its window, so the size check of handle_map never wraps.
NextIsFree ==
    \A t \in Live :
        /\ mmap_next[t] \in MmapBase..MmapEnd
        /\ \A u \in Mapped(space[t]) : u < mmap_next[t]

\* What each task sees of its memory.
Memory == [t \in Task |-> Contents(space[t])]

\* Each task has memory of its own: a fork copies it, a new program and a new
\* mapping start from their defined contents whoever used the pages before, and
\* nothing another task or the kernel does with pages changes it, except that the
\* exit of a child fills in the status word its parent sleeps on.  Only while the
\* processor keeps a translation that handle_unmap did not drop can the running
\* program reach the memory of another.
PM == INSTANCE PrivateMemory WITH
        memory <- Memory, alive <- Live, running <- current, loose <- stale # {}
ImplementsPrivateMemory == PM!Spec

\* handle_unmap takes away mappings and refuses every other address: a program
\* always has its segments and its stack.
ProgramStays == \A t \in Live : Image \subseteq Mapped(space[t])
=============================================================================
