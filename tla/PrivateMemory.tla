-------------------------- MODULE PrivateMemory --------------------------
(***************************************************************************)
(* What a program may assume of its memory: it is private, and it changes  *)
(* only by what the program itself does while it runs, except that a wait  *)
(* ends with the status in the place the program gave.  No physical pages, *)
(* no tables.                                                              *)
(***************************************************************************)
EXTENDS Integers, Functions

CONSTANTS Task, Val, Program, MmapBase, MmapEnd, UserEnd

VARIABLES
    memory,         \* task -> user page -> contents, where something is mapped
    mmap_next,      \* task -> where the next mapping goes
    alive,          \* tasks that have not exited
    running,        \* the one that runs
    blocked,        \* task asleep in wait -> user pages of its status word
    loose           \* whether the running task reaches pages it has given up

mvars == <<memory, mmap_next, alive, running, blocked, loose>>

Nothing == [u \in {} |-> 0]
Awake == alive \ (DOMAIN blocked \cup {running})

Init ==
    /\ running \in Task /\ alive = {running}
    /\ memory = [t \in Task |-> IF t = running THEN Program ELSE Nothing]
    /\ mmap_next = [t \in Task |-> MmapBase]
    /\ blocked = [t \in {} |-> {}]
    /\ loose = FALSE

Write(t, u, v) ==
    /\ t = running \/ loose
    /\ u \in DOMAIN memory[t]
    /\ memory' = [memory EXCEPT ![t][u] = v]
    /\ UNCHANGED <<mmap_next, alive, running, blocked, loose>>

\* Whoever runs next reaches nothing but its own memory.
Run(next) == running' = next /\ loose' = FALSE

Switch(next) ==
    /\ next \in Awake
    /\ Run(next)
    /\ UNCHANGED <<memory, mmap_next, alive, blocked>>

Wait(us, next) ==
    /\ us \subseteq DOMAIN memory[running]
    /\ next \in Awake
    /\ blocked' = [t \in DOMAIN blocked \cup {running} |->
                     IF t = running THEN us ELSE blocked[t]]
    /\ Run(next)
    /\ UNCHANGED <<memory, mmap_next, alive>>

\* The child starts with the parent's memory.
Fork(child) ==
    /\ child \notin alive
    /\ memory' = [memory EXCEPT ![child] = memory[running]]
    /\ mmap_next' = [mmap_next EXCEPT ![child] = mmap_next[running]]
    /\ alive' = alive \cup {child}
    /\ UNCHANGED <<running, blocked, loose>>

\* A new program starts with its image and nothing else.
Exec ==
    /\ memory' = [memory EXCEPT ![running] = Program]
    /\ mmap_next' = [mmap_next EXCEPT ![running] = MmapBase]
    /\ Run(running)
    /\ UNCHANGED <<alive, blocked>>

Leave(next) ==
    /\ mmap_next' = [mmap_next EXCEPT ![running] = MmapBase]
    /\ alive' = alive \ {running}
    /\ Run(next)

Exit(next) ==
    /\ next \in Awake
    /\ memory' = [memory EXCEPT ![running] = Nothing]
    /\ Leave(next)
    /\ UNCHANGED blocked

\* The parent gets its status, and nothing else of its memory changes.
ExitWakes(parent, next) ==
    /\ parent \in DOMAIN blocked
    /\ next \in Awake \cup {parent}
    /\ \E w \in [blocked[parent] -> Val] :
        memory' = [memory EXCEPT
            ![running] = Nothing,
            ![parent] = [u \in DOMAIN @ |-> IF u \in blocked[parent] THEN w[u] ELSE @[u]]]
    /\ Leave(next)
    /\ blocked' = Restrict(blocked, DOMAIN blocked \ {parent})

\* A mapping appears whole, filled with zeros, where nothing was mapped since the
\* program started.
Map(n) ==
    LET fresh == mmap_next[running]..(mmap_next[running] + n - 1)
    IN  /\ mmap_next[running] + n <= MmapEnd
        /\ fresh \cap DOMAIN memory[running] = {}
        /\ memory' = [memory EXCEPT ![running] =
              [u \in DOMAIN @ \cup fresh |-> IF u \in fresh THEN 0 ELSE @[u]]]
        /\ mmap_next' = [mmap_next EXCEPT ![running] = @ + n]
        /\ UNCHANGED <<alive, running, blocked, loose>>

\* A program gives up mappings, whole; or any pages of its own, and may reach
\* them still.
Unmap(us) ==
    /\ us \subseteq DOMAIN memory[running]
    /\ memory' = [memory EXCEPT ![running] = Restrict(@, DOMAIN @ \ us)]
    /\ \/ us \subseteq MmapBase..(MmapEnd - 1) /\ loose' = loose
       \/ loose' = TRUE
    /\ UNCHANGED <<mmap_next, alive, running, blocked>>

Next ==
    \/ \E t \in Task, u \in 0..(UserEnd - 1), v \in Val : Write(t, u, v)
    \/ \E child \in Task : Fork(child)
    \/ Exec
    \/ \E next \in Task :
        \/ Switch(next) \/ Exit(next)
        \/ \E us \in SUBSET (0..(UserEnd - 1)) : Wait(us, next)
        \/ \E parent \in Task : ExitWakes(parent, next)
    \/ \E n \in 1..(MmapEnd - MmapBase) : Map(n)
    \/ \E us \in SUBSET (0..(UserEnd - 1)) : Unmap(us)

Spec == Init /\ [][Next]_mvars
=============================================================================
