----------------------------- MODULE MCTasks -----------------------------
(* Symmetry, views and mutants for model checking NarcTasks. *)
EXTENDS NarcTasks, TLC

AnyChildOnly == {-1}
AllWaitArgs == {-1} \cup 1..MaxPid
SymTasks == Permutations(Task)

\* The state without the fields of structs that are overwritten before they are
\* read: the stored context of the running task and of zombies, and the wait
\* arguments of tasks that do not wait.
LiveState == <<task_list, next_pid, current, machine,
               [t \in Listed |-> <<task[t].pid, Shown(t)>>]>>

\* The state, when it does not matter where the machine has stopped.
RunState == IF machine = "running" THEN LiveState ELSE <<machine>>

\* The first task is in a fixed struct.  The structs are interchangeable, but TLC's
\* reduction by symmetry is of no use for liveness.
InitFirst == Init /\ current = CHOOSE t \in Task : TRUE
FairFrom == InitFirst /\ [][Lifecycle]_vars /\ WF_vars(Tick)

\* The part of the state that decides which steps are possible: no guard reads
\* a register or the memory of a program.
ControlState ==
    <<task_list, next_pid, current, machine,
      [t \in Listed |->
        <<task[t].pid, task[t].ppid, task[t].state,
          IF task[t].state = "BLOCKED" THEN task[t].wait_pid ELSE 0>>]>>
=============================================================================
