---------------------------- MODULE NarcTasks ----------------------------
(***************************************************************************)
(* The process table and scheduler of the kernel: kernel/task.c together   *)
(* with the process system calls of kernel/syscall.c (dispatch).           *)
(*                                                                         *)
(* The kernel runs with interrupts off, so a system call, a timer tick and *)
(* a fault are each one atomic action.  A struct task is an element of     *)
(* Task (an address the heap can hand out), task[t] is its contents, and   *)
(* task_list is the linked list in link order.  A register frame is        *)
(* abstracted to the two result registers of a system call, the FPU image  *)
(* to one value, and a task's user memory to the status word it hands to   *)
(* wait.                                                                   *)
(***************************************************************************)
EXTENDS Integers, Sequences, FiniteSets

CONSTANTS
    Task,           \* addresses of struct task the heap can hand out
    NoTask,         \* the null pointer
    MaxPid,         \* INT32_MAX, where next_pid wraps to 1
    ExitArg,        \* ints that programs pass to exit
    WaitArg,        \* pids that programs pass to wait, -1 for any child
    StatusArg,      \* whether wait is given the address of a status word
    Fpu,            \* FPU register images
    CleanFpu        \* the image arch_task_state_init produces

ASSUME TaskAssumption == NoTask \notin Task /\ IsFiniteSet(Task)
ASSUME PidAssumption == MaxPid \in Nat \ {0, 1} /\ Cardinality(Task) <= MaxPid
ASSUME ArgAssumption == /\ ExitArg \subseteq Int
                        /\ WaitArg \subseteq -1..MaxPid
                        /\ StatusArg \subseteq BOOLEAN
                        /\ CleanFpu \in Fpu

VARIABLES
    task_list,      \* the linked list, first link first
    next_pid,       \* next candidate of alloc_pid
    task,           \* contents of the structs
    current,        \* the task whose context is live
    frame,          \* the trap frame, restored on the way back to user mode
    fpu,            \* the live FPU registers
    machine         \* "running", or why the processor stopped

vars == <<task_list, next_pid, task, current, frame, fpu, machine>>

Pid == 1..MaxPid
AnyPid == -1
State == {"UNUSED", "RUNNABLE", "BLOCKED", "ZOMBIE"}
Code == 0..255
Frame == [value : 0..MaxPid,
          status : {"OK", "TRY_AGAIN", "NO_CHILD", "BAD_ADDRESS", "NOT_FOUND"}]

\* struct task.  wait_status says whether the blocked wait passed an address;
\* word is the memory behind that address.
TaskStruct ==
    [pid : 0..MaxPid, ppid : 0..MaxPid, state : State, exit_status : Code,
     wait_pid : -1..MaxPid, wait_status : BOOLEAN,
     frame : Frame, arch_state : Fpu, word : {256 * c : c \in Code}]

result_ok(v) == [value |-> v, status |-> "OK"]
result_error(e) == [value |-> 0, status |-> e]

\* What kzalloc returns, and what a struct counts as while it is free.
Blank == [pid |-> 0, ppid |-> 0, state |-> "UNUSED", exit_status |-> 0,
          wait_pid |-> 0, wait_status |-> FALSE, frame |-> result_ok(0),
          arch_state |-> CleanFpu, word |-> 0]

-----------------------------------------------------------------------------
(* Lookups. *)

Listed == {task_list[i] : i \in 1..Len(task_list)}
UsedPids == {task[t].pid : t \in Listed}

\* find_task: the listed task with this pid.
Owner(p) == CHOOSE t \in Listed : task[t].pid = p
find_task(p) == IF p \in UsedPids THEN Owner(p) ELSE NoTask

\* Mutant of Steps: the scan starts at the head of the list.
StepsFromHead(t) == CHOOSE i \in 1..Len(task_list) : task_list[i] = t

\* How far past current the scan of next_task meets t; current comes last.
Place(t) == CHOOSE i \in 1..Len(task_list) : task_list[i] = t
Steps(t) == (Place(t) - Place(current) - 1) % Len(task_list)

\* Mutant of Runnable: everything but a zombie may run.
RunnableOrBlocked(tk) == {t \in Listed : tk[t].state # "ZOMBIE"}

\* next_task, when the structs hold tk.
Runnable(tk) == {t \in Listed : tk[t].state = "RUNNABLE"}
next_task(tk) ==
    LET ready == Runnable(tk)
    IN  IF ready = {} THEN NoTask ELSE CHOOSE t \in ready : \A u \in ready : Steps(t) <= Steps(u)

\* Mutant of alloc_pid: the candidate is not looked up.
AllocUnchecked(p) == p = next_pid /\ next_pid' = IF p = MaxPid THEN 1 ELSE p + 1

\* alloc_pid: p is the first pid from next_pid on, cyclically, that is unused,
\* and next_pid moves past it.
Ahead(p) == (p - next_pid) % MaxPid
alloc_pid(p) ==
    /\ p \notin UsedPids
    /\ \A q \in Pid : Ahead(q) < Ahead(p) => q \in UsedPids
    /\ next_pid' = IF p = MaxPid THEN 1 ELSE p + 1

\* Mutant of matches: any task with the pid is taken for a child.
MatchesStranger(child, parent, p) == p = AnyPid \/ p = task[child].pid

\* matches: the children of the running task that wait(p) is about.
matches(child, parent, p) ==
    /\ task[child].ppid = task[parent].pid
    /\ p = AnyPid \/ p = task[child].pid
Children(p) == {t \in Listed : matches(t, current, p)}

\* Mutant of Zombies: the loop stops at the first child.
FirstChildOnly(p) ==
    {t \in Children(p) : /\ task[t].state = "ZOMBIE"
                         /\ \A u \in Children(p) : Place(t) <= Place(u)}
Zombies(p) == {t \in Children(p) : task[t].state = "ZOMBIE"}

-----------------------------------------------------------------------------
(* Steps shared by the operations. *)

\* Mutant of Unlinked: the link after t is dropped.
UnlinkedNext(t) ==
    [i \in 1..(Len(task_list) - 1) |->
        IF i <= Place(t) THEN task_list[i] ELSE task_list[i + 1]]

\* task_free takes t out of the list.
Unlinked(t) ==
    [i \in 1..(Len(task_list) - 1) |->
        IF i < Place(t) THEN task_list[i] ELSE task_list[i + 1]]

\* Mutant of Stored: the FPU registers are not stored.
StoredFrameOnly(fr, tk) == [tk EXCEPT ![current].frame = fr]

\* switch_to: the live context, with trap frame fr, is stored in current...
Stored(fr, tk) ==
    [tk EXCEPT ![current].frame = fr, ![current].arch_state = fpu]

\* ... and that of next is loaded.
Load(next, tk) ==
    /\ current' = next
    /\ frame' = tk[next].frame
    /\ fpu' = tk[next].arch_state

\* copy_status: the word of task t once code has been written to it.
copy_status(t, wanted, code) ==
    IF wanted THEN 256 * code ELSE task[t].word

\* return_result: the call ends in the task that made it.
return_result(r) == frame' = r /\ UNCHANGED <<current, fpu>>

-----------------------------------------------------------------------------
(* The boot processor enters user mode in init (user_start, task_start). *)

Init ==
    /\ machine = "running"
    /\ next_pid = 2
    /\ frame = result_ok(0)
    /\ fpu = CleanFpu
    /\ \E t \in Task :
        /\ task_list = <<t>>
        /\ current = t
        /\ task = [u \in Task |-> IF u = t
                       THEN [Blank EXCEPT !.pid = 1, !.state = "RUNNABLE"]
                       ELSE Blank]

-----------------------------------------------------------------------------
(* User code between two traps. *)

\* The program computes with its FPU registers.
Compute ==
    /\ machine = "running"
    /\ fpu' \in Fpu
    /\ UNCHANGED <<task_list, next_pid, task, current, frame, machine>>

\* An exception in user code stops the machine (exception_die, riscv_trap).
Exception ==
    /\ machine = "running"
    /\ machine' = "fault"
    /\ UNCHANGED <<task_list, next_pid, task, current, frame, fpu>>

\* task_yield with trap frame fr: switch when some other task is runnable.
task_yield(fr) ==
    LET next == next_task(task)
    IN  IF next \in {NoTask, current}
        THEN /\ frame' = fr
             /\ UNCHANGED <<task, current, fpu>>
        ELSE /\ task' = Stored(fr, task)
             /\ Load(next, task')

\* timer_dispatch -> task_preempt: a tick in user mode.
Tick ==
    /\ machine = "running"
    /\ task_yield(frame)
    /\ UNCHANGED <<task_list, next_pid, machine>>

-----------------------------------------------------------------------------
(* System calls of the running task. *)

\* NARC_SYS_YIELD: the result is stored before the frame is switched.
Yield ==
    /\ machine = "running"
    /\ task_yield(result_ok(0))
    /\ UNCHANGED <<task_list, next_pid, machine>>

\* NARC_SYS_GETPID
GetPid ==
    /\ machine = "running"
    /\ return_result(result_ok(task[current].pid))
    /\ UNCHANGED <<task_list, next_pid, task, machine>>

\* NARC_SYS_FORK, succeeding: the child is a copy that returns 0.  The live FPU
\* registers are stored in the parent first and copied from there.
Fork ==
    /\ machine = "running"
    /\ \E child \in Task \ Listed, p \in Pid :
        /\ alloc_pid(p)
        /\ task_list' = Append(task_list, child)
        /\ task' = [task EXCEPT
               ![current].arch_state = fpu,
               ![child] = [Blank EXCEPT
                   !.pid = p, !.ppid = task[current].pid, !.state = "RUNNABLE",
                   !.frame = result_ok(0), !.arch_state = fpu,
                   !.word = task[current].word]]
        /\ return_result(result_ok(p))
    /\ UNCHANGED machine

\* NARC_SYS_FORK when kzalloc finds no memory for the struct.
ForkNoStruct ==
    /\ machine = "running"
    /\ return_result(result_error("TRY_AGAIN"))
    /\ UNCHANGED <<task_list, next_pid, task, machine>>

\* NARC_SYS_FORK when the address space or the descriptor table cannot be
\* copied: the struct was linked and has used up a pid, and is freed again.
ForkNoMemory ==
    /\ machine = "running"
    /\ Listed # Task
    /\ \E p \in Pid : alloc_pid(p)
    /\ return_result(result_error("TRY_AGAIN"))
    /\ UNCHANGED <<task_list, task, machine>>

\* NARC_SYS_WAIT with a status address the task may not write.
WaitBadAddress ==
    /\ machine = "running"
    /\ return_result(result_error("BAD_ADDRESS"))
    /\ UNCHANGED <<task_list, next_pid, task, machine>>

\* NARC_SYS_WAIT(p): the first zombie in list order is reaped.
WaitReap(p, wanted) ==
    /\ machine = "running"
    /\ \E child \in Zombies(p) :
        /\ \A other \in Zombies(p) : Place(child) <= Place(other)
        /\ task' = [task EXCEPT
               ![current].word =
                   copy_status(current, wanted, task[child].exit_status),
               ![child] = Blank]
        /\ task_list' = Unlinked(child)
        /\ return_result(result_ok(task[child].pid))
    /\ UNCHANGED <<next_pid, machine>>

\* NARC_SYS_WAIT(p) without such a child.
WaitNoChild(p) ==
    /\ machine = "running"
    /\ Children(p) = {}
    /\ return_result(result_error("NO_CHILD"))
    /\ UNCHANGED <<task_list, next_pid, task, machine>>

\* NARC_SYS_WAIT(p) with WNOHANG while the children are alive.
WaitNoHang(p) ==
    /\ machine = "running"
    /\ Children(p) # {} /\ Zombies(p) = {}
    /\ return_result(result_ok(0))
    /\ UNCHANGED <<task_list, next_pid, task, machine>>

Waiting(p, wanted) ==
    [task EXCEPT ![current].state = "BLOCKED", ![current].wait_pid = p,
                 ![current].wait_status = wanted]

\* NARC_SYS_WAIT(p) blocks; the result is written by the child that wakes it.
WaitBlock(p, wanted) ==
    /\ machine = "running"
    /\ Children(p) # {} /\ Zombies(p) = {}
    /\ next_task(Waiting(p, wanted)) # NoTask
    /\ task' = Stored(frame, Waiting(p, wanted))
    /\ Load(next_task(Waiting(p, wanted)), task')
    /\ UNCHANGED <<task_list, next_pid, machine>>

\* NARC_SYS_WAIT(p) when nobody else could run: reported as having no child.
WaitAlone(p, wanted) ==
    /\ machine = "running"
    /\ Children(p) # {} /\ Zombies(p) = {}
    /\ next_task(Waiting(p, wanted)) = NoTask
    /\ task' = [Waiting(p, wanted) EXCEPT ![current].state = "RUNNABLE"]
    /\ return_result(result_error("NO_CHILD"))
    /\ UNCHANGED <<task_list, next_pid, machine>>

\* NARC_SYS_EXEC, succeeding: fresh memory, registers and FPU image.
Exec ==
    /\ machine = "running"
    /\ task' = [task EXCEPT ![current].arch_state = CleanFpu, ![current].word = 0]
    /\ frame' = result_ok(0)
    /\ fpu' = CleanFpu
    /\ UNCHANGED <<task_list, next_pid, current, machine>>

\* NARC_SYS_EXEC, failing before the old image is given up.
ExecFails ==
    /\ machine = "running"
    /\ \E e \in {"BAD_ADDRESS", "NOT_FOUND"} : return_result(result_error(e))
    /\ UNCHANGED <<task_list, next_pid, task, machine>>

-----------------------------------------------------------------------------
(* NARC_SYS_EXIT. *)

Dead(c) == [task EXCEPT ![current].state = "ZOMBIE", ![current].exit_status = c % 256]
Parent == find_task(task[current].ppid)

\* Mutant of ParentWaits: a parent waiting for any child is overlooked.
ParentWaitsForPid ==
    /\ Parent # NoTask
    /\ task[Parent].state = "BLOCKED"
    /\ task[Parent].wait_pid = task[current].pid
\* Mutant of ParentWaits: a parent waiting for this child is overlooked.
ParentWaitsForAny ==
    /\ Parent # NoTask
    /\ task[Parent].state = "BLOCKED"
    /\ task[Parent].wait_pid = AnyPid
ParentWaits ==
    /\ Parent # NoTask
    /\ task[Parent].state = "BLOCKED"
    /\ task[Parent].wait_pid \in {AnyPid, task[current].pid}

\* Mutant of Woken: the parent resumes without its result.
WokenUntold(c) ==
    [Dead(c) EXCEPT
        ![Parent].word = copy_status(Parent, task[Parent].wait_status, c % 256),
        ![Parent].state = "RUNNABLE"]
Woken(c) ==
    [Dead(c) EXCEPT
        ![Parent].word = copy_status(Parent, task[Parent].wait_status, c % 256),
        ![Parent].frame = result_ok(task[current].pid),
        ![Parent].state = "RUNNABLE"]

\* The parent is blocked on this task: it is woken with the result in its
\* stored frame, and the struct is freed once the processor has left it.
ExitWake(c) ==
    /\ machine = "running"
    /\ ParentWaits
    /\ next_task(Woken(c)) # NoTask
    /\ Load(next_task(Woken(c)), Stored(frame, Woken(c)))
    /\ task' = [Woken(c) EXCEPT ![current] = Blank]
    /\ task_list' = Unlinked(current)
    /\ UNCHANGED <<next_pid, machine>>

\* Nobody waits: the task stays in the list until its parent asks.
ExitZombie(c) ==
    /\ machine = "running"
    /\ ~ParentWaits
    /\ next_task(Dead(c)) # NoTask
    /\ task' = Stored(frame, Dead(c))
    /\ Load(next_task(Dead(c)), task')
    /\ UNCHANGED <<task_list, next_pid, machine>>

\* No runnable task is left: "[kernel] userspace exited", and the kernel halts.
ExitLast(c) ==
    /\ machine = "running"
    /\ LET final == IF ParentWaits THEN Woken(c) ELSE Dead(c)
       IN  next_task(final) = NoTask /\ task' = final
    /\ machine' = "exited"
    /\ UNCHANGED <<task_list, next_pid, current, frame, fpu>>

\* arch_halt
Halted == machine # "running" /\ UNCHANGED vars

-----------------------------------------------------------------------------
\* Calls that only put a result into the registers of the caller.
Replies == GetPid \/ ForkNoStruct \/ ForkNoMemory \/ WaitBadAddress \/ ExecFails

\* Steps that create, end, wait for, switch or replace tasks, or stop them all.
Lifecycle ==
    \/ Compute \/ Tick \/ Yield
    \/ Fork \/ Exec
    \/ \E p \in WaitArg :
        \/ WaitNoChild(p) \/ WaitNoHang(p)
        \/ \E wanted \in StatusArg :
            WaitReap(p, wanted) \/ WaitBlock(p, wanted) \/ WaitAlone(p, wanted)
    \/ \E c \in ExitArg : ExitWake(c) \/ ExitZombie(c) \/ ExitLast(c)
    \/ Exception \/ Halted

Next == Lifecycle \/ Replies

Spec == Init /\ [][Next]_vars

LifecycleSpec == Init /\ [][Lifecycle]_vars

\* The timer keeps ticking in user mode.
FairSpec == LifecycleSpec /\ WF_vars(Tick)

\* The behaviours before next_pid wraps, in which no pid is used twice.
FreshSpec == Init /\ [][Next /\ next_pid' >= next_pid]_vars

-----------------------------------------------------------------------------
(* Properties. *)

Alive(t) == task[t].state \in {"RUNNABLE", "BLOCKED"}
Context(t) == IF t = current THEN [frame |-> frame, fpu |-> fpu]
              ELSE [frame |-> task[t].frame, fpu |-> task[t].arch_state]

\* Every variable has its type, the links of task_list are distinct structs,
\* and the structs outside it are free.
TypeOK ==
    /\ task_list \in Seq(Task)
    /\ \A i, j \in 1..Len(task_list) : task_list[i] = task_list[j] => i = j
    /\ next_pid \in Pid
    /\ task \in [Task -> TaskStruct]
    /\ \A t \in Task : t \notin Listed => task[t] = Blank
    /\ current \in Listed
    /\ frame \in Frame
    /\ fpu \in Fpu
    /\ machine \in {"running", "exited", "fault"}

\* The processor is in a runnable task: task_free, task_exit and a blocking
\* task_wait never leave current at a struct that is free, dead or asleep.
CurrentRuns == machine # "exited" => task[current].state = "RUNNABLE"

\* alloc_pid never hands out a pid that a listed task still has, zombies
\* included, also after next_pid has wrapped; so find_task is unambiguous.
PidsUnique ==
    /\ \A t \in Listed : task[t].pid \in Pid /\ task[t].state # "UNUSED"
    /\ \A t, u \in Listed : task[t].pid = task[u].pid => t = u

\* No lost wakeup: a task blocked in task_wait has a child it waits for that is
\* still alive, so the task_exit that will wake it is still to come.
WaiterHasLiveChild ==
    \A t \in Listed : task[t].state = "BLOCKED" =>
        \E c \in Listed : matches(c, t, task[t].wait_pid) /\ Alive(c)

\* No missed child: while a task sleeps in task_wait, no zombie that it could
\* have reaped lies in the table.
WaiterHasNoZombie ==
    \A t \in Listed : task[t].state = "BLOCKED" =>
        \A c \in Listed : matches(c, t, task[t].wait_pid) => task[c].state # "ZOMBIE"

\* While pids are fresh, a task that is about to block in task_wait leaves
\* someone to run, so WaitAlone never reports NO_CHILD to a task with children.
SleeperLeavesRunner ==
    machine = "running" =>
        \A p \in -1..MaxPid : Children(p) # {} /\ Zombies(p) = {} =>
            \E t \in Listed \ {current} : task[t].state = "RUNNABLE"

\* While pids are fresh, task_exit halts the machine only when every task is
\* dead: none is left asleep in task_wait.
HaltsWhenAllDead == machine = "exited" => \A t \in Listed : ~Alive(t)

ExitHandedOver ==
    \A t \in Listed : t \notin Listed' =>
        \E u \in Listed : /\ u \in Listed'
                          /\ task[u].pid = task[t].ppid
                          /\ Context(u)'.frame = result_ok(task[t].pid)

\* An exit is never lost: a struct leaves the list only in the step that puts
\* its pid into the result registers of its parent, wherever these are.
ExitReachesParent == [][ExitHandedOver]_vars

\* What a program can know of task t.
Shown(t) ==
    IF task[t].state = "ZOMBIE"
    THEN [parent |-> task[t].ppid, phase |-> "exited",
          code |-> task[t].exit_status, awaited |-> 0, wanted |-> FALSE,
          ret |-> result_ok(0), fpu |-> CleanFpu, word |-> 0]
    ELSE [parent |-> task[t].ppid, code |-> 0,
          phase |-> IF task[t].state = "BLOCKED" THEN "waiting" ELSE "running",
          awaited |-> IF task[t].state = "BLOCKED" THEN task[t].wait_pid ELSE 0,
          wanted |-> task[t].state = "BLOCKED" /\ task[t].wait_status,
          ret |-> Context(t).frame, fpu |-> Context(t).fpu, word |-> task[t].word]

Proc == [p \in UsedPids |-> Shown(Owner(p))]
Stopped == IF machine = "running" THEN "no" ELSE machine

P == INSTANCE Processes WITH proc <- Proc, stopped <- Stopped

\* The kernel keeps its promise to programs: seen through the pids, with the
\* context of the running task taken from the processor and that of the others
\* from their structs, every step is one that Processes allows.
ImplementsProcesses == P!PSpec

\* Orphans are reaped: a zombie other than init has a living parent to reap it,
\* as long as init lives.
OrphansReapable ==
    (\E t \in Listed : task[t].pid = 1 /\ Alive(t)) =>
        \A t \in Listed : task[t].state = "ZOMBIE" =>
            \E u \in Listed : task[u].pid = task[t].ppid /\ Alive(u)

\* No starvation: every runnable task gets the processor, unless the machine
\* stops.  next_task starts after current and forked tasks join at the tail.
RunnableRuns ==
    \A t \in Task : (task[t].state = "RUNNABLE") ~> (current = t \/ machine # "running")
=============================================================================
