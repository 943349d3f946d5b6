------------------------- MODULE NarcTasksProofs -------------------------
(***************************************************************************)
(* Proofs about the process table, for any number of structs and any       *)
(* MaxPid that leaves alloc_pid a free pid.                                 *)
(***************************************************************************)
EXTENDS NarcTasks, TLAPS, NaturalLemmas

\* The inductive invariant.
Inv ==
    /\ TypeOK
    /\ CurrentRuns
    /\ PidsUnique
    /\ WaiterHasLiveChild
    /\ WaiterHasNoZombie

-----------------------------------------------------------------------------
(* The list. *)

\* Place finds the position of a listed task.
LEMMA PlaceProperty ==
    ASSUME TypeOK, NEW t \in Listed
    PROVE  Place(t) \in 1..Len(task_list) /\ task_list[Place(t)] = t
BY DEF TypeOK, Listed, Place

\* task_alloc: appending a struct adds it to the set of listed tasks and keeps
\* the links distinct.
LEMMA AppendListed ==
    ASSUME TypeOK, NEW t \in Task \ Listed, task_list' = Append(task_list, t)
    PROVE  /\ task_list' \in Seq(Task)
           /\ \A i, j \in 1..Len(task_list') : task_list'[i] = task_list'[j] => i = j
           /\ Listed' = Listed \cup {t}
BY SMTT(40) DEF TypeOK, Listed

\* task_free: unlinking a struct removes it from the set of listed tasks and
\* keeps the links distinct.
LEMMA UnlinkListed ==
    ASSUME TypeOK, NEW t \in Listed, task_list' = Unlinked(t)
    PROVE  /\ task_list' \in Seq(Task)
           /\ \A i, j \in 1..Len(task_list') : task_list'[i] = task_list'[j] => i = j
           /\ Listed' = Listed \ {t}
<1> DEFINE n == Len(task_list)
           k == Place(t)
<1>1. k \in 1..n /\ task_list[k] = t
  BY PlaceProperty
<1>2. n \in Nat /\ \A i \in 1..n : task_list[i] \in Task
  BY DEF TypeOK
<1>3. \A i \in 1..(n - 1) : /\ i \in 1..n /\ i + 1 \in 1..n
                            /\ task_list'[i] = IF i < k THEN task_list[i] ELSE task_list[i + 1]
  BY <1>2 DEF Unlinked
<1>4. task_list' \in Seq(Task) /\ Len(task_list') = n - 1
  <2>1. n - 1 \in Nat
    BY <1>1, <1>2
  <2>2. task_list' \in [1..(n - 1) -> Task]
    BY <1>1, <1>2 DEF Unlinked
  <2> QED
    BY <2>1, <2>2
<1>5. \A i, j \in 1..Len(task_list') : task_list'[i] = task_list'[j] => i = j
  BY <1>1, <1>2, <1>3, <1>4 DEF TypeOK
<1>6. Listed' \subseteq Listed \ {t}
  BY <1>1, <1>2, <1>3, <1>4 DEF TypeOK, Listed
<1>7. Listed \ {t} \subseteq Listed'
  <2> SUFFICES ASSUME NEW i \in 1..n, task_list[i] # t
               PROVE  \E j \in 1..(n - 1) : task_list'[j] = task_list[i]
    BY <1>4 DEF Listed
  <2>1. CASE i < k
    BY <2>1, <1>1, <1>2, <1>3
  <2>2. CASE i > k
    <3>1. i - 1 \in 1..(n - 1) /\ ~(i - 1 < k) /\ (i - 1) + 1 = i
      BY <2>2, <1>1, <1>2
    <3> QED
      BY <3>1, <1>3
  <2> QED
    BY <2>1, <2>2, <1>1
<1> QED
  BY <1>4, <1>5, <1>6, <1>7

-----------------------------------------------------------------------------
(* Lookups. *)

\* find_task returns the one listed task with the pid.
LEMMA FindTask ==
    ASSUME TypeOK, PidsUnique, NEW t \in Listed
    PROVE  find_task(task[t].pid) = t
BY DEF find_task, Owner, UsedPids, PidsUnique

\* find_task returns null or a listed task with the pid.
LEMMA FindTaskListed ==
    ASSUME NEW p, find_task(p) # NoTask
    PROVE  find_task(p) \in Listed /\ task[find_task(p)].pid = p
BY DEF find_task, Owner, UsedPids

\* Some task comes first in the scan of next_task.
LEMMA FirstAhead ==
    ASSUME TypeOK, NEW R, R \subseteq Listed, R # {}
    PROVE  \E t \in R : \A u \in R : Steps(t) <= Steps(u)
<1>1. \A t \in Listed : Steps(t) \in Nat
  <2>1. Len(task_list) \in Nat \ {0} /\ Place(current) \in Int
    BY PlaceProperty DEF TypeOK
  <2>2. \A t \in Listed : Place(t) \in Int
    BY PlaceProperty
  <2> QED
    BY <2>1, <2>2 DEF Steps
<1>2. PICK D : D = {Steps(t) : t \in R}
  OBVIOUS
<1>3. D \subseteq Nat /\ D # {}
  BY <1>1, <1>2
<1>4. PICK m \in D : \A k \in D : m <= k
  BY <1>3, LeastNatural
<1> QED
  BY <1>2, <1>4

\* next_task returns null or a listed runnable task.
LEMMA NextTask ==
    ASSUME TypeOK, NEW tk, next_task(tk) # NoTask
    PROVE  next_task(tk) \in Listed /\ tk[next_task(tk)].state = "RUNNABLE"
<1>1. Runnable(tk) \subseteq Listed /\ Runnable(tk) # {}
  BY DEF next_task, Runnable
<1>2. next_task(tk) \in Runnable(tk)
  BY <1>1, FirstAhead DEF next_task
<1> QED
  BY <1>2 DEF Runnable

\* Listed tasks are structs.
LEMMA ListedTasks ==
    ASSUME TypeOK
    PROVE  Listed \subseteq Task
BY DEF TypeOK, Listed

-----------------------------------------------------------------------------
(* Type correctness is preserved. *)

\* The values that the operations store are of the right type.
LEMMA Values ==
    /\ Blank \in TaskStruct
    /\ \A v \in 0..MaxPid : result_ok(v) \in Frame
    /\ \A e \in {"TRY_AGAIN", "NO_CHILD", "BAD_ADDRESS", "NOT_FOUND"} :
            result_error(e) \in Frame
    /\ \A c \in ExitArg : c % 256 \in Code
    /\ \A c \in Code : 256 * c \in {256 * d : d \in Code}
    /\ 0 \in {256 * d : d \in Code}
    /\ Pid \subseteq 0..MaxPid
BY PidAssumption, ArgAssumption
   DEF Blank, TaskStruct, Frame, result_ok, result_error, Code, Pid, State

\* A struct keeps its type when a field is given a value of the field's type.
LEMMA Fields ==
    ASSUME NEW tk \in [Task -> TaskStruct], NEW t \in Task
    PROVE  /\ \A s \in State : [tk EXCEPT ![t].state = s] \in [Task -> TaskStruct]
           /\ \A c \in Code : [tk EXCEPT ![t].exit_status = c] \in [Task -> TaskStruct]
           /\ \A p \in -1..MaxPid : [tk EXCEPT ![t].wait_pid = p] \in [Task -> TaskStruct]
           /\ \A b \in BOOLEAN : [tk EXCEPT ![t].wait_status = b] \in [Task -> TaskStruct]
           /\ \A f \in Frame : [tk EXCEPT ![t].frame = f] \in [Task -> TaskStruct]
           /\ \A a \in Fpu : [tk EXCEPT ![t].arch_state = a] \in [Task -> TaskStruct]
           /\ \A w \in {256 * c : c \in Code} :
                  [tk EXCEPT ![t].word = w] \in [Task -> TaskStruct]
           /\ \A r \in TaskStruct : [tk EXCEPT ![t] = r] \in [Task -> TaskStruct]
BY DEF TaskStruct

-----------------------------------------------------------------------------
(* The invariant is preserved, operation by operation. *)

\* A step that keeps the list and who is whose child in which state keeps the
\* properties of the table.
LEMMA SameTable ==
    ASSUME PidsUnique, WaiterHasLiveChild, WaiterHasNoZombie,
           Listed' = Listed,
           \A t \in Listed : /\ task'[t].pid = task[t].pid
                             /\ task'[t].ppid = task[t].ppid
                             /\ task'[t].state = task[t].state
                             /\ task'[t].wait_pid = task[t].wait_pid
    PROVE  PidsUnique' /\ WaiterHasLiveChild' /\ WaiterHasNoZombie'
BY DEF PidsUnique, WaiterHasLiveChild, WaiterHasNoZombie, matches, Alive

\* Storing the context of the running task and loading that of a runnable one.
LEMMA Switch ==
    ASSUME NEW tk \in [Task -> TaskStruct], NEW fr \in Frame, NEW next \in Task,
           current \in Task, fpu \in Fpu,
           task' = Stored(fr, tk), Load(next, task')
    PROVE  /\ task' \in [Task -> TaskStruct]
           /\ \A t \in Task : /\ task'[t].pid = tk[t].pid
                              /\ task'[t].ppid = tk[t].ppid
                              /\ task'[t].state = tk[t].state
                              /\ task'[t].wait_pid = tk[t].wait_pid
                              /\ t # current => task'[t] = tk[t]
           /\ current' = next
           /\ frame' \in Frame /\ fpu' \in Fpu
<1>1. [tk EXCEPT ![current].frame = fr] \in [Task -> TaskStruct]
  BY Fields
<1>2. task' \in [Task -> TaskStruct]
  BY <1>1, Fields DEF Stored
<1>3. current' = next /\ frame' \in Frame /\ fpu' \in Fpu
  BY <1>2 DEF Load, TaskStruct
<1> QED
  BY <1>2, <1>3 DEF Stored, TaskStruct

\* A call that ends in its caller and leaves the table alone.
LEMMA ReplyStep ==
    ASSUME Inv, NEW r \in Frame, return_result(r),
           next_pid' \in Pid, UNCHANGED <<task_list, task, machine>>
    PROVE  Inv'
<1>1. Listed' = Listed
  BY DEF Listed
<1>2. TypeOK' /\ CurrentRuns'
  BY <1>1 DEF Inv, TypeOK, CurrentRuns, return_result
<1> QED
  BY <1>1, <1>2, SameTable DEF Inv

\* task_yield.
LEMMA YieldStep ==
    ASSUME Inv, machine = "running", NEW fr \in Frame, task_yield(fr),
           UNCHANGED <<task_list, next_pid, machine>>
    PROVE  Inv'
<1> DEFINE next == next_task(task)
<1>1. Listed' = Listed /\ Listed \subseteq Task
  BY ListedTasks DEF Listed, Inv
<1>2. CASE next \in {NoTask, current}
  <2>1. frame' = fr /\ UNCHANGED <<task, current, fpu>>
    BY <1>2 DEF task_yield
  <2>2. TypeOK' /\ CurrentRuns'
    BY <2>1, <1>1 DEF Inv, TypeOK, CurrentRuns
  <2> QED
    BY <2>1, <2>2, <1>1, SameTable DEF Inv
<1>3. CASE next \notin {NoTask, current}
  <2>1. task' = Stored(fr, task) /\ Load(next, task')
    BY <1>3 DEF task_yield
  <2>2. next \in Listed /\ task[next].state = "RUNNABLE"
    BY <1>3, NextTask DEF Inv
  <2>3. task \in [Task -> TaskStruct] /\ current \in Task /\ fpu \in Fpu
    BY <1>1 DEF Inv, TypeOK
  <2>4. /\ task' \in [Task -> TaskStruct]
        /\ \A t \in Task : /\ task'[t].pid = task[t].pid
                           /\ task'[t].ppid = task[t].ppid
                           /\ task'[t].state = task[t].state
                           /\ task'[t].wait_pid = task[t].wait_pid
                           /\ t # current => task'[t] = task[t]
        /\ current' = next /\ frame' \in Frame /\ fpu' \in Fpu
    BY <2>1, <2>2, <2>3, <1>1, Switch
  <2>5. TypeOK' /\ CurrentRuns'
    BY <2>2, <2>4, <1>1 DEF Inv, TypeOK, CurrentRuns
  <2> QED
    BY <2>4, <2>5, <1>1, SameTable DEF Inv
<1> QED
  BY <1>2, <1>3

\* task_fork: the child gets an unused pid, so nobody's children change but
\* those of the running task.
LEMMA ForkStep ==
    ASSUME Inv, Fork
    PROVE  Inv'
<1>1. PICK child \in Task \ Listed, p \in Pid :
        /\ alloc_pid(p)
        /\ task_list' = Append(task_list, child)
        /\ task' = [task EXCEPT
               ![current].arch_state = fpu,
               ![child] = [Blank EXCEPT
                   !.pid = p, !.ppid = task[current].pid, !.state = "RUNNABLE",
                   !.frame = result_ok(0), !.arch_state = fpu,
                   !.word = task[current].word]]
        /\ return_result(result_ok(p))
  BY DEF Fork
<1> DEFINE new == [Blank EXCEPT
                   !.pid = p, !.ppid = task[current].pid, !.state = "RUNNABLE",
                   !.frame = result_ok(0), !.arch_state = fpu,
                   !.word = task[current].word]
<1>2. /\ task_list' \in Seq(Task)
      /\ \A i, j \in 1..Len(task_list') : task_list'[i] = task_list'[j] => i = j
      /\ Listed' = Listed \cup {child}
  BY <1>1, AppendListed DEF Inv
<1>3. Listed \subseteq Task /\ current \in Listed /\ child # current /\ fpu \in Fpu
  BY ListedTasks DEF Inv, TypeOK
<1>4. task \in [Task -> TaskStruct] /\ task[current] \in TaskStruct
  BY <1>3 DEF Inv, TypeOK
<1>5. new \in TaskStruct
  <2>1. task[current].pid \in 0..MaxPid /\ task[current].word \in {256 * c : c \in Code}
    BY <1>4 DEF TaskStruct
  <2> QED
    BY <2>1, <1>3, Values, PidAssumption
    DEF Blank, TaskStruct, State, result_ok, Frame, Pid
<1>6. /\ [task EXCEPT ![current].arch_state = fpu] \in [Task -> TaskStruct]
      /\ task' = [[task EXCEPT ![current].arch_state = fpu] EXCEPT ![child] = new]
  BY <1>1, <1>3, <1>4, Fields
<1>7. task' \in [Task -> TaskStruct]
  BY <1>5, <1>6, Fields
<1>8. /\ task'[child] = new
      /\ \A t \in Listed : /\ task'[t].pid = task[t].pid
                           /\ task'[t].ppid = task[t].ppid
                           /\ task'[t].state = task[t].state
                           /\ task'[t].wait_pid = task[t].wait_pid
      /\ \A t \in Task \ Listed' : task'[t] = task[t]
  BY <1>2, <1>3, <1>4, <1>6, ZenonT(60) DEF TaskStruct
<1>9. /\ task'[child].pid = p /\ task'[child].ppid = task[current].pid
      /\ task'[child].state = "RUNNABLE"
      /\ p \in Pid /\ \A t \in Listed : task[t].pid # p
  <2>1. /\ task'[child].pid = p /\ task'[child].ppid = task[current].pid
        /\ task'[child].state = "RUNNABLE"
    BY <1>8 DEF Blank
  <2>2. \A t \in Listed : task[t].pid # p
    BY <1>1 DEF alloc_pid, UsedPids
  <2> QED
    BY <2>1, <2>2
<1> HIDE DEF new
<1>10. next_pid' \in Pid /\ frame' \in Frame /\ UNCHANGED <<current, fpu, machine>>
  <2>1. next_pid' \in Pid
    BY <1>1, PidAssumption DEF alloc_pid, Pid
  <2> QED
    BY <2>1, <1>1, Values DEF return_result, Fork
<1>11. TypeOK'
  BY <1>2, <1>7, <1>8, <1>10 DEF Inv, TypeOK
<1>12. CurrentRuns'
  BY <1>3, <1>8, <1>10 DEF Inv, CurrentRuns
<1>13. PidsUnique'
  BY <1>2, <1>8, <1>9 DEF Inv, PidsUnique
<1>14. \A t \in Listed : task[t].state = "BLOCKED" => task[t].pid # task[current].pid
  BY <1>3 DEF Inv, PidsUnique, CurrentRuns, Fork
<1>15. WaiterHasLiveChild'
  BY <1>2, <1>8, <1>9 DEF Inv, WaiterHasLiveChild, matches, Alive
<1>16. WaiterHasNoZombie'
  BY <1>2, <1>8, <1>9, <1>14 DEF Inv, WaiterHasNoZombie, matches
<1> QED
  BY <1>11, <1>12, <1>13, <1>15, <1>16 DEF Inv

\* task_wait reaping a zombie: nobody sleeps on it.
LEMMA ReapStep ==
    ASSUME Inv, NEW q, NEW wanted \in BOOLEAN, WaitReap(q, wanted)
    PROVE  Inv'
<1>1. PICK child \in Zombies(q) :
        /\ task' = [task EXCEPT
               ![current].word =
                   copy_status(current, wanted, task[child].exit_status),
               ![child] = Blank]
        /\ task_list' = Unlinked(child)
        /\ return_result(result_ok(task[child].pid))
  BY DEF WaitReap
<1> DEFINE w == copy_status(current, wanted, task[child].exit_status)
<1>2. child \in Listed /\ task[child].state = "ZOMBIE"
  BY DEF Zombies, Children
<1>3. Listed \subseteq Task /\ current \in Listed /\ task[current].state = "RUNNABLE"
  BY ListedTasks DEF Inv, TypeOK, CurrentRuns, WaitReap
<1>4. child # current
  BY <1>2, <1>3
<1>5. /\ task_list' \in Seq(Task)
      /\ \A i, j \in 1..Len(task_list') : task_list'[i] = task_list'[j] => i = j
      /\ Listed' = Listed \ {child}
  BY <1>1, <1>2, UnlinkListed DEF Inv
<1>6. task \in [Task -> TaskStruct] /\ task[current] \in TaskStruct /\ task[child] \in TaskStruct
  BY <1>2, <1>3 DEF Inv, TypeOK
<1>7. w \in {256 * c : c \in Code} /\ task[child].pid \in 0..MaxPid
  BY <1>6, Values DEF copy_status, TaskStruct
<1>8. /\ [task EXCEPT ![current].word = w] \in [Task -> TaskStruct]
      /\ task' = [[task EXCEPT ![current].word = w] EXCEPT ![child] = Blank]
  BY <1>1, <1>3, <1>6, <1>7, Fields
<1>9. task' \in [Task -> TaskStruct]
  BY <1>2, <1>3, <1>8, Fields, Values
<1>10. /\ task'[child] = Blank
       /\ \A t \in Listed' : /\ task'[t].pid = task[t].pid
                             /\ task'[t].ppid = task[t].ppid
                             /\ task'[t].state = task[t].state
                             /\ task'[t].wait_pid = task[t].wait_pid
       /\ \A t \in Task \ Listed : task'[t] = task[t]
  BY <1>2, <1>3, <1>5, <1>6, <1>8 DEF TaskStruct
<1>11. frame' \in Frame /\ UNCHANGED <<current, fpu, machine, next_pid>>
  BY <1>1, <1>7, Values DEF return_result, WaitReap
<1>12. TypeOK'
  BY <1>3, <1>4, <1>5, <1>9, <1>10, <1>11 DEF Inv, TypeOK
<1>13. CurrentRuns'
  BY <1>3, <1>4, <1>5, <1>10, <1>11 DEF Inv, CurrentRuns
<1>14. PidsUnique'
  BY <1>5, <1>10 DEF Inv, PidsUnique
<1>15. WaiterHasLiveChild'
  BY <1>2, <1>5, <1>10 DEF Inv, WaiterHasLiveChild, matches, Alive
<1>16. WaiterHasNoZombie'
  BY <1>5, <1>10 DEF Inv, WaiterHasNoZombie, matches
<1> QED
  BY <1>12, <1>13, <1>14, <1>15, <1>16 DEF Inv

\* What the caller of task_wait looks like once it is marked as blocked.
LEMMA WaitingTable ==
    ASSUME Inv, NEW p \in WaitArg, NEW wanted \in StatusArg
    PROVE  /\ Waiting(p, wanted) \in [Task -> TaskStruct]
           /\ \A t \in Task :
                 /\ Waiting(p, wanted)[t].pid = task[t].pid
                 /\ Waiting(p, wanted)[t].ppid = task[t].ppid
                 /\ t # current => Waiting(p, wanted)[t] = task[t]
           /\ Waiting(p, wanted)[current].state = "BLOCKED"
           /\ Waiting(p, wanted)[current].wait_pid = p
<1>1. task \in [Task -> TaskStruct] /\ current \in Task
  BY ListedTasks DEF Inv, TypeOK
<1>2. "BLOCKED" \in State /\ p \in -1..MaxPid /\ wanted \in BOOLEAN
  BY ArgAssumption DEF State
<1>3. [task EXCEPT ![current].state = "BLOCKED"] \in [Task -> TaskStruct]
  BY <1>1, <1>2, Fields
<1>4. [task EXCEPT ![current].state = "BLOCKED", ![current].wait_pid = p]
        \in [Task -> TaskStruct]
  BY <1>1, <1>2, <1>3, Fields
<1>5. Waiting(p, wanted) \in [Task -> TaskStruct]
  BY <1>1, <1>2, <1>4, Fields DEF Waiting
<1> QED
  BY <1>1, <1>5 DEF Waiting, TaskStruct

\* task_wait blocking: the child that was found is alive, as no zombie was.
LEMMA BlockStep ==
    ASSUME Inv, NEW p \in WaitArg, NEW wanted \in StatusArg, WaitBlock(p, wanted)
    PROVE  Inv'
<1> DEFINE tk == Waiting(p, wanted)
           next == next_task(tk)
<1>1. /\ Children(p) # {} /\ Zombies(p) = {}
      /\ next # NoTask
      /\ task' = Stored(frame, tk) /\ Load(next, task')
      /\ UNCHANGED <<task_list, next_pid, machine>>
  BY DEF WaitBlock
<1>2. /\ Listed' = Listed /\ Listed \subseteq Task /\ current \in Listed
      /\ frame \in Frame /\ fpu \in Fpu
  BY <1>1, ListedTasks DEF Listed, Inv, TypeOK
<1>3. next \in Listed /\ tk[next].state = "RUNNABLE"
  BY <1>1, NextTask DEF Inv
<1>4. /\ tk \in [Task -> TaskStruct]
      /\ \A t \in Task : /\ tk[t].pid = task[t].pid
                         /\ tk[t].ppid = task[t].ppid
                         /\ t # current => tk[t] = task[t]
      /\ tk[current].state = "BLOCKED"
      /\ tk[current].wait_pid = p
  BY WaitingTable
<1> HIDE DEF tk, next
<1>5. /\ task' \in [Task -> TaskStruct]
      /\ \A t \in Task : /\ task'[t].pid = tk[t].pid
                         /\ task'[t].ppid = tk[t].ppid
                         /\ task'[t].state = tk[t].state
                         /\ task'[t].wait_pid = tk[t].wait_pid
                         /\ t # current => task'[t] = tk[t]
      /\ current' = next /\ frame' \in Frame /\ fpu' \in Fpu
  BY <1>1, <1>2, <1>3, <1>4, Switch
<1>6. /\ task'[current].state = "BLOCKED" /\ task'[current].wait_pid = p
      /\ \A t \in Listed : /\ task'[t].pid = task[t].pid
                           /\ task'[t].ppid = task[t].ppid
                           /\ t # current => task'[t] = task[t]
  BY <1>2, <1>4, <1>5
<1>7. TypeOK'
  BY <1>1, <1>2, <1>3, <1>4, <1>5 DEF Inv, TypeOK
<1>8. CurrentRuns'
  BY <1>2, <1>3, <1>5 DEF CurrentRuns
<1>9. PidsUnique'
  BY <1>2, <1>6 DEF Inv, PidsUnique
<1>10. \A t \in Listed : Alive(t) => Alive(t)'
  BY <1>2, <1>6 DEF Alive
<1>11. \A t \in Children(p) : t \in Listed /\ matches(t, current, p) /\ Alive(t)
  <2> SUFFICES ASSUME NEW t \in Children(p)
               PROVE  t \in Listed /\ matches(t, current, p) /\ Alive(t)
    OBVIOUS
  <2>1. t \in Listed /\ matches(t, current, p) /\ task[t].state # "ZOMBIE"
    BY <1>1 DEF Children, Zombies
  <2>2. task[t].state \in State /\ task[t].state # "UNUSED"
    BY <2>1, <1>2 DEF Inv, TypeOK, TaskStruct, PidsUnique
  <2> QED
    BY <2>1, <2>2 DEF State, Alive
<1>12. WaiterHasLiveChild'
  BY <1>1, <1>2, <1>6, <1>10, <1>11 DEF Inv, WaiterHasLiveChild, matches
<1>13. \A c \in Listed : matches(c, current, p) => task[c].state # "ZOMBIE"
  BY <1>1 DEF Children, Zombies
<1>14. WaiterHasNoZombie'
  BY <1>2, <1>6, <1>13 DEF Inv, WaiterHasNoZombie, matches
<1> QED
  BY <1>7, <1>8, <1>9, <1>12, <1>14 DEF Inv

\* task_wait when nobody else can run: only the stored arguments change.
LEMMA AloneStep ==
    ASSUME Inv, NEW p \in WaitArg, NEW wanted \in StatusArg, WaitAlone(p, wanted)
    PROVE  Inv'
<1> DEFINE tk == Waiting(p, wanted)
<1>1. /\ machine = "running"
      /\ task' = [tk EXCEPT ![current].state = "RUNNABLE"]
      /\ return_result(result_error("NO_CHILD"))
      /\ UNCHANGED <<task_list, next_pid, machine>>
  BY DEF WaitAlone
<1>2. Listed' = Listed /\ Listed \subseteq Task /\ current \in Listed
  BY <1>1, ListedTasks DEF Listed, Inv, TypeOK
<1>3. /\ tk \in [Task -> TaskStruct]
      /\ \A t \in Task : /\ tk[t].pid = task[t].pid
                         /\ tk[t].ppid = task[t].ppid
                         /\ t # current => tk[t] = task[t]
  BY WaitingTable
<1> HIDE DEF tk
<1>4. task' \in [Task -> TaskStruct]
  BY <1>1, <1>2, <1>3, Fields DEF State
<1>5. /\ task'[current].state = "RUNNABLE"
      /\ \A t \in Task : /\ task'[t].pid = task[t].pid
                         /\ task'[t].ppid = task[t].ppid
                         /\ t # current => task'[t] = task[t]
  BY <1>1, <1>2, <1>3 DEF TaskStruct
<1>6. task[current].state = "RUNNABLE"
  BY <1>1 DEF Inv, CurrentRuns
<1>7. TypeOK'
  BY <1>1, <1>2, <1>4, <1>5, Values DEF Inv, TypeOK, return_result
<1>8. CurrentRuns'
  BY <1>1, <1>2, <1>5 DEF CurrentRuns, return_result
<1>9. PidsUnique'
  BY <1>2, <1>5 DEF Inv, PidsUnique
<1>10. WaiterHasLiveChild'
  BY <1>2, <1>5, <1>6 DEF Inv, WaiterHasLiveChild, matches, Alive
<1>11. WaiterHasNoZombie'
  BY <1>2, <1>5, <1>6 DEF Inv, WaiterHasNoZombie, matches
<1> QED
  BY <1>7, <1>8, <1>9, <1>10, <1>11 DEF Inv

\* task_exec: the task keeps its place in the table.
LEMMA ExecStep ==
    ASSUME Inv, Exec
    PROVE  Inv'
<1>1. Listed' = Listed /\ Listed \subseteq Task /\ current \in Listed
  BY ListedTasks DEF Listed, Inv, TypeOK, Exec
<1>2. task \in [Task -> TaskStruct] /\ CleanFpu \in Fpu
  BY ArgAssumption DEF Inv, TypeOK
<1>3. [task EXCEPT ![current].arch_state = CleanFpu] \in [Task -> TaskStruct]
  BY <1>1, <1>2, Fields
<1>4. task' \in [Task -> TaskStruct]
  BY <1>1, <1>3, Fields, Values DEF Exec
<1>5. \A t \in Task : /\ task'[t].pid = task[t].pid
                      /\ task'[t].ppid = task[t].ppid
                      /\ task'[t].state = task[t].state
                      /\ task'[t].wait_pid = task[t].wait_pid
                      /\ t # current => task'[t] = task[t]
  BY <1>1, <1>2 DEF Exec, TaskStruct
<1>6. frame' \in Frame
  BY Values, PidAssumption DEF Exec
<1>7. TypeOK' /\ CurrentRuns'
  BY <1>1, <1>2, <1>4, <1>5, <1>6 DEF Inv, TypeOK, CurrentRuns, Exec
<1> QED
  BY <1>1, <1>5, <1>7, SameTable DEF Inv

-----------------------------------------------------------------------------
(* task_exit. *)

\* The table when the running task has become a zombie.
LEMMA DeadTable ==
    ASSUME Inv, NEW c \in ExitArg
    PROVE  /\ Dead(c) \in [Task -> TaskStruct]
           /\ \A t \in Task : /\ Dead(c)[t].pid = task[t].pid
                              /\ Dead(c)[t].ppid = task[t].ppid
                              /\ Dead(c)[t].wait_pid = task[t].wait_pid
                              /\ t # current => Dead(c)[t] = task[t]
           /\ Dead(c)[current].state = "ZOMBIE"
<1>1. task \in [Task -> TaskStruct] /\ current \in Task
  BY ListedTasks DEF Inv, TypeOK
<1>2. "ZOMBIE" \in State /\ c % 256 \in Code
  BY Values DEF State
<1> DEFINE dying == [task EXCEPT ![current].state = "ZOMBIE"]
           k == c % 256
<1>3. dying \in [Task -> TaskStruct]
  BY <1>1, <1>2, Fields
<1>4. Dead(c) = [dying EXCEPT ![current].exit_status = k]
  BY <1>1 DEF Dead, TaskStruct
<1>5. Dead(c) \in [Task -> TaskStruct]
  <2> HIDE DEF dying, k
  <2> QED
    BY <1>1, <1>2, <1>3, <1>4, Fields DEF k
<1> QED
  BY <1>1, <1>5 DEF Dead, TaskStruct

\* A waiting parent is a task of its own, and the only sleeper that the running
\* task is a matching child of.
LEMMA WaitingParent ==
    ASSUME Inv, machine = "running"
    PROVE  /\ ParentWaits => /\ Parent \in Listed /\ Parent # current
                             /\ task[Parent].pid = task[current].ppid
           /\ \A t \in Listed :
                 task[t].state = "BLOCKED" /\ matches(current, t, task[t].wait_pid)
                     => ParentWaits /\ t = Parent
<1>1. current \in Listed /\ task[current].state = "RUNNABLE" /\ Listed \subseteq Task
  BY ListedTasks DEF Inv, TypeOK, CurrentRuns
<1>2. ASSUME ParentWaits
      PROVE  /\ Parent \in Listed /\ Parent # current
             /\ task[Parent].pid = task[current].ppid
  BY <1>1, <1>2, FindTaskListed DEF Parent, ParentWaits
<1>3. ASSUME NEW t \in Listed, task[t].state = "BLOCKED",
             matches(current, t, task[t].wait_pid)
      PROVE  ParentWaits /\ t = Parent
  <2>1. t = Parent
    BY <1>3, FindTask DEF Inv, matches, Parent
  <2>2. t # NoTask
    BY <1>1, <1>3, TaskAssumption
  <2> QED
    BY <2>1, <2>2, <1>3 DEF ParentWaits, matches
<1> QED
  BY <1>2, <1>3

\* The table when the waiting parent has been given its result.
LEMMA WokenTable ==
    ASSUME Inv, machine = "running", ParentWaits, NEW c \in ExitArg
    PROVE  /\ Woken(c) \in [Task -> TaskStruct]
           /\ \A t \in Task : /\ Woken(c)[t].pid = task[t].pid
                              /\ Woken(c)[t].ppid = task[t].ppid
                              /\ Woken(c)[t].wait_pid = task[t].wait_pid
                              /\ t \notin {current, Parent} => Woken(c)[t] = task[t]
           /\ Woken(c)[current].state = "ZOMBIE"
           /\ Woken(c)[Parent].state = "RUNNABLE"
<1> DEFINE w == copy_status(Parent, task[Parent].wait_status, c % 256)
           tk == Dead(c)
<1>1. Parent \in Listed /\ Parent # current /\ Listed \subseteq Task /\ current \in Task
  BY WaitingParent, ListedTasks DEF Inv, TypeOK
<1>2. /\ tk \in [Task -> TaskStruct]
      /\ \A t \in Task : /\ tk[t].pid = task[t].pid
                         /\ tk[t].ppid = task[t].ppid
                         /\ tk[t].wait_pid = task[t].wait_pid
                         /\ t # current => tk[t] = task[t]
      /\ tk[current].state = "ZOMBIE"
  BY DeadTable
<1>3. task[Parent] \in TaskStruct /\ task[current] \in TaskStruct
  BY <1>1 DEF Inv, TypeOK
<1>4. w \in {256 * d : d \in Code}
  BY <1>3, Values DEF copy_status, TaskStruct
<1>5. result_ok(task[current].pid) \in Frame /\ "RUNNABLE" \in State
  BY <1>3, Values DEF TaskStruct, State
<1>6. Woken(c) = [tk EXCEPT ![Parent].word = w,
                            ![Parent].frame = result_ok(task[current].pid),
                            ![Parent].state = "RUNNABLE"]
  BY DEF Woken
<1> HIDE DEF tk, w
<1> DEFINE written == [tk EXCEPT ![Parent].word = w]
           told == [written EXCEPT ![Parent].frame = result_ok(task[current].pid)]
<1>7. written \in [Task -> TaskStruct]
  BY <1>1, <1>2, <1>4, Fields
<1>8. told \in [Task -> TaskStruct]
  BY <1>1, <1>5, <1>7, Fields
<1>9. Woken(c) = [told EXCEPT ![Parent].state = "RUNNABLE"]
  BY <1>1, <1>2, <1>6
<1>10. Woken(c) \in [Task -> TaskStruct]
  <2> HIDE DEF told
  <2> QED
    BY <1>1, <1>5, <1>8, <1>9, Fields
<1> QED
  BY <1>1, <1>2, <1>6, <1>10 DEF TaskStruct

\* task_exit waking the parent: the sleeper on the dead task is awake again.
LEMMA ExitWakeStep ==
    ASSUME Inv, NEW c \in ExitArg, ExitWake(c)
    PROVE  Inv'
<1> DEFINE tk == Woken(c)
           next == next_task(tk)
<1>1. /\ machine = "running" /\ ParentWaits /\ next # NoTask
      /\ Load(next, Stored(frame, tk))
      /\ task' = [tk EXCEPT ![current] = Blank]
      /\ task_list' = Unlinked(current)
      /\ UNCHANGED <<next_pid, machine>>
  BY DEF ExitWake
<1>2. /\ Listed \subseteq Task /\ current \in Listed
      /\ Parent \in Listed /\ Parent # current
      /\ frame \in Frame /\ fpu \in Fpu
  BY <1>1, WaitingParent, ListedTasks DEF Inv, TypeOK
<1>3. /\ tk \in [Task -> TaskStruct]
      /\ \A t \in Task : /\ tk[t].pid = task[t].pid
                         /\ tk[t].ppid = task[t].ppid
                         /\ tk[t].wait_pid = task[t].wait_pid
                         /\ t \notin {current, Parent} => tk[t] = task[t]
      /\ tk[current].state = "ZOMBIE" /\ tk[Parent].state = "RUNNABLE"
  BY <1>1, WokenTable
<1>4. /\ task_list' \in Seq(Task)
      /\ \A i, j \in 1..Len(task_list') : task_list'[i] = task_list'[j] => i = j
      /\ Listed' = Listed \ {current}
  BY <1>1, <1>2, UnlinkListed DEF Inv
<1>5. next \in Listed /\ tk[next].state = "RUNNABLE"
  BY <1>1, NextTask DEF Inv
<1> HIDE DEF tk, next
<1>6. next # current
  BY <1>3, <1>5
<1>7. Stored(frame, tk)[next] = tk[next]
  BY <1>2, <1>3, <1>5, <1>6 DEF Stored
<1>8. current' = next /\ frame' \in Frame /\ fpu' \in Fpu
  BY <1>1, <1>2, <1>3, <1>5, <1>7 DEF Load, TaskStruct
<1>9. task' \in [Task -> TaskStruct]
  BY <1>1, <1>2, <1>3, Fields, Values
<1>10. /\ task'[current] = Blank
       /\ \A t \in Listed' : /\ task'[t].pid = task[t].pid
                             /\ task'[t].ppid = task[t].ppid
                             /\ task'[t].wait_pid = task[t].wait_pid
                             /\ t # Parent => task'[t].state = task[t].state
       /\ task'[Parent].state = "RUNNABLE" /\ task'[next].state = "RUNNABLE"
       /\ \A t \in Task \ Listed : task'[t] = task[t]
  BY <1>1, <1>2, <1>3, <1>4, <1>5, <1>6
<1>11. TypeOK'
  BY <1>1, <1>4, <1>5, <1>6, <1>8, <1>9, <1>10 DEF Inv, TypeOK
<1>12. CurrentRuns'
  BY <1>8, <1>10 DEF CurrentRuns
<1>13. PidsUnique'
  BY <1>2, <1>4, <1>10 DEF Inv, PidsUnique
<1>14. \A t \in Listed' : task'[t].state = "BLOCKED" =>
            task[t].state = "BLOCKED" /\ ~matches(current, t, task[t].wait_pid)
  BY <1>1, <1>4, <1>10, WaitingParent
<1>15. WaiterHasLiveChild'
  <2> SUFFICES ASSUME NEW t \in Listed', task'[t].state = "BLOCKED"
               PROVE  \E d \in Listed' : matches(d, t, task[t].wait_pid)' /\ Alive(d)'
    BY DEF WaiterHasLiveChild
  <2>1. PICK d \in Listed : matches(d, t, task[t].wait_pid) /\ Alive(d)
    BY <1>4, <1>14 DEF Inv, WaiterHasLiveChild
  <2>2. d \in Listed'
    BY <2>1, <1>4, <1>14
  <2>3. matches(d, t, task[t].wait_pid)' /\ Alive(d)'
    BY <2>1, <2>2, <1>10 DEF matches, Alive
  <2> QED
    BY <2>2, <2>3
<1>16. WaiterHasNoZombie'
  BY <1>4, <1>10, <1>14 DEF Inv, WaiterHasNoZombie, matches
<1> QED
  BY <1>11, <1>12, <1>13, <1>15, <1>16 DEF Inv

\* A task that dies while its parent does not wait for it disturbs no sleeper.
LEMMA DeathUnseen ==
    ASSUME Inv, machine = "running", ~ParentWaits, Listed' = Listed,
           task'[current].state = "ZOMBIE",
           \A t \in Listed : /\ task'[t].pid = task[t].pid
                             /\ task'[t].ppid = task[t].ppid
                             /\ task'[t].wait_pid = task[t].wait_pid
                             /\ t # current => task'[t].state = task[t].state
    PROVE  PidsUnique' /\ WaiterHasLiveChild' /\ WaiterHasNoZombie'
<1>1. \A t \in Listed : task'[t].state = "BLOCKED" =>
            task[t].state = "BLOCKED" /\ ~matches(current, t, task[t].wait_pid)
  BY WaitingParent
<1>2. PidsUnique'
  BY DEF Inv, PidsUnique
<1>3. WaiterHasLiveChild'
  <2> SUFFICES ASSUME NEW t \in Listed, task'[t].state = "BLOCKED"
               PROVE  \E d \in Listed : matches(d, t, task[t].wait_pid)' /\ Alive(d)'
    BY DEF WaiterHasLiveChild
  <2>1. PICK d \in Listed : matches(d, t, task[t].wait_pid) /\ Alive(d)
    BY <1>1 DEF Inv, WaiterHasLiveChild
  <2>2. d # current
    BY <2>1, <1>1
  <2> QED
    BY <2>1, <2>2 DEF matches, Alive
<1>4. WaiterHasNoZombie'
  BY <1>1 DEF Inv, WaiterHasNoZombie, matches
<1> QED
  BY <1>2, <1>3, <1>4

\* task_exit leaving a zombie.
LEMMA ExitZombieStep ==
    ASSUME Inv, NEW c \in ExitArg, ExitZombie(c)
    PROVE  Inv'
<1> DEFINE tk == Dead(c)
           next == next_task(tk)
<1>1. /\ machine = "running" /\ ~ParentWaits /\ next # NoTask
      /\ task' = Stored(frame, tk) /\ Load(next, task')
      /\ UNCHANGED <<task_list, next_pid, machine>>
  BY DEF ExitZombie
<1>2. /\ Listed' = Listed /\ Listed \subseteq Task /\ current \in Listed
      /\ frame \in Frame /\ fpu \in Fpu
  BY <1>1, ListedTasks DEF Listed, Inv, TypeOK
<1>3. next \in Listed /\ tk[next].state = "RUNNABLE"
  BY <1>1, NextTask DEF Inv
<1>4. /\ tk \in [Task -> TaskStruct]
      /\ \A t \in Task : /\ tk[t].pid = task[t].pid
                         /\ tk[t].ppid = task[t].ppid
                         /\ tk[t].wait_pid = task[t].wait_pid
                         /\ t # current => tk[t] = task[t]
      /\ tk[current].state = "ZOMBIE"
  BY DeadTable
<1> HIDE DEF tk, next
<1>5. /\ task' \in [Task -> TaskStruct]
      /\ \A t \in Task : /\ task'[t].pid = tk[t].pid
                         /\ task'[t].ppid = tk[t].ppid
                         /\ task'[t].state = tk[t].state
                         /\ task'[t].wait_pid = tk[t].wait_pid
                         /\ t # current => task'[t] = tk[t]
      /\ current' = next /\ frame' \in Frame /\ fpu' \in Fpu
  BY <1>1, <1>2, <1>3, <1>4, Switch
<1>6. TypeOK'
  BY <1>1, <1>2, <1>3, <1>4, <1>5 DEF Inv, TypeOK
<1>7. CurrentRuns'
  BY <1>2, <1>3, <1>5 DEF CurrentRuns
<1>8. PidsUnique' /\ WaiterHasLiveChild' /\ WaiterHasNoZombie'
  BY <1>1, <1>2, <1>4, <1>5, DeathUnseen
<1> QED
  BY <1>6, <1>7, <1>8 DEF Inv

\* The last task_exit.
LEMMA ExitLastStep ==
    ASSUME Inv, NEW c \in ExitArg, ExitLast(c)
    PROVE  Inv'
<1>1. /\ machine = "running" /\ machine' = "exited"
      /\ task' = IF ParentWaits THEN Woken(c) ELSE Dead(c)
      /\ UNCHANGED <<task_list, next_pid, current, frame, fpu>>
  BY DEF ExitLast
<1>2. Listed' = Listed /\ Listed \subseteq Task /\ current \in Listed
  BY <1>1, ListedTasks DEF Listed, Inv, TypeOK
<1>3. CASE ~ParentWaits
  <2>1. /\ task' \in [Task -> TaskStruct]
        /\ \A t \in Task : /\ task'[t].pid = task[t].pid
                           /\ task'[t].ppid = task[t].ppid
                           /\ task'[t].wait_pid = task[t].wait_pid
                           /\ t # current => task'[t] = task[t]
        /\ task'[current].state = "ZOMBIE"
    BY <1>1, <1>3, DeadTable
  <2>2. TypeOK' /\ CurrentRuns'
    BY <1>1, <1>2, <2>1 DEF Inv, TypeOK, CurrentRuns
  <2>3. PidsUnique' /\ WaiterHasLiveChild' /\ WaiterHasNoZombie'
    BY <1>1, <1>2, <1>3, <2>1, DeathUnseen
  <2> QED
    BY <2>2, <2>3 DEF Inv
<1>4. CASE ParentWaits
  <2>1. /\ task' \in [Task -> TaskStruct]
        /\ \A t \in Task : /\ task'[t].pid = task[t].pid
                           /\ task'[t].ppid = task[t].ppid
                           /\ task'[t].wait_pid = task[t].wait_pid
                           /\ t \notin {current, Parent} => task'[t] = task[t]
        /\ task'[current].state = "ZOMBIE" /\ task'[Parent].state = "RUNNABLE"
    BY <1>1, <1>4, WokenTable
  <2>2. Parent \in Listed
    BY <1>1, <1>4, WaitingParent
  <2>3. TypeOK' /\ CurrentRuns'
    BY <1>1, <1>2, <2>1, <2>2 DEF Inv, TypeOK, CurrentRuns
  <2>4. PidsUnique'
    BY <1>2, <2>1 DEF Inv, PidsUnique
  <2>5. \A t \in Listed : task'[t].state = "BLOCKED" =>
            /\ task[t].state = "BLOCKED"
            /\ \A d \in Listed : matches(d, t, task[t].wait_pid) =>
                                     d # current /\ (Alive(d) => Alive(d)')
    BY <1>1, <1>2, <2>1, WaitingParent DEF Alive
  <2>6. WaiterHasLiveChild'
    BY <1>2, <2>1, <2>5 DEF Inv, WaiterHasLiveChild, matches
  <2>7. WaiterHasNoZombie'
    BY <1>2, <2>1, <2>5 DEF Inv, WaiterHasNoZombie, matches
  <2> QED
    BY <2>3, <2>4, <2>6, <2>7 DEF Inv
<1> QED
  BY <1>3, <1>4

-----------------------------------------------------------------------------
(* The invariant of the specification. *)

\* Init, the state in which init enters user mode, satisfies the invariant.
LEMMA InitInv ==
    ASSUME Init
    PROVE  Inv
<1>1. PICK t \in Task :
        /\ task_list = <<t>>
        /\ current = t
        /\ task = [u \in Task |-> IF u = t
                       THEN [Blank EXCEPT !.pid = 1, !.state = "RUNNABLE"]
                       ELSE Blank]
  BY DEF Init
<1>2. Listed = {t}
  BY <1>1 DEF Listed
<1>3. [Blank EXCEPT !.pid = 1, !.state = "RUNNABLE"] \in TaskStruct
  <2>1. 1 \in 0..MaxPid /\ "RUNNABLE" \in State
    BY PidAssumption DEF State
  <2>2. ASSUME NEW r \in TaskStruct
        PROVE  [r EXCEPT !.pid = 1, !.state = "RUNNABLE"] \in TaskStruct
    BY <2>1 DEF TaskStruct
  <2> QED
    BY <2>2, Values
<1>4. task \in [Task -> TaskStruct]
  BY <1>1, <1>3, Values
<1>5. task[t].pid = 1 /\ task[t].state = "RUNNABLE"
  BY <1>1 DEF Blank
<1>6. next_pid \in Pid /\ 1 \in Pid
  BY PidAssumption DEF Init, Pid
<1>7. frame \in Frame /\ fpu \in Fpu
  BY Values, PidAssumption, ArgAssumption DEF Init
<1>8. TypeOK
  BY <1>1, <1>2, <1>4, <1>6, <1>7 DEF Init, TypeOK
<1> QED
  BY <1>1, <1>2, <1>5, <1>6, <1>8
  DEF Inv, CurrentRuns, PidsUnique, WaiterHasLiveChild, WaiterHasNoZombie

\* Every step preserves it.
LEMMA NextInv ==
    ASSUME Inv, [Next]_vars
    PROVE  Inv'
<1>1. CASE Compute
  <2>1. Listed' = Listed
    BY <1>1 DEF Compute, Listed
  <2>2. TypeOK' /\ CurrentRuns'
    BY <1>1, <2>1 DEF Compute, Inv, TypeOK, CurrentRuns
  <2> QED
    BY <1>1, <2>1, <2>2, SameTable DEF Compute, Inv
<1>2. CASE Exception
  <2>1. Listed' = Listed
    BY <1>2 DEF Exception, Listed
  <2>2. TypeOK' /\ CurrentRuns'
    BY <1>2, <2>1 DEF Exception, Inv, TypeOK, CurrentRuns
  <2> QED
    BY <1>2, <2>1, <2>2, SameTable DEF Exception, Inv
<1>3. CASE Tick
  BY <1>3, YieldStep DEF Tick, Inv, TypeOK
<1>4. CASE Yield
  BY <1>4, YieldStep, Values, PidAssumption DEF Yield
<1>5. CASE GetPid
  <2>1. task[current].pid \in 0..MaxPid
    BY ListedTasks DEF Inv, TypeOK, TaskStruct
  <2> QED
    BY <1>5, <2>1, ReplyStep, Values DEF GetPid, Inv, TypeOK
<1>6. CASE Fork
  BY <1>6, ForkStep
<1>7. CASE ForkNoStruct
  BY <1>7, ReplyStep, Values DEF ForkNoStruct, Inv, TypeOK
<1>8. CASE ForkNoMemory
  <2>1. next_pid' \in Pid
    BY <1>8, PidAssumption DEF ForkNoMemory, alloc_pid, Pid
  <2> QED
    BY <1>8, <2>1, ReplyStep, Values DEF ForkNoMemory
<1>9. CASE WaitBadAddress
  BY <1>9, ReplyStep, Values DEF WaitBadAddress, Inv, TypeOK
<1>10. ASSUME NEW p \in WaitArg, WaitNoChild(p)
       PROVE  Inv'
  BY <1>10, ReplyStep, Values DEF WaitNoChild, Inv, TypeOK
<1>11. ASSUME NEW p \in WaitArg, WaitNoHang(p)
       PROVE  Inv'
  BY <1>11, ReplyStep, Values, PidAssumption DEF WaitNoHang, Inv, TypeOK
<1>12. ASSUME NEW p \in WaitArg, NEW wanted \in StatusArg,
              WaitReap(p, wanted) \/ WaitBlock(p, wanted) \/ WaitAlone(p, wanted)
       PROVE  Inv'
  BY <1>12, ReapStep, BlockStep, AloneStep, ArgAssumption
<1>13. CASE Exec
  BY <1>13, ExecStep
<1>14. CASE ExecFails
  BY <1>14, ReplyStep, Values DEF ExecFails, Inv, TypeOK
<1>15. ASSUME NEW c \in ExitArg, ExitWake(c) \/ ExitZombie(c) \/ ExitLast(c)
       PROVE  Inv'
  BY <1>15, ExitWakeStep, ExitZombieStep, ExitLastStep
<1>16. CASE UNCHANGED vars
  BY <1>16 DEF vars, Inv, TypeOK, CurrentRuns, PidsUnique, WaiterHasLiveChild,
               WaiterHasNoZombie, Listed, matches, Alive
<1>17. CASE Halted
  BY <1>16, <1>17 DEF Halted
<1> QED
  BY <1>1, <1>2, <1>3, <1>4, <1>5, <1>6, <1>7, <1>8, <1>9, <1>10, <1>11, <1>12,
     <1>13, <1>14, <1>15, <1>16, <1>17 DEF Next, Lifecycle, Replies

\* The conjunction of the properties below holds in every reachable state.
THEOREM Invariance == Spec => []Inv
BY InitInv, NextInv, PTL DEF Spec

\* Type correctness of task.c's state: the list stays duplicate-free, structs
\* outside it stay blank, and current is always listed.
THEOREM TypeCorrect == Spec => []TypeOK
<1>1. Inv => TypeOK
  BY DEF Inv
<1> QED
  BY <1>1, Invariance, PTL

\* After a switch the processor is always in a runnable task.
THEOREM CurrentAlwaysRuns == Spec => []CurrentRuns
<1>1. Inv => CurrentRuns
  BY DEF Inv
<1> QED
  BY <1>1, Invariance, PTL

\* alloc_pid keeps pids unique, also once next_pid has wrapped.
THEOREM PidsAlwaysUnique == Spec => []PidsUnique
<1>1. Inv => PidsUnique
  BY DEF Inv
<1> QED
  BY <1>1, Invariance, PTL

\* No wakeup of task_wait is ever lost: the child that will end the wait lives.
THEOREM NoLostWakeup == Spec => []WaiterHasLiveChild
<1>1. Inv => WaiterHasLiveChild
  BY DEF Inv
<1> QED
  BY <1>1, Invariance, PTL

\* No task sleeps in task_wait while a zombie it could reap is in the table.
THEOREM NoMissedZombie == Spec => []WaiterHasNoZombie
<1>1. Inv => WaiterHasNoZombie
  BY DEF Inv
<1> QED
  BY <1>1, Invariance, PTL

-----------------------------------------------------------------------------
(* Exits are handed over. *)

\* Only task_wait and task_exit unlink a struct, and both hand its pid to the
\* parent: in the trap frame if the parent is running, in its struct if not.
THEOREM ExitsReachParents == Spec => ExitReachesParent
<1>1. ASSUME Inv, Next
      PROVE  ExitHandedOver
  <2>1. ASSUME NEW p \in WaitArg, NEW wanted \in StatusArg, WaitReap(p, wanted)
        PROVE  ExitHandedOver
    <3>1. PICK child \in Zombies(p) :
            /\ task_list' = Unlinked(child)
            /\ return_result(result_ok(task[child].pid))
      BY <2>1 DEF WaitReap
    <3>2. child \in Listed /\ matches(child, current, p) /\ task[child].state = "ZOMBIE"
      BY DEF Zombies, Children
    <3>3. current \in Listed /\ current # child
      BY <1>1, <2>1, <3>2 DEF Inv, TypeOK, CurrentRuns, WaitReap
    <3>4. Listed' = Listed \ {child}
      BY <1>1, <3>1, <3>2, UnlinkListed DEF Inv
    <3>5. Context(current)'.frame = result_ok(task[child].pid)
      <4>1. current' = current /\ frame' = result_ok(task[child].pid)
        BY <3>1 DEF return_result
      <4> QED
        BY <4>1 DEF Context
    <3>6. current' = current
      BY <3>1 DEF return_result
    <3> QED
      BY <3>2, <3>3, <3>4, <3>5, <3>6 DEF ExitHandedOver, matches
  <2>2. ASSUME NEW c \in ExitArg, ExitWake(c)
        PROVE  ExitHandedOver
    <3> DEFINE next == next_task(Woken(c))
    <3>1. /\ machine = "running" /\ ParentWaits
          /\ Load(next, Stored(frame, Woken(c)))
          /\ task' = [Woken(c) EXCEPT ![current] = Blank]
          /\ task_list' = Unlinked(current)
      BY <2>2 DEF ExitWake
    <3>2. /\ Parent \in Listed /\ Parent # current
          /\ task[Parent].pid = task[current].ppid
          /\ current \in Listed /\ Listed \subseteq Task
      BY <1>1, <3>1, WaitingParent, ListedTasks DEF Inv, TypeOK
    <3>3. Listed' = Listed \ {current}
      BY <1>1, <3>1, <3>2, UnlinkListed DEF Inv
    <3>4. Woken(c) \in [Task -> TaskStruct] /\ Dead(c) \in [Task -> TaskStruct]
      BY <1>1, <3>1, WokenTable, DeadTable
    <3>5. Woken(c)[Parent].frame = result_ok(task[current].pid)
      BY <3>2, <3>4 DEF Woken, TaskStruct
    <3>6. /\ task'[Parent].frame = result_ok(task[current].pid)
          /\ Stored(frame, Woken(c))[Parent].frame = result_ok(task[current].pid)
      BY <3>1, <3>2, <3>4, <3>5 DEF Stored
    <3>7. current' = next /\ (next = Parent => frame' = result_ok(task[current].pid))
      BY <3>1, <3>6 DEF Load
    <3>8. \A u \in Listed : u = Parent => Context(u)'.frame = result_ok(task[current].pid)
      BY <3>6, <3>7 DEF Context
    <3> HIDE DEF next
    <3> QED
      BY <3>2, <3>3, <3>8 DEF ExitHandedOver
  <2>3. ASSUME Listed \subseteq Listed'
        PROVE  ExitHandedOver
    BY <2>3 DEF ExitHandedOver
  <2>4. ASSUME UNCHANGED task_list
        PROVE  Listed \subseteq Listed'
    BY <2>4 DEF Listed
  <2>5. CASE Fork
    BY <1>1, <2>3, <2>5, AppendListed DEF Fork, Inv
  <2> QED
    BY <1>1, <2>1, <2>2, <2>3, <2>4, <2>5
    DEF Next, Lifecycle, Replies, Compute, Exception, Tick, Yield, GetPid,
        ForkNoStruct, ForkNoMemory, WaitBadAddress, WaitNoChild, WaitNoHang,
        WaitBlock, WaitAlone, Exec, ExecFails, ExitZombie, ExitLast, Halted, vars
<1>2. Inv /\ [Next]_vars => [ExitHandedOver]_vars
  BY <1>1
<1> QED
  BY <1>2, Invariance, PTL DEF Spec, ExitReachesParent

-----------------------------------------------------------------------------
(***************************************************************************)
(* Before next_pid wraps, every task is younger than its parent and has a  *)
(* greater pid.  The sleepers of task_wait therefore cannot wait for each  *)
(* other in a circle: nobody is told NO_CHILD by task_wait because all     *)
(* others sleep, and task_exit halts the machine only when all are dead.   *)
(***************************************************************************)

\* Children are younger than their parents, and the next pid is fresh.
Younger ==
    \A t \in Listed : task[t].ppid < task[t].pid /\ task[t].pid < next_pid

FreshInv == Inv /\ Younger /\ HaltsWhenAllDead

-----------------------------------------------------------------------------
\* Some task of a nonempty set of listed tasks has the greatest pid.
LEMMA Youngest ==
    ASSUME Inv, NEW S \in SUBSET Listed, S # {}
    PROVE  \E t \in S : \A u \in S : task[u].pid <= task[t].pid
<1> DEFINE D == {MaxPid - task[t].pid : t \in S}
<1>1. \A t \in S : task[t].pid \in 1..MaxPid /\ MaxPid \in Nat
  BY PidAssumption DEF Inv, PidsUnique, Pid
<1>2. D \in SUBSET Nat /\ D # {}
  BY <1>1
<1>3. PICK m \in D : \A n \in D : m <= n
  BY <1>2, LeastNatural
<1>4. PICK t \in S : m = MaxPid - task[t].pid
  OBVIOUS
<1>5. \A u \in S : MaxPid - task[t].pid <= MaxPid - task[u].pid
  BY <1>3, <1>4
<1> QED
  BY <1>1, <1>5

\* Sleepers that are all younger than some living task have a runnable one
\* among them: the youngest cannot be asleep.
LEMMA RunnerAmongYounger ==
    ASSUME Inv, Younger, NEW n \in 0..MaxPid,
           \E t \in Listed : Alive(t) /\ task[t].pid > n
    PROVE  \E t \in Listed : task[t].state = "RUNNABLE" /\ task[t].pid > n
<1> DEFINE S == {t \in Listed : Alive(t) /\ task[t].pid > n}
<1>1. PICK t \in S : \A u \in S : task[u].pid <= task[t].pid
  BY Youngest
<1>2. \A u \in Listed : task[u].pid \in 1..MaxPid /\ task[u].ppid \in 0..MaxPid
  BY ListedTasks DEF Inv, PidsUnique, Pid, TypeOK, TaskStruct
<1>3. task[t].state # "BLOCKED"
  <2> SUFFICES ASSUME task[t].state = "BLOCKED" PROVE FALSE
    OBVIOUS
  <2>1. PICK c \in Listed : matches(c, t, task[t].wait_pid) /\ Alive(c)
    BY DEF Inv, WaiterHasLiveChild
  <2>2. task[c].pid > task[t].pid
    BY <2>1, <1>2 DEF Younger, matches
  <2>3. c \in S
    BY <2>1, <2>2, <1>2
  <2> QED
    BY <1>1, <1>2, <2>2, <2>3
<1> QED
  BY <1>1, <1>3 DEF Alive

\* A task that blocks leaves someone to run.
LEMMA SleeperCondition ==
    ASSUME Inv, Younger
    PROVE  SleeperLeavesRunner
<1> SUFFICES ASSUME machine = "running", NEW p \in -1..MaxPid,
                    Children(p) # {}, Zombies(p) = {}
             PROVE  \E t \in Listed \ {current} : task[t].state = "RUNNABLE"
  BY DEF SleeperLeavesRunner
<1>1. PICK c \in Listed : matches(c, current, p) /\ task[c].state # "ZOMBIE"
  BY DEF Children, Zombies
<1>2. /\ current \in Listed /\ task[current].pid \in 0..MaxPid
      /\ task[c].state \in State /\ task[c].state # "UNUSED"
      /\ task[c].pid \in 0..MaxPid /\ task[c].ppid \in 0..MaxPid
  BY ListedTasks DEF Inv, TypeOK, TaskStruct, PidsUnique
<1>3. Alive(c) /\ task[c].pid > task[current].pid
  BY <1>1, <1>2 DEF Alive, State, Younger, matches
<1>4. PICK t \in Listed : task[t].state = "RUNNABLE" /\ task[t].pid > task[current].pid
  BY <1>2, <1>3, RunnerAmongYounger
<1> QED
  BY <1>2, <1>4

\* next_task finds a runnable task if there is one.
LEMMA NextTaskExists ==
    ASSUME TypeOK, NEW tk, NEW u \in Listed, tk[u].state = "RUNNABLE"
    PROVE  next_task(tk) # NoTask
<1>1. Runnable(tk) \subseteq Listed /\ Runnable(tk) # {}
  BY DEF Runnable
<1>2. next_task(tk) \in Runnable(tk)
  BY <1>1, FirstAhead DEF next_task
<1> QED
  BY <1>1, <1>2, ListedTasks, TaskAssumption

\* While some task lives, some task is runnable.
LEMMA SomeoneRuns ==
    Inv /\ Younger =>
        ((\E t \in Listed : Alive(t)) => \E t \in Listed : task[t].state = "RUNNABLE")
<1> SUFFICES ASSUME Inv, Younger, NEW t \in Listed, Alive(t)
             PROVE  \E u \in Listed : task[u].state = "RUNNABLE"
  OBVIOUS
<1>1. 0 \in 0..MaxPid /\ task[t].pid > 0
  BY PidAssumption DEF Inv, PidsUnique, Pid
<1> QED
  BY <1>1, RunnerAmongYounger

-----------------------------------------------------------------------------
(* Parentage. *)

Kept == \A t \in Listed' : /\ t \in Listed
                           /\ task'[t].pid = task[t].pid
                           /\ task'[t].ppid = task[t].ppid

\* Only task_fork adds a task; nothing else changes a pid or a parent.
LEMMA ParentageKept ==
    ASSUME Inv, Next, ~Fork
    PROVE  Kept
<1> USE DEF Kept
<1>1. ASSUME UNCHANGED <<task_list, task>>
      PROVE  Kept
  BY <1>1 DEF Listed
<1>2. /\ task \in [Task -> TaskStruct] /\ Listed \subseteq Task
      /\ current \in Listed /\ frame \in Frame /\ fpu \in Fpu
  BY ListedTasks DEF Inv, TypeOK
<1>3. ASSUME NEW fr \in Frame, task_yield(fr), UNCHANGED task_list
      PROVE  Kept
  <2>1. task' = task \/ task' = Stored(fr, task)
    BY <1>3 DEF task_yield
  <2>2. Listed' = Listed
    BY <1>3 DEF Listed
  <2> QED
    BY <1>2, <2>1, <2>2 DEF Stored, TaskStruct
<1>4. CASE Tick \/ Yield
  <2>1. result_ok(0) \in Frame
    BY Values, PidAssumption
  <2> QED
    BY <1>2, <1>3, <1>4, <2>1 DEF Tick, Yield
<1>5. ASSUME NEW p \in WaitArg, NEW wanted \in StatusArg, WaitReap(p, wanted)
      PROVE  Kept
  <2>1. PICK child \in Zombies(p) :
          /\ task_list' = Unlinked(child)
          /\ task' = [task EXCEPT
                 ![current].word =
                     copy_status(current, wanted, task[child].exit_status),
                 ![child] = Blank]
    BY <1>5 DEF WaitReap
  <2>2. child \in Listed
    BY DEF Zombies, Children
  <2>3. Listed' = Listed \ {child}
    BY <2>1, <2>2, UnlinkListed DEF Inv
  <2> QED
    BY <1>2, <2>1, <2>2, <2>3 DEF TaskStruct
<1>6. ASSUME NEW p \in WaitArg, NEW wanted \in StatusArg, WaitBlock(p, wanted)
      PROVE  Kept
  <2> DEFINE tk == Waiting(p, wanted)
  <2>1. task' = Stored(frame, tk) /\ Listed' = Listed
    BY <1>6 DEF WaitBlock, Listed
  <2>2. /\ tk \in [Task -> TaskStruct]
        /\ \A t \in Task : tk[t].pid = task[t].pid /\ tk[t].ppid = task[t].ppid
    BY WaitingTable
  <2> HIDE DEF tk
  <2> QED
    BY <1>2, <2>1, <2>2 DEF Stored, TaskStruct
<1>7. ASSUME NEW p \in WaitArg, NEW wanted \in StatusArg, WaitAlone(p, wanted)
      PROVE  Kept
  <2> DEFINE tk == Waiting(p, wanted)
  <2>1. task' = [tk EXCEPT ![current].state = "RUNNABLE"] /\ Listed' = Listed
    BY <1>7 DEF WaitAlone, Listed
  <2>2. /\ tk \in [Task -> TaskStruct]
        /\ \A t \in Task : tk[t].pid = task[t].pid /\ tk[t].ppid = task[t].ppid
    BY WaitingTable
  <2> HIDE DEF tk
  <2> QED
    BY <1>2, <2>1, <2>2 DEF TaskStruct
<1>8. CASE Exec
  <2>1. Listed' = Listed
    BY <1>8 DEF Exec, Listed
  <2> QED
    BY <1>2, <1>8, <2>1 DEF Exec, TaskStruct
<1>9. ASSUME NEW c \in ExitArg, ExitWake(c)
      PROVE  Kept
  <2> DEFINE tk == Woken(c)
  <2>1. task' = [tk EXCEPT ![current] = Blank] /\ Listed' = Listed \ {current}
    BY <1>2, <1>9, UnlinkListed DEF ExitWake, Inv
  <2>2. /\ tk \in [Task -> TaskStruct]
        /\ \A t \in Task : tk[t].pid = task[t].pid /\ tk[t].ppid = task[t].ppid
    BY <1>9, WokenTable DEF ExitWake
  <2> HIDE DEF tk
  <2> QED
    BY <1>2, <2>1, <2>2
<1>10. ASSUME NEW c \in ExitArg, ExitZombie(c)
       PROVE  Kept
  <2> DEFINE tk == Dead(c)
  <2>1. task' = Stored(frame, tk) /\ Listed' = Listed
    BY <1>10 DEF ExitZombie, Listed
  <2>2. /\ tk \in [Task -> TaskStruct]
        /\ \A t \in Task : tk[t].pid = task[t].pid /\ tk[t].ppid = task[t].ppid
    BY DeadTable
  <2> HIDE DEF tk
  <2> QED
    BY <1>2, <2>1, <2>2 DEF Stored, TaskStruct
<1>11. ASSUME NEW c \in ExitArg, ExitLast(c)
       PROVE  Kept
  <2>1. /\ task' = IF ParentWaits THEN Woken(c) ELSE Dead(c)
        /\ Listed' = Listed /\ machine = "running"
    BY <1>11 DEF ExitLast, Listed
  <2> QED
    BY <1>2, <2>1, WokenTable, DeadTable
<1> QED
  BY <1>1, <1>4, <1>5, <1>6, <1>7, <1>8, <1>9, <1>10, <1>11
  DEF Next, Lifecycle, Replies, Compute, Exception, GetPid, ForkNoStruct,
      ForkNoMemory, WaitBadAddress, WaitNoChild, WaitNoHang, ExecFails, Halted, vars

\* Before the wrap, children stay younger than their parents.
LEMMA YoungerKept ==
    ASSUME Inv, Younger, Next, next_pid' >= next_pid
    PROVE  Younger'
<1>1. /\ next_pid \in Pid /\ next_pid' \in Pid /\ Pid \subseteq Nat
      /\ current \in Listed
      /\ \A t \in Listed : task[t].pid \in Pid /\ task[t].ppid \in 0..MaxPid
  <2>1. Inv'
    BY NextInv
  <2>2. Listed \subseteq Task
    BY ListedTasks DEF Inv
  <2>3. next_pid \in Pid /\ next_pid' \in Pid /\ Pid \subseteq Nat
    BY <2>1 DEF Inv, TypeOK, Pid
  <2>4. current \in Listed /\ task \in [Task -> TaskStruct]
    BY DEF Inv, TypeOK
  <2>5. \A t \in Listed : task[t].pid \in Pid /\ task[t].ppid \in 0..MaxPid
    BY <2>2, <2>4 DEF Inv, PidsUnique, TaskStruct
  <2> QED
    BY <2>3, <2>4, <2>5
<1>2. CASE ~Fork
  BY <1>1, <1>2, ParentageKept DEF Kept, Younger, Pid
<1>3. CASE Fork
  <2>1. PICK child \in Task \ Listed, p \in Pid :
          /\ alloc_pid(p)
          /\ task_list' = Append(task_list, child)
          /\ task' = [task EXCEPT
               ![current].arch_state = fpu,
               ![child] = [Blank EXCEPT
                   !.pid = p, !.ppid = task[current].pid, !.state = "RUNNABLE",
                   !.frame = result_ok(0), !.arch_state = fpu,
                   !.word = task[current].word]]
    BY <1>3 DEF Fork
  <2>2. Listed' = Listed \cup {child}
    BY <2>1, AppendListed DEF Inv
  <2>3. task \in [Task -> TaskStruct] /\ Listed \subseteq Task
    BY ListedTasks DEF Inv, TypeOK
  <2>4. /\ task'[child].pid = p /\ task'[child].ppid = task[current].pid
        /\ \A t \in Listed : /\ task'[t].pid = task[t].pid
                             /\ task'[t].ppid = task[t].ppid
    <3> DEFINE new == [Blank EXCEPT
                   !.pid = p, !.ppid = task[current].pid, !.state = "RUNNABLE",
                   !.frame = result_ok(0), !.arch_state = fpu,
                   !.word = task[current].word]
    <3>1. new.pid = p /\ new.ppid = task[current].pid
      BY DEF Blank
    <3>2. task' = [task EXCEPT ![current].arch_state = fpu, ![child] = new]
      BY <2>1
    <3> HIDE DEF new
    <3> QED
      BY <1>1, <2>3, <3>1, <3>2 DEF TaskStruct
  <2>5. task[current].pid # p /\ next_pid' = IF p = MaxPid THEN 1 ELSE p + 1
    BY <1>1, <2>1 DEF alloc_pid, UsedPids
  <2>6. p < next_pid' /\ task[current].pid < p
    BY <1>1, <2>5, PidAssumption DEF Younger, Pid
  <2> QED
    BY <1>1, <2>2, <2>4, <2>6 DEF Younger, Pid
<1> QED
  BY <1>2, <1>3

-----------------------------------------------------------------------------
(* The invariant of the behaviours before the wrap. *)

\* It holds when init enters user mode.
LEMMA FreshInit ==
    ASSUME Init
    PROVE  FreshInv
<1>1. Inv
  BY InitInv
<1>2. PICK t \in Task :
        /\ task_list = <<t>>
        /\ task = [u \in Task |-> IF u = t
                       THEN [Blank EXCEPT !.pid = 1, !.state = "RUNNABLE"]
                       ELSE Blank]
  BY DEF Init
<1>3. Listed = {t}
  BY <1>2 DEF Listed
<1>4. task[t].pid = 1 /\ task[t].ppid = 0
  BY <1>2 DEF Blank
<1> QED
  BY <1>1, <1>3, <1>4 DEF FreshInv, Younger, HaltsWhenAllDead, Init

\* The last task_exit leaves only dead tasks behind.
LEMMA LastExit ==
    ASSUME FreshInv, NEW c \in ExitArg, ExitLast(c), Inv', Younger'
    PROVE  HaltsWhenAllDead'
<1> DEFINE final == IF ParentWaits THEN Woken(c) ELSE Dead(c)
<1>1. next_task(final) = NoTask /\ task' = final /\ Listed' = Listed
  BY DEF ExitLast, Listed
<1>2. \A t \in Listed : task'[t].state # "RUNNABLE"
  BY <1>1, NextTaskExists DEF FreshInv, Inv
<1>3. (Inv /\ Younger =>
        ((\E t \in Listed : Alive(t)) => \E t \in Listed : task[t].state = "RUNNABLE"))'
  BY SomeoneRuns, PTL
<1>4. \A t \in Listed' : ~Alive(t)'
  <2>1. ~(\E t \in Listed' : Alive(t)')
    BY <1>1, <1>2, <1>3
  <2> QED
    BY <2>1
<1> QED
  BY <1>4 DEF HaltsWhenAllDead

\* Every step before the wrap preserves it.
LEMMA FreshNext ==
    ASSUME FreshInv, [Next /\ next_pid' >= next_pid]_vars
    PROVE  FreshInv'
<1>1. CASE UNCHANGED vars
  BY <1>1, SMTT(40) DEF vars, FreshInv, Younger, HaltsWhenAllDead, Inv, TypeOK, CurrentRuns,
              PidsUnique, WaiterHasLiveChild, WaiterHasNoZombie, Listed, matches, Alive
<1>2. CASE Next /\ next_pid' >= next_pid
  <2>1. Inv' /\ Younger'
    BY <1>2, NextInv, YoungerKept DEF FreshInv
  <2>2. CASE \E c \in ExitArg : ExitLast(c)
    BY <2>1, <2>2, LastExit DEF FreshInv
  <2>3. CASE Halted
    BY <1>1, <2>3 DEF Halted
  <2>4. CASE ~Halted /\ ~(\E c \in ExitArg : ExitLast(c))
    <3>1. machine = "running" /\ machine' # "exited"
      BY <1>2, <2>4
      DEF Next, Lifecycle, Replies, Compute, Exception, Tick, Yield, GetPid, Fork,
          ForkNoStruct, ForkNoMemory, WaitBadAddress, WaitNoChild, WaitNoHang,
          WaitReap, WaitBlock, WaitAlone, Exec, ExecFails, ExitWake, ExitZombie
    <3> QED
      BY <2>1, <3>1 DEF FreshInv, HaltsWhenAllDead
  <2> QED
    BY <2>1, <2>2, <2>3, <2>4 DEF FreshInv
<1> QED
  BY <1>1, <1>2

\* Before the wrap, task_wait never reports NO_CHILD to a task that has one.
THEOREM WaitersLeaveRunners == FreshSpec => []SleeperLeavesRunner
<1>1. FreshInv => SleeperLeavesRunner
  BY SleeperCondition DEF FreshInv
<1> QED
  BY <1>1, FreshInit, FreshNext, PTL DEF FreshSpec

\* Before the wrap, the kernel halts on task_exit only when every task is dead.
THEOREM HaltsOnlyWhenAllDead == FreshSpec => []HaltsWhenAllDead
<1>1. FreshInv => HaltsWhenAllDead
  BY DEF FreshInv
<1> QED
  BY <1>1, FreshInit, FreshNext, PTL DEF FreshSpec

-----------------------------------------------------------------------------
(***************************************************************************)
(* The table implements independent processes.  Proc is a function of the  *)
(* pids in use, and as pids are unique each entry shows one struct: an     *)
(* operation on the running task changes its own entry and no other.       *)
(***************************************************************************)

\* What is shown of a struct whose context is frame fr and FPU image f.
Seen(st, fr, f) ==
    IF st.state = "ZOMBIE" THEN P!Corpse(st.ppid, st.exit_status)
    ELSE [parent |-> st.ppid, code |-> 0,
          phase |-> IF st.state = "BLOCKED" THEN "waiting" ELSE "running",
          awaited |-> IF st.state = "BLOCKED" THEN st.wait_pid ELSE 0,
          wanted |-> st.state = "BLOCKED" /\ st.wait_status,
          ret |-> fr, fpu |-> f, word |-> st.word]

\* What is shown of a running one.
Live(st, fr, f) ==
    [parent |-> st.ppid, code |-> 0, phase |-> "running", awaited |-> 0,
     wanted |-> FALSE, ret |-> fr, fpu |-> f, word |-> st.word]

\* The entry of task t: the live context if t is running, else the stored one.
Entry(t) == IF t = current THEN Seen(task[t], frame, fpu)
            ELSE Seen(task[t], task[t].frame, task[t].arch_state)

\* Every listed task has its entry, and there are no others.
LEMMA ProcEntries ==
    Inv => /\ Proc = [q \in UsedPids |-> Proc[q]]
           /\ \A t \in Listed : task[t].pid \in UsedPids /\ Proc[task[t].pid] = Entry(t)
           /\ \A q \in UsedPids : \E t \in Listed : q = task[t].pid
<1> SUFFICES ASSUME Inv
             PROVE  /\ Proc = [q \in UsedPids |-> Proc[q]]
                    /\ \A t \in Listed : task[t].pid \in UsedPids /\ Proc[task[t].pid] = Entry(t)
                    /\ \A q \in UsedPids : \E t \in Listed : q = task[t].pid
  OBVIOUS
<1>1. Proc = [q \in UsedPids |-> Proc[q]]
  BY DEF Proc
<1>2. \A q \in UsedPids : \E t \in Listed : q = task[t].pid
  BY DEF UsedPids
<1>3. ASSUME NEW t \in Listed
      PROVE  task[t].pid \in UsedPids /\ Proc[task[t].pid] = Entry(t)
  <2>1. task[t].pid \in UsedPids
    BY DEF UsedPids
  <2>2. Proc[task[t].pid] = Shown(t)
    <3>1. Owner(task[t].pid) = t
      BY <2>1, FindTask DEF find_task, Inv
    <3> QED
      BY <2>1, <3>1 DEF Proc
  <2>3. Shown(t) = Entry(t)
    BY DEF Shown, Entry, Seen, Context, P!Corpse, P!Ok, result_ok
  <2> QED
    BY <2>1, <2>2, <2>3
<1> QED
  BY <1>1, <1>2, <1>3

\* The running process is shown as running.
LEMMA CurrentShown ==
    Inv /\ machine = "running" =>
        task[current].pid \in P!Running /\ Stopped = "no"
<1> SUFFICES ASSUME Inv, machine = "running"
             PROVE  task[current].pid \in P!Running /\ Stopped = "no"
  OBVIOUS
<1>1. current \in Listed /\ task[current].state = "RUNNABLE"
  BY DEF Inv, TypeOK, CurrentRuns
<1>2. task[current].pid \in DOMAIN Proc /\ Proc[task[current].pid] = Entry(current)
  BY <1>1, ProcEntries
<1>3. Entry(current).phase = "running"
  BY <1>1 DEF Entry, Seen
<1> QED
  BY <1>2, <1>3 DEF P!Running, Stopped

\* A call of the running process that leaves the machine running.
LEMMA CallStep ==
    ASSUME Inv, Inv', machine = "running", machine' = "running",
           P!PCall(task[current].pid)
    PROVE  P!PNext
<1>1. task[current].pid \in P!Running /\ Stopped = "no"
  BY CurrentShown
<1>2. (Inv /\ machine = "running" =>
        task[current].pid \in P!Running /\ Stopped = "no")'
  BY CurrentShown, PTL
<1>3. P!Running' # {} /\ Stopped' = "no"
  BY <1>2
<1> QED
  BY <1>1, <1>3 DEF P!PNext

\* A step in which only the entry of task me changes.
LEMMA OneEntry ==
    ASSUME Inv, Inv', Listed' = Listed, NEW me \in Listed,
           \A t \in Listed : task'[t].pid = task[t].pid,
           \A t \in Listed : t # me => Entry(t)' = Entry(t)
    PROVE  Proc' = [Proc EXCEPT ![task[me].pid] = Entry(me)']
<1>1. (Inv => /\ Proc = [q \in UsedPids |-> Proc[q]]
              /\ \A t \in Listed : task[t].pid \in UsedPids /\ Proc[task[t].pid] = Entry(t)
              /\ \A q \in UsedPids : \E t \in Listed : q = task[t].pid)'
  BY ProcEntries, PTL
<1>2. /\ Proc = [q \in UsedPids |-> Proc[q]]
      /\ \A t \in Listed : task[t].pid \in UsedPids /\ Proc[task[t].pid] = Entry(t)
      /\ \A q \in UsedPids : \E t \in Listed : q = task[t].pid
  BY ProcEntries
<1>3. UsedPids' = UsedPids
  BY DEF UsedPids
<1>4. \A t, u \in Listed : task[t].pid = task[u].pid => t = u
  BY DEF Inv, PidsUnique
<1>5. /\ Proc' = [q \in UsedPids |-> Proc'[q]]
      /\ \A t \in Listed : Proc'[task[t].pid] = Entry(t)'
  BY <1>1, <1>3
<1>6. PICK P0 : P0 = Proc
  OBVIOUS
<1>7. PICK v : v = Entry(me)'
  OBVIOUS
<1>8. \A q \in UsedPids : Proc'[q] = IF q = task[me].pid THEN v ELSE P0[q]
  BY <1>2, <1>4, <1>5, <1>6, <1>7
<1> QED
  BY <1>2, <1>5, <1>6, <1>7, <1>8

\* A call that ends in its caller.
LEMMA OwnEntry ==
    ASSUME Inv, Inv', Listed' = Listed, NEW me \in Listed, me = current,
           current' = current, task'[me].pid = task[me].pid,
           \A t \in Listed : t # me => task'[t] = task[t]
    PROVE  Proc' = [Proc EXCEPT ![task[me].pid] = Seen(task'[me], frame', fpu')]
<1>1. \A t \in Listed : task'[t].pid = task[t].pid
  OBVIOUS
<1>2. \A t \in Listed : t # me => Entry(t)' = Entry(t)
  BY DEF Entry
<1>3. Entry(me)' = Seen(task'[me], frame', fpu')
  BY DEF Entry
<1>4. Proc' = [Proc EXCEPT ![task[me].pid] = Entry(me)']
  BY <1>1, <1>2, OneEntry
<1> QED
  BY <1>3, <1>4

\* switch_to: the entry of the task that is left shows the stored context, and
\* that of the task that is entered does not change.
LEMMA SwitchEntry ==
    ASSUME Inv, Inv', Listed' = Listed, NEW me \in Listed, me = current,
           NEW next \in Listed, next # me, NEW fr, NEW tk \in [Task -> TaskStruct],
           task' = Stored(fr, tk), Load(next, task'),
           tk[me].pid = task[me].pid,
           \A t \in Listed : t # me => tk[t] = task[t]
    PROVE  Proc' = [Proc EXCEPT ![task[me].pid] = Seen(tk[me], fr, fpu)]
<1>1. me \in Task /\ Listed \subseteq Task
  BY ListedTasks DEF Inv
<1>2. /\ task'[me] = [tk[me] EXCEPT !.frame = fr, !.arch_state = fpu]
      /\ \A t \in Listed : t # me => task'[t] = task[t]
  BY <1>1 DEF Stored, TaskStruct
<1>3. tk[me] \in TaskStruct
  BY <1>1
<1>4. /\ task'[me].pid = tk[me].pid /\ task'[me].ppid = tk[me].ppid
      /\ task'[me].state = tk[me].state /\ task'[me].exit_status = tk[me].exit_status
      /\ task'[me].wait_pid = tk[me].wait_pid /\ task'[me].wait_status = tk[me].wait_status
      /\ task'[me].word = tk[me].word
      /\ task'[me].frame = fr /\ task'[me].arch_state = fpu
  BY <1>2, <1>3 DEF TaskStruct
<1>5. /\ current' = next /\ frame' = task[next].frame /\ fpu' = task[next].arch_state
  BY <1>2 DEF Load
<1>6. \A t \in Listed : task'[t].pid = task[t].pid
  BY <1>2, <1>4
<1>7. \A t \in Listed : t # me => Entry(t)' = Entry(t)
  BY <1>2, <1>5 DEF Entry
<1>8. Entry(me)' = Seen(tk[me], fr, fpu)
  <2>1. Entry(me)' = Seen(task'[me], task'[me].frame, task'[me].arch_state)
    BY <1>5 DEF Entry
  <2> QED
    BY <2>1, <1>4 DEF Seen
<1>9. Proc' = [Proc EXCEPT ![task[me].pid] = Entry(me)']
  BY <1>6, <1>7, OneEntry
<1> QED
  BY <1>8, <1>9

\* A runnable struct is shown as a running process, and a result only changes
\* the registers.
LEMMA LiveEntry ==
    ASSUME NEW st, NEW fr, NEW f, NEW x, x = Live(st, fr, f)
    PROVE  /\ st.state = "RUNNABLE" => Seen(st, fr, f) = x
           /\ \A r : [x EXCEPT !.ret = r] = Live(st, r, f)
           /\ \A g : [x EXCEPT !.fpu = g] = Live(st, fr, g)
<1>1. st.state = "RUNNABLE" => Seen(st, fr, f) = Live(st, fr, f)
  BY DEF Seen, Live
<1>2. x \in [parent : {st.ppid}, code : {0}, phase : {"running"}, awaited : {0},
             wanted : {FALSE}, ret : {fr}, fpu : {f}, word : {st.word}]
  BY DEF Live
<1>3. ASSUME NEW r PROVE [x EXCEPT !.ret = r] = Live(st, r, f)
  <2>1. [x EXCEPT !.ret = r] =
          [parent |-> x.parent, code |-> x.code, phase |-> x.phase, awaited |-> x.awaited,
           wanted |-> x.wanted, ret |-> r, fpu |-> x.fpu, word |-> x.word]
    BY <1>2
  <2> QED
    BY <1>2, <2>1 DEF Live
<1>4. ASSUME NEW g PROVE [x EXCEPT !.fpu = g] = Live(st, fr, g)
  <2>1. [x EXCEPT !.fpu = g] =
          [parent |-> x.parent, code |-> x.code, phase |-> x.phase, awaited |-> x.awaited,
           wanted |-> x.wanted, ret |-> x.ret, fpu |-> g, word |-> x.word]
    BY <1>2
  <2> QED
    BY <1>2, <2>1 DEF Live
<1> QED
  BY <1>1, <1>3, <1>4

-----------------------------------------------------------------------------
(* The operations, one by one. *)

\* The entry of the running task, as a process.
LEMMA OwnProc ==
    ASSUME Inv, machine = "running"
    PROVE  /\ current \in Listed /\ current \in Task
           /\ task[current] \in TaskStruct /\ task[current].state = "RUNNABLE"
           /\ task[current].pid \in Pid
           /\ task[current].pid \in DOMAIN Proc
           /\ Proc = [q \in DOMAIN Proc |-> Proc[q]]
           /\ Proc[task[current].pid] =
                Live(task[current], frame, fpu)
<1>1. /\ current \in Listed /\ current \in Task /\ task[current] \in TaskStruct
      /\ task[current].state = "RUNNABLE" /\ task[current].pid \in Pid
  BY ListedTasks DEF Inv, TypeOK, CurrentRuns, PidsUnique
<1>2. /\ task[current].pid \in UsedPids /\ Proc[task[current].pid] = Entry(current)
      /\ Proc = [q \in UsedPids |-> Proc[q]]
  BY <1>1, ProcEntries
<1>3. Entry(current) = Live(task[current], frame, fpu)
  BY <1>1 DEF Entry, Seen, Live
<1>4. DOMAIN Proc = UsedPids
  BY <1>2
<1> QED
  BY <1>1, <1>2, <1>3, <1>4

\* A call that only gives its caller a result.
LEMMA ReplyProc ==
    ASSUME Inv, Inv', machine = "running", NEW r, return_result(r),
           UNCHANGED <<task_list, task>>
    PROVE  P!Returns(task[current].pid, r)
<1>1. PICK me : me = current
  OBVIOUS
<1>2. PICK p : p = task[me].pid
  OBVIOUS
<1>3. /\ me \in Listed /\ Listed' = Listed /\ frame' = r /\ UNCHANGED <<current, fpu, task>>
      /\ task[me].state = "RUNNABLE"
  BY <1>1, OwnProc DEF Listed, return_result
<1>4. Proc' = [Proc EXCEPT ![task[me].pid] = Seen(task'[me], frame', fpu')]
  BY <1>1, <1>3, OwnEntry
<1>5. Proc[p] = Live(task[me], frame, fpu)
  BY <1>1, <1>2, OwnProc
<1>6. Seen(task[me], r, fpu) = [Proc[p] EXCEPT !.ret = r]
  BY <1>3, <1>5, LiveEntry
<1> QED
  BY <1>1, <1>2, <1>3, <1>4, <1>6 DEF P!Returns

\* task_yield with result fr.
LEMMA YieldProc ==
    ASSUME Inv, Inv', machine = "running", NEW fr, task_yield(fr),
           UNCHANGED task_list
    PROVE  P!Returns(task[current].pid, fr)
<1>1. CASE next_task(task) \in {NoTask, current}
  <2>1. return_result(fr) /\ UNCHANGED task
    BY <1>1 DEF task_yield, return_result
  <2> QED
    BY <2>1, ReplyProc
<1>2. CASE next_task(task) \notin {NoTask, current}
  <2>1. PICK me : me = current
    OBVIOUS
  <2>2. PICK p : p = task[me].pid
    OBVIOUS
  <2>3. PICK next : next = next_task(task)
    OBVIOUS
  <2>4. /\ me \in Listed /\ Listed' = Listed /\ task[me].state = "RUNNABLE"
        /\ task \in [Task -> TaskStruct]
    BY <2>1, OwnProc DEF Listed, Inv, TypeOK
  <2>5. task' = Stored(fr, task) /\ Load(next, task')
    BY <1>2, <2>3 DEF task_yield
  <2>6. next \in Listed /\ next # me
    BY <1>2, <2>1, <2>3, NextTask DEF Inv
  <2>7. Proc' = [Proc EXCEPT ![task[me].pid] = Seen(task[me], fr, fpu)]
    BY <2>1, <2>4, <2>5, <2>6, SwitchEntry
  <2>8. Proc[p] = Live(task[me], frame, fpu)
    BY <2>1, <2>2, OwnProc
  <2>9. Seen(task[me], fr, fpu) = [Proc[p] EXCEPT !.ret = fr]
    BY <2>4, <2>8, LiveEntry
  <2> QED
    BY <2>1, <2>2, <2>7, <2>9 DEF P!Returns
<1> QED
  BY <1>1, <1>2

\* User code that computes.
LEMMA ComputeProc ==
    ASSUME Inv, Inv', Compute
    PROVE  P!PCompute(task[current].pid)
<1>1. PICK me : me = current
  OBVIOUS
<1>2. PICK p : p = task[me].pid
  OBVIOUS
<1>3. /\ me \in Listed /\ Listed' = Listed /\ UNCHANGED <<current, frame, task>>
      /\ task[me].state = "RUNNABLE" /\ fpu' \in Fpu
  BY <1>1, OwnProc DEF Listed, Compute
<1>4. Proc' = [Proc EXCEPT ![task[me].pid] = Seen(task'[me], frame', fpu')]
  BY <1>1, <1>3, OwnEntry
<1>5. Proc[p] = Live(task[me], frame, fpu)
  BY <1>1, <1>2, OwnProc DEF Compute
<1>6. PICK g \in Fpu : g = fpu'
  BY <1>3
<1>7. Seen(task[me], frame, g) = Live(task[me], frame, g)
  BY <1>3, LiveEntry
<1>8. [Proc[p] EXCEPT !.fpu = g] = Live(task[me], frame, g)
  BY <1>5, LiveEntry
<1> QED
  BY <1>1, <1>2, <1>3, <1>4, <1>6, <1>7, <1>8 DEF P!PCompute

\* A tick shows nowhere.
LEMMA TickProc ==
    ASSUME Inv, Inv', Tick
    PROVE  Proc' = Proc /\ Stopped' = Stopped
<1>1. PICK p : p = task[current].pid
  OBVIOUS
<1>2. /\ p \in DOMAIN Proc /\ Proc = [q \in DOMAIN Proc |-> Proc[q]]
      /\ Proc[p] = Live(task[current], frame, fpu)
  BY <1>1, OwnProc DEF Tick
<1>3. Proc' = [Proc EXCEPT ![p].ret = frame]
  BY <1>1, YieldProc DEF Tick, P!Returns
<1>4. [Proc[p] EXCEPT !.ret = frame] = Proc[p]
  BY <1>2, LiveEntry
<1>5. Proc' = [Proc EXCEPT ![p] = Proc[p]]
  BY <1>3, <1>4
<1> QED
  BY <1>2, <1>5 DEF Tick, Stopped

\* What the entry of a listed task says of its struct.
LEMMA EntryFields ==
    ASSUME Inv, NEW t \in Listed
    PROVE  /\ task[t].pid \in DOMAIN Proc
           /\ Proc[task[t].pid].parent = task[t].ppid
           /\ Proc[task[t].pid].phase = "running" <=> task[t].state = "RUNNABLE"
           /\ Proc[task[t].pid].phase = "waiting" <=> task[t].state = "BLOCKED"
           /\ Proc[task[t].pid].phase = "exited" <=> task[t].state = "ZOMBIE"
           /\ task[t].state = "ZOMBIE" => Proc[task[t].pid].code = task[t].exit_status
           /\ task[t].state = "BLOCKED" =>
                /\ Proc[task[t].pid].awaited = task[t].wait_pid
                /\ Proc[task[t].pid].wanted = task[t].wait_status
<1>1. /\ task[t].pid \in UsedPids /\ Proc[task[t].pid] = Entry(t)
      /\ Proc = [q \in UsedPids |-> Proc[q]]
  BY ProcEntries
<1>2. task[t] \in TaskStruct /\ task[t].state \in State /\ task[t].state # "UNUSED"
      /\ task[t].wait_status \in BOOLEAN
  BY ListedTasks DEF Inv, TypeOK, PidsUnique, TaskStruct
<1>3. PICK fr, f : Entry(t) = Seen(task[t], fr, f)
  BY DEF Entry
<1>4. CASE task[t].state = "ZOMBIE"
  BY <1>1, <1>3, <1>4 DEF Seen, P!Corpse
<1>5. CASE task[t].state = "RUNNABLE"
  BY <1>1, <1>3, <1>5 DEF Seen
<1>6. CASE task[t].state = "BLOCKED"
  BY <1>1, <1>2, <1>3, <1>6 DEF Seen
<1> QED
  BY <1>2, <1>4, <1>5, <1>6 DEF State

\* The children that wait is about, and the running processes, by pid.
LEMMA KidsShown ==
    ASSUME Inv, machine = "running", NEW w
    PROVE  /\ P!Kids(task[current].pid, w) = {task[t].pid : t \in Children(w)}
           /\ P!Exited(task[current].pid, w) = {task[t].pid : t \in Zombies(w)}
           /\ P!Running = {task[t].pid : t \in Runnable(task)}
<1>1. DOMAIN Proc = {task[t].pid : t \in Listed}
  <2>1. DOMAIN Proc = UsedPids
    BY ProcEntries
  <2> QED
    BY <2>1 DEF UsedPids
<1>2. \A t \in Listed : /\ Proc[task[t].pid].parent = task[t].ppid
                        /\ Proc[task[t].pid].phase = "exited" <=> task[t].state = "ZOMBIE"
                        /\ Proc[task[t].pid].phase = "running" <=> task[t].state = "RUNNABLE"
  BY EntryFields
<1>3. P!Kids(task[current].pid, w) = {task[t].pid : t \in Children(w)}
  BY <1>1, <1>2 DEF P!Kids, P!AnyChild, Children, matches, AnyPid
<1>4. P!Exited(task[current].pid, w) = {task[t].pid : t \in Zombies(w)}
  BY <1>2, <1>3 DEF P!Exited, Zombies, Children
<1>5. P!Running = {task[t].pid : t \in Runnable(task)}
  BY <1>1, <1>2 DEF P!Running, Runnable
<1> QED
  BY <1>3, <1>4, <1>5

\* A running entry after exec, after a reaped child, in a forked child and asleep.
LEMMA LiveUpdates ==
    ASSUME NEW st, NEW fr, NEW f, NEW x, x = Live(st, fr, f)
    PROVE  /\ \A s : s.ppid = st.ppid /\ s.word = 0 =>
                P!Replaced(x) = Live(s, P!Ok(0), CleanFpu)
           /\ \A s, c, wd : s.ppid = st.ppid /\ s.word = wd =>
                P!Told(x, c, wd) = Live(s, P!Ok(c), f)
           /\ \A s, q : s.ppid = q /\ s.word = st.word =>
                P!Child(x, q) = Live(s, P!Ok(0), f)
           /\ \A s, w : \A b \in BOOLEAN :
                /\ s.state = "BLOCKED" /\ s.ppid = st.ppid /\ s.wait_pid = w
                /\ s.wait_status = b /\ s.word = st.word
                => P!Asleep(x, w, b) = Seen(s, fr, f)
<1>1. x \in [parent : {st.ppid}, code : {0}, phase : {"running"}, awaited : {0},
             wanted : {FALSE}, ret : {fr}, fpu : {f}, word : {st.word}]
  BY DEF Live
<1>2. ASSUME NEW pa, NEW ph, NEW aw, NEW b, NEW r, NEW g, NEW wd,
             NEW v \in [parent : {pa}, code : {0}, phase : {ph}, awaited : {aw},
                        wanted : {b}, ret : {r}, fpu : {g}, word : {wd}]
      PROVE  v = [parent |-> pa, code |-> 0, phase |-> ph, awaited |-> aw,
                  wanted |-> b, ret |-> r, fpu |-> g, word |-> wd]
  OBVIOUS
<1>3. ASSUME NEW s, s.ppid = st.ppid, s.word = 0
      PROVE  P!Replaced(x) = Live(s, P!Ok(0), CleanFpu)
  <2>1. P!Replaced(x) \in
          [parent : {st.ppid}, code : {0}, phase : {"running"}, awaited : {0},
           wanted : {FALSE}, ret : {P!Ok(0)}, fpu : {CleanFpu}, word : {0}]
    BY <1>1 DEF P!Replaced
  <2>2. P!Replaced(x) =
           [parent |-> st.ppid, code |-> 0, phase |-> "running", awaited |-> 0,
            wanted |-> FALSE, ret |-> P!Ok(0), fpu |-> CleanFpu, word |-> 0]
    BY <1>2, <2>1, Zenon
  <2> QED
    BY <1>3, <2>2 DEF Live
<1>4. ASSUME NEW s, NEW c, NEW wd, s.ppid = st.ppid, s.word = wd
      PROVE  P!Told(x, c, wd) = Live(s, P!Ok(c), f)
  <2>1. P!Told(x, c, wd) \in
          [parent : {st.ppid}, code : {0}, phase : {"running"}, awaited : {0},
           wanted : {FALSE}, ret : {P!Ok(c)}, fpu : {f}, word : {wd}]
    BY <1>1 DEF P!Told
  <2>2. P!Told(x, c, wd) =
           [parent |-> st.ppid, code |-> 0, phase |-> "running", awaited |-> 0,
            wanted |-> FALSE, ret |-> P!Ok(c), fpu |-> f, word |-> wd]
    BY <1>2, <2>1, Zenon
  <2> QED
    BY <1>4, <2>2 DEF Live
<1>5. ASSUME NEW s, NEW q, s.ppid = q, s.word = st.word
      PROVE  P!Child(x, q) = Live(s, P!Ok(0), f)
  <2>1. P!Child(x, q) \in
          [parent : {q}, code : {0}, phase : {"running"}, awaited : {0},
           wanted : {FALSE}, ret : {P!Ok(0)}, fpu : {f}, word : {st.word}]
    BY <1>1 DEF P!Child
  <2>2. P!Child(x, q) =
           [parent |-> q, code |-> 0, phase |-> "running", awaited |-> 0,
            wanted |-> FALSE, ret |-> P!Ok(0), fpu |-> f, word |-> st.word]
    BY <1>2, <2>1, Zenon
  <2> QED
    BY <1>5, <2>2 DEF Live
<1>6. ASSUME NEW s, NEW w, NEW b \in BOOLEAN, s.state = "BLOCKED", s.ppid = st.ppid,
             s.wait_pid = w, s.wait_status = b, s.word = st.word
      PROVE  P!Asleep(x, w, b) = Seen(s, fr, f)
  <2>1. P!Asleep(x, w, b) \in
          [parent : {st.ppid}, code : {0}, phase : {"waiting"}, awaited : {w},
           wanted : {b}, ret : {fr}, fpu : {f}, word : {st.word}]
    BY <1>1 DEF P!Asleep
  <2>2. P!Asleep(x, w, b) =
           [parent |-> st.ppid, code |-> 0, phase |-> "waiting", awaited |-> w,
            wanted |-> b, ret |-> fr, fpu |-> f, word |-> st.word]
    BY <1>2, <2>1, Zenon
  <2> QED
    BY <1>6, <2>2 DEF Seen
<1> QED
  BY <1>3, <1>4, <1>5, <1>6, Zenon

\* task_exec.
LEMMA ExecProc ==
    ASSUME Inv, Inv', Exec
    PROVE  P!PExec(task[current].pid)
<1>1. PICK me : me = current
  OBVIOUS
<1>2. PICK p : p = task[me].pid
  OBVIOUS
<1>3. /\ me \in Listed /\ me \in Task /\ Listed' = Listed /\ current' = current
      /\ task[me].state = "RUNNABLE" /\ task[me] \in TaskStruct
      /\ Listed \subseteq Task /\ task \in [Task -> TaskStruct]
      /\ p \in DOMAIN Proc /\ Proc = [q \in DOMAIN Proc |-> Proc[q]]
      /\ Proc[p] = Live(task[me], frame, fpu)
  BY <1>1, <1>2, OwnProc, ListedTasks DEF Listed, Exec, Inv, TypeOK
<1>4. task' = [task EXCEPT ![me].arch_state = CleanFpu, ![me].word = 0]
  BY <1>1 DEF Exec
<1>5. /\ task'[me].pid = p /\ task'[me].ppid = task[me].ppid
      /\ task'[me].state = "RUNNABLE" /\ task'[me].word = 0
      /\ \A t \in Listed : t # me => task'[t] = task[t]
  BY <1>2, <1>3, <1>4 DEF TaskStruct
<1>6. Proc' = [Proc EXCEPT ![task[me].pid] = Seen(task'[me], frame', fpu')]
  BY <1>1, <1>2, <1>3, <1>5, OwnEntry
<1>7. Seen(task'[me], frame', fpu') = Live(task'[me], frame', fpu')
  BY <1>5, LiveEntry
<1>8. PICK x : x = Proc[p]
  OBVIOUS
<1>9. x = Live(task[me], frame, fpu)
  BY <1>3, <1>8
<1>10. P!Replaced(x) = Live(task'[me], P!Ok(0), CleanFpu)
  BY <1>5, <1>9, LiveUpdates
<1>11. frame' = P!Ok(0) /\ fpu' = CleanFpu
  BY DEF Exec, P!Ok, result_ok
<1> QED
  BY <1>1, <1>2, <1>6, <1>7, <1>8, <1>10, <1>11 DEF P!PExec

\* task_wait when there is no child to wait for.
LEMMA NoChildProc ==
    ASSUME Inv, Inv', NEW w \in WaitArg, WaitNoChild(w)
    PROVE  P!PNoChild(task[current].pid, w)
<1>1. /\ P!Kids(task[current].pid, w) = {}
      /\ P!Exited(task[current].pid, w) = {}
  BY KidsShown DEF WaitNoChild, Zombies
<1>2. P!Returns(task[current].pid, result_error("NO_CHILD"))
  BY ReplyProc DEF WaitNoChild
<1> QED
  BY <1>1, <1>2 DEF P!PNoChild, P!Err, result_error

\* task_wait when nobody else can run.
LEMMA AloneProc ==
    ASSUME Inv, Inv', NEW w \in WaitArg, NEW wanted \in StatusArg, WaitAlone(w, wanted)
    PROVE  P!PNoChild(task[current].pid, w)
<1>1. PICK me : me = current
  OBVIOUS
<1>2. PICK p : p = task[me].pid
  OBVIOUS
<1>3. /\ me \in Listed /\ me \in Task /\ Listed' = Listed
      /\ UNCHANGED <<current, fpu>> /\ frame' = result_error("NO_CHILD")
      /\ task[me].state = "RUNNABLE" /\ task[me] \in TaskStruct
      /\ Listed \subseteq Task /\ task \in [Task -> TaskStruct]
      /\ p \in DOMAIN Proc /\ Proc[p] = Live(task[me], frame, fpu)
  BY <1>1, <1>2, OwnProc, ListedTasks DEF Listed, WaitAlone, return_result, Inv, TypeOK
<1>4. /\ task' = [Waiting(w, wanted) EXCEPT ![me].state = "RUNNABLE"]
      /\ next_task(Waiting(w, wanted)) = NoTask /\ Zombies(w) = {}
  BY <1>1 DEF WaitAlone
<1>5. PICK tk : tk = Waiting(w, wanted)
  OBVIOUS
<1>6. /\ tk \in [Task -> TaskStruct] /\ tk[me].pid = p /\ tk[me].ppid = task[me].ppid
      /\ \A t \in Task : t # me => tk[t] = task[t]
  BY <1>1, <1>2, <1>3, <1>5, WaitingTable
<1>7. tk[me].word = task[me].word
  BY <1>1, <1>3, <1>5 DEF Waiting, TaskStruct
<1>8. /\ task'[me].pid = p /\ task'[me].ppid = task[me].ppid
      /\ task'[me].state = "RUNNABLE" /\ task'[me].word = task[me].word
      /\ \A t \in Listed : t # me => task'[t] = task[t]
  BY <1>3, <1>4, <1>5, <1>6, <1>7 DEF TaskStruct
<1>9. Proc' = [Proc EXCEPT ![task[me].pid] = Seen(task'[me], frame', fpu')]
  BY <1>1, <1>2, <1>3, <1>8, OwnEntry
<1>10. Seen(task'[me], frame', fpu') = Live(task[me], result_error("NO_CHILD"), fpu)
  <2>1. Seen(task'[me], frame', fpu') = Live(task'[me], frame', fpu')
    BY <1>8, LiveEntry
  <2> QED
    BY <1>3, <1>8, <2>1 DEF Live
<1>11. [Proc[p] EXCEPT !.ret = result_error("NO_CHILD")] = Live(task[me], result_error("NO_CHILD"), fpu)
  BY <1>3, LiveEntry
<1>12. P!Returns(p, P!Err("NO_CHILD"))
  BY <1>2, <1>9, <1>10, <1>11 DEF P!Returns, P!Err, result_error
<1>13. \A t \in Listed : t # me => task[t].state # "RUNNABLE"
  BY <1>3, <1>4, <1>5, <1>6, NextTaskExists DEF Inv
<1>14. P!Running = {p} /\ P!Exited(p, w) = {}
  <2>1. Runnable(task) = {me}
    BY <1>3, <1>13 DEF Runnable
  <2>2. /\ P!Running = {task[t].pid : t \in Runnable(task)}
        /\ P!Exited(p, w) = {task[t].pid : t \in Zombies(w)}
    BY <1>1, <1>2, KidsShown DEF WaitAlone
  <2> QED
    BY <1>2, <1>4, <2>1, <2>2
<1> QED
  BY <1>1, <1>2, <1>12, <1>14 DEF P!PNoChild

\* task_wait blocking.
LEMMA BlockProc ==
    ASSUME Inv, Inv', NEW w \in WaitArg, NEW wanted \in StatusArg, WaitBlock(w, wanted)
    PROVE  P!PBlock(task[current].pid, w, wanted)
<1>1. PICK me : me = current
  OBVIOUS
<1>2. PICK p : p = task[me].pid
  OBVIOUS
<1>3. /\ me \in Listed /\ me \in Task /\ Listed' = Listed
      /\ task[me].state = "RUNNABLE" /\ task[me] \in TaskStruct
      /\ Listed \subseteq Task /\ task \in [Task -> TaskStruct]
      /\ p \in DOMAIN Proc /\ Proc[p] = Live(task[me], frame, fpu)
  BY <1>1, <1>2, OwnProc, ListedTasks DEF Listed, WaitBlock, Inv, TypeOK
<1>4. PICK tk : tk = Waiting(w, wanted)
  OBVIOUS
<1>5. PICK next : next = next_task(tk)
  OBVIOUS
<1>6. /\ task' = Stored(frame, tk) /\ Load(next, task') /\ next # NoTask
      /\ Children(w) # {} /\ Zombies(w) = {}
  BY <1>4, <1>5 DEF WaitBlock
<1>7. /\ tk \in [Task -> TaskStruct] /\ tk[me].pid = p /\ tk[me].ppid = task[me].ppid
      /\ \A t \in Task : t # me => tk[t] = task[t]
      /\ tk[me].state = "BLOCKED" /\ tk[me].wait_pid = w
  BY <1>1, <1>2, <1>3, <1>4, WaitingTable
<1>8. tk[me].word = task[me].word /\ tk[me].wait_status = wanted
  BY <1>1, <1>3, <1>4 DEF Waiting, TaskStruct
<1>9. next \in Listed /\ tk[next].state = "RUNNABLE" /\ next # me
  BY <1>5, <1>6, <1>7, NextTask DEF Inv
<1>10. Proc' = [Proc EXCEPT ![task[me].pid] = Seen(tk[me], frame, fpu)]
  BY <1>1, <1>2, <1>3, <1>6, <1>7, <1>9, SwitchEntry
<1>11. PICK x : x = Proc[p]
  OBVIOUS
<1>12. x = Live(task[me], frame, fpu)
  BY <1>3, <1>11
<1>13. wanted \in BOOLEAN
  BY ArgAssumption
<1>14. P!Asleep(x, w, wanted) = Seen(tk[me], frame, fpu)
  BY <1>7, <1>8, <1>12, <1>13, LiveUpdates
<1>15. /\ P!Kids(p, w) # {} /\ P!Exited(p, w) = {} /\ P!Running # {p}
  <2>1. /\ P!Running = {task[t].pid : t \in Runnable(task)}
        /\ P!Kids(p, w) = {task[t].pid : t \in Children(w)}
        /\ P!Exited(p, w) = {task[t].pid : t \in Zombies(w)}
    BY <1>1, <1>2, KidsShown DEF WaitBlock
  <2>2. next \in Runnable(task) /\ task[next].pid # p
    BY <1>2, <1>3, <1>7, <1>9 DEF Runnable, Inv, PidsUnique
  <2> QED
    BY <1>6, <2>1, <2>2
<1> QED
  BY <1>1, <1>2, <1>10, <1>11, <1>14, <1>15 DEF P!PBlock

\* The entries after a step, by the pids of the tasks then listed.
LEMMA ProcNext ==
    ASSUME Inv'
    PROVE  /\ Proc' = [q \in {task'[t].pid : t \in Listed'} |-> Proc'[q]]
           /\ \A t \in Listed' : Proc'[task'[t].pid] = Entry(t)'
<1>1. (Inv => /\ Proc = [q \in UsedPids |-> Proc[q]]
              /\ \A t \in Listed : task[t].pid \in UsedPids /\ Proc[task[t].pid] = Entry(t)
              /\ \A q \in UsedPids : \E t \in Listed : q = task[t].pid)'
  BY ProcEntries, PTL
<1>2. UsedPids' = {task'[t].pid : t \in Listed'}
  BY DEF UsedPids
<1> QED
  BY <1>1, <1>2

\* task_fork.
LEMMA ForkProc ==
    ASSUME Inv, Inv', Fork
    PROVE  P!PFork(task[current].pid)
<1>1. PICK me : me = current
  OBVIOUS
<1>2. PICK p : p = task[me].pid
  OBVIOUS
<1>3. PICK child \in Task \ Listed, c \in Pid :
        /\ alloc_pid(c)
        /\ task_list' = Append(task_list, child)
        /\ task' = [task EXCEPT
               ![me].arch_state = fpu,
               ![child] = [Blank EXCEPT
                   !.pid = c, !.ppid = task[me].pid, !.state = "RUNNABLE",
                   !.frame = result_ok(0), !.arch_state = fpu,
                   !.word = task[me].word]]
        /\ return_result(result_ok(c))
  BY <1>1 DEF Fork
<1>4. /\ me \in Listed /\ me \in Task /\ me # child
      /\ task[me].state = "RUNNABLE" /\ task[me] \in TaskStruct
      /\ Listed \subseteq Task /\ task \in [Task -> TaskStruct]
      /\ Proc[p] = Live(task[me], frame, fpu)
  BY <1>1, <1>2, OwnProc, ListedTasks DEF Fork, Inv, TypeOK
<1>5. /\ Listed' = Listed \cup {child}
      /\ current' = current /\ fpu' = fpu /\ frame' = result_ok(c)
  BY <1>3, AppendListed DEF Inv, return_result
<1>6. PICK new : new = [Blank EXCEPT
                   !.pid = c, !.ppid = task[me].pid, !.state = "RUNNABLE",
                   !.frame = result_ok(0), !.arch_state = fpu,
                   !.word = task[me].word]
  OBVIOUS
<1>7. /\ new.pid = c /\ new.ppid = p /\ new.state = "RUNNABLE"
      /\ new.frame = result_ok(0) /\ new.arch_state = fpu /\ new.word = task[me].word
  BY <1>2, <1>6 DEF Blank
<1>8. task' = [task EXCEPT ![me].arch_state = fpu, ![child] = new]
  BY <1>3, <1>6
<1>9. /\ task'[child] = new
      /\ task'[me].pid = p /\ task'[me].ppid = task[me].ppid
      /\ task'[me].state = "RUNNABLE" /\ task'[me].word = task[me].word
      /\ \A t \in Listed : t # me => task'[t] = task[t]
  BY <1>2, <1>4, <1>8 DEF TaskStruct
<1>10. PICK P0 : P0 = Proc
  OBVIOUS
<1>11. PICK x : x = Proc[p]
  OBVIOUS
<1>12. Entry(child)' = P!Child(x, p)
  <2>1. Entry(child)' = Seen(new, result_ok(0), fpu)
    BY <1>1, <1>4, <1>5, <1>7, <1>9 DEF Entry
  <2>2. Seen(new, result_ok(0), fpu) = Live(new, result_ok(0), fpu)
    BY <1>7, LiveEntry
  <2>3. P!Child(x, p) = Live(new, P!Ok(0), fpu)
    BY <1>4, <1>7, <1>11, LiveUpdates
  <2> QED
    BY <2>1, <2>2, <2>3 DEF P!Ok, result_ok
<1>13. Entry(me)' = [x EXCEPT !.ret = P!Ok(c)]
  <2>1. Entry(me)' = Seen(task'[me], result_ok(c), fpu)
    BY <1>1, <1>5 DEF Entry
  <2>2. Seen(task'[me], result_ok(c), fpu) = Live(task'[me], result_ok(c), fpu)
    BY <1>9, LiveEntry
  <2>3. [x EXCEPT !.ret = P!Ok(c)] = Live(task[me], P!Ok(c), fpu)
    BY <1>4, <1>11, LiveEntry
  <2>4. Live(task'[me], result_ok(c), fpu) = Live(task[me], P!Ok(c), fpu)
    BY <1>9 DEF Live, P!Ok, result_ok
  <2> QED
    BY <2>1, <2>2, <2>3, <2>4
<1>14. \A t \in Listed : t # me => Entry(t)' = Entry(t)
  BY <1>1, <1>5, <1>9 DEF Entry
<1>15. /\ Proc' = [q \in {task'[t].pid : t \in Listed'} |-> Proc'[q]]
       /\ \A t \in Listed' : Proc'[task'[t].pid] = Entry(t)'
  BY ProcNext
<1>16. /\ \A t \in Listed : Proc[task[t].pid] = Entry(t)
       /\ DOMAIN Proc = {task[t].pid : t \in Listed}
  BY ProcEntries DEF UsedPids
<1>17. \A t \in Listed : task'[t].pid = task[t].pid /\ task[t].pid # c
  BY <1>2, <1>3, <1>9 DEF alloc_pid, UsedPids
<1>18. {task'[t].pid : t \in Listed'} = DOMAIN P0 \cup {c}
  BY <1>5, <1>7, <1>9, <1>10, <1>16, <1>17
<1>19. \A q \in DOMAIN P0 \cup {c} :
          Proc'[q] = IF q = c THEN P!Child(x, p)
                     ELSE IF q = p THEN [x EXCEPT !.ret = P!Ok(c)] ELSE P0[q]
  <2>1. Proc'[c] = P!Child(x, p)
    BY <1>5, <1>7, <1>9, <1>12, <1>15
  <2>2. Proc'[p] = [x EXCEPT !.ret = P!Ok(c)]
    BY <1>4, <1>5, <1>9, <1>13, <1>15
  <2>3. ASSUME NEW q \in DOMAIN P0, q # p
        PROVE  q # c /\ Proc'[q] = P0[q]
    <3>1. PICK t \in Listed : q = task[t].pid
      BY <1>10, <1>16
    <3>2. t # me /\ t \in Listed'
      BY <1>2, <1>5, <2>3, <3>1
    <3> QED
      BY <1>10, <1>14, <1>15, <1>16, <1>17, <3>1, <3>2
  <2> QED
    BY <2>1, <2>2, <2>3
<1>20. c \in Pid \ DOMAIN Proc
  BY <1>16, <1>17
<1>21. Proc' = [q \in DOMAIN P0 \cup {c} |->
                  IF q = c THEN P!Child(x, p)
                  ELSE IF q = p THEN [x EXCEPT !.ret = P!Ok(c)] ELSE P0[q]]
  BY <1>15, <1>18, <1>19
<1> QED
  BY <1>1, <1>2, <1>10, <1>11, <1>20, <1>21 DEF P!PFork

\* task_wait reaping a zombie.
LEMMA ReapProc ==
    ASSUME Inv, Inv', NEW w \in WaitArg, NEW wanted \in StatusArg, WaitReap(w, wanted)
    PROVE  P!PReap(task[current].pid, w, wanted)
<1>1. PICK me : me = current
  OBVIOUS
<1>2. PICK p : p = task[me].pid
  OBVIOUS
<1>3. PICK child \in Zombies(w) :
        /\ task' = [task EXCEPT
               ![me].word = copy_status(me, wanted, task[child].exit_status),
               ![child] = Blank]
        /\ task_list' = Unlinked(child)
        /\ return_result(result_ok(task[child].pid))
  BY <1>1 DEF WaitReap
<1>4. /\ me \in Listed /\ me \in Task
      /\ task[me].state = "RUNNABLE" /\ task[me] \in TaskStruct
      /\ Listed \subseteq Task /\ task \in [Task -> TaskStruct]
      /\ p \in DOMAIN Proc /\ Proc[p] = Live(task[me], frame, fpu)
  BY <1>1, <1>2, OwnProc, ListedTasks DEF WaitReap, Inv, TypeOK
<1>5. child \in Listed /\ child \in Task /\ task[child].state = "ZOMBIE" /\ child # me
  BY <1>4 DEF Zombies, Children
<1>6. PICK c : c = task[child].pid
  OBVIOUS
<1>7. PICK wd : wd = copy_status(me, wanted, task[child].exit_status)
  OBVIOUS
<1>8. /\ Listed' = Listed \ {child}
      /\ current' = current /\ fpu' = fpu /\ frame' = result_ok(c)
  BY <1>3, <1>5, <1>6, UnlinkListed DEF Inv, return_result
<1>9. /\ task'[me].pid = p /\ task'[me].ppid = task[me].ppid
      /\ task'[me].state = "RUNNABLE" /\ task'[me].word = wd
      /\ \A t \in Listed' : t # me => task'[t] = task[t]
  <2>1. task' = [task EXCEPT ![me].word = wd, ![child] = Blank]
    BY <1>3, <1>7
  <2> QED
    BY <1>2, <1>4, <1>5, <1>8, <2>1 DEF TaskStruct
<1>10. PICK P0 : P0 = Proc
  OBVIOUS
<1>11. PICK x : x = Proc[p]
  OBVIOUS
<1>12. Entry(me)' = P!Told(x, c, wd)
  <2>1. Entry(me)' = Seen(task'[me], result_ok(c), fpu)
    BY <1>1, <1>8 DEF Entry
  <2>2. Seen(task'[me], result_ok(c), fpu) = Live(task'[me], result_ok(c), fpu)
    BY <1>9, LiveEntry
  <2>3. P!Told(x, c, wd) = Live(task'[me], P!Ok(c), fpu)
    BY <1>4, <1>9, <1>11, LiveUpdates
  <2> QED
    BY <2>1, <2>2, <2>3 DEF P!Ok, result_ok
<1>13. \A t \in Listed' : t # me => Entry(t)' = Entry(t)
  BY <1>1, <1>8, <1>9 DEF Entry
<1>14. /\ Proc' = [q \in {task'[t].pid : t \in Listed'} |-> Proc'[q]]
       /\ \A t \in Listed' : Proc'[task'[t].pid] = Entry(t)'
  BY ProcNext
<1>15. /\ \A t \in Listed : Proc[task[t].pid] = Entry(t)
       /\ DOMAIN Proc = {task[t].pid : t \in Listed}
  BY ProcEntries DEF UsedPids
<1>16. \A t \in Listed' : task'[t].pid = task[t].pid
  BY <1>2, <1>9
<1>17. \A t, u \in Listed : task[t].pid = task[u].pid => t = u
  BY DEF Inv, PidsUnique
<1>18. {task'[t].pid : t \in Listed'} = DOMAIN P0 \ {c}
  BY <1>5, <1>6, <1>8, <1>10, <1>15, <1>16, <1>17
<1>19. \A q \in DOMAIN P0 \ {c} : Proc'[q] = IF q = p THEN P!Told(x, c, wd) ELSE P0[q]
  <2>1. Proc'[p] = P!Told(x, c, wd)
    BY <1>4, <1>5, <1>8, <1>9, <1>12, <1>14
  <2>2. ASSUME NEW q \in DOMAIN P0 \ {c}, q # p
        PROVE  Proc'[q] = P0[q]
    <3>1. PICK t \in Listed : q = task[t].pid
      BY <1>10, <1>15
    <3>2. t # me /\ t \in Listed'
      BY <1>2, <1>6, <1>8, <2>2, <3>1
    <3> QED
      BY <1>10, <1>13, <1>14, <1>15, <1>16, <3>1, <3>2
  <2> QED
    BY <2>1, <2>2
<1>20. Proc' = P!Without([P0 EXCEPT ![p] = P!Told(x, c, wd)], c)
  <2>1. Proc' = [q \in DOMAIN P0 \ {c} |-> IF q = p THEN P!Told(x, c, wd) ELSE P0[q]]
    BY <1>14, <1>18, <1>19
  <2>2. p \in DOMAIN P0
    BY <1>4, <1>10
  <2>3. DOMAIN [P0 EXCEPT ![p] = P!Told(x, c, wd)] = DOMAIN P0
    OBVIOUS
  <2>4. \A q \in DOMAIN P0 : [P0 EXCEPT ![p] = P!Told(x, c, wd)][q] =
                                IF q = p THEN P!Told(x, c, wd) ELSE P0[q]
    BY <2>2
  <2> QED
    BY <2>1, <2>3, <2>4 DEF P!Without
<1>21. c \in P!Exited(p, w)
  BY <1>1, <1>2, <1>6, KidsShown DEF WaitReap
<1>22. wd = P!Written(p, wanted, Proc[c].code)
  <2>1. Proc[c].code = task[child].exit_status
    BY <1>5, <1>6, EntryFields
  <2>2. Proc[p].word = task[me].word
    BY <1>4 DEF Live
  <2> QED
    BY <1>7, <2>1, <2>2 DEF P!Written, copy_status
<1> QED
  BY <1>1, <1>2, <1>10, <1>11, <1>20, <1>21, <1>22 DEF P!PReap

-----------------------------------------------------------------------------
(* task_exit. *)

\* The struct that find_task returns for ppid is the waiting parent, if any.
LEMMA AwaitedShown ==
    ASSUME Inv, machine = "running"
    PROVE  /\ P!Awaited(task[current].pid) <=> ParentWaits
           /\ Proc[task[current].pid].parent = task[current].ppid
<1>1. /\ current \in Listed /\ task[current].pid \in DOMAIN Proc
      /\ Proc[task[current].pid].parent = task[current].ppid
  BY OwnProc, EntryFields
<1>2. ASSUME ParentWaits
      PROVE  P!Awaited(task[current].pid)
  <2>1. Parent \in Listed /\ task[Parent].pid = task[current].ppid
    BY <1>2, WaitingParent
  <2>2. /\ task[Parent].pid \in DOMAIN Proc
        /\ Proc[task[Parent].pid].phase = "waiting"
        /\ Proc[task[Parent].pid].awaited \in {AnyPid, task[current].pid}
    BY <1>2, <2>1, EntryFields DEF ParentWaits
  <2> QED
    BY <1>1, <2>1, <2>2 DEF P!Awaited, P!AnyChild, AnyPid
<1>3. ASSUME P!Awaited(task[current].pid)
      PROVE  ParentWaits
  <2>1. /\ task[current].ppid \in DOMAIN Proc
        /\ Proc[task[current].ppid].phase = "waiting"
        /\ Proc[task[current].ppid].awaited \in {AnyPid, task[current].pid}
    BY <1>1, <1>3 DEF P!Awaited, P!AnyChild, AnyPid
  <2>2. PICK t \in Listed : task[current].ppid = task[t].pid
    BY <2>1, ProcEntries
  <2>3. task[t].state = "BLOCKED" /\ task[t].wait_pid \in {AnyPid, task[current].pid}
    BY <2>1, <2>2, EntryFields
  <2>4. matches(current, t, task[t].wait_pid)
    BY <2>2, <2>3 DEF matches
  <2> QED
    BY <2>3, <2>4, WaitingParent
<1> QED
  BY <1>1, <1>2, <1>3

\* A task that dies unawaited is shown as its parent's pid and its code.
LEMMA DeadEntry ==
    ASSUME Inv, machine = "running", NEW c \in ExitArg, NEW fr, NEW f
    PROVE  Seen(Dead(c)[current], fr, f) = P!Corpse(task[current].ppid, c % 256)
<1>1. task \in [Task -> TaskStruct] /\ current \in Task
  BY OwnProc DEF Inv, TypeOK
<1>2. /\ Dead(c)[current].state = "ZOMBIE" /\ Dead(c)[current].ppid = task[current].ppid
  BY <1>1, DeadTable
<1>3. Dead(c)[current].exit_status = c % 256
  BY <1>1 DEF Dead, TaskStruct
<1> QED
  BY <1>2, <1>3 DEF Seen

\* task_exit leaving a zombie.
LEMMA ExitZombieProc ==
    ASSUME Inv, Inv', NEW c \in ExitArg, ExitZombie(c)
    PROVE  P!PExit(task[current].pid, c)
<1>1. PICK me : me = current
  OBVIOUS
<1>2. PICK p : p = task[me].pid
  OBVIOUS
<1>3. PICK tk : tk = Dead(c)
  OBVIOUS
<1>4. PICK next : next = next_task(tk)
  OBVIOUS
<1>5. /\ machine = "running" /\ ~ParentWaits /\ next # NoTask
      /\ task' = Stored(frame, tk) /\ Load(next, task')
      /\ Listed' = Listed
  BY <1>3, <1>4 DEF ExitZombie, Listed
<1>6. me \in Listed /\ Listed \subseteq Task
  BY <1>1, <1>5, OwnProc, ListedTasks DEF Inv
<1>7. /\ tk \in [Task -> TaskStruct] /\ tk[me].pid = task[me].pid
      /\ \A t \in Listed : t # me => tk[t] = task[t]
      /\ tk[me].state = "ZOMBIE"
  BY <1>1, <1>3, <1>6, DeadTable
<1>8. next \in Listed /\ next # me
  BY <1>4, <1>5, <1>7, NextTask DEF Inv
<1>9. Proc' = [Proc EXCEPT ![task[me].pid] = Seen(tk[me], frame, fpu)]
  BY <1>1, <1>5, <1>6, <1>7, <1>8, SwitchEntry
<1>10. Seen(tk[me], frame, fpu) = P!Corpse(task[me].ppid, c % 256)
  BY <1>1, <1>3, <1>5, DeadEntry
<1>11. ~P!Awaited(p) /\ Proc[p].parent = task[me].ppid
  BY <1>1, <1>2, <1>5, AwaitedShown
<1> QED
  BY <1>1, <1>2, <1>9, <1>10, <1>11 DEF P!PExit

\* The running processes by pid.
LEMMA RunningShown == Inv => P!Running = {task[t].pid : t \in Runnable(task)}
<1> SUFFICES ASSUME Inv PROVE P!Running = {task[t].pid : t \in Runnable(task)}
  OBVIOUS
<1>1. DOMAIN Proc = {task[t].pid : t \in Listed}
  BY ProcEntries DEF UsedPids
<1>2. \A t \in Listed : Proc[task[t].pid].phase = "running" <=> task[t].state = "RUNNABLE"
  BY EntryFields
<1> QED
  BY <1>1, <1>2 DEF P!Running, Runnable

\* The last task_exit: no process runs any more.
LEMMA ExitLastProc ==
    ASSUME Inv, Inv', NEW c \in ExitArg, ExitLast(c)
    PROVE  P!PExit(task[current].pid, c) /\ P!Running' = {}
<1>1. PICK me : me = current
  OBVIOUS
<1>2. PICK p : p = task[me].pid
  OBVIOUS
<1>3. /\ machine = "running" /\ Listed' = Listed /\ UNCHANGED <<current, frame, fpu>>
      /\ task' = IF ParentWaits THEN Woken(c) ELSE Dead(c)
      /\ next_task(task') = NoTask
  BY DEF ExitLast, Listed
<1>4. me \in Listed /\ Listed \subseteq Task
  BY <1>1, <1>3, OwnProc, ListedTasks DEF Inv
<1>5. \A t \in Listed : task'[t].state # "RUNNABLE"
  BY <1>3, NextTaskExists DEF Inv
<1>6. ~ParentWaits
  BY <1>3, <1>5, WokenTable, WaitingParent
<1>7. /\ task' = Dead(c) /\ task'[me].pid = task[me].pid
      /\ \A t \in Listed : t # me => task'[t] = task[t]
  BY <1>1, <1>3, <1>4, <1>6, DeadTable
<1>8. Proc' = [Proc EXCEPT ![task[me].pid] = Seen(task'[me], frame', fpu')]
  BY <1>1, <1>3, <1>4, <1>7, OwnEntry
<1>9. Seen(task'[me], frame', fpu') = P!Corpse(task[me].ppid, c % 256)
  <2>1. Seen(Dead(c)[current], frame, fpu) = P!Corpse(task[current].ppid, c % 256)
    BY <1>3, DeadEntry
  <2> QED
    BY <1>1, <1>3, <1>7, <2>1
<1>10. ~P!Awaited(p) /\ Proc[p].parent = task[me].ppid
  BY <1>1, <1>2, <1>3, <1>6, AwaitedShown
<1>11. P!PExit(p, c)
  BY <1>2, <1>8, <1>9, <1>10 DEF P!PExit
<1>12. (Inv => P!Running = {task[t].pid : t \in Runnable(task)})'
  BY RunningShown, PTL
<1>13. Runnable(task)' = {}
  BY <1>3, <1>5 DEF Runnable
<1> QED
  BY <1>1, <1>2, <1>11, <1>12, <1>13

\* A sleeping entry once it is woken.
LEMMA WokenEntry ==
    ASSUME NEW st, NEW fr, NEW f, NEW x, x = Seen(st, fr, f), st.state = "BLOCKED",
           NEW s, NEW k, NEW wd, s.ppid = st.ppid, s.word = wd
    PROVE  P!Awake(x, k, wd) = Live(s, P!Ok(k), f)
<1>1. PICK b : b = (st.state = "BLOCKED" /\ st.wait_status)
  OBVIOUS
<1>2. x = [parent |-> st.ppid, code |-> 0, phase |-> "waiting", awaited |-> st.wait_pid,
           wanted |-> b, ret |-> fr, fpu |-> f, word |-> st.word]
  BY <1>1, Zenon DEF Seen
<1>3. x \in [parent : {st.ppid}, code : {0}, phase : {"waiting"}, awaited : {st.wait_pid},
             wanted : {b}, ret : {fr}, fpu : {f}, word : {st.word}]
  BY <1>2
<1>4. PICK v : v = P!Awake(x, k, wd)
  OBVIOUS
<1>5. v \in [parent : {st.ppid}, code : {0}, phase : {"running"}, awaited : {0},
             wanted : {FALSE}, ret : {P!Ok(k)}, fpu : {f}, word : {wd}]
  BY <1>3, <1>4 DEF P!Awake
<1>6. v = [parent |-> st.ppid, code |-> 0, phase |-> "running", awaited |-> 0,
           wanted |-> FALSE, ret |-> P!Ok(k), fpu |-> f, word |-> wd]
  BY <1>5
<1> QED
  BY <1>4, <1>6 DEF Live

\* task_exit completing the wait of the parent.
LEMMA ExitWakeProc ==
    ASSUME Inv, Inv', NEW c \in ExitArg, ExitWake(c)
    PROVE  P!PExit(task[current].pid, c)
<1>1. PICK me : me = current
  OBVIOUS
<1>2. PICK p : p = task[me].pid
  OBVIOUS
<1>3. PICK tk : tk = Woken(c)
  OBVIOUS
<1>4. PICK next : next = next_task(tk)
  OBVIOUS
<1>5. PICK par : par = Parent
  OBVIOUS
<1>6. PICK wd : wd = copy_status(par, task[par].wait_status, c % 256)
  OBVIOUS
<1>7. /\ machine = "running" /\ ParentWaits /\ next # NoTask
      /\ Load(next, Stored(frame, tk))
      /\ task' = [tk EXCEPT ![me] = Blank] /\ task_list' = Unlinked(me)
  BY <1>1, <1>3, <1>4 DEF ExitWake
<1>8. /\ me \in Listed /\ Listed \subseteq Task /\ task \in [Task -> TaskStruct]
      /\ par \in Listed /\ par # me /\ task[par].pid = task[me].ppid
      /\ task[par].state = "BLOCKED"
  BY <1>1, <1>5, <1>7, OwnProc, ListedTasks, WaitingParent DEF Inv, TypeOK, ParentWaits
<1>9. /\ tk \in [Task -> TaskStruct]
      /\ \A t \in Task : /\ tk[t].pid = task[t].pid /\ tk[t].ppid = task[t].ppid
                         /\ t \notin {me, par} => tk[t] = task[t]
      /\ tk[me].state = "ZOMBIE" /\ tk[par].state = "RUNNABLE"
  BY <1>1, <1>3, <1>5, <1>7, WokenTable
<1>10. /\ tk[par].frame = result_ok(p) /\ tk[par].word = wd
       /\ tk[par].arch_state = task[par].arch_state
  <2>1. PICK dead : dead = Dead(c)
    OBVIOUS
  <2>2. dead \in [Task -> TaskStruct] /\ dead[par] = task[par] /\ dead[par] \in TaskStruct
    BY <1>1, <1>8, <2>1, DeadTable
  <2>3. tk = [dead EXCEPT ![par].word = wd, ![par].frame = result_ok(p),
                          ![par].state = "RUNNABLE"]
    BY <1>1, <1>2, <1>3, <1>5, <1>6, <2>1 DEF Woken
  <2> QED
    BY <1>8, <2>2, <2>3 DEF TaskStruct
<1>11. next \in Listed /\ tk[next].state = "RUNNABLE" /\ next # me
  BY <1>4, <1>7, <1>9, NextTask DEF Inv
<1>12. current' = next /\ frame' = tk[next].frame /\ fpu' = tk[next].arch_state
  BY <1>1, <1>7, <1>8, <1>9, <1>11 DEF Load, Stored
<1>13. Listed' = Listed \ {me}
  BY <1>7, <1>8, UnlinkListed DEF Inv
<1>14. \A t \in Listed' : task'[t] = tk[t] /\ task'[t].pid = task[t].pid
  BY <1>7, <1>8, <1>9, <1>13
<1>15. \A t \in Listed' : Entry(t)' = Seen(tk[t], tk[t].frame, tk[t].arch_state)
  BY <1>12, <1>14 DEF Entry
<1>16. \A t \in Listed' : t # par => Entry(t)' = Entry(t)
  BY <1>1, <1>8, <1>9, <1>13, <1>15 DEF Entry
<1>17. PICK P0 : P0 = Proc
  OBVIOUS
<1>18. PICK q : q = task[par].pid
  OBVIOUS
<1>19. PICK x : x = Proc[q]
  OBVIOUS
<1>20. /\ \A t \in Listed : Proc[task[t].pid] = Entry(t)
       /\ DOMAIN Proc = {task[t].pid : t \in Listed}
  BY ProcEntries DEF UsedPids
<1>21. x = Seen(task[par], task[par].frame, task[par].arch_state)
  BY <1>1, <1>8, <1>18, <1>19, <1>20 DEF Entry
<1>22. Entry(par)' = P!Awake(x, p, wd)
  <2>1. Entry(par)' = Seen(tk[par], result_ok(p), task[par].arch_state)
    BY <1>8, <1>10, <1>13, <1>15
  <2>2. Seen(tk[par], result_ok(p), task[par].arch_state)
          = Live(tk[par], result_ok(p), task[par].arch_state)
    BY <1>9, LiveEntry
  <2>3. tk[par].ppid = task[par].ppid
    BY <1>8, <1>9
  <2>4. P!Awake(x, p, wd) = Live(tk[par], P!Ok(p), task[par].arch_state)
    BY <1>8, <1>10, <1>21, <2>3, WokenEntry
  <2> QED
    BY <2>1, <2>2, <2>4 DEF P!Ok, result_ok
<1>23. /\ Proc' = [r \in {task'[t].pid : t \in Listed'} |-> Proc'[r]]
       /\ \A t \in Listed' : Proc'[task'[t].pid] = Entry(t)'
  BY ProcNext
<1>24. \A t, u \in Listed : task[t].pid = task[u].pid => t = u
  BY DEF Inv, PidsUnique
<1>25. {task'[t].pid : t \in Listed'} = DOMAIN P0 \ {p}
  BY <1>2, <1>8, <1>13, <1>14, <1>17, <1>20, <1>24
<1>26. \A r \in DOMAIN P0 \ {p} : Proc'[r] = IF r = q THEN P!Awake(x, p, wd) ELSE P0[r]
  <2>1. Proc'[q] = P!Awake(x, p, wd)
    BY <1>8, <1>13, <1>14, <1>18, <1>22, <1>23
  <2>2. ASSUME NEW r \in DOMAIN P0 \ {p}, r # q
        PROVE  Proc'[r] = P0[r]
    <3>1. PICK t \in Listed : r = task[t].pid
      BY <1>17, <1>20
    <3>2. t # par /\ t \in Listed'
      BY <1>2, <1>13, <1>18, <2>2, <3>1
    <3> QED
      BY <1>14, <1>16, <1>17, <1>20, <1>23, <3>1, <3>2
  <2> QED
    BY <2>1, <2>2
<1>27. Proc' = P!Without([P0 EXCEPT ![q] = P!Awake(x, p, wd)], p)
  <2>1. Proc' = [r \in DOMAIN P0 \ {p} |-> IF r = q THEN P!Awake(x, p, wd) ELSE P0[r]]
    BY <1>23, <1>25, <1>26
  <2>2. q \in DOMAIN P0
    BY <1>8, <1>17, <1>18, <1>20
  <2>3. DOMAIN [P0 EXCEPT ![q] = P!Awake(x, p, wd)] = DOMAIN P0
    OBVIOUS
  <2>4. \A r \in DOMAIN P0 : [P0 EXCEPT ![q] = P!Awake(x, p, wd)][r] =
                                IF r = q THEN P!Awake(x, p, wd) ELSE P0[r]
    BY <2>2
  <2> QED
    BY <2>1, <2>3, <2>4 DEF P!Without
<1>28. wd = P!Written(q, Proc[q].wanted, c % 256)
  <2>1. Proc[q].wanted = task[par].wait_status
    BY <1>8, <1>18, EntryFields
  <2>2. Proc[q].word = task[par].word
    BY <1>8, <1>19, <1>21 DEF Seen
  <2> QED
    BY <1>6, <2>1, <2>2 DEF P!Written, copy_status
<1>29. P!Awaited(p) /\ Proc[p].parent = q
  BY <1>1, <1>2, <1>7, <1>8, <1>18, AwaitedShown
<1> QED
  BY <1>1, <1>2, <1>17, <1>19, <1>27, <1>28, <1>29 DEF P!PExit

-----------------------------------------------------------------------------
(* The refinement. *)

\* Init enters user mode as the only process.
LEMMA InitProc == Init => P!PInit
<1> SUFFICES ASSUME Init PROVE P!PInit
  OBVIOUS
<1>1. PICK t \in Task :
        /\ task_list = <<t>>
        /\ current = t
        /\ task = [u \in Task |-> IF u = t
                       THEN [Blank EXCEPT !.pid = 1, !.state = "RUNNABLE"]
                       ELSE Blank]
  BY DEF Init
<1>2. Inv
  BY InitInv
<1>3. Listed = {t}
  BY <1>1 DEF Listed
<1>4. task[t].pid = 1 /\ task[t].ppid = 0 /\ task[t].state = "RUNNABLE" /\ task[t].word = 0
  BY <1>1 DEF Blank
<1>5. UsedPids = {1}
  BY <1>3, <1>4 DEF UsedPids
<1>6. Entry(t) = Live(task[t], frame, fpu)
  <2>1. Seen(task[t], frame, fpu) = Live(task[t], frame, fpu)
    BY <1>4, LiveEntry
  <2> QED
    BY <1>1, <2>1 DEF Entry
<1>7. Proc = [q \in {1} |-> Proc[q]] /\ Proc[1] = Live(task[t], frame, fpu)
  BY <1>2, <1>3, <1>4, <1>5, <1>6, ProcEntries
<1>8. Live(task[t], frame, fpu) =
        [parent |-> 0, phase |-> "running", code |-> 0, awaited |-> 0,
         wanted |-> FALSE, ret |-> P!Ok(0), fpu |-> CleanFpu, word |-> 0]
  BY <1>4 DEF Live, Init, P!Ok, result_ok
<1> QED
  BY <1>7, <1>8 DEF P!PInit, Stopped, Init

\* A call with a result that every process may get.
LEMMA ReplyCall ==
    ASSUME Inv, Inv', Replies
    PROVE  P!PCall(task[current].pid) /\ machine = "running" /\ machine' = "running"
<1>1. CASE GetPid
  <2>1. P!Returns(task[current].pid, result_ok(task[current].pid))
    BY <1>1, ReplyProc DEF GetPid
  <2> QED
    BY <1>1, <2>1 DEF GetPid, P!PCall, P!PTrivial, P!Ok, result_ok
<1>2. ASSUME NEW e \in {"TRY_AGAIN", "BAD_ADDRESS", "NOT_FOUND"}, machine = "running",
             return_result(result_error(e)), UNCHANGED <<task_list, task, machine>>
      PROVE  P!PCall(task[current].pid) /\ machine = "running" /\ machine' = "running"
  <2>1. P!Returns(task[current].pid, result_error(e))
    BY <1>2, ReplyProc
  <2> QED
    BY <1>2, <2>1 DEF P!PCall, P!PFails, P!Err, result_error
<1> QED
  BY <1>1, <1>2
  DEF Replies, ForkNoStruct, ForkNoMemory, WaitBadAddress, ExecFails

\* A wait for w is a call of the process.
LEMMA WaitCall ==
    ASSUME Inv, Inv', NEW w \in WaitArg,
           \/ WaitNoChild(w) \/ WaitNoHang(w)
           \/ \E wanted \in StatusArg :
                WaitReap(w, wanted) \/ WaitBlock(w, wanted) \/ WaitAlone(w, wanted)
    PROVE  P!PCall(task[current].pid) /\ machine = "running" /\ machine' = "running"
<1>1. w \in Pid \cup {P!AnyChild, 0} /\ StatusArg \subseteq BOOLEAN
  BY ArgAssumption, PidAssumption DEF Pid, P!AnyChild
<1>2. CASE WaitNoChild(w)
  BY <1>1, <1>2, NoChildProc DEF P!PCall, WaitNoChild
<1>3. CASE WaitNoHang(w)
  <2>1. P!Returns(task[current].pid, result_ok(0))
    BY <1>3, ReplyProc DEF WaitNoHang
  <2> QED
    BY <1>3, <2>1 DEF WaitNoHang, P!PCall, P!PTrivial, P!Ok, result_ok
<1>4. ASSUME NEW wanted \in StatusArg, WaitReap(w, wanted)
      PROVE  P!PCall(task[current].pid) /\ machine = "running" /\ machine' = "running"
  BY <1>1, <1>4, ReapProc DEF P!PCall, WaitReap
<1>5. ASSUME NEW wanted \in StatusArg, WaitBlock(w, wanted)
      PROVE  P!PCall(task[current].pid) /\ machine = "running" /\ machine' = "running"
  BY <1>1, <1>5, BlockProc DEF P!PCall, WaitBlock
<1>6. ASSUME NEW wanted \in StatusArg, WaitAlone(w, wanted)
      PROVE  P!PCall(task[current].pid) /\ machine = "running" /\ machine' = "running"
  BY <1>1, <1>6, AloneProc DEF P!PCall, WaitAlone
<1> QED
  BY <1>2, <1>3, <1>4, <1>5, <1>6

\* Every step is a step of Processes, or shows nowhere.
LEMMA StepProc == Inv /\ Inv' /\ [Next]_vars => [P!PNext]_P!pvars
<1> SUFFICES ASSUME Inv, Inv', [Next]_vars PROVE [P!PNext]_P!pvars
  OBVIOUS
<1>1. CASE UNCHANGED vars
  BY <1>1 DEF vars, P!pvars, Proc, Stopped, UsedPids, Listed, Shown, Owner, Context
<1>2. CASE Tick
  BY <1>2, TickProc DEF P!pvars
<1>3. CASE Exception
  <2>1. Proc' = Proc
    BY <1>3 DEF Exception, Proc, UsedPids, Listed, Shown, Owner, Context
  <2> QED
    BY <1>3, <2>1 DEF Exception, P!PNext, Stopped
<1>4. CASE Replies
  BY <1>4, ReplyCall, CallStep
<1>5. ASSUME NEW w \in WaitArg,
             \/ WaitNoChild(w) \/ WaitNoHang(w)
             \/ \E wanted \in StatusArg :
                  WaitReap(w, wanted) \/ WaitBlock(w, wanted) \/ WaitAlone(w, wanted)
      PROVE  P!PNext
  BY <1>5, WaitCall, CallStep
<1>6. CASE Compute
  BY <1>6, ComputeProc, CallStep DEF P!PCall, Compute
<1>7. CASE Yield
  <2>1. P!Returns(task[current].pid, result_ok(0))
    BY <1>7, YieldProc DEF Yield
  <2> QED
    BY <1>7, <2>1, CallStep DEF Yield, P!PCall, P!PTrivial, P!Ok, result_ok
<1>8. CASE Fork
  BY <1>8, ForkProc, CallStep DEF P!PCall, Fork
<1>9. CASE Exec
  BY <1>9, ExecProc, CallStep DEF P!PCall, Exec
<1>10. ASSUME NEW c \in ExitArg, ExitWake(c) \/ ExitZombie(c)
       PROVE  P!PNext
  BY <1>10, ExitWakeProc, ExitZombieProc, CallStep DEF P!PCall, ExitWake, ExitZombie
<1>11. ASSUME NEW c \in ExitArg, ExitLast(c)
       PROVE  P!PNext
  <2>1. P!PCall(task[current].pid) /\ P!Running' = {}
    BY <1>11, ExitLastProc DEF P!PCall
  <2>2. /\ machine = "running" /\ Stopped' = "exited"
    BY <1>11 DEF ExitLast, Stopped
  <2>3. task[current].pid \in P!Running /\ Stopped = "no"
    BY <2>2, CurrentShown
  <2> QED
    BY <2>1, <2>2, <2>3 DEF P!PNext
<1>12. CASE Halted
  BY <1>1, <1>12 DEF Halted
<1> QED
  BY <1>1, <1>2, <1>3, <1>4, <1>5, <1>6, <1>7, <1>8, <1>9, <1>10, <1>11, <1>12
  DEF Next, Lifecycle

\* task.c implements independent processes: whatever the order of ticks, forks,
\* waits and exits, and however often pids wrap, a program sees its registers,
\* FPU image and status word change only by its own calls and by the exit of a
\* child it waits for, and every exit is handed to the parent or kept for it.
THEOREM TasksImplementProcesses == Spec => ImplementsProcesses
<1>1. Init => P!PInit
  BY InitProc
<1>2. Inv /\ Inv' /\ [Next]_vars => [P!PNext]_P!pvars
  BY StepProc
<1> QED
  BY <1>1, <1>2, Invariance, PTL DEF Spec, ImplementsProcesses, P!PSpec
=============================================================================
