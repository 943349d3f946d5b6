------------------------------ MODULE Pablo ------------------------------
(***************************************************************************)
(* PID 1: userland/pablo/src/main.c loads the configuration, which is      *)
(* rejected as a whole or handed to the loop of supervisor.c, running      *)
(* beside its services.  The services are numbered in the order in which   *)
(* they were loaded.  Services exit at any moment between two system calls *)
(* of the loop, so every waitpid and every turn of start_ready is an       *)
(* action of its own.                                                      *)
(*                                                                         *)
(* ready_tick is kept as its distance from the supervisor's tick, which    *)
(* is all the code compares.                                               *)
(***************************************************************************)
EXTENDS PabloConfig

CONSTANTS
    Files,              \* bound: settings files and directories of services
    Pid,                \* pids the kernel can give to services
    MaxForkFailures     \* bound on how often the kernel refuses to fork

ASSUME PidAssumption == IsFiniteSet(Pid) /\ Pid \subseteq Nat \ {0}
                        /\ Cardinality(Pid) >= ServiceMax
ASSUME FilesAssumption ==
    \A f \in Files :
        LET lines == f.settings.lines
            entries == f.directory.entries
        IN  /\ Len(lines) \in Nat /\ DOMAIN lines = 1..Len(lines)
            /\ Len(entries) \in Nat /\ DOMAIN entries = 1..Len(entries)
            /\ \A k \in DOMAIN lines :
                lines[k].key \in {"restart_limit", "restart_delay"} => lines[k].value \in Seq(-1..9)
ASSUME FailureAssumption == MaxForkFailures \in Nat

VARIABLES
    files,          \* what is under /etc, of no account once it is loaded
    config,         \* struct pablo_config, the fields of services that loading sets
    state, pid, restart_count,      \* the other fields of struct pablo_service
    ready_in,       \* ready_tick - tick, 0 once it has passed
    quiescent_reported,
    pc,             \* "boot", "loaded", in the loop "reap" or "start", or "rejected"
    i,              \* the index of start_ready
    children,       \* kernel: pid -> "running", or how the zombie ended
    fork_failures,  \* how often fork has failed
    spawned         \* history: how often the service has been started

loaded == <<files, config>>
services == <<state, pid, restart_count, ready_in>>
vars == <<files, config, state, pid, restart_count, ready_in, quiescent_reported,
          pc, i, children, fork_failures, spawned>>

Service == DOMAIN config.services
ServiceCount == Len(config.services)
Policy(s) == config.services[s].policy
Code == {"success", "failure"}     \* exit code 0, and 127 or any other
State == {"STOPPED", "RUNNING", "BACKOFF", "COMPLETE", "FAILED"}

\* The service that s is started after, 0 for none.
After(s) == pablo_service_find(config.services, config.services[s].after)

NoFiles == [settings |-> [open |-> "ENOENT", lines |-> <<>>],
            directory |-> [open |-> "ENOENT", entries |-> <<>>]]

\* The kernel has started PID 1; nothing else runs.
Init ==
    /\ files \in Files
    /\ config = Defaults
    /\ state = <<>> /\ pid = <<>> /\ restart_count = <<>> /\ ready_in = <<>>
    /\ quiescent_reported = FALSE
    /\ pc = "boot"
    /\ i = 1
    /\ children = [p \in {} |-> "running"]
    /\ fork_failures = 0
    /\ spawned = <<>>

\* main: pablo_config_load reads the files; load_service clears every service.
BootLoads ==
    /\ pc = "boot"
    /\ config' = pablo_config_load(files)
    /\ state' = [s \in Service' |-> "STOPPED"]
    /\ pid' = [s \in Service' |-> 0]
    /\ restart_count' = [s \in Service' |-> 0]
    /\ ready_in' = [s \in Service' |-> 0]
    /\ spawned' = [s \in Service' |-> 0]
    /\ pc' = "loaded"
    /\ UNCHANGED <<files, quiescent_reported, i, children, fork_failures>>

\* What it returns.
Accepted == config.ok /\ pablo_service_validate(config.services)

\* main: pablo_supervisor_init.
BootAccepts ==
    /\ pc = "loaded" /\ Accepted
    /\ pc' = "reap"
    /\ files' = NoFiles
    /\ UNCHANGED <<config, services, quiescent_reported, i, children, fork_failures, spawned>>

\* main: "configuration rejected", and PID 1 exits.
BootRejects ==
    /\ pc = "loaded" /\ ~Accepted
    /\ pc' = "rejected"
    /\ files' = NoFiles
    /\ UNCHANGED <<config, services, quiescent_reported, i, children, fork_failures, spawned>>

Rejected == pc = "rejected" /\ UNCHANGED vars

-----------------------------------------------------------------------------
(* The kernel and the services. *)

Zombies == {p \in DOMAIN children : children[p] # "running"}

\* A service process ends.
ServiceExits(p) ==
    /\ p \in DOMAIN children /\ children[p] = "running"
    /\ \E c \in Code : children' = [children EXCEPT ![p] = c]
    /\ UNCHANGED <<loaded, services, quiescent_reported, pc, i, fork_failures, spawned>>

-----------------------------------------------------------------------------
(* reap_children. *)

\* service_by_pid
service_by_pid(p) == {s \in Service : state[s] = "RUNNING" /\ pid[s] = p}

\* Mutant of record_exit: the limit is compared after counting.
RecordExitLate(s, c) ==
    /\ pid' = [pid EXCEPT ![s] = 0]
    /\ \/ /\ Policy(s) = "once"
          /\ state' = [state EXCEPT ![s] = IF c = "success" THEN "COMPLETE" ELSE "FAILED"]
          /\ UNCHANGED <<restart_count, ready_in>>
       \/ /\ Policy(s) = "respawn" /\ restart_count[s] > config.restart_limit
          /\ state' = [state EXCEPT ![s] = "FAILED"]
          /\ UNCHANGED <<restart_count, ready_in>>
       \/ /\ Policy(s) = "respawn" /\ restart_count[s] <= config.restart_limit
          /\ restart_count' = [restart_count EXCEPT ![s] = @ + 1]
          /\ ready_in' = [ready_in EXCEPT ![s] = config.restart_delay]
          /\ state' = [state EXCEPT ![s] = "BACKOFF"]

\* record_exit for a service that has ended with code c.
record_exit(s, c) ==
    /\ pid' = [pid EXCEPT ![s] = 0]
    /\ \/ /\ Policy(s) = "once"
          /\ state' = [state EXCEPT ![s] = IF c = "success" THEN "COMPLETE" ELSE "FAILED"]
          /\ UNCHANGED <<restart_count, ready_in>>
       \/ /\ Policy(s) = "respawn" /\ restart_count[s] >= config.restart_limit
          /\ state' = [state EXCEPT ![s] = "FAILED"]
          /\ UNCHANGED <<restart_count, ready_in>>
       \/ /\ Policy(s) = "respawn" /\ restart_count[s] < config.restart_limit
          /\ restart_count' = [restart_count EXCEPT ![s] = @ + 1]
          /\ ready_in' = [ready_in EXCEPT ![s] = config.restart_delay]
          /\ state' = [state EXCEPT ![s] = "BACKOFF"]

\* waitpid returns a zombie.
Reap ==
    /\ pc = "reap"
    /\ \E p \in Zombies :
        /\ children' = [q \in DOMAIN children \ {p} |-> children[q]]
        /\ IF service_by_pid(p) = {}
           THEN UNCHANGED services                  \* "orphan reaped"
           ELSE record_exit(CHOOSE s \in service_by_pid(p) :
                                \A t \in service_by_pid(p) : s <= t, children[p])
    /\ UNCHANGED <<loaded, quiescent_reported, pc, i, fork_failures, spawned>>

\* waitpid returns 0 or ECHILD.
ReapDone ==
    /\ pc = "reap" /\ Zombies = {}
    /\ pc' = "start" /\ i' = 1
    /\ UNCHANGED <<loaded, services, quiescent_reported, children, fork_failures, spawned>>

-----------------------------------------------------------------------------
(* One turn of start_ready, for service i. *)

\* Mutant of Due: a running service is started once more.
DueAgain(s) == state[s] \notin {"COMPLETE", "FAILED"} /\ ready_in[s] = 0

Due(s) == state[s] = "STOPPED" \/ (state[s] = "BACKOFF" /\ ready_in[s] = 0)

DependencyFailed(s) == After(s) # 0 /\ state[After(s)] = "FAILED"

\* Mutant of dependency_ready: any dependency that has not failed will do.
DependencyNotFailed(s) == After(s) # 0 => state[After(s)] # "FAILED"

\* dependency_ready, when it returns 1.
dependency_ready(s) ==
    After(s) # 0 => state[After(s)] \in {"RUNNING", "COMPLETE"}

Turn == pc = "start" /\ i <= ServiceCount /\ i' = i + 1 /\ pc' = "start"

\* Not its turn, or the dependency is neither up nor failed.
StartSkips ==
    /\ Turn
    /\ ~Due(i) \/ ~(DependencyFailed(i) \/ dependency_ready(i))
    /\ UNCHANGED <<loaded, services, quiescent_reported, children, fork_failures, spawned>>

\* The dependency has failed.
StartPropagates ==
    /\ Turn
    /\ Due(i) /\ DependencyFailed(i)
    /\ state' = [state EXCEPT ![i] = "FAILED"]
    /\ UNCHANGED <<loaded, pid, restart_count, ready_in, quiescent_reported, children,
                   fork_failures, spawned>>

\* The kernel's choice of a pid that no child has.  Pids are only compared, and
\* the least one is the one most recently reaped more often than not.
FreshPid(p) == /\ p \in Pid \ DOMAIN children
               /\ \A q \in Pid \ DOMAIN children : p <= q

\* spawn_service: fork returns the pid of the child.
StartSpawns ==
    /\ Turn
    /\ Due(i) /\ dependency_ready(i)
    /\ \E p \in Pid :
        /\ FreshPid(p)
        /\ children' = [q \in DOMAIN children \cup {p} |->
                           IF q = p THEN "running" ELSE children[q]]
        /\ pid' = [pid EXCEPT ![i] = p]
    /\ state' = [state EXCEPT ![i] = "RUNNING"]
    /\ spawned' = [spawned EXCEPT ![i] = @ + 1]
    /\ UNCHANGED <<loaded, restart_count, ready_in, quiescent_reported, fork_failures>>

\* spawn_service: fork fails, and the service is tried again after the delay.
StartForkFails ==
    /\ Turn
    /\ Due(i) /\ dependency_ready(i)
    /\ fork_failures < MaxForkFailures
    /\ fork_failures' = fork_failures + 1
    /\ state' = [state EXCEPT ![i] = "BACKOFF"]
    /\ ready_in' = [ready_in EXCEPT ![i] = config.restart_delay]
    /\ UNCHANGED <<loaded, pid, restart_count, quiescent_reported, children, spawned>>

-----------------------------------------------------------------------------
(* The rest of the loop: the report, the tick and sched_yield. *)

\* Mutant of terminal: a service that waits for its restart is overlooked.
TerminalIgnoringBackoff ==
    \A s \in Service : state[s] \notin {"RUNNING", "STOPPED"}

terminal == \A s \in Service : state[s] \in {"COMPLETE", "FAILED"}

Settle ==
    /\ pc = "start" /\ i > ServiceCount
    /\ quiescent_reported' = (quiescent_reported \/ terminal)
    /\ ready_in' = [s \in Service |-> IF ready_in[s] = 0 THEN 0 ELSE ready_in[s] - 1]
    /\ pc' = "reap" /\ i' = 1
    /\ UNCHANGED <<loaded, state, pid, restart_count, children, fork_failures, spawned>>

-----------------------------------------------------------------------------
Loop == \/ BootLoads \/ BootAccepts \/ BootRejects
        \/ Reap \/ ReapDone
        \/ StartSkips \/ StartPropagates \/ StartSpawns \/ StartForkFails
        \/ Settle
Next == Loop \/ Rejected \/ \E p \in Pid : ServiceExits(p)

Spec == Init /\ [][Next]_vars

\* The kernel's scheduler is fair to PID 1 (RunnableRuns of NarcTasks), and
\* every service process ends sooner or later.
FairSpec == Spec /\ WF_vars(Loop) /\ \A p \in Pid : WF_vars(ServiceExits(p))

-----------------------------------------------------------------------------
(* Properties. *)

\* PID 1 starts services exactly when the files are a valid configuration: every line
\* is understood, numbers fit, every dependency is there and no chain of them closes.
\* The loop then runs on what the files say, in the order of their names.
BootDecides ==
    [][pc = "loaded" =>
        IF SettingsValid(files.settings) /\ DirectoryValid(files.directory)
        THEN pc' = "reap" /\ Says(config', files)
        ELSE pc' = "rejected" /\ DOMAIN children' = {}]_vars

\* The supervisor and the kernel agree on who runs: every process belongs to
\* exactly one running service, and every running service has its process,
\* alive or not yet reaped; so no process is reaped as an orphan.
ProcessesAccounted ==
    /\ \A p \in DOMAIN children :
        \E s \in Service : service_by_pid(p) = {s}
    /\ \A s \in Service :
        IF state[s] = "RUNNING" THEN pid[s] \in DOMAIN children ELSE pid[s] = 0

\* No service is started before the one it is started after: whatever has left
\* STOPPED without having failed has a dependency that has left STOPPED.
StartOrder ==
    \A s \in Service :
        After(s) # 0 /\ state[s] \in {"RUNNING", "BACKOFF", "COMPLETE"}
            => state[After(s)] # "STOPPED" /\ spawned[After(s)] > 0

\* record_exit enforces the policy: a one-shot service is started at most once
\* and a respawning one at most restart_limit times more.
RestartBound ==
    \A s \in Service :
        spawned[s] <= IF Policy(s) = "once" THEN 1 ELSE config.restart_limit + 1

\* "service graph settled" is final: after the report no service process is
\* left and none is ever started again.
SettledIsFinal == quiescent_reported => terminal /\ DOMAIN children = {}

\* When services end and fork fails finitely often, the graph settles, unless the
\* configuration is rejected: restarts come to an end, failure is passed on to the
\* services that wait for a failed one, and no accepted service waits for itself.
Settles == <>(quiescent_reported \/ pc = "rejected")
=============================================================================
