---------------------------- MODULE Processes ----------------------------
(***************************************************************************)
(* What the process system calls promise to programs, with no kernel in    *)
(* sight: processes are named by their pids and all of them run at once.   *)
(* There is no run queue, no stored context and no struct to recycle.      *)
(* NarcTasks is shown to implement this specification.                     *)
(*                                                                         *)
(* Every process sees its own result registers (ret), FPU registers and    *)
(* status word, which only its own calls may change, with one exception:   *)
(* the exit of an awaited child completes the wait of its parent.          *)
(***************************************************************************)
EXTENDS Integers, FiniteSets

CONSTANTS Pid, ExitArg, Fpu, CleanFpu

VARIABLES
    proc,       \* pid -> what is known of the process
    stopped     \* why no process runs any more, or "no"

pvars == <<proc, stopped>>

AnyChild == -1
Ok(v) == [value |-> v, status |-> "OK"]
Err(e) == [value |-> 0, status |-> e]

Running == {p \in DOMAIN proc : proc[p].phase = "running"}
Kids(p, w) == {c \in DOMAIN proc : proc[c].parent = p /\ w \in {AnyChild, c}}
Exited(p, w) == {c \in Kids(p, w) : proc[c].phase = "exited"}

\* A process that has exited is only its parent's pid and its code.
Corpse(parent, code) ==
    [parent |-> parent, phase |-> "exited", code |-> code, awaited |-> 0,
     wanted |-> FALSE, ret |-> Ok(0), fpu |-> CleanFpu, word |-> 0]

\* The child that process x forks, x after exec, after a reaped child, asleep in
\* wait, and woken from it.
Child(x, p) == [x EXCEPT !.parent = p, !.ret = Ok(0)]
Replaced(x) == [x EXCEPT !.ret = Ok(0), !.fpu = CleanFpu, !.word = 0]
Told(x, c, word) == [x EXCEPT !.ret = Ok(c), !.word = word]
Asleep(x, w, wanted) ==
    [x EXCEPT !.phase = "waiting", !.awaited = w, !.wanted = wanted]
Awake(x, c, word) ==
    [x EXCEPT !.phase = "running", !.awaited = 0, !.wanted = FALSE,
              !.ret = Ok(c), !.word = word]

Without(f, p) == [q \in DOMAIN f \ {p} |-> f[q]]
Returns(p, r) == proc' = [proc EXCEPT ![p].ret = r]
Written(p, wanted, code) == IF wanted THEN 256 * code ELSE proc[p].word

PInit ==
    /\ stopped = "no"
    /\ proc = [p \in {1} |->
                [parent |-> 0, phase |-> "running", code |-> 0, awaited |-> 0,
                 wanted |-> FALSE, ret |-> Ok(0), fpu |-> CleanFpu, word |-> 0]]

PCompute(p) == \E f \in Fpu : proc' = [proc EXCEPT ![p].fpu = f]

PFork(p) ==
    \E c \in Pid \ DOMAIN proc :
        proc' = [q \in DOMAIN proc \cup {c} |->
                    IF q = c THEN Child(proc[p], p)
                    ELSE IF q = p THEN [proc[p] EXCEPT !.ret = Ok(c)]
                    ELSE proc[q]]

\* Calls that change nothing but the registers of the caller.
PFails(p) ==
    \E e \in {"TRY_AGAIN", "BAD_ADDRESS", "NOT_FOUND"} : Returns(p, Err(e))
PTrivial(p) == \E v \in {0, p} : Returns(p, Ok(v))

PExec(p) == proc' = [proc EXCEPT ![p] = Replaced(@)]

\* Some exited child is removed and its pid and code are handed to the parent.
PReap(p, w, wanted) ==
    \E c \in Exited(p, w) :
        proc' = Without([proc EXCEPT
                    ![p] = Told(@, c, Written(p, wanted, proc[c].code))], c)

PNoChild(p, w) ==
    /\ Kids(p, w) = {} \/ Running = {p}
    /\ Exited(p, w) = {}
    /\ Returns(p, Err("NO_CHILD"))

PBlock(p, w, wanted) ==
    /\ Kids(p, w) # {} /\ Exited(p, w) = {}
    /\ Running # {p}
    /\ proc' = [proc EXCEPT ![p] = Asleep(@, w, wanted)]

Awaited(p) == LET q == proc[p].parent
              IN  /\ q \in DOMAIN proc
                  /\ proc[q].phase = "waiting"
                  /\ proc[q].awaited \in {AnyChild, p}

\* exit completes the wait of a waiting parent, and is remembered otherwise.
PExit(p, c) ==
    IF Awaited(p)
    THEN LET q == proc[p].parent
         IN  proc' = Without([proc EXCEPT
                         ![q] = Awake(@, p, Written(q, proc[q].wanted, c % 256))], p)
    ELSE proc' = [proc EXCEPT ![p] = Corpse(proc[p].parent, c % 256)]

\* What a running process may do.  A program may also wait for pid 0, which no
\* process has.
PCall(p) ==
    \/ PCompute(p) \/ PFork(p) \/ PFails(p) \/ PTrivial(p) \/ PExec(p)
    \/ \E w \in Pid \cup {AnyChild, 0} :
        \/ PNoChild(p, w)
        \/ \E wanted \in BOOLEAN : PReap(p, w, wanted) \/ PBlock(p, w, wanted)
    \/ \E c \in ExitArg : PExit(p, c)

PNext ==
    /\ stopped = "no"
    /\ \/ stopped' = "fault" /\ UNCHANGED proc
       \/ /\ \E p \in Running : PCall(p)
          /\ stopped' = IF Running' = {} THEN "exited" ELSE "no"

PSpec == PInit /\ [][PNext]_pvars
=============================================================================
