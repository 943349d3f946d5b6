----------------------------- MODULE NarcFds -----------------------------
(***************************************************************************)
(* Descriptors, open files and pipes: the second half of kernel/task.c.    *)
(*                                                                         *)
(* Each task has a table of descriptors that grows by doubling.  A slot    *)
(* holds a struct open_file, which tasks share after a fork and slots      *)
(* share after a dup; the struct counts the slots.  The two ends of a pipe *)
(* share a struct pipe, which counts the ends.  Whatever needs memory may  *)
(* fail.  A call runs with interrupts off, so it is one step; as no call   *)
(* looks at another task's table, the task that makes it is any live one.  *)
(*                                                                         *)
(* Offsets and contents of files are in VfsData, the memory in NarcMem.    *)
(***************************************************************************)
EXTENDS Integers, Sequences, FiniteSets

CONSTANTS
    Task,
    Std,            \* descriptors that a first task has: 3
    FdCount,        \* size of a first table: 8
    FdMax,          \* bound: tables do not grow beyond it
    Files, Pipes,   \* bounds: structs there can be
    PIPE_SIZE,
    Byte,
    InputSize,      \* sizeof(input): 256
    Newline,        \* a byte
    Return, Erase,  \* keys of the serial line: '\r', and '\b' or DEL
    MaxKeys,        \* bound: keys typed for one line
    None

ASSUME SizeAssumption ==
    /\ Std \in Nat /\ FdCount \in Nat \ {0} /\ FdMax \in Nat
    /\ Std <= FdCount /\ FdCount <= FdMax
    /\ Files \in Nat /\ Std <= Files /\ Pipes \in Nat /\ PIPE_SIZE \in Nat \ {0}
ASSUME TaskAssumption == IsFiniteSet(Task)
ASSUME ByteAssumption ==
    {0, Newline} \subseteq Byte /\ {Return, Erase} \cap Byte = {} /\ Return # Erase
ASSUME InputAssumption == InputSize \in Nat \ {0} /\ MaxKeys \in Nat

VARIABLES
    fds,            \* task -> descriptor -> open file; None for no task
    file,           \* struct open_file, or None when it is free
    pipe,           \* struct pipe, or None when it is free
    handles,        \* open files that hold a struct file of the VFS
    input,          \* input[input_pos..input_count): what is left of a line typed
    got             \* bytes that the last call returned to its caller

vars == <<fds, file, pipe, handles, input, got>>

File == 1..Files
Pipe == 1..Pipes

\* A table, a struct open_file and a struct pipe; none of them is a null pointer.
Table == UNION {[0..(n - 1) -> File \cup {None}] : n \in FdCount..FdMax}
OpenFile == [refs : Nat, type : {"CONSOLE", "VFS", "PIPE_R", "PIPE_W"}, pipe : Pipe \cup {None}]
PipeBuffer == [refs : Nat, head : 0..(PIPE_SIZE - 1), count : 0..PIPE_SIZE,
               data : [0..(PIPE_SIZE - 1) -> Byte]]
ASSUME NoneAssumption ==
    /\ None \notin File \cup Pipe \cup Table \cup OpenFile \cup PipeBuffer
    /\ None \notin UNION {[1..n -> Byte] : n \in 0..PIPE_SIZE}

Live == {t \in Task : fds[t] # None}

\* What kzalloc may return.
NewFile(f) == file[f] = None /\ \A g \in File : g < f => file[g] # None
NewPipe(p) == pipe[p] = None /\ \A q \in Pipe : q < p => pipe[q] # None

file_new(type, p) == [refs |-> 1, type |-> type, pipe |-> p]

-----------------------------------------------------------------------------
(* Tables. *)

\* The lowest free descriptor from minimum on.
Slot(tab, minimum) ==
    CHOOSE fd \in minimum..(minimum + FdMax) :
        /\ fd \notin DOMAIN tab \/ tab[fd] = None
        /\ \A i \in minimum..(fd - 1) : i \in DOMAIN tab /\ tab[i] # None

\* The size to which fd_reserve brings a table of size n.
Doubled(n, fd) ==
    LET count[k \in 0..fd] == IF k = 0 THEN n ELSE 2 * count[k - 1]
    IN  count[CHOOSE k \in 0..fd : count[k] > fd /\ \A j \in 0..(k - 1) : count[j] <= fd]

\* The table once fd_reserve succeeds; it may succeed and, for lack of memory, fail.
fd_reserve(tab, fd) ==
    [i \in 0..(Doubled(Cardinality(DOMAIN tab), fd) - 1) |->
        IF i \in DOMAIN tab THEN tab[i] ELSE None]
Reserves(tab, fd) == Doubled(Cardinality(DOMAIN tab), fd) <= FdMax
MayFail(tab, fd) == fd \notin DOMAIN tab

fd_install(tab, f, minimum) ==
    LET fd == Slot(tab, minimum) IN [fd_reserve(tab, fd) EXCEPT ![fd] = f]

\* The open file behind a descriptor.
fd_get(t, fd) == IF t \in Live /\ fd \in DOMAIN fds[t] THEN fds[t][fd] ELSE None

-----------------------------------------------------------------------------
(* References. *)

\* How often each open file occurs in a table, and one reference to f.
Occurrences(tab) == [f \in File |-> Cardinality({fd \in DOMAIN tab : tab[fd] = f})]
One(f) == [g \in File |-> IF g = f THEN 1 ELSE 0]

\* The open files whose last references go when drop[f] of each go.
Last(fs, drop) == {f \in File : drop[f] > 0 /\ fs[f].refs = drop[f]}

\* Mutant of pipe_put: the first end that goes takes the pipe with it.
PipeGoes(ps, fs, drop) ==
    [p \in Pipe |-> IF \E f \in Last(fs, drop) : fs[f].pipe = p THEN None ELSE ps[p]]

\* pipe_put for each of the ends that go.
pipe_put(ps, fs, drop) ==
    [p \in Pipe |->
        LET n == Cardinality({f \in Last(fs, drop) : fs[f].pipe = p})
        IN  IF n = 0 THEN ps[p]
            ELSE IF ps[p].refs = n THEN None
            ELSE [ps[p] EXCEPT !.refs = @ - n]]

\* file_put, drop[f] times for each open file f.
file_put(fs, ps, hs, drop) ==
    /\ file' = [f \in File |->
          IF drop[f] = 0 THEN fs[f]
          ELSE IF f \in Last(fs, drop) THEN None
          ELSE [fs[f] EXCEPT !.refs = @ - drop[f]]]
    /\ pipe' = pipe_put(ps, fs, drop)
    /\ handles' = hs \ {f \in Last(fs, drop) : fs[f].type = "VFS"}

-----------------------------------------------------------------------------
\* task_create and init_fds: the console three times.
Init ==
    /\ \E t \in Task :
          fds = [s \in Task |-> IF s = t
                    THEN [i \in 0..(FdCount - 1) |-> IF i < Std THEN i + 1 ELSE None]
                    ELSE None]
    /\ file = [f \in File |-> IF f <= Std THEN file_new("CONSOLE", None) ELSE None]
    /\ pipe = [p \in Pipe |-> None]
    /\ handles = {}
    /\ input = <<>> /\ got = <<>>

\* task_fd_open
Open(t, f) ==
    /\ t \in Live /\ NewFile(f)
    /\ Reserves(fds[t], Slot(fds[t], Std))
    /\ fds' = [fds EXCEPT ![t] = fd_install(@, f, Std)]
    /\ file' = [file EXCEPT ![f] = file_new("VFS", None)]
    /\ handles' = handles \cup {f}
    /\ got' = <<>>
    /\ UNCHANGED pipe

\* task_fd_open when the file is open and the table cannot grow.
OpenFails(t, f) ==
    /\ t \in Live /\ NewFile(f)
    /\ MayFail(fds[t], Slot(fds[t], Std))
    /\ file_put([file EXCEPT ![f] = file_new("VFS", None)], pipe, handles \cup {f}, One(f))
    /\ got' = <<>>
    /\ UNCHANGED fds

\* task_fd_close
Close(t, fd) ==
    /\ fd_get(t, fd) # None
    /\ fds' = [fds EXCEPT ![t][fd] = None]
    /\ file_put(file, pipe, handles, One(fds[t][fd]))
    /\ got' = <<>>

\* task_fd_dup
Dup(t, fd, minimum) ==
    /\ fd_get(t, fd) # None
    /\ Reserves(fds[t], Slot(fds[t], minimum))
    /\ fds' = [fds EXCEPT ![t] = fd_install(@, fds[t][fd], minimum)]
    /\ file' = [file EXCEPT ![fds[t][fd]].refs = @ + 1]
    /\ got' = <<>>
    /\ UNCHANGED <<pipe, handles>>

\* task_fd_dup2
Dup2(t, fd, newfd) ==
    /\ fd_get(t, fd) # None /\ newfd # fd
    /\ Reserves(fds[t], newfd)
    /\ LET tab == fd_reserve(fds[t], newfd)
       IN  /\ fds' = [fds EXCEPT ![t] = [tab EXCEPT ![newfd] = tab[fd]]]
           /\ file_put([file EXCEPT ![tab[fd]].refs = @ + 1], pipe, handles, One(tab[newfd]))
    /\ got' = <<>>

\* The objects of task_fd_pipe before the descriptors are installed.
PipeFiles(r, w, p) ==
    [file EXCEPT ![r] = file_new("PIPE_R", p), ![w] = file_new("PIPE_W", p)]
PipeNew(p) ==
    [pipe EXCEPT ![p] = [refs |-> 2, head |-> 0, count |-> 0,
                         data |-> [i \in 0..(PIPE_SIZE - 1) |-> 0]]]

\* The structs of the two ends.
NewEnds(r, w) ==
    /\ NewFile(r) /\ file[w] = None /\ r < w
    /\ \A g \in File : g < w /\ g # r => file[g] # None

\* task_fd_pipe
MakePipe(t, r, w, p) ==
    /\ t \in Live /\ NewPipe(p) /\ NewEnds(r, w)
    /\ LET tab == fd_install(fds[t], r, 0)
       IN  /\ Reserves(fds[t], Slot(fds[t], 0)) /\ Reserves(tab, Slot(tab, 0))
           /\ fds' = [fds EXCEPT ![t] = fd_install(tab, w, 0)]
    /\ file' = PipeFiles(r, w, p)
    /\ pipe' = PipeNew(p)
    /\ got' = <<>>
    /\ UNCHANGED handles

\* Mutant of PipeUndone: the read end stays in its slot.
PipeLeft(tab, old) == tab

\* The table when the write end cannot be installed: the slot of the read end is
\* emptied; the table keeps its size.
PipeUndone(tab, old) == [tab EXCEPT ![Slot(old, 0)] = None]

\* task_fd_pipe when no descriptor can be had for one of the ends.
PipeFails(t, r, w, p) ==
    /\ t \in Live /\ NewPipe(p) /\ NewEnds(r, w)
    /\ \/ MayFail(fds[t], Slot(fds[t], 0)) /\ UNCHANGED fds
       \/ LET tab == fd_install(fds[t], r, 0)
          IN  /\ Reserves(fds[t], Slot(fds[t], 0)) /\ MayFail(tab, Slot(tab, 0))
              /\ fds' = [fds EXCEPT ![t] = PipeUndone(tab, fds[t])]
    /\ file_put(PipeFiles(r, w, p), PipeNew(p), handles,
                [f \in File |-> IF f \in {r, w} THEN 1 ELSE 0])
    /\ got' = <<>>

\* What task_fork makes of the open files in the table it copies.
Shared(tab) ==
    [f \in File |-> IF file[f] = None THEN None
                    ELSE [file[f] EXCEPT !.refs = @ + Occurrences(tab)[f]]]

\* task_fork
Fork(t, child) ==
    /\ t \in Live /\ child \in Task \ Live
    /\ fds' = [fds EXCEPT ![child] = fds[t]]
    /\ file' = Shared(fds[t])
    /\ got' = <<>>
    /\ UNCHANGED <<pipe, handles>>

\* task_exit and close_all.  The last task's exit halts the machine.
Exit(t) ==
    /\ t \in Live /\ Live # {t}
    /\ fds' = [fds EXCEPT ![t] = None]
    /\ file_put(file, pipe, handles, Occurrences(fds[t]))
    /\ got' = <<>>

-----------------------------------------------------------------------------
(* Bytes through a pipe. *)

Lesser(a, b) == IF a < b THEN a ELSE b

\* Mutant of WriteAt: the write position forgets what is queued.
TailAtHead(q, i) == q.head + i

\* Where byte i of a write goes, before the modulus.
WriteAt(q, i) == q.head + q.count + i

\* Mutant of Room: a pipe is always thought empty.
RoomAlways(q) == PIPE_SIZE

\* How many bytes a pipe still takes.
Room(q) == PIPE_SIZE - q.count

\* A pipe when the bytes that fit have gone in.
Filled(q, bytes) ==
    LET done == Lesser(Len(bytes), Room(q))
    IN  [q EXCEPT
            !.count = @ + done,
            !.data = [i \in 0..(PIPE_SIZE - 1) |->
                IF \E j \in 0..(done - 1) : i = WriteAt(q, j) % PIPE_SIZE
                THEN bytes[1 + CHOOSE j \in 0..(done - 1) : i = WriteAt(q, j) % PIPE_SIZE]
                ELSE q.data[i]]]

\* The first bytes of a pipe, and the pipe without them.
Taken(q, done) == [i \in 1..done |-> q.data[(q.head + i - 1) % PIPE_SIZE]]
Drained(q, done) == [q EXCEPT !.head = (@ + done) % PIPE_SIZE, !.count = @ - done]

\* task_fd_write on the write end of a pipe: what fits.
Write(t, fd, bytes) ==
    /\ fd_get(t, fd) # None /\ file[fds[t][fd]].type = "PIPE_W"
    /\ pipe' = [pipe EXCEPT ![file[fds[t][fd]].pipe] = Filled(@, bytes)]
    /\ got' = <<>>
    /\ UNCHANGED <<fds, file, handles>>

\* task_fd_read on the read end of a pipe: what there is, possibly nothing.
Read(t, fd, len) ==
    /\ fd_get(t, fd) # None /\ file[fds[t][fd]].type = "PIPE_R"
    /\ LET p == file[fds[t][fd]].pipe
           done == Lesser(len, pipe[p].count)
       IN  /\ got' = Taken(pipe[p], done)
           /\ pipe' = [pipe EXCEPT ![p] = Drained(@, done)]
    /\ UNCHANGED <<fds, file, handles>>

-----------------------------------------------------------------------------
(* Lines from the console. *)

\* What a key does to the line: one round of the loop over serial_getc.
Typed(line, key) ==
    CASE key = Erase -> IF line = <<>> THEN line ELSE SubSeq(line, 1, Len(line) - 1)
      [] key = Return -> Append(line, Newline)
      [] OTHER -> Append(line, key)

\* The loop ends with a newline, or when the buffer is full.
LineDone(line) == Len(line) = InputSize \/ (line # <<>> /\ line[Len(line)] = Newline)

\* What may be in the buffer after up to n keys.
Edited[n \in 0..MaxKeys] ==
    IF n = 0 THEN {<<>>}
    ELSE Edited[n - 1] \cup
         {Typed(l, key) : l \in {k \in Edited[n - 1] : ~LineDone(k)}, key \in Byte \cup {Return, Erase}}

\* task_fd_read on the console.  The line is typed within the call, which polls with
\* interrupts off; what the caller does not take is left for whoever reads next.
ReadConsole(t, fd, len) ==
    /\ fd_get(t, fd) # None /\ file[fds[t][fd]].type = "CONSOLE"
    /\ \E line \in IF input = <<>> THEN {l \in Edited[MaxKeys] : LineDone(l)} ELSE {input} :
        LET done == Lesser(len, Len(line))
        IN  /\ got' = SubSeq(line, 1, done)
            /\ input' = SubSeq(line, done + 1, Len(line))
    /\ UNCHANGED <<fds, file, pipe, handles>>

-----------------------------------------------------------------------------
Bytes == UNION {[1..n -> Byte] : n \in 1..(PIPE_SIZE + 1)}

\* The calls that have nothing to do with the serial line.
Calls ==
    \E t \in Task :
        \/ \E f \in File : Open(t, f) \/ OpenFails(t, f)
        \/ \E fd \in 0..(FdMax - 1) :
            \/ Close(t, fd)
            \/ \E other \in 0..(FdMax - 1) : Dup(t, fd, other) \/ Dup2(t, fd, other)
            \/ \E bytes \in Bytes : Write(t, fd, bytes)
            \/ \E len \in 1..(PIPE_SIZE + 1) : Read(t, fd, len)
        \/ \E r, w \in File, p \in Pipe : MakePipe(t, r, w, p) \/ PipeFails(t, r, w, p)
        \/ \E child \in Task : Fork(t, child)
        \/ Exit(t)

Next ==
    \/ Calls /\ UNCHANGED input
    \/ \E t \in Task, fd \in 0..(FdMax - 1), len \in 1..(InputSize + 1) : ReadConsole(t, fd, len)

Spec == Init /\ [][Next]_vars

-----------------------------------------------------------------------------
(* Properties. *)

\* Every variable has its type: counts and positions stay within the ring buffer and
\* the table, and something of a line has always been taken.
TypeOK ==
    /\ \A t \in Live : fds[t] \in Table
    /\ \A f \in File : file[f] # None =>
          file[f] \in OpenFile /\ file[f].refs \in 1..(FdMax * Cardinality(Task))
    /\ \A p \in Pipe : pipe[p] # None => pipe[p] \in PipeBuffer /\ pipe[p].refs \in 1..2
    /\ handles \subseteq File
    /\ Len(input) < InputSize

\* An open file is alive as long as some slot of some task holds it, and its count
\* is the number of those slots; the VFS file behind it is closed exactly then.
\* So no slot ever names a freed struct, and none outlives its last descriptor.
FilesCounted ==
    \A f \in File :
        LET slots == {x \in Task \X (0..(FdMax - 1)) : fd_get(x[1], x[2]) = f}
        IN  /\ (file[f] = None) <=> (slots = {})
            /\ file[f] # None => file[f].refs = Cardinality(slots)
            /\ f \in handles <=> (file[f] # None /\ file[f].type = "VFS")

\* A pipe lives as long as one of its ends does, and has at most one end of a kind:
\* an end that closes last frees the buffer, and no end is left with a freed one.
PipesCounted ==
    \A p \in Pipe :
        LET ends == {f \in File : file[f] # None /\ file[f].pipe = p}
        IN  /\ (pipe[p] = None) <=> (ends = {})
            /\ pipe[p] # None => pipe[p].refs = Cardinality(ends)
            /\ \A f, g \in ends : file[f].type = file[g].type => f = g

\* Through the ring buffer, whichever tasks and descriptors share its ends, bytes
\* come out of a pipe once, in the order in which they went in, and a new pipe
\* starts empty whatever the struct was used for before.  The console gives out
\* lines: each byte of a line once and in order, over calls of any sizes from any of
\* the tasks that share the one buffer, and no part of the next line with it.
Queue(q) == IF q = None THEN None ELSE Taken(q, q.count)
BP == INSTANCE BytePipes WITH queue <- [p \in Pipe |-> Queue(pipe[p])], line <- input
ImplementsBytePipes == BP!Spec
=============================================================================
