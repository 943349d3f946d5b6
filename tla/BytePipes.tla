---------------------------- MODULE BytePipes ----------------------------
(***************************************************************************)
(* What pipes promise: bounded queues of bytes.  A write takes as much as  *)
(* fits, a read returns as much as there is.  And what the console         *)
(* promises: lines, one after the other.                                   *)
(***************************************************************************)
EXTENDS Integers, Sequences

CONSTANTS Pipe, PIPE_SIZE, Byte, InputSize, Newline, None

VARIABLES
    queue,          \* pipe -> the bytes in it, None when there is no such pipe
    line,           \* what is left of the last line that was typed
    got             \* bytes that the last call returned

qvars == <<queue, line, got>>

Init == queue = [p \in Pipe |-> None] /\ line = <<>> /\ got = <<>>

Make(p) == queue[p] = None /\ queue' = [queue EXCEPT ![p] = <<>>] /\ got' = <<>>

Write(p, bytes) ==
    /\ queue[p] # None
    /\ LET all == queue[p] \o bytes
       IN  queue' = [queue EXCEPT ![p] =
              SubSeq(all, 1, IF Len(all) < PIPE_SIZE THEN Len(all) ELSE PIPE_SIZE)]
    /\ got' = <<>>

Read(p, len) ==
    /\ queue[p] # None
    /\ LET done == IF len < Len(queue[p]) THEN len ELSE Len(queue[p])
       IN  /\ got' = SubSeq(queue[p], 1, done)
           /\ queue' = [queue EXCEPT ![p] = SubSeq(@, done + 1, Len(@))]

\* A call that has nothing to do with the contents of pipes, an exit that leaves
\* several of them without ends included.
Other ==
    /\ \E gone \in SUBSET Pipe :
          queue' = [p \in Pipe |-> IF p \in gone THEN None ELSE queue[p]]
    /\ got' = <<>>

\* A line has its newline at the end; a long one is cut and has none.
Line == {l \in UNION {[1..n -> Byte] : n \in 1..InputSize} :
            /\ \A i \in 1..(Len(l) - 1) : l[i] # Newline
            /\ l[Len(l)] = Newline \/ Len(l) = InputSize}

\* A new line is begun when the last one has been taken, and never joined to it.
ReadLine ==
    /\ got' # <<>>
    /\ got' \o line' \in IF line = <<>> THEN Line ELSE {line}
    /\ UNCHANGED queue

Next ==
    \/ ReadLine
    \/ Other /\ UNCHANGED line
    \/ \E p \in Pipe :
        /\ \/ Make(p)
           \/ \E n \in 1..(PIPE_SIZE + 1) : \E bytes \in [1..n -> Byte] : Write(p, bytes)
           \/ \E len \in 1..(PIPE_SIZE + 1) : Read(p, len)
        /\ UNCHANGED line

Spec == Init /\ [][Next]_qvars
=============================================================================
