---------------------------- MODULE ByteFile -----------------------------
(***************************************************************************)
(* What the VFS promises about the contents of a file: a sequence of bytes *)
(* that all its openers share, and a position for each of them.            *)
(***************************************************************************)
EXTENDS Integers, Sequences

CONSTANTS Byte, FileMax, File

VARIABLES bytes, at, mode

bvars == <<bytes, at, mode>>

Strings == UNION {[1..n -> Byte] : n \in 0..FileMax}
Longer(a, b) == IF a > b THEN a ELSE b

\* The bytes once d has been written at position p.
Written(p, d) ==
    [i \in 1..Longer(Len(bytes), p + Len(d)) |->
        IF i > p /\ i <= p + Len(d) THEN d[i - p]
        ELSE IF i <= Len(bytes) THEN bytes[i] ELSE 0]

BInit == /\ bytes \in Strings
         /\ at = [f \in File |-> 0]
         /\ mode = [f \in File |-> {}]

BOpen(f) ==
    /\ mode[f] = {}
    /\ \E m \in SUBSET {"READ", "WRITE", "APPEND"} :
        /\ mode' = [mode EXCEPT ![f] = m]
        /\ bytes' = bytes \/ ("WRITE" \in m /\ bytes' = <<>>)
        /\ at' = [at EXCEPT ![f] = IF "APPEND" \in m THEN Len(bytes') ELSE 0]

BClose(f) == /\ mode[f] # {}
             /\ mode' = [mode EXCEPT ![f] = {}]
             /\ at' = [at EXCEPT ![f] = 0]
             /\ UNCHANGED bytes

\* Reading and seeking move the position of one opener.
BMove(f) == /\ mode[f] # {}
            /\ \E p \in 0..FileMax : at' = [at EXCEPT ![f] = p]
            /\ UNCHANGED <<bytes, mode>>

BWrite(f) ==
    /\ "WRITE" \in mode[f]
    /\ \E d \in Strings :
        LET p == IF "APPEND" \in mode[f] THEN Len(bytes) ELSE at[f]
        IN  /\ p + Len(d) <= FileMax
            /\ bytes' = Written(p, d)
            /\ at' = [at EXCEPT ![f] = p + Len(d)]
    /\ UNCHANGED mode

BNext == \E f \in File : BOpen(f) \/ BClose(f) \/ BMove(f) \/ BWrite(f)

BSpec == BInit /\ [][BNext]_bvars
=============================================================================
