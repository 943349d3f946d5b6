------------------------------ MODULE MCVfs ------------------------------
(***************************************************************************)
(* NarcTar, and NarcVfs in it, for model checking.                         *)
(***************************************************************************)
EXTENDS NarcTar, TLC

CONSTANTS a, b, long

\* All paths of up to two components, and those of three that only go down.
AllPaths ==
    LET some == (Name \ TooLong) \cup {Dot, DotDot}
    IN  {<<>>} \cup {<<c>> : c \in some \cup TooLong}
        \cup {<<c, d>> : c, d \in some}
        \cup {<<x, y, z>> : x, y, z \in Name \ TooLong}

\* Entries of an archive with their data.
Header(path, type, size) == [magic |-> TRUE, path |-> path, type |-> type, size |-> size]
DirAt(path) == <<Header(path, "DIR", 0)>>
FileAt(path, size) == <<Header(path, "REG", size)>> \o [i \in 1..size |-> Data]
BadMagic == <<[Header(<<a>>, "DIR", 0) EXCEPT !.magic = FALSE]>>
End == <<Zero, Zero>>

Entries2 ==
    {DirAt(p) : p \in {<<>>, <<Dot>>, <<a>>, <<Dot, a>>, <<a, Dot>>, <<a, b>>, <<long>>}}
    \cup {FileAt(p, 1) : p \in {<<Dot>>, <<a>>, <<a, Dot>>, <<a, b>>, <<Dot, a, b>>, <<a, DotDot>>,
                                <<b, a, a>>}}
    \cup {FileAt(<<a>>, 0), FileAt(<<a>>, 2), BadMagic}

\* Every two entries, complete and cut off in the last block, and nothing.
AllArchives ==
    {e \o f \o End : e, f \in Entries2}
    \cup {SubSeq(e \o f, 1, Len(e \o f) - 1) : e, f \in Entries2}
    \cup {<<Zero>>}

Symmetry == Permutations(Vnode \ {Root}) \cup Permutations(File)

\* Once programs run, the archive plays no part.
LiveView == <<vars, IF phase = "ready" THEN <<phase>> ELSE boot>>
=============================================================================
