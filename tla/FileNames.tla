---------------------------- MODULE FileNames ----------------------------
(***************************************************************************)
(* What the VFS promises to programs about names: a file system is a       *)
(* function from paths to files, and an open file stays the file that it   *)
(* was when it was opened, whatever happens to its name.                   *)
(***************************************************************************)
EXTENDS Integers, Sequences

CONSTANTS
    Id,             \* identities of files
    RootId,         \* the identity of the root directory
    NoId,           \* a handle that is not open
    Component,      \* names
    Handle          \* what open returns

VARIABLES
    fs,             \* path -> identity and kind
    handle          \* handle -> identity of the file

nvars == <<fs, handle>>

Paths == DOMAIN fs
IsDir(p) == p \in Paths /\ fs[p].kind = "DIR"
Above(p) == SubSeq(p, 1, Len(p) - 1)
From(p, q) == Len(q) >= Len(p) /\ SubSeq(q, 1, Len(p)) = p
Empty(p) == \A q \in Paths : From(p, q) => q = p
Used == {fs[p].id : p \in Paths} \cup {handle[h] : h \in Handle}

NInit == /\ fs = [p \in {<<>>} |-> [id |-> RootId, kind |-> "DIR"]]
         /\ handle = [h \in Handle |-> NoId]

\* A new entry in a directory, with an identity nothing else has.
Make(d, n, i, k) ==
    /\ IsDir(d) /\ Append(d, n) \notin Paths
    /\ i \notin Used
    /\ fs' = [p \in Paths \cup {Append(d, n)} |->
                 IF p \in Paths THEN fs[p] ELSE [id |-> i, kind |-> k]]

Create == /\ \E d \in Paths, n \in Component, i \in Id, k \in {"REG", "DIR"} : Make(d, n, i, k)
          /\ UNCHANGED handle

Open(h) == /\ handle[h] = NoId
           /\ \E p \in Paths : handle' = [handle EXCEPT ![h] = fs[p].id]
           /\ UNCHANGED fs

OpenNew(h) == /\ handle[h] = NoId
              /\ \E d \in Paths, n \in Component, i \in Id :
                    /\ Make(d, n, i, "REG")
                    /\ handle' = [handle EXCEPT ![h] = i]

Close(h) == /\ handle[h] # NoId
            /\ handle' = [handle EXCEPT ![h] = NoId]
            /\ UNCHANGED fs

\* The name goes; handles keep the file.
Remove(p) == /\ p # <<>> /\ Empty(p)
             /\ fs' = [q \in Paths \ {p} |-> fs[q]]
             /\ UNCHANGED handle

\* Everything from p on is found from q on, and what was at q is gone.
Moved(p, q) ==
    LET tail(r) == SubSeq(r, Len(p) + 1, Len(r))
        stay == {r \in Paths : ~From(p, r) /\ r # q}
    IN  [r \in stay \cup {q \o tail(s) : s \in {t \in Paths : From(p, t)}} |->
            IF r \in stay THEN fs[r] ELSE fs[p \o SubSeq(r, Len(q) + 1, Len(r))]]
Rename(p, d, n) ==
    LET q == Append(d, n)
    IN  /\ p # <<>> /\ IsDir(d) /\ ~From(p, d)
        /\ q \in Paths => q # p /\ Empty(q) /\ fs[q].kind = fs[p].kind
        /\ fs' = Moved(p, q)
        /\ UNCHANGED handle

NNext == \/ Create
         \/ \E h \in Handle : Open(h) \/ OpenNew(h) \/ Close(h)
         \/ \E p \in Paths : Remove(p) \/ \E d \in Paths, n \in Component : Rename(p, d, n)

NSpec == NInit /\ [][NNext]_nvars
=============================================================================
