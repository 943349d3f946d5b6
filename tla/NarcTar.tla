----------------------------- MODULE NarcTar -----------------------------
(***************************************************************************)
(* The start of the file system: vfs_init reads the initramfs, a ustar     *)
(* archive, and makes a vnode for each of its entries before any program   *)
(* runs; then the calls of NarcVfs follow.  The archive is a sequence of   *)
(* blocks of TAR_BLOCK bytes: headers, the data behind them, and zeros at  *)
(* the end.  A header's path is the sequence of the components of prefix   *)
(* and name.  A step is one header, or one component of its path.          *)
(***************************************************************************)
EXTENDS NarcVfs

CONSTANTS
    Archive,        \* the archives that the boot loader may hand over
    Zero, Data,     \* a block of zeros, a block of some file
    FileMax         \* VFS_FILE_MAX, in blocks

\* What vfs_init reads from a header.
Headers ==
    [magic : BOOLEAN, path : Seq(Name \cup {Dot, DotDot}), type : {"REG", "DIR"}, size : Nat]

\* Behind the data of an entry there is a header again, the zeros, or nothing.
HeadersAt(tar, P) ==
    /\ 0 \in P
    /\ \A i \in P : i < Len(tar) /\ tar[i + 1] # Zero =>
        /\ tar[i + 1] \in Headers
        /\ i + 1 + tar[i + 1].size <= Len(tar) => i + 1 + tar[i + 1].size \in P

ASSUME ArchiveAssumption ==
    \A tar \in Archive : Len(tar) \in Nat /\ \E P \in SUBSET (0..Len(tar)) : HeadersAt(tar, P)

VARIABLES
    phase,          \* "boot", "header" or "path" in vfs_init; "ready" or "halted" after it
    archive,        \* tar_data, tar_size
    at,             \* the blocks before the header that is read
    here,           \* tar_node: node
    cursor,         \* tar_node: the components that are behind it
    data            \* struct vnode: archive and size, as the header they come from

boot == <<phase, archive, at, here, cursor, data>>
tarvars == <<vars, boot>>

TarInit ==
    /\ Init
    /\ phase = "boot" /\ archive \in Archive
    /\ at = 0 /\ here = Root /\ cursor = 0
    /\ data = [v \in Vnode |-> Zero]

-----------------------------------------------------------------------------
(* vfs_init, header by header. *)

header == archive[at + 1]
next_offset == at + 1 + header.size
header_at ==
    /\ at < Len(archive)
    /\ header # Zero
    /\ next_offset <= Len(archive)

\* vfs_init gives up and the kernel halts.
Fails == phase' = "halted" /\ UNCHANGED <<archive, at, here, cursor, data>>

Begin ==
    /\ phase = "boot"
    /\ IF Len(archive) < 2 THEN Fails
       ELSE phase' = "header" /\ UNCHANGED <<archive, at, here, cursor, data>>
    /\ UNCHANGED vars

\* A header: its magic, and tar_node starts at the root.
ReadHeader ==
    /\ phase = "header" /\ header_at
    /\ IF ~header.magic THEN Fails
       ELSE /\ phase' = "path" /\ here' = Root /\ cursor' = 0
            /\ UNCHANGED <<archive, at, data>>
    /\ UNCHANGED vars

\* The end of the archive, or an entry that it does not hold in full.
EndOfArchive ==
    /\ phase = "header" /\ ~header_at
    /\ phase' = "ready"
    /\ UNCHANGED <<archive, at, here, cursor, data>>
    /\ UNCHANGED vars

\* Mutant of Entry: an older entry of the same path keeps its data.
EntryKept(v, type) ==
    IF type # header.type \/ (type = "REG" /\ header.size > FileMax) THEN Fails
    ELSE /\ phase' = "header" /\ at' = next_offset
         /\ data' = IF type = "REG" /\ data[v] = Zero THEN [data EXCEPT ![v] = header] ELSE data
         /\ UNCHANGED <<archive, here, cursor>>

\* What vfs_init does with the vnode v, of that type, that tar_node returns.
Entry(v, type) ==
    IF type # header.type \/ (type = "REG" /\ header.size > FileMax) THEN Fails
    ELSE /\ phase' = "header" /\ at' = next_offset
         /\ data' = IF type = "REG" THEN [data EXCEPT ![v] = header] ELSE data
         /\ UNCHANGED <<archive, here, cursor>>

-----------------------------------------------------------------------------
(* tar_node, component by component. *)

component == header.path[cursor + 1]
last == cursor + 1 = Len(header.path)
AtEnd == cursor = Len(header.path) \/ (last /\ component = Dot)
child == child_named(here, component)

\* The component cannot be an entry of this directory.
Refused == component \in {DotDot} \cup TooLong \/ kind[here] # "DIR"

\* On to the next component, from vnode v.
Onward(v) ==
    /\ here' = v /\ cursor' = cursor + 1
    /\ UNCHANGED <<phase, archive, at, data>>

PathEnds ==
    /\ phase = "path" /\ AtEnd
    /\ Entry(here, kind[here])
    /\ UNCHANGED vars

PathDot ==
    /\ phase = "path" /\ ~AtEnd /\ component = Dot
    /\ Onward(here)
    /\ UNCHANGED vars

PathRefused ==
    /\ phase = "path" /\ ~AtEnd /\ component # Dot /\ Refused
    /\ Fails
    /\ UNCHANGED vars

\* The entry is there, from an earlier header.  As the last component it must
\* have the type of this one.
PathExists ==
    /\ phase = "path" /\ ~AtEnd /\ component # Dot /\ ~Refused /\ child # NoNode
    /\ IF last THEN Entry(child, kind[child]) ELSE Onward(child)
    /\ UNCHANGED vars

\* The entry is made, as a directory on the way to the last component.
PathMissing ==
    /\ phase = "path" /\ ~AtEnd /\ component # Dot /\ ~Refused /\ child = NoNode
    /\ \/ /\ \A v \in Vnode : kind[v] # "FREE"
          /\ Fails
          /\ UNCHANGED vars
       \/ \E v \in Vnode :
            /\ Create(here, component, v, IF last THEN header.type ELSE "DIR")
            /\ IF last THEN Entry(v, header.type) ELSE Onward(v)

tar_node == PathEnds \/ PathDot \/ PathRefused \/ PathExists \/ PathMissing
vfs_init == Begin \/ ReadHeader \/ EndOfArchive \/ tar_node

\* Programs run once vfs_init has succeeded.
Running == phase = "ready" /\ Calls /\ UNCHANGED boot

TarSpec == TarInit /\ [][vfs_init \/ Running]_tarvars

-----------------------------------------------------------------------------
(* Properties. *)

\* The entries of the archive: the headers up to the first block of zeros or
\* the first entry that is cut off.
Positions ==
    {i \in 0..(Len(archive) - 1) :
        /\ archive[i + 1] \notin {Zero, Data}
        /\ \A j \in 0..i : /\ archive[j + 1] # Zero
                           /\ archive[j + 1] # Data => j + 1 + archive[j + 1].size <= Len(archive)}
Plain(h) == SelectSeq(h.path, LAMBDA c : c # Dot)
Prefixes(p) == {SubSeq(p, 1, n) : n \in 0..Len(p)}
Tops == {<<>>} \cup UNION {Prefixes(Plain(archive[i + 1])) : i \in Positions}

Ends(h) == h.path = <<>> \/ h.path[Len(h.path)] = Dot

\* The archive describes one tree, and the tree fits.  A file whose path ends in
\* "." is the file of an earlier entry, since tar_node makes directories only on
\* the way to a ".".
Loadable ==
    /\ Len(archive) >= 2
    /\ \A i \in Positions :
        LET h == archive[i + 1]
        IN  /\ h.magic
            /\ \A n \in 1..Len(h.path) : h.path[n] \notin {DotDot} \cup TooLong
            /\ h.type = "REG" =>
                /\ h.size <= FileMax
                /\ Ends(h) => \E j \in Positions :
                                /\ j < i /\ archive[j + 1].type = "REG"
                                /\ ~Ends(archive[j + 1]) /\ Plain(archive[j + 1]) = Plain(h)
    /\ \A g, h \in {archive[i + 1] : i \in Positions} :
        g.type = "REG" /\ Plain(g) \in Prefixes(Plain(h)) =>
            h.type = "REG" /\ Plain(g) = Plain(h)
    /\ Cardinality(Tops) <= Cardinality(Vnode)

\* Each path with the last file of the archive under it, or as a directory.
Described ==
    {LET files == {i \in Positions : archive[i + 1].type = "REG" /\ Plain(archive[i + 1]) = p}
     IN  IF files = {} THEN <<p, "DIR", Zero>>
         ELSE <<p, "REG", archive[(CHOOSE i \in files : \A j \in files : j <= i) + 1]>> : p \in Tops}

Loaded == {<<PathTo[v], kind[v], data[v]>> : v \in Linked}

\* vfs_init succeeds exactly on the archives that describe one tree, in whatever
\* order a directory and what is below it come, and then the vnodes are that
\* tree: every entry and every directory above it once, under its path without
\* the ".", with the data of the last entry of that path.  An entry below a
\* file, one under two types, ".." and a file that is too large stop the boot.
LoadsArchive ==
    [][phase' \in {"ready", "halted"} /\ phase \notin {"ready", "halted"} =>
        ((phase' = "ready") = Loadable /\ (Loadable => Loaded' = Described))]_tarvars
=============================================================================
