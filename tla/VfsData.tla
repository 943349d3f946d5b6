----------------------------- MODULE VfsData -----------------------------
(***************************************************************************)
(* What is in one regular file of kernel/fs/vfs.c and where the open files *)
(* that share its vnode stand: a file starts as an image in the boot       *)
(* archive or empty, is copied to pages when it is first written, and may  *)
(* be truncated by one opener while others are in the middle of it.  Each  *)
(* call runs with interrupts off and is one action.                        *)
(***************************************************************************)
EXTENDS Integers, Sequences

CONSTANTS
    PageSize,       \* PAGE_SIZE
    FileMax,        \* VFS_FILE_MAX
    ReadChunk,      \* sizeof(chunk) in handle_read
    Byte,           \* byte values
    File,           \* struct file objects
    NoPage          \* the null page, and no archive image

ASSUME SizeAssumption ==
    /\ PageSize \in Nat \ {0} /\ ReadChunk \in Nat \ {0}
    /\ FileMax \in Nat /\ FileMax % PageSize = 0
ASSUME ByteAssumption == Byte \subseteq Nat /\ 0 \in Byte

VARIABLES
    archive,        \* the image in the archive, or NoPage
    pages,          \* page number -> page, or NoPage
    size,
    offset,         \* struct file -> its offset
    flags           \* struct file -> its flags, {} while it is not open

file_vars == <<archive, pages, size, offset, flags>>

PageNo == 0..((FileMax \div PageSize) - 1)
Data == UNION {[1..n -> Byte] : n \in 0..FileMax}
FileFlags == {g \in SUBSET {"READ", "WRITE", "APPEND"} : g \cap {"READ", "WRITE"} # {}}

\* A null pointer is neither a page nor an image.
FilePage == [0..(PageSize - 1) -> Byte]
ASSUME NoPageAssumption == NoPage \notin FilePage \cup Data

\* What pmm_alloc_page returns.
ZeroPage == [i \in 0..(PageSize - 1) |-> 0]

\* The number of pages for so many bytes.
PageCount(bytes) == (bytes + PageSize - 1) \div PageSize

\* Byte i of page p is this one of the file.
ByteNo(p, i) == p * PageSize + i

\* The bytes that are in the file.
Stored(i) == IF archive # NoPage THEN archive[i + 1]
             ELSE pages[i \div PageSize][i % PageSize]
Content == [i \in 1..size |-> Stored(i - 1)]

-----------------------------------------------------------------------------
\* vfs_init, or vfs_open creating the file.
FileInit ==
    /\ \/ archive \in Data /\ size = Len(archive)
       \/ archive = NoPage /\ size = 0
    /\ pages = [p \in PageNo |-> NoPage]
    /\ offset = [f \in File |-> 0]
    /\ flags = [f \in File |-> {}]

\* vfs_open without TRUNCATE.
Open(f, g) ==
    /\ flags[f] = {}
    /\ flags' = [flags EXCEPT ![f] = g]
    /\ offset' = [offset EXCEPT ![f] = IF "APPEND" \in g THEN size ELSE 0]
    /\ UNCHANGED <<archive, pages, size>>

\* Mutant of release_pages: the pages are kept.
PagesKept == pages

\* release_pages
release_pages == [p \in PageNo |-> NoPage]

\* vfs_open with TRUNCATE, which handle_open allows only with WRITE.
OpenTruncate(f, g) ==
    /\ flags[f] = {} /\ "WRITE" \in g
    /\ pages' = release_pages
    /\ archive' = NoPage
    /\ size' = 0
    /\ flags' = [flags EXCEPT ![f] = g]
    /\ offset' = [offset EXCEPT ![f] = 0]

\* vfs_close
Close(f) ==
    /\ flags[f] # {}
    /\ flags' = [flags EXCEPT ![f] = {}]
    /\ offset' = [offset EXCEPT ![f] = 0]
    /\ UNCHANGED <<archive, pages, size>>

-----------------------------------------------------------------------------
(* Reading. *)

\* How much vfs_read returns at this position.
Available(position, length) ==
    IF position >= size THEN 0
    ELSE IF length > size - position THEN size - position ELSE length

\* Mutant of Copied: the page of the first byte is used for all.
CopiedFirstPage(position, done) ==
    IF archive # NoPage THEN archive[position + done + 1]
    ELSE pages[position \div PageSize][(position + done) % PageSize]

\* The byte that vfs_read puts into the buffer after done others.  It copies
\* page by page.  In the archive image each copy starts at the byte the position
\* is at; in the pages it starts at the first byte of the page.
Copied(position, done) ==
    LET at == position + done
        page_start == at - (at % PageSize)
        copy_start == IF page_start > position THEN page_start ELSE position
    IN  IF archive # NoPage THEN archive[at + 1]
        ELSE pages[at \div PageSize][at - copy_start]

\* vfs_read: the bytes it returns.
vfs_read(position, length) ==
    [i \in 1..Available(position, length) |-> Copied(position, i - 1)]

\* handle_read: the buffer is filled in chunks, each by a vfs_read of its own.
handle_read(position, length) ==
    [i \in 1..Available(position, length) |->
        LET before == ((i - 1) \div ReadChunk) * ReadChunk
        IN  vfs_read(position + before, ReadChunk)[i - before]]

\* NARC_SYS_READ moves the offset behind what was read.
Read(f, length) ==
    /\ "READ" \in flags[f]
    /\ offset' = [offset EXCEPT ![f] = @ + Available(@, length)]
    /\ UNCHANGED <<archive, pages, size, flags>>

-----------------------------------------------------------------------------
(* Writing. *)

\* Where vfs_write starts.
Start(f) == IF "APPEND" \in flags[f] THEN size ELSE offset[f]
End(f, data) == Start(f) + Len(data)

\* Mutant of PagesNeeded: only the written part is given pages.
NeededToEnd(f, data) == PageCount(End(f, data))

\* How many pages vfs_write asks ensure_pages for.
PagesNeeded(f, data) == PageCount(IF End(f, data) > size THEN End(f, data) ELSE size)

\* Mutant of ensure_pages: the archive image is given up without being copied.
EnsureEmptyPages(count) ==
    [p \in PageNo |-> IF p < count /\ pages[p] = NoPage THEN ZeroPage ELSE pages[p]]

\* ensure_pages: missing pages are allocated, and an archive image is copied.
ensure_pages(count) ==
    [p \in PageNo |->
        IF p >= count THEN pages[p]
        ELSE [i \in 0..(PageSize - 1) |->
                 IF archive # NoPage /\ ByteNo(p, i) < size
                 THEN archive[ByteNo(p, i) + 1]
                 ELSE IF pages[p] # NoPage THEN pages[p][i] ELSE 0]]

\* vfs_write
Write(f, data) ==
    /\ "WRITE" \in flags[f]
    /\ Len(data) <= FileMax - Start(f)
    /\ pages' = [p \in PageNo |->
            IF p >= PagesNeeded(f, data) THEN pages[p]
            ELSE [i \in 0..(PageSize - 1) |->
                    LET at == ByteNo(p, i) - Start(f)
                    IN  IF at \in 0..(Len(data) - 1) THEN data[at + 1]
                        ELSE ensure_pages(PagesNeeded(f, data))[p][i]]]
    /\ archive' = NoPage
    /\ offset' = [offset EXCEPT ![f] = End(f, data)]
    /\ size' = IF End(f, data) > size THEN End(f, data) ELSE size
    /\ UNCHANGED flags

\* vfs_write refuses to grow the file beyond its limit.
WriteTooLong(f, data) ==
    /\ "WRITE" \in flags[f]
    /\ Len(data) > FileMax - Start(f)
    /\ offset' = [offset EXCEPT ![f] = Start(f)]
    /\ UNCHANGED <<archive, pages, size, flags>>

\* vfs_write runs out of pages: those allocated so far stay.
WriteNoMemory(f, data) ==
    /\ "WRITE" \in flags[f]
    /\ Len(data) <= FileMax - Start(f)
    /\ \E p \in PageNo :
        /\ p < PagesNeeded(f, data) /\ pages[p] = NoPage
        /\ pages' = [q \in PageNo |->
                        IF q < p /\ pages[q] = NoPage THEN ZeroPage ELSE pages[q]]
    /\ offset' = [offset EXCEPT ![f] = Start(f)]
    /\ UNCHANGED <<archive, size, flags>>

-----------------------------------------------------------------------------
\* vfs_seek, from one of three origins.
Base(f, origin) == CASE origin = "SET" -> 0
                     [] origin = "CURRENT" -> offset[f]
                     [] origin = "END" -> size

Seek(f, distance, origin) ==
    /\ flags[f] # {}
    /\ Base(f, origin) + distance \in 0..FileMax
    /\ offset' = [offset EXCEPT ![f] = Base(f, origin) + distance]
    /\ UNCHANGED <<archive, pages, size, flags>>

FileNext ==
    \E f \in File :
        \/ \E g \in FileFlags : Open(f, g) \/ OpenTruncate(f, g)
        \/ Close(f)
        \/ \E n \in 1..FileMax : Read(f, n)
        \/ \E data \in Data \ {<<>>} :
            Write(f, data) \/ WriteTooLong(f, data) \/ WriteNoMemory(f, data)
        \/ \E d \in (-FileMax)..FileMax, origin \in {"SET", "CURRENT", "END"} :
            Seek(f, d, origin)

FileSpec == FileInit /\ [][FileNext]_file_vars

-----------------------------------------------------------------------------
(* Properties. *)

\* No read meets a missing page: without an archive image every page up to the
\* end of the file is there, also after vfs_write has failed half way.
PagesPresent ==
    archive = NoPage => \A p \in PageNo : p < PageCount(size) => pages[p] # NoPage

\* Nothing old shows through: what lies behind the end of the file in its pages
\* is zero, so a write behind the end leaves a gap of zeros.
TailIsZero ==
    archive = NoPage =>
        \A p \in PageNo, i \in 0..(PageSize - 1) :
            pages[p] # NoPage /\ ByteNo(p, i) >= size => pages[p][i] = 0

\* The file is the sequence of bytes that programs have written, with the gaps
\* they left filled with zeros, whichever opener wrote, truncated, appended or
\* failed to.
BF == INSTANCE ByteFile WITH
        bytes <- Content, at <- offset, mode <- flags

ImplementsByteFile == BF!BSpec

\* The loader gets what is in the file: vfs_read of the whole file, from its
\* beginning and in one call, as user.c does it.
LoaderReads == vfs_read(0, size) = Content

\* A read returns the bytes at the offset.
ReadsReturnContent ==
    \A f \in File : "READ" \in flags[f] =>
        \A n \in 0..FileMax :
            handle_read(offset[f], n) =
                SubSeq(Content, offset[f] + 1, offset[f] + Available(offset[f], n))
=============================================================================
