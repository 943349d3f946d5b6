# A verification project for Narc

Narc is a small POSIX-like operating system for x86_64, AArch64 and RISC-V 64.
This directory holds TLA+ models of its core, the TLC configurations that check
them on small instances, and TLAPS proofs of what holds for every size.

## The system

The kernel runs on one processor with interrupts off: a system call, a timer
tick and a fault each run to their end before anything else happens. What
interleaves is therefore the tasks between their system calls; the kernel's
data structures must be in order whenever a task enters it, whatever the others
did in the meantime. User programs (init first of all) are sequential programs
whose system calls interleave with everything else.

| Component | State | Operations | Meets |
|---|---|---|---|
| process table and scheduler (`kernel/task.c`, process calls of `kernel/syscall.c`) | `task_list`, `next_pid`, `current`, per task pid, ppid, state, wait arguments, frame, FPU image | fork, wait, exec, exit, yield, tick | every other part of the kernel; Pablo through fork, wait and exit |
| descriptors (`kernel/task.c`) | per task a table of pointers to shared, counted `open_file`s; pipes | open, close, read, write, dup, dup2, pipe, copy on fork, close on exit | VFS, heap, console |
| VFS (`kernel/fs/vfs.c`) | tree of vnodes with names, reference counts, pages or an archive image | open, close, read, write, seek, readdir, mkdir, unlink, rename, tar loading | descriptors, loader, page allocator |
| memory (`kernel/mm/mm.c`, `kernel/arch/*/vmm.c`) | free list of pages, page tables per address space | alloc, free, map, unmap, protect, clone, destroy, range checks | tasks (fork, exec, exit), map and unmap calls, VFS, heap |
| heap (`kernel/mm/heap.c`) | free objects by size class, window of virtual ranges | kmalloc, krealloc, kfree | all kernel objects |
| loader (`kernel/user.c`) | none of its own | `user_exec`, `user_start` | VFS, memory, tasks |
| Pablo, PID 1 (`userland/pablo`) | services with state, pid, restart count and tick | load and validate units; supervise | kernel through fork, exec, wait, yield |
| libc allocator (`lib/libc/src/stdlib/allocator.c`) | arenas of blocks | malloc, free, realloc | map and unmap calls |
| console (`kernel/task.c`, `kernel/console.c`, `kernel/serial.c`) | one line of input, the screen | read a line, write | descriptors |
| libc and libnarc wrappers, machine setup | registers, device state | argument translation, I/O | not modelled |

What is hard here: exits, waits and forks in every order; results that one task
writes into the saved registers of another; pids and structs that are reused;
the supervisor's view of its processes against the kernel's; failures half way
through an operation. `PROJECT.json` lists these hazards at their lines.

## Modules

| Module | Models |
|---|---|
| `NarcTasks` | process table, scheduler, process system calls |
| `Processes` | what the kernel promises to programs about processes, in terms of pids |
| `NarcTasksProofs` | theorems about `NarcTasks` |
| `MCTasks` | constants and views for model checking `NarcTasks` |
| `VfsTree` | vnodes: links, names, reference counts, directory offsets; the effects of the VFS calls |
| `NarcVfs` | the VFS calls with their paths, on top of `VfsTree` |
| `NarcTar`, `MCVfs` | loading of the initramfs before the first call, on top of `NarcVfs` |
| `FileNames` | what programs see of a file system: a function from paths to files |
| `VfsData`, `MCVfsData` | pages, archive image and offsets of one file with several openers |
| `ByteFile` | what programs see of a file: a sequence of bytes and an offset each |
| `NarcMem`, `MCMem` | physical pages, address spaces, fork, exec, wait, exit, map and unmap |
| `PrivateMemory` | what programs see of memory |
| `NarcFds`, `MCFds` | descriptor tables, open files, pipes, the console's line buffer |
| `BytePipes` | what programs see of pipes and of the console: bounded queues and lines |
| `NarcHeap`, `MCHeap` | size classes, window and ranges of the kernel heap |
| `LibcAlloc` | arenas and blocks of malloc, free and realloc |
| `HeapRegions` | what callers see of malloc and of kmalloc: regions that do not overlap |
| `PabloConfig` | reading, parsing and validating of Pablo's files |
| `Pablo`, `MCPablo` | main and the supervisor loop, from the configuration of `PabloConfig`, with the services and the kernel's side of fork and wait |
| `NarcVfsProofs` | theorems about `VfsTree`, `NarcVfs` and `NarcTar` |
| `NarcMemProofs` | theorems about `NarcMem` and `VfsData`, the two components that keep their contents in physical pages |
| `NarcFdsProofs`, `PabloProofs` | theorems about `NarcFds`, and `Pablo` with `PabloConfig` |
| `NarcHeapProofs`, `LibcAllocProofs` | theorems about `NarcHeap` and `LibcAlloc` |
| `NaturalLemmas` | induction, loops, quotients and lists: lemmas that the other proofs cite |

The models of the kernel meet at these places: a fork in `NarcTasks` is at the
same time a `Fork` of `NarcMem` and of `NarcFds`, an exit likewise; `NarcFds`
keeps one `handles` entry for each open file of `VfsTree` and `VfsData`; files
and pipes appear in `NarcMem` as the pages that the kernel takes and gives back;
`NarcHeap` shares the free pages with everything else through `OthersTake` and
`OthersGive`, and wherever `NarcFds` or `VfsTree` find no struct it is `kmalloc`
that has returned null;
`LibcAlloc` assumes of map and unmap what `PrivateMemory` promises.

### NarcTasks

`Task` is the set of addresses at which the heap can hand out a `struct task`;
`task[t]` holds its contents and is `Blank` while the struct is free, so reuse
of freed memory is part of the model. `task_list` is the linked list as a
sequence. `frame` is the trap frame that the kernel restores when it returns to
user mode; a context switch overwrites it, and a task that sleeps in `wait` gets
its result in the frame stored in its struct. Frames keep only the two result
registers, user memory only the word that `wait` may write, the FPU state one
value. Each system call is one action per outcome, with the conditions and
early returns of the code as guards: `WaitReap`, `WaitNoChild`, `WaitNoHang`,
`WaitBlock` and `WaitAlone` are the five ends of `task_wait`; `ExitWake`,
`ExitZombie` and `ExitLast` those of `task_exit`. `next_task` is the least
`Steps` distance behind `current`, which is what the circular scan computes, and
`alloc_pid` is the first unused pid from `next_pid` on, cyclically.

`Processes` is the promise without structs, frames and scheduler: a function
from pids to processes, each with its own registers, FPU image and memory, in
which fork copies, exit leaves a code, and wait returns it. `ImplementsProcesses`
says that the kernel is one of its implementations, with the context of the
running task read from the processor and those of all others from their structs.

### VfsTree and NarcVfs

A vnode is `parent`, `children` (the sequence that the sibling links form),
`name`, `kind`, `linked` and `refs`; a free vnode has none of these. Open files
are slots with the vnode they hold and, for directories, the offset that
`vfs_readdir` advances. `VfsTree` has the effect of each call on this structure,
guarded by what the structure alone requires; `NarcVfs` adds what the calls do
first: `walk` follows a path component by component, with `.` and `..`, from the
root, and `lookup_parent` splits off the last name. `ImplementsTree` says that
the checks of the calls imply those guards. `ImplementsFileNames` forgets the
nodes: a file system is a function from absolute paths to files, an open file
keeps its file whatever happens to its name, and rename moves a whole subtree.

### NarcTar

The archive is a sequence of blocks: headers, the data behind them, zeros. A step
is one header, or one component of its path in `tar_node`, so that each step makes
at most one vnode and remains a step of `TreeSpec` and `FileNames`. The calls of
`NarcVfs` begin when `vfs_init` has succeeded; when it fails the kernel halts.
`LoadsArchive` compares the result with what the archive describes, defined
without reference to the order of the entries: all their paths without `.`, all
directories above them, each file with the data of its last entry. One corner
depends on the order and is stated as it is: a regular entry whose path ends in
`.` is accepted when an earlier entry has made that path a file, and stops the
boot otherwise. A last entry that is cut off ends the archive without an error.

### VfsData

One regular file with several openers. Its bytes are in the archive image until
the first write, which copies them into pages (`ensure_pages`); pages are
allocated up to the end of a write, and memory may run out between any two of
them. `ByteFile` is a sequence of bytes with an offset per opener, in which a
write behind the end fills the gap with zeros. The refinement is about writes,
truncation, seeks and sizes. Reads are separate, because the code gets them
wrong (run `vfs_read`): `LoaderReads` states what does hold, that reading from
offset 0 in one call, as the loader does, returns the contents.

### NarcMem

An address space is a function from entries to pages. Entry 0 is the root, and
the entries of a table follow it in the order in which `clone_table` meets them;
the three levels above the last are one level here. An operation that allocates
does so in the code's order as far as there are free pages, and undoes what the
code undoes when there are none left: `ForkFails`, `ExecFails`, `MapFails`. A
failed mapping leaves its tables behind (`Kept`). A page on the free list holds
the list's link, so what a program finds in a new page depends on the clearing
in `pmm_alloc_page`.

A task that sleeps in `wait` has an entry in `blocked`, the user pages of its
status word. The exit of a child writes that word into the parent's memory
(`copy_status` in `ExitWakes`), in the same call that gives the child's own pages
back. Which task is whose parent is left to `NarcTasks`.

Unmapping is modelled with the addresses that a program may pass: all of 64 bits,
counted in pages, with arithmetic that wraps at `AddressPages`. `get_pte` takes
only the bits of its indices, so `lookup` is the address modulo `IndexPages`, and
an address is not the only one that leads to its page. `vmm_unmap_user` gives
`invlpg` the address it was called with; where that is not the one the program
uses for the page, the processor may still translate to it, and the page is in
`stale` until `cr3` is loaded again. This is the behaviour of x86-64: the other two
architectures mask addresses alike but drop all translations. `StaleStore` is a
store through such a translation, and may happen to any stale page that has become
a user page of some task. Free pages are told apart only by being stale or not, and
`Orders` leaves open in which order the free list has them, which is more than the
code's last-in first-out can produce.

`PrivateMemory` has no pages: fork copies a memory, exec replaces it, a mapping
appears as zeros where nothing was, and of another task's memory a step changes
only the status word of a sleeper. It has one flag, `loose`, which an unmapping
outside the window raises and the next switch or exec drops; while it is up the
running program may write to the memory of others. That is the promise the code
keeps. Without the flag it does not.

### NarcFds

Tables are functions from descriptors to open files and grow by doubling; each
place that needs memory may fail. `file_put` drops any number of references at
once, so that `close_all` is one step. The two ends of a pipe share a ring
buffer. `task_fd_dup`, `task_fd_dup2` and `task_fd_pipe` are in `task.h` and have
no system call yet; they are modelled as a caller within the kernel may use them.

`input` is what is left of the line in the console's buffer, which all tasks
share. A read that finds it empty takes a line as the keys edit it (`Edited`: an
erase at the beginning does nothing, a carriage return is a newline, a full buffer
ends the line); a read that does not take everything leaves the rest to whoever
reads next. The typing is part of the step, because the code polls with interrupts
off; so nothing is said about how long other tasks wait for it.

### NarcHeap

`heap` is a record so that the functions of `heap.c`, which call each other in a
circle (`window_free` calls `kmalloc`, `window_alloc` calls `kfree` for the struct
of a range that is used up), can be written as functions from one heap to the
next. Pages of small objects are never given back. A large object is mapped page
by page, and the table over a page may need a page of its own, which stays. What
`window_free` cannot describe for lack of memory is counted in `lost`: the code
returns without a word and the range is never used again. `FreeLosesNothing` says
that `kfree` is safe from this, because it gives the pages back first; a
`large_alloc` that fails half way is not, and the model has such behaviours.
`WellFormed` says that the window below `window_next` is tiled by live objects,
free ranges and lost ones, that neighbouring ranges are joined, and that every
physical page and every small object has one holder, the structs of the ranges
included. `ImplementsHeapRegions` is the promise that `LibcAlloc` implements too.

### LibcAlloc

Headers of arenas and blocks are maps from addresses, linked by pointers as in
the code; sizes are in units of the alignment. `merge_next` and `split_block`
are the code's two primitives, and everything else is built from them. The
program is assumed to free and resize only what it holds. Mappings come from
ever higher addresses, as in the kernel.

### PabloConfig and Pablo

`PabloConfig` has the functions of `config.c`, `service.c`, `text.c` and `io.c` on
files that are sequences of lines; a line is a key with a value, classified as the
code's string functions would. `visit_dependency` keeps its three states per
service and is a recursive function like the code's. Beside it stands what the
files mean, defined without regard to how they are read: the last value of each
key, numbers as sums of their digits, dependencies without a closed chain as
"every set of services has one that waits for none of the others".

In `Pablo`, main loads and either rejects or runs; then there is one action per
system call and turn of the loop in `pablo_supervisor_run`, and services end at
any moment in between. `ready_tick` is kept as the distance from the loop's tick,
which is all that is compared, so the tick needs no bound. The kernel gives a new
process the least pid that no child has, so a pid is reused as soon as it can be.

## Runs

| Run | Shows | Instance |
|---|---|---|
| `tasks_promise` | the kernel implements `Processes`, pids are unique, no exit is lost, round robin starves nobody | 3 structs, 3 pids that wrap, 2 FPU images, wait for any child; fairness of the tick; the first task is in a fixed struct, since symmetry is of no use for liveness |
| `tasks_fresh` | a runnable current, no lost wakeup, no missed zombie; before pids wrap, wait never reports NO_CHILD to a task with children, and the machine halts only when all are dead | 5 structs, 6 pids, every argument of wait: zombies, orphans and reuse of structs all happen, and circles of sleepers would need three tasks; task structs are symmetric, and the view leaves out registers, which no property of this run reads |
| `tasks_orphans` | finding: a task whose parent is gone is never reaped | expected violation |
| `vfs` | the archive becomes the tree it describes; links, names and lifetimes stay right, and the calls implement `TreeSpec` and `FileNames` | every archive of two out of 17 entries, complete and without its last block; root and 3 vnodes, 2 names and one that is too long, 2 open files, paths of up to 2 components with dots and 3 downwards: enough for renames into and over directories and for deleted files in use |
| `vfs_data` | the file is the sequence of bytes that was written | pages of 2 bytes, files of up to 4, read chunks of 1, 2 openers: writes within, across and behind pages |
| `vfs_read` | finding: reads ignore the offset within a page | expected violation |
| `mem` | no page is lost or shared; each program has memory of its own, but for `loose` | 9 pages, 3 tasks (one asleep, one that exits, one that runs next), tables of 2 entries, 1 program page, 2 mapped pages in two tables, one user page and one page of the kernel's half behind them, each address twice: every call can succeed, and every one that allocates can fail half way |
| `mem_unmap` | finding: a program can unmap its own segments and stack | expected violation; 8 pages, 2 tasks |
| `fds` | references are counted, pipes are queues, the console gives out lines | 2 tasks, tables of 1 slot that grow to 2, 4 open files, a pipe of 2 bytes, lines of up to 2 bytes from up to 4 keys |
| `heap` | window and pages are tiled, freeing loses nothing, objects are apart | 4 physical pages of 5 units, a window of 4 pages, tables over 2, classes of 2 and 3 units, requests of 0, 3, 4 and 5, up to 4 objects: large objects of one and two pages, ranges joined on both sides, memory that ends at every place |
| `alloc` | blocks tile arenas, lists are whole, regions are apart | up to 3 arenas of 6 free units, or one of 12; requests of 0, 3, 4 and 7 units |
| `pablo` | see below | 3 services with every choice of policy and dependency, cycles and missing ones included, in 3 directory orders; one service with every file of up to 3 lines; too many, too long and foreign entries; every number of up to 2 digits around a largest one of 25; 3 pids, one failing fork |

`tasks_orphans` is a disagreement with the README of the repository, which lists
orphan reaping among Pablo's features: `task_exit` gives the children of the
dying task no new parent, so `waitpid` in PID 1 never returns one of them.

`vfs_read`: `vfs_read` takes the address of the page at the position and does not
add the offset within the page, as `vfs_write` does. Since `handle_read` reads in
chunks of 512 bytes, a file that has been written is read back wrongly from byte
512 on.

`mem_unmap`: the check of `handle_unmap` is meant to refuse everything outside
`USER_MMAP_BASE` to `USER_MMAP_END`. For an address behind the end the difference
wraps and the check passes, and since `get_pte` ignores the bits above its indices,
the address may lead to a page of the program or of its stack, which is then
unmapped and freed. `ProgramStays` says that this does not happen; TLC finds it in
one step. `PagesHeldOnce`, `RunsInItsSpace` and `NextIsFree` hold all the same,
since such a page leaves the space and goes to the free list like any other.

The state space of `alloc` is bounded by `MmapEnd`, which stands for the end of
the memory; as addresses are not reused, it also bounds how many arenas a
behaviour creates. `mem` and `fds` are bounded by their sets alone.

The view of `vfs` leaves out the archive once programs run, since no call looks at
it; `LoadsArchive` is about the step before. The view of `heap` leaves out the sizes
asked for, which no guard reads. The view of `tasks_promise` leaves out what structs
hold that is overwritten before it is read, and does not distinguish the states in
which the machine has stopped. The view of `mem` forgets the names of pages: for each
entry of a space it keeps what the page holds and whether it is stale, and of the
other pages their numbers. Since any order of the free list is possible, two states
that agree in this have the same steps, as long as each page has one holder, and the
view has `PagesHeldOnce` in it.

`pablo` checks that PID 1 accepts exactly the valid configurations and runs on what
the files say (`BootDecides`), that the supervisor and the kernel agree on which
processes exist (`ProcessesAccounted`), that dependencies start first
(`StartOrder`), that the restart limit holds (`RestartBound`), that "service graph
settled" is said only when it is final (`SettledIsFinal`) and that an accepted
configuration does settle (`Settles`), which fails as soon as a cycle is accepted
or a failure does not reach a dependent.

### Fairness

`FairSpec` of `NarcTasks` assumes that the timer keeps ticking while user code
runs: each architecture re-arms its timer in the interrupt handler. Nothing is
assumed about what programs do. `FairSpec` of `Pablo` assumes that PID 1 gets the
processor (which `tasks_promise` shows of the kernel) and, for `Settles`, that every
service process ends; without the latter a service may simply run for ever.

## Proofs

What is proved holds for every value of the constants that the named assumptions
allow: any number of tasks, pids, vnodes, names, open files, pipes, pages and
services, any page, table and buffer size, any files under `/etc`.

`NaturalLemmas` derives induction over the natural numbers as a fact about sets
(`SetInduction`, from the well-foundedness of `<`), and from it that a loop written
as a recursive function goes through exactly one sequence of values (`RoundsExist`,
`RoundsAgree`). The other modules use it for folds over lines and entries, for the
doubling in `fd_reserve`, for paths that are walked component by component and for
pages that are handed out in order.

Processes. `NarcTasksProofs` proves that `Inv` (the conjunction of `TypeOK`,
`CurrentRuns`, `PidsUnique`, `WaiterHasLiveChild` and `WaiterHasNoZombie`) is
inductive: one lemma per operation. The parts need each other: a parent is woken
correctly because pids are unique, a reaped zombie disturbs no sleeper because no
sleeper has a zombie, a blocked task has a living child because its zombies were
looked at first. `ExitReachesParent` follows from the same invariant. The last part
is about the behaviours before `next_pid` wraps. There every task is younger than
its parent (`Younger`), so among sleepers the one with the greatest pid waits for a
task that is not asleep: somebody is always runnable. After a wrap the argument
fails, since an orphan's `ppid` can name a younger stranger; the theorems do not
claim it. `TasksImplementProcesses` proves the refinement of `Processes`, with wrapping
pids. Since pids are unique, each entry of `Proc` shows one struct, the running one
with the context of the processor (`ProcEntries`). A call that stays in its caller
changes one entry (`OwnEntry`), and so does one that switches: what is stored is what
was live, what is loaded is what was shown (`SwitchEntry`). With that each operation is
one step of `PNext`, a tick none; a last exit leaves no runnable process because
`next_task` would have found it.

File system. `NarcVfsProofs` proves `LifetimesCounted`, `LinksAgree`, `NamesUnique`
and `OneTree` of `TreeSpec`; with the types and the fact that the root is linked they
are inductive as they stand. `OneTree` is stated over sets of vnodes closed under
parents; a rename keeps it because a set closed under the new parents is closed under
the old ones once the moved subtree is added, and the ancestor check keeps the new
parent out of that subtree. Its second half proves that the calls with paths, and the
loading of the archive with the calls after it, implement `TreeSpec`, so the four
invariants hold of them too (`TarInvariants`). The walk along a path needs only that
it stays among linked vnodes, and so does the loader's walk in `tar_node`.

Contents of files. The second half of `NarcMemProofs` proves `PagesPresent`, `TailIsZero` and
`LoaderReads` and that the pages implement `ByteFile`. `TailIsZero` alone is not
inductive: a write that fails for lack of memory leaves pages beside the image, which
the next write takes over. `UnusedIsZero` says that these hold zeros as well.

Memory. `NarcMemProofs` proves `PagesHeldOnce`, `RunsInItsSpace` and `NextIsFree`
and that address spaces implement `PrivateMemory`. The invariant keeps the holders of
pages apart (`Separate`) and complete (`Covered`), every space injective, and every
space of a task whole (`AllWhole`): root and tables are there and mappings lie below
`mmap_next`. The current task is awake and `cr3` is its root (`Running`); a sleeper
keeps its space with the pages of its status word (`Sleepers`), so that `copy_status`
finds them. Allocation in order is one lemma (`BuiltSpace`): different free pages,
whatever the order of the free list (`NthPage`), for all entries or the first ones,
the root always first, which is why a copy that fails half way can be destroyed from
its root. One lemma (`SpaceChanged`) then serves fork, exec, exit, map and unmap. For
the refinement the pages that a call writes are free, the caller's own or those of the
word its parent sleeps on, so no other task sees a change. An unmapping whose addresses
are all their own lookup starts in the window, does not wrap and reaches only what is
mapped, which ends below `mmap_next`: it stays in the window (`UnmapWindow`). Every
other unmapping leaves a stale page, which is when `loose` is up.

Descriptors. `NarcFdsProofs` proves `TypeOK`, `FilesCounted` and `PipesCounted` and
that pipes and console implement `BytePipes`. The count of an open file is the number
of slots over all tables; each operation moves one table, and the lemmas say by how
much the count of each file changes. The queue of a pipe is its ring read from `head`.

The kernel heap. `NarcHeapProofs` proves `WellFormed`, `FreeLosesNothing` and that
kmalloc, krealloc and kfree implement `HeapRegions`. A call passes through heaps that
are not well formed: a part of the window is in no list while its pages are mapped one
by one, and the struct of a range is freed or allocated while the list is being changed.
The invariant is therefore stated of such a heap: `Good(h, L, O, T, M)`, where T is the
part of the window that the call has in its hands, M the pages of T that are mapped so
far, O the pages of the rest of the kernel and L the small objects in use. Physical
pages are divided among free list, small objects, tables, window and others (`Divided`),
small objects among lists, L and structs (`Kept`, `Structured`), the window among
ranges, objects, T and what is lost. One lemma for each function of heap.c says how it
moves these parts: `window_alloc` fills T, each mapped page moves from the free list to
M, `window_free` empties T. Between calls T and M are empty (`Inv`). Nothing is lost in
kfree because unmapping at least one page leaves a free one, so the `small_alloc` for
the struct cannot fail. For the refinement a call leaves the class or the page count of
every other object alone (`Stays`), and two objects are apart because their pages are,
or because they are different pieces of one page. The class sizes need only fit into a
page and ascend, with one that holds a `struct range`.

The libc allocator. `LibcAllocProofs` proves `WellFormed` and that malloc, realloc and
free implement `HeapRegions`. `WellFormed` as the run checks it is not inductive: it does
not say that arenas lie apart in the mapped addresses, which is what keeps the block at
the end of one from reaching into the next, and it says that the last block ends at the
end without saying that the others stop before the next one begins. `Sane` says so:
arenas are apart (`Mapped`) and listed newest first (`Listed`), blocks lie in their
arena without overlap and cover it (`Tiling`), free ones are not neighbours (`Joint`),
and `active` counts those in use (`Counted`); `Held` says that the program's pointers
are exactly the blocks in use. Every function of allocator.c comes down to three changes
of the heap: a block is cut in two, a block swallows the next, a block is marked free or
in use. One lemma each says what it does to the parts, and the calls are sequences of
them; between two of them free neighbours do occur, so `Joint` has the set of blocks that
are excepted. That the last block of an arena is unique follows from covering, and that
the arena is given back with its last block from the count.

Pablo. `PabloProofs` proves of `config.c` that whatever it reads it hands over at most
`ServiceMax` services (`ConfigLoads`), and of the supervisor `ProcessesAccounted`,
`StartOrder`, `RestartBound` and `SettledIsFinal`. `RestartBound` needs the exact
relation of starts and restarts in each state (`Counted`). That dependencies have no
cycle is not needed for these, only for `Settles`.

Assumed of the constants:

- `PidAssumption` of `NarcTasks`: `Cardinality(Task) <= MaxPid`, without which
  `alloc_pid` would not terminate; at 2^31 - 1 pids the machine's memory ends first.
- `TaskAssumption`: there are finitely many structs of tasks.
- `NoneAssumption`, `NoPageAssumption`: a null pointer is different from every struct,
  table, page and queue.
- `MemoryAssumption`: there is memory for init, without which the kernel halts in
  `user_start`; a program has at least its stack.
- `LayoutAssumption`: segments and stack lie below the window of mappings, as the
  constants of `user.c` and the loader's check against `USER_IMAGE_END` have it.
- `AddressAssumption`: user addresses end below what the table indices tell apart,
  and those below 64 bits.
- `ArchiveAssumption`: at the places that the sizes in the headers lead to, the archive
  has blocks that can be read as headers, valid or not.
- `FilesAssumption`: files and directories are finite lists.
- Sizes are natural numbers in the order in which the code's constants are.

Model-checked only:

- liveness (`RunnableRuns`, `Settles`), which is beyond the provers, and with it the
  fairness assumptions;
- the refinement of `FileNames`;
- `BootDecides` and `LoadsArchive`, which compare what a program computes with an
  independent definition of what its input means.

The proof of `VfsData` led to a change of the model: `ensure_pages` had been a `CASE`
with overlapping guards, for a page that exists while the image is still there, and
the value of such a `CASE` is not determined. The code copies the image over the page,
and the model now says so.

## Not modelled

- The page tables of AArch64 and RISC-V 64: `vmm.c` of each has the interface that
  `NarcMem` models from `mm.c`, and differs in the format of entries. Formats,
  permissions and the levels between root and last table are abstracted.
- Stores through a translation that `invlpg` missed into pages that are no user pages
  by then: free ones, tables, pages of the kernel. After one of these nothing could be
  said of any task.
- Register save sequences of the trap entries, device setup, drawing on the
  framebuffer and the registers of the serial port.
- The ELF loader's byte layout, octal digits of tar headers, inode numbers and
  modes, string and formatting functions of libc, and the argument translation of
  the system call wrappers: stateless transformations of data.
- Copying between user memory and the kernel (`copy_from_user`, `copy_to_user`) and
  the permissions of pages that it checks.
- Three hazards have no property: while a console read waits for a line no other
  task runs; `vfs_readdir` skips an entry when an earlier one is removed between
  two calls; the addresses of `handle_map` are never used again. The models have
  this behaviour, and nothing in the repository promises otherwise.

## Plan

Done: processes, Pablo with its configuration, the VFS with its archive, memory,
descriptors and console input, the kernel heap, the libc allocator; proofs for all of
these. To do, in this order:

1. The refinement of `FileNames` by `NarcVfs`, from `OneTree` and `NamesUnique`.
2. Permissions of pages (`vmm_protect_user`, `vmm_user_range_ok`) in `NarcMem`, and
   the copying of arguments across page boundaries.
