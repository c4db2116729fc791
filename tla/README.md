# xv6-64 in TLA+

This directory is a TLA+ model of the kernel in `src/`: a 64-bit port of the
teaching operating system xv6, with some of its user programs. The modules
follow the C sources; names of operations are the names of the functions they
model. TLC checks the models on small instances; TLAPS proves the safety of the
kernel's parts for all sizes.

## 1. The system

A small multiprocessor Unix: processes, a file system with a write-ahead log,
pipes, a console, a shell. All kernel state is in global tables protected by
spin locks; processes wait with `sleep` and are woken with `wakeup`.

| Component | State | Operations | Correct when |
|---|---|---|---|
| Processes (`proc.c`, `init.c`) | `ptable.proc[NPROC]`, `nextpid`, `initproc` | `allocproc fork exit wait kill` | no process is lost, doubled or orphaned; exits and kills are noticed |
| Scheduler (`proc.c`, `swtch.S`, `trap.c`) | each cpu's stack, `ncli`, `intena`, FL_IF; `p->state`, `p->context` | `scheduler sched yield sleep wakeup forkret` | one processor per stack, no lost wakeup, no halt that nothing ends |
| Spin locks (`spinlock.c`) | `locked`, `cpu` | `acquire release pushcli popcli` | held locks mask interrupts; the counts balance across `swtch` |
| Log (`log.c`) | `log.lh`, `outstanding`, `committing`; header and data blocks on disk | `begin_op log_write end_op commit recover_from_log` | system calls are atomic under crashes; the log does not overflow |
| Buffer cache, disk (`bio.c`, `ide.c`, `sleeplock.c`) | `bcache.buf[NBUF]`, LRU list, `idequeue` | `bget bread bwrite brelse iderw ideintr` | one buffer per block, none recycled while in use |
| Inodes, allocator (`fs.c`) | `icache`, inode and bitmap blocks | `ialloc iget ilock iput itrunc bmap balloc bfree` | no block or inode has two owners; the last reference frees it |
| Directories, paths (`fs.c`, `sysfile.c`) | directory blocks, `nlink` | `dirlookup dirlink namex create sys_link sys_unlink` | link counts match names; no deadlock |
| Open files (`file.c`, `sysfile.c`) | `ftable.file[NFILE]`, `proc->ofile` | `filealloc filedup fileclose fdalloc sys_pipe` | reference counts match descriptors |
| Pipes (`pipe.c`) | `data`, `nread`, `nwrite`, `readopen`, `writeopen` | `pipewrite piperead pipeclose` | a bounded queue of bytes with end of file |
| Console (`console.c`, `kbd.c`, `uart.c`) | `input.buf`, `r`, `w`, `e` | `consoleintr consoleread consolewrite` | lines come out as edited |
| Clock (`trap.c`, `sysproc.c`) | `ticks` | timer interrupt, `sys_sleep` | a sleep ends when it is due |
| Memory (`kalloc.c`, `vm.c`, `exec.c`) | free list, page tables, `proc->sz` | `kalloc kfree allocuvm deallocuvm copyuvm growproc exec` | no page has two owners, none leaks |
| Start-up (`main.c`, `mp.c`, `lapic.c`, boot code) | `cpu->started` | `startothers mpenter` | processors start one at a time |
| Image builder (`mkfs.c`) | `freeinode`, `freeblock`, the image | `ialloc iappend balloc` | a block has one owner, and is marked |
| User programs (`sh.c`, `umalloc.c`, `grep.c`, ...) | their own | | |

How they interact: system calls enter through `trapasm.S` with interrupts off
and run on the process's kernel stack until they return or sleep. `sleep` and
`wakeup` are used by every component that waits (log, pipes, disk, console,
clock, sleep locks, `wait`). A system call that changes the file system is
bracketed by `begin_op` and `end_op`; inside, every change to a disk block goes
through the buffer cache and `log_write`. `exit` closes files, which reaches
pipes and inodes. Interrupt handlers (disk, keyboard, serial port, timer) take
the spin locks of their component and call `wakeup`.

What is hard: interleavings of processors and of interrupt handlers with the
code they interrupt; locks that change hands in `swtch`; sleeps and wakeups;
`proc->killed`, which is written under one lock and read under others; crashes
in the middle of a commit; full tables and full logs; counters that wrap.

## 2. Modules

| Module | Models | Contents |
|---|---|---|
| `AtomicTx` | | what the log promises: memory and disk, a transaction is durable as a whole or not at all |
| `Log` | `log.c` | the log, one disk write at a time, with crashes |
| `LogProofs` | | inductive invariant of `Log`, types, header bound, wakeups; `Log` implements `AtomicTx` as long as transactions fit their area |
| `Proc` | `proc.c` (life cycle), `init.c`, ends of `syscall` and `trap` | the process table |
| `ProcProofs` | | `ProcTable` and `NoLostChildExit` for every size of the table |
| `Sched` | `proc.c` (switching), `spinlock.c`, interrupts | processors and stacks |
| `SchedProofs` | | `SchedSafe` and `NoLostWakeup` for all processors and processes |
| `BlockStore` | | what the buffer cache promises: a memory of blocks with a lock each |
| `BufCache` | `bio.c`, `sleeplock.c`, queue of `ide.c` | the buffer cache and its disk requests |
| `BufCacheProofs` | | `CacheSafe`, and that `BufCache` implements `BlockStore` |
| `Channel` | | what a pipe promises: a bounded queue of bytes with two ends |
| `Pipe` | `pipe.c` | one pipe and the processes that hold its ends |
| `PipeProofs` | | `PipeSafe`, and that `Pipe` implements `Channel` |
| `Fs` | `fs.c` (inodes, directories, paths), `sysfile.c` | the inode cache and the calls on names, with crashes |
| `FsProofs` | | reference counts, link counts, names, leaks and deadlocks of `Fs`, for all sets of calls without `..` |
| `ByteFile` | | what a file promises: a sequence of bytes, open at several offsets |
| `FileData` | `fs.c` (`bmap`, `balloc`, `itrunc`, `readi`, `writei`), `file.c` | the blocks of files, and what a write logs |
| `FileTable` | `file.c`, `sysfile.c`, `pipealloc`, loops of `fork` and `exit` | descriptors, open files, pipe ends |
| `Vm` | `vm.c`, `exec.c`, `kalloc.c`, `growproc` | which pages are mapped where, and how many are free |
| `Lines` | | what the console promises: lines as they were edited |
| `Console` | `console.c` (input), `sys_sleep`, the timer of `trap.c` | the line buffer; the clock |
| `Shell` | `sh.c` | the parser, on tokens, and the processes and pipes of a command |
| `Malloc` | `umalloc.c` | the list of free blocks |
| `Grep` | `grep.c` | the matcher and the loop over the input |
| `Mkfs` | `mkfs.c` | the image of an empty disk with some files |
| `MkfsProofs` | | `ImageSound` for all sizes of disks and files |
| `MCLog`, `MCProc`, `MCSched`, `MCBufCache`, `MCPipe`, `MCFs` | | instances for TLC |
| `MCKernel` | | sum of `FileData`, `FileTable`, `Vm` and `Console`: a behaviour is one of one part |
| `KernelProofs` | | sums over finite sets; `FileData`, `FileTable`, `Vm` and `Console` for all sizes, and `FileData` implements `ByteFile` |
| `MCUser` | | sum of `Shell`, `Malloc`, `Grep` and `Mkfs`, in the same way |

Definitions whose name ends in a suffix such as `_Not` or `_Front`, under a
comment that says `Mutant`, are changed forms of the definition they precede;
no specification uses them. They stand for plausible mistakes, and each
property of a run is violated when one of them takes the place of the original.

### Log

`lh`, `outstanding`, `committing` are `log.lh.block`, `log.outstanding` and
`log.committing`; `buf` is the buffer cache, `home` the blocks at their place on
disk, `dlog` and `dhead` the log area. Each process is inside a system call or
not (`pc`). `begin_op`, `log_write`, `end_op` are the functions;
`log_write` is two actions, because its check of the size comes before
`acquire(&log.lock)` and the rest after it. `commit` is split at each disk
write: `write_log` (per block), `write_head`, `install_trans` (per block),
`clear_head`, `commit_done`. `Crash` may come at any step, also during
recovery; what was in memory is gone, and `boot_read_head`,
`boot_install_trans`, `boot_clear_head` do what `initlog` does. A transaction
that grows past the log area writes over the block behind it, as the code does.
Blocks pinned by `B_DIRTY` stay in the cache; the cache is not bounded here.

### Proc

`state`, `pid`, `parent`, `killed`, `chan` are the fields of the slots. One
action is one critical section of `ptable.lock`, or one stretch of `fork` or
`exit` outside of it: `fork` (`allocproc`), `fork_copy`, `fork_run`; `exit_call`
and `exit`; `sys_wait` and `wait` (one scan of the table); `kill`; `sysret` and
`trap_killed` (the checks of `killed`). The first process runs the program of
`init.c`. `RUNNABLE` includes `RUNNING`. `kalloc` panics when memory is out, so
the branches of `fork` for that case cannot be taken and are not there.
`named` and `reaped` record what `kill` and `wait` were used on.

### Sched

Each processor has FL_IF (`iflag`), `ncli`, `intena`, and is on the stack of a
process or of its scheduler (`ctx`). `acquire` is two actions, because
interrupts go off before the spinning begins. `ptable.lock` and one other lock
`lk` are modelled; processes use `lk` as `iderw` does, and the device interrupt
as `ideintr` does. `sched` is the switch to the scheduler with its four checks,
`resume` what follows it when the process runs again, possibly on another
processor. The first process reads the disk in `forkret`, with interrupts on.
`fork`, `exit`, `wait` appear as far as they concern stacks.

### BufCache

The fields of `struct buf` are functions of the buffer; `lru` is the list from
`bcache.head.next` on, `idequeue` the requests, the first one under way. A
process is in a caller's code (`run`), waits for a buffer's lock (`lock`,
`asleep`), is in `iderw` (`iderw`, `disk`, `woken`) or between the two halves of
`brelse` (`unref`). One action is one critical section, with the code of the
lock's holder that follows it. `idestart` sends the data of a write to the disk,
`ideintr` takes the data of a read from it; for the blocks of `Faulty` the read
may fail, and the buffer keeps what it held. Callers are any sequence of
`bread`, `bwrite`, `log_write`, `brelse` on what they hold; `Nests` says which
block they read while they hold another one, and no caller holds three. `MaxPinned`
is the number of blocks in the log's transaction. When no buffer can be recycled
`bget` panics, and the machine stands still.

### Pipe

`data`, `nread`, `nwrite` with wrap-around at `WORD` (2^32 in the code), one
byte per step, `lock` held by the process in the call. `presleep` is the point
after the test of `killed` and before `sleep` has `ptable.lock`. `close` is
`fileclose` on an end: the last holder runs `pipeclose`. A killed process exits
and closes its ends when its call returns. `gaveup` records that a killed writer has
left bytes in a full pipe and woken no reader (`pipe.c:86`); it is reset by the next
`wakeup(&p->nread)` and when the pipe is empty.

### Fs

`din` and `dir` are the inodes and directory entries on disk, `inode`, `valid`,
`ref` and `lock` the fields of the inode cache, `cwd` and `file` what a process
refers to. A call walks its path one element per step (`namex`), each step one
`ilock` ... `iunlock`; then the steps of `sys_open`, `sys_chdir`, `sys_link`
(`link_target`, `link_parent`, `link_bad`), `sys_unlink` (`unlink_parent`,
`unlink_child`, between which the directory stays locked) and `create`
(`create_parent`, `create_child`). The references a call gives up go through
`put`, one after the other, and `iput` is three steps: the test, the truncation
with `icache.lock` released, the decrement. A crash comes when no call is open,
because what an open call did is undone by recovery (`Log`). `orphans` are the
inodes that had no name when the crash came: nothing frees them, as the code
says nowhere that it would. `removed` are directories that somebody wrote to
after `unlink` removed them, and what was put there: the code does not test
`nlink` in `dirlink`, so such names are lost with their directory. The `..` of a
removed directory may lead to one that is gone (section 3, "Noted without a run"); the
paths of `fs` have no `..`, though they enter and remove directories.
`AllocDuringIput` says whether `ialloc` may take an inode between the second and the
third step of `iput`. There is a cache entry for each inode: with `NINODE` of them
in use, `iget` panics (`fs.c:243`), which is not modelled.

### FileData

Inodes have `NDIRECT` direct blocks and one indirect; `addrs`, `size` are the
copies in memory, `daddrs`, `dsize` those on disk. `filewrite` cuts a write in
rounds of `MaxWrite`, each a transaction: `writei`, `write_block` per block with
what `bmap` and `balloc` do, `write_end` with `iupdate` if the file has grown.
`logged` are the blocks of the open transaction. `remove` is the truncation by the
last `iput`, block by block.

### FileTable

`ofile`, `fref`, `fobj` are `proc->ofile`, `f->ref` and what the file is for.
`sys_pipe` takes the two files in a step each; where a step fails (no file, no
page in `pipealloc_bad`, no descriptor), what was taken goes to `closing`, and `fileclose` is two steps, the count and the release
outside `ftable.lock`. Inodes are counted together (`irefs`).

### Vm

An address space is the set of mapped page indices, its tables, and the page that
`clearpteu` marks. `grow` and `shrink` are `growproc`, `fork` has `copyuvm`, `exec`
is two steps, the new image and the commit or the failure. Sizes are counted in
units of which a page has `PGSIZE`. `kalloc` panics when no page is left; the
callers' code for a null pointer is never reached. A `sbrk` to size 0 removes all
pages and leaves `proc->sz` as it was; the process then faults at once. `fetchaddr`
and `argptr` are the two tests of pointers in `syscall.c`; `WORD` is the range of the
`uint` that `argptr` cuts its pointer to.

### Console

`buf`, `r`, `w`, `e` as in the code, with wrap-around at `UINT`; `presleep` is the
stretch of `sleep` in which `input.lock` is still held. `sys_sleep` has the same
shape with `tickslock`; `n` is converted to unsigned for the comparison.

### Shell, Malloc, Grep, Mkfs

`Shell` parses sequences of tokens with the functions of `sh.c`, and runs the tree:
a process per `fork`, descriptors that `dup`, `close` and `pipe` change, programs
that may read their input to the end, and write more than a pipe holds. `pipe` and
`fork` may fail.
`ParsesGrammar` compares the parser with a grammar that takes a line apart in all
possible ways. `Malloc` has addresses in units of a header. `Grep` compares the
matcher with a definition by the ways to divide a text among the items of the
pattern; `split` records that a line did not fit the buffer (`grep` then drops its
beginning, `grep.c:29`), and nothing is claimed after that. `Mkfs` gives out
blocks in order, as the program does.

## 3. Runs

| Run | Instance | Checks |
|---|---|---|
| `log` | 3 processes, 2 blocks, 2 values, crashes unbounded | `TypeOK`, `QuiescentDurable`, `NoMissedWakeup`, `TxSpec` (refinement of `AtomicTx`), `WriteAhead`, `SleeperWakes` |
| `proc` | 4 slots, 5 pids, `kill(3)` | `ProcTable` (types, no process lost or doubled, a parent for each, `kill` marks what it names), `NoLostChildExit`, `ProcessesEnd` |
| `sched` | 2 processors, 2 processes | `SchedSafe` (no panic, one processor per stack, interrupts masked under locks, no halt with interrupts off), `NoLostWakeup`, `RunnableRuns` |
| `buf` | 2 processes, 3 buffers, 4 blocks, two of which may be pinned, symmetry of processes and of buffers | `CacheSafe` (one buffer per block, exact counts, no missed wakeup, no panic before the buffers are exhausted), `StoreSpec` (refinement of `BlockStore`) |
| `buf_live` | 2 processes, 3 buffers, 3 blocks | `BreadReturns` |
| `pipe` | 3 processes, 2 of which write and 2 read, buffer of 2, counters modulo 4 | `PipeSafe` (no missed wakeup, real end of file, freed after the last use), `ChannelSpec` (refinement of `Channel`), `WaitersReturn` |
| `fs` | 2 processes, 3 inodes, 2 names, one crash, absolute and relative paths | `InodeCache`, `LinkCounts`, `NamedIsAllocated`, `NoLeak`, `NoDeadlock` |
| `kernel` | see below | `BlocksOwned`, `InodeOnDisk`, `RoundFitsLog`, `ByteFileSpec` (refinement of `ByteFile`); `TableExact`; `PagesConserved`, `SizeMapped`; `LineSpec` (refinement of `Lines`), `NoOversleep` |
| `user` | see below | `ParsesGrammar`, `ForegroundEnds`, `LineEnds`; `HeapDivided`; `PrintsMatching`; `ImageSound` |
| `fs_iput_race` | as `fs`, `AllocDuringIput` | finds `NamedIsAllocated` violated |
| `log_area` | 3 processes, 4 blocks, a log area of 3, calls that use their reservation | finds `LogFits` violated |
| `file_log` | one write of 14 blocks, sizes of `param.h` | finds `FitsReservation` violated |

Why the bounds are enough. `log`: two calls can be open together while a third
waits for their end, a call can wait for the commit, and a block can be absorbed, committed and
written again; two values tell a torn transaction from a whole one. `proc`: a slot is used again after its process was freed, an orphan
has an orphan; `MaxPid` bounds the forks. `sched`: a processor without a
process and a process without a processor; a process moves between processors.
`buf`: more blocks than buffers, so that recycling happens under every state of
the list; two blocks are written, one of them unreadable. With two blocks pinned
and two processes, `bget` does run out of buffers: `param.h`, with `NBUF` equal to
`LOGSIZE`, does not exclude that either. `buf_live` needs no
recycling: it is about locks and the queue. `pipe`: a write is longer than the
buffer, so that it sleeps in the middle and may be killed there while another process
keeps the write end; two readers sleep and are woken together, and both counters go
round more than once. `MCPipe` numbers the bytes instead of choosing them, since
`pipe.c` does not look at them, and lets a process that is not killed close its ends
where `Pipe` also lets it exit; the run is exhaustive.
`fs`: a directory and its parent, a name in each, two processes on the same or on
crossing paths, an inode used again; three inodes let `ialloc` fail. `kernel`:
files with direct, indirect and missing blocks, opened twice, blocks used again
after a truncation, a disk that fills up; descriptor and file tables that fill up
in the middle of `pipe` and `open`; rounds of `filewrite` of one block, the least that
`LOGSIZE` allows; sizes on and off page boundaries, up to
`KERNBASE`, memory that runs out; an input buffer of four that fills up, counters
that wrap during the run, sleeps of negative, zero and positive length. `user`: all
lines up to 5 tokens for the parser, five longer ones to run, with processes for
a pipeline of three, and too few for one of four; memory for three blocks with
holes that `sbrk` by others leaves; all patterns up to 3 and texts up to 5
characters, reads of any size; images up to the end of the disk, of the bitmap
block and of the largest file.

Deadlock is checked for the log, the scheduler, the buffer cache, the file system and the
two sums. Processes and pipes may really stop: after a panic, at the bound on
forks, or when everybody has exited. Where a part of a sum may rest (a bound
reached, a panic, a line that has ended), its next-state relation has a step
for that; `LineEnds` and `NoDeadlock` say that nobody is stuck there.

### What the violations mean

* `fs_iput_race`: `iput` frees the inode on disk and only later clears its entry
  in the cache, with no lock in between. `ialloc` may hand out the inode
  meanwhile; its new owner works in an entry that `iput` then declares not valid,
  and the name it made leads to an inode whose type is lost. `fs` excludes this
  one step (`AllocDuringIput = FALSE`); everything else of `iput` interleaves
  freely there.
* `log_area`: the log area has `LOGSIZE` blocks, its header included (`mkfs.c:25`), while
  `begin_op` and the header array allow `LOGSIZE` data blocks, which is what
  `param.h:11` calls `LOGSIZE`. `log_write` looks whether the area is full before it
  takes `log.lock` (`log.c:216`). When calls log all that they reserved, the last one
  panics there; when the last ones pass the check together, all of them append, and `write_log`
  writes the last block over the first inode block. Everything else that is said
  of the log is for transactions that fit.
* `file_log`: a round of `filewrite` writes up to 13 blocks of data and the inode,
  the indirect block and the bitmap, where `begin_op` reserves 10. The formula
  has `LOGSIZE` where `MAXOPBLOCKS` would fit. What the formula does guarantee,
  that a round alone in the log fits it, is `RoundFitsLog` in `kernel`.

### Noted without a run

* `unlink` of a directory takes its link off the parent, but a process may still be
  in it, and its `..` still leads to the parent. Once the parent is removed as well
  and its inode free, a path that begins with `..` reaches an inode without a type,
  for which `ilock` panics (or one that is used again by then). `MCFs.cfg` with
  `Request <- DotDotRequests` shows it: TLC finds `NamedIsAllocated` violated.
* `kill(0)` matches free slots (`proc.c:436`), and `allocproc` does not clear
  `killed`, so the next process in that slot dies at once. The run gives `kill` a
  pid of a process.
* The slot that `init`'s `wait` freed may be taken by another `fork`; then `init`'s own
  `fork` fails, `init` exits (`init.c:25`), and the kernel panics. The model does this,
  and the liveness properties allow for `panic`.
* A killed writer gives up on a full pipe without waking the readers (`pipe.c:86`);
  if another process holds the write end and stays silent, a reader sleeps with
  a full pipe. `PipeSafe` and `WaitersReturn` allow for exactly this: until the next
  write, the close of the last write end, or another reader that empties the pipe.
* `argptr` has no lower bound, and compares the low 32 bits of a pointer that it hands
  on whole (`syscall.c:85`), where its comment says: "Check that the pointer lies
  within the process address space" (`syscall.c:76`). The first page is not mapped, and
  `read` or `write` on it faults in the kernel. `SizeMapped` says what the test does ensure.
* `kalloc` panics (`kalloc.c:87`) where its comment says "Returns 0 if the memory cannot be
  allocated" (`kalloc.c:75`), where its callers test for 0, and where `mem()` of
  `usertests.c:1403` uses up all memory and goes on. The model stops at the panic.
* A `kill` between the test of `killed` and the sleep is lost until the next wakeup
  (`pipe.c:107`, `console.c:263`, `sysproc.c:68`). `NoLostChildExit` shows that `wait`,
  which tests `killed` under `ptable.lock`, does not have this window.
* A root directory whose entries fill its blocks exactly gets a size one block too
  large (`mkfs.c:161`), and `bmap` allocates the missing block in a read.

### Fairness

`log`: weak fairness of the steps of open calls, of the commit and of recovery:
a process in the kernel keeps getting a processor (`RunnableRuns` in `sched`);
nothing is assumed about crashes or about programs starting calls.
`proc`: weak fairness of each process's kernel code and of `init`'s program.
`sched`: weak fairness of the code a processor runs, strong fairness of each
processor's timer, because a tick that comes while interrupts are off stays
pending in the APIC until they are on. No fairness for user programs or the disk.
`buf_live`: weak fairness of a process's kernel code and of the disk, which answers
every command; strong fairness of taking a sleep lock, as sleep locks are not
queues, and of `brelse` of each buffer: callers hold a buffer for a bounded time.
`pipe`: strong fairness of a process's kernel code: a process that spins on
`p->lock` gets it if it is free again and again. `xchg` does not guarantee this
by itself; it is the usual assumption about spin locks under finite contention.
`user`: weak fairness of the shell's processes taken together: as long as one of
them can move, one does. Nothing more is needed, because a command line is a
finite tree of processes, and a program that can end does so.
`fs` and `kernel` check no liveness.

## 4. Proofs

Every theorem is about the specification its run checks, for every value of the
constants that satisfies the named assumption of the module. TLC evaluates these
assumptions in the runs. A theorem that needs more has it as an `ASSUME` of its
own; each of these is listed here with the reason.

### Log (`LogProofs`)

`ConstAssumption`: a non-empty finite set of processes, sizes are natural numbers,
a call logs at most its reservation.

* `LogInvariant`: the inductive invariant `IInv` of `LogProofs`. `HeaderFits` is
  not inductive: whether one more append fits depends on the blocks every open
  call has yet to log. `IInv` adds the accounting that `begin_op` relies on: the
  header length plus what the open calls may still add stays within `LOGSIZE`
  (the pairs of an open call and a number up to its blocks are counted, so that
  sums over processes become cardinalities); `outstanding` is the number of open
  calls; while a commit runs no call is open and one process commits.
* `LogTypes`, `HeaderNeverOverruns`, `LogWakesSleepers`: types, `HeaderFits` and
  `NoMissedWakeup` from it, without assumptions on the sizes beyond the
  reservation.
* `FittingLogIsDurable`, `FittingLogWritesAhead`, `LogImplementsAtomicTx`: for every
  behaviour in which `LogFits` holds throughout, with no assumption on the sizes. A
  second invariant `DInv` says what the
  disk holds in each phase: the log area is a copy of the cache up to `tail`,
  the home blocks are a copy of the log area up to `tail`, the header on disk is
  set exactly between the two calls of `write_head`, and blocks that are not in
  the header are the same in the cache and at home. The refinement maps the
  durable memory of `AtomicTx` to `Recovered`, what recovery would make of the
  disk; the only steps that change it are `write_head` and those of `AtomicTx`'s
  commit. `[]LogFits` is a hypothesis that the code does not guarantee (`log_area`),
  and without it the conclusions are false.

### Pipe (`PipeProofs`)

`PipeInvariant`: the invariant `IInv` says who holds `p->lock` at which line, which
processes still have which end, that at most `PIPESIZE` bytes are between `nread`
and `nwrite` in their wrapping arithmetic, and that a `piperead` that left its loop
without a byte has seen the end closed. None of `PipeSafe`'s parts is inductive
alone: that the page is not used after `kfree` needs the ends of the processes
that are inside a call.

* `PipeIsSafe`: `PipeSafe`, for any readers and writers, a process may be both.
  `Reasons` adds what a process that is about to sleep has tested under the lock, and
  `gaveup` is the exception of `pipe.c:86`: it may hold only while there are bytes and
  the write end is open.
* `PipeImplementsChannel`: the bytes between `nread` and `nwrite` are the queue of
  `Channel`, for every `PIPESIZE` that divides `WORD`.

### Proc (`ProcProofs`)

`ProcInvariant`: `IInv` ties the place of each process in `fork`, `exit` and `wait`
to the state of the slot it works on (`Embryos`: an `EMBRYO` belongs to one `fork`),
says that parents are alive or about to hand over their children, and that pids
are distinct and below `nextpid`.

* `ProcessesKept`, `WaitMissesNothing`: without assumptions on `KillArgs`.
* `ProcTableKept`: `ProcTable`, if 0 is not in `KillArgs`. `kill(0)` matches free
  slots (`proc.c:436`), whose `pid` is 0, and `allocproc` does not clear `killed`, so
  that a process can be born killed that nobody named.

### Sched (`SchedProofs`)

`SchedInvariant`: `IInv` says for each processor which stack it is on, which locks
it holds at each line and with which `ncli` and `intena` (`Locks`, `Interrupts`),
in particular that `ptable.lock` goes from one stack to the other in `swtch`.
`Skips` bounds what a scan has passed over.

* `SchedIsSafe`: `SchedSafe` follows.
* `SleepMissesNoWakeup`: `NoLostWakeup` needs `Waking`: between its test and the
  state `SLEEPING` a process holds one of the two locks that the handler needs.

### BufCache (`BufCacheProofs`)

`BufCacheAssumption` says that no caller reads a block that it already holds, or holds
three.
`CacheInvariant`: `IInv` adds to the parts of `CacheSafe` that the LRU list has each
buffer once, where each process is with which buffer, who holds or waits for
each sleep lock, and that the queue of the disk has those buffers whose flags ask
for a transfer.

* `CacheIsSafe`: one buffer per block, exact `refcnt`, no missed wakeup, and
  `PanicMeansExhausted`: when `bget` panics, the pinned blocks and two buffers for
  each process that has or wants one are more than there are. The last step is a
  count: every buffer that cannot be recycled is pinned, or one of the at most two
  that some process has.
* `CacheImplementsStore`: with `Durable` (what is on the disk when a buffer is clean
  or its write under way) the values of buffers and disk are the memory of
  `BlockStore`. No assumption on the number of buffers.

### FileData, FileTable, Vm, Console (`KernelProofs`)

`FileDataAssumption` of `FileData`: every inode is open under some name, since a file
is removed through one; sizes are positive, what is written is any set of
strings; `LOGSIZE >= 6`, so that a round of `filewrite` has at least one block.
`TableAssumption`, `VmAssumption`, `ConsoleAssumption` of `MCKernel`: finite sets of
processes with a first one, natural sizes, memory that the first process fits in,
`INPUT_BUF` divides the range of an unsigned, arguments of `sleep` are ints, and
`MaxTicks < UINT`: the clock runs for less than a turn. (Over more than a turn
`ticks - ticks0` cannot tell how long a process has been kept from running.)

`FilesExact` and `PagesConserved` are sums over processes. The library has no
theorem on `SumFunction`, so the first part of the module proves that the recursive
function behind it exists, that its value does not depend on the order, and how
a sum changes with one of its terms. Induction on finite sets is replaced by a
smallest counterexample.

* `FilesNeverLost`: `TableExact`. `TableInv` adds that a process does one thing at a
  time, that a free slot has no descriptors, and that a file `pipealloc` has just
  taken is for nothing and in one hand only. The last one is why `sys_pipe` may set
  both files without `ftable.lock`.
* `PagesNeverLost`, `SizesTellMapped`: `VmInv` says which pages an address space
  has in each state of its process and of an `exec` under way, and that what is
  mapped is what `sz` says, rounded up to pages. What `argptr` accepts is then in the
  pages below `sz`, the unmapped first one included.
* `NobodyOversleeps`: `ClockInv` relates `ticks` to the ticks counted without wrap,
  `InputInv` says that `r`, `w` and `e` are in this order on the circle and less
  than `INPUT_BUF + 1` apart.
* `ConsoleImplementsLines`: the characters from `r` to `w` and from `w` to `e` are the
  two sequences of `Lines`. That they are those of one cell each is where
  `INPUT_BUF` has to divide the range of the indices.
* `DataInvHolds`, `BlocksKept`, `InodesWritten`: `BlocksOwned` and `InodeOnDisk`, with `DataInv`:
  how far a call is and which lock it has (`DataCalls`); a block is in one place of one
  inode or free (`OnePlace`, `UsedHeld`), where the entries of an indirect block that
  `itrunc` has passed count as released, though they are still in the block; the
  blocks before the size and before the position of a write are there, and no
  offset is past the size (`NoHoles`), which is why `readi` allocates nothing; and what
  is on disk of an inode differs from what is in memory only once a write has gone
  past the end (`MapOnDisk`), the one case in which `writei` calls `iupdate`.
* `DataMoreHolds`: with what a transaction has logged so far (`DataLogs`: the bitmap, the
  indirect block and the blocks it has reached, which are one more than its bytes
  fill), and what it has written (`DataBytes`: the bytes are in the file from the offset
  on, the others are as they were at `ilock`, and what is still to be written is the end
  of what the call was given).
* `RoundsFitLog`: `RoundFitsLog`, for every `LOGSIZE` from 6 on. A round has
  `(LOGSIZE - 4) / 2` blocks of data, and logs a part of one more, the indirect block, the
  bitmap and the inode. (Of `MAXOPBLOCKS` nothing follows, which is what `file_log`
  finds; with `MAXOPBLOCKS` in the place of `LOGSIZE` in the formula a round would have
  3 blocks, and 7 is within 10.)
* `FilesAreBytes`: the bytes of the blocks in the order of the map, up to the size, are
  the file of `ByteFile`. A round changes it in one step, when `filewrite` has the lock
  to give back; before that its inode is seen by nobody else.
* `KernelIsSafe`: the same for `MCSpec`, which runs the parts side by side.

### Fs (`FsProofs`)

`FsAssumption`: finite sets of processes and names, at least one inode; requests are
any set of calls on paths of any length.

* `RefCountsHold`: `ref` is the number of pointers, whatever the calls and paths are and
  also if `ialloc` comes in the middle of `iput`. The invariant is `MemInv`: the
  types, what a call holds at each of its points (`Control`), the counts, and who
  holds which lock (`Locks`).
* `FsInvIfTame`: all of `FsInv`, with `Tame`: no path has a `..`, and `AllocDuringIput`
  is false. Both are needed, as `DotDotRequests` and `fs_iput_race` show. Nothing else is
  assumed of the calls; directories may be entered, removed and written to after
  that.
* `InodeCacheIfTame`, `LinkCountsIfTame`, `NamedIsAllocatedIfTame`, `NoLeakIfTame`,
  `NoDeadlockIfTame`: the five properties of the run `fs`, from `FsInv`, all under `Tame`.
  The code guarantees neither of its two conditions; the theorems say that there is
  no third way to violate the properties.

The five properties hold each other up. That a name leads to an allocated inode
needs that only inodes without a link are freed (`Freeing`: and with one pointer
left, which is the one of the `iput`), so link counts have to be exact, or too large
for what was put in a removed directory (`Linked`, `Apart`). Exact counts need that
the entry a `create` or `unlink` has looked up is still the same when it is written
(`Working`), which the lock on the directory ensures, and that a new inode is
known to its maker only until its name is there (`Fresh`). A link count has a part
for each directory inside, found through the names in `Linked` and through `..` in
`LinkCounts`: the two agree since directories form a tree (`Tree`). And no
deadlock follows from `Acyclic`: among the directories that the processes of a set
hold, take one without a name for another of them; the process that has it locked
waits for an inode that none of them holds. `Acyclic` is stated for sets, so that
no induction along paths is needed.

### Mkfs (`MkfsProofs`)

`MkfsAssumption`: positive sizes, and a disk that
the first areas fit on. The specification is `Mkfs` alone, which the run `user` has side
by side with the other user programs.

* `ImageIsSound`: `ImageSound`, which speaks of the image when `mkfs` is done. While files
  are copied, `FilesInv` holds: the blocks from `nmeta` to `freeblock - 1` are in one place of
  one inode each, a place in an indirect block or that of an indirect block included, and
  all others in none (`GivenOut`); blocks not yet given out are zero (`Blank`), so that the
  entries of a new indirect block are; the size of an inode tells which of its blocks
  are there (`Present`); and the size of the root directory with what is still to be
  written to it is one entry for each inode and one more (`RootSize`), from which
  follows when the rounding at the end leaves a hole. A round of `iappend` that takes an
  indirect block and a block in it gives out two blocks in a row.

### Only model-checked

All liveness properties (`SleeperWakes`, `ProcessesEnd`, `RunnableRuns`,
`BreadReturns`, `WaitersReturn`, `LineEnds`), since fairness is out of
reach of the prover. `Shell` and `Grep` use recursive operators, as `sh.c` and
`grep.c` do, so nothing is proved of them. `HeapDivided` of `Malloc` is a statement on the
blocks reached by following `next` in the circular list; a proof would need induction
along the list at every step of `free` and `malloc`.

## 5. Not modelled

Register programming (`lapic.c`, `ioapic.c`, `uart.c`), parsing of the MP tables,
the boot loader, generated vectors, page-table and descriptor encodings, the
contents of memory pages, output to the screen and key maps, formatting and
string functions, the characters of tokens in `sh.c`, the straight-line user
programs and the tests. `startothers` starts one processor at a time and waits for
a flag that only that processor sets: nothing interleaves that `Sched` does not
have.

## 6. Plan

The components that can be modelled are, and what the runs check of the kernel and of
`mkfs` is proved, liveness apart. What is left:

1. `Malloc`: `HeapDivided`, in a module apart from `Shell` and `Grep`.
