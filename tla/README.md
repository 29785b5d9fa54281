# TLA+ models of the os132 kernel

The repository holds a modified xv6: a small Unix for PCs with one or several
processors, with scheduling policies, process accounting, a cursor-keys line
editor and the redo-log file system of xv6. It is there twice
(`assignment1/alon`, `assignment1/yariv`), plus the files both started from
(`assignment1/.svn`). These models are of **`src/assignment1/alon`**; file names
below are relative to it. The other copy differs in `nice` (it queues by `ctime`
instead of the clock), in the types of `qvalue` (`uint` instead of `double`) and
`input.a` (`int` instead of `uint`), in details of the shell and the line editor,
and in wording; none of the properties below was checked for it.

Contents: [components](#1-components) · [modules](#2-modules) ·
[runs](#3-what-the-runs-show) · [disagreements](#4-disagreements-between-code-and-comments) ·
[proofs](#5-what-is-proved) · [limits](#6-limits) · [plan](#7-plan)

## 1. Components

| component | state | operations | interacts with |
|---|---|---|---|
| spin locks (`spinlock.c`) | `locked`, `cpu` of each lock; `ncli`, `intena` and the interrupt flag of each CPU | `acquire`, `release`, `pushcli`, `popcli` | every other component; interrupts |
| processes (`proc.c`) | `ptable`: state, pid, parent, chan, killed, kstack | `fork`, `exit`, `wait`, `kill`, `sleep`, `wakeup`, `yield`, `scheduler`, `sched` | all sleepers; traps kill and preempt |
| policies (`proc.c`, `trap.c`) | `ctime`, `etime`, `rtime`, `quanta`, `priority`, `qvalue`; the scheduler's `head`, `p`, `medium`, `high` | a scan, the clock tick, `nice`, `wait2` | `fork` and `exit` set the times |
| redo log (`log.c`) | `log.busy`, `log.lh`, the log's sectors | `begin_trans`, `log_write`, `commit_trans`, `initlog` | buffer cache; every writing system call |
| buffer cache and disk (`bio.c`, `ide.c`) | buffers with `B_BUSY`, `B_VALID`, `B_DIRTY`, the LRU list, the request queue | `bread`, `bwrite`, `brelse`, `iderw`, `ideintr` | log, inodes; `sleep`, `wakeup`, disk interrupts |
| pipes (`pipe.c`) | ring of bytes, two counters, two open flags | `piperead`, `pipewrite`, `pipeclose` | files, `kill` |
| inodes and directories (`fs.c`, `mkfs.c`) | inodes and blocks on disk, the bitmap, the inode cache | `balloc`, `bmap`, `iget`, `ilock`, `iput`, `readi`, `writei`, `dirlookup`, `dirlink`, `namex` | cache, log |
| files (`file.c`, `sysfile.c`) | file table, descriptors, working directories | `open`, `close`, `dup`, `read`, `write`, `link`, `unlink`, `mkdir`, `chdir`, `pipe` | inodes, pipes, log, `fork`, `exit` |
| console (`console.c`, `kbd.c`) | line buffer with `r`, `w`, `e` and cursor `a`; the screen; the keyboard's shift keys | `consoleintr`, `consoleread`, `cgaputc` | keyboard interrupts, readers, `kill` |
| memory (`vm.c`, `kalloc.c`, `exec.c`, `syscall.c`) | free list, page directories and tables, `sz` | `kalloc`, `setupkvm`, `copyuvm`, `allocuvm`, `freevm`, `exec`, `sbrk`, `fetchstr` | `fork`, `exec`, `wait`, traps |
| boot (`bootmain.c`, `main.c`, `mp.c`, `entryother.S`) | `cpus`, `ncpu`, `started`, the stack left in low memory, `kpgdir` | loading, `mpinit`, `startothers`, `mpmain`, `userinit` | allocator, interrupt controllers, schedulers |
| interrupt controllers (`picirq.c`, `ioapic.c`, `lapic.c`, `timer.c`) | masks, vectors, redirections | `picenable`, `ioapicenable`, `lapicinit`, `lapicstartap` | drivers, `mp.c` |
| shell (`sh.c`) | the line, the parse tree, `PATH` | `getcmd`, `parsecmd`, `runcmd` | console, `fork`, `exec`, `pipe` |
| library and programs (`umalloc.c`, `ulib.c`, `grep.c`, `wc.c`, `cat.c`, `ls.c`, ...) | the heap's free list; buffers and counters | `malloc`, `free`, `gets`, `printf`, `memmove`, `grep`, `wc` | system calls |
| tests (`usertests.c`, `forktest.c`, `stressfs.c`) | — | what they insist on | every system call |

What is hard in it, and what correctness means there:

* **Concurrency.** Every CPU runs kernel code and is interrupted between any two
  instructions unless it holds a lock. Locks must exclude, interrupts must come
  back as they were, and the order of the locks must not allow deadlock. A process
  that tests a condition and sleeps must not miss the wakeup; `kill` takes no lock
  but `ptable.lock`.
* **Hand-over.** `sched` leaves a process with `ptable.lock` held, the scheduler
  releases it; `wait` frees the stack of a process that must no longer run on it.
* **Crashes.** Power may fail between two sector writes; after recovery, again
  during recovery included, the disk holds whole transactions.
* **Limits.** The cache has ten buffers, the log ten blocks; counters wrap around;
  0 serves as "none yet".
* **Half-done work.** A read fails, a writer is killed in the middle, `fork` makes
  a child runnable before it has finished it, memory runs out in the middle of a
  copy. Every page, block, inode reference and link must be accounted for after it.
* **Look up, then lock.** A path is walked one directory at a time; what was found
  may be removed before it is locked, and the last reference frees it.
* **Start-up.** Processors come up one after the other through the same few bytes
  of low memory, with devices already routed to processors that are not there yet.
* **Sequential code with many cases.** The line editor's ring, the shell's parser,
  `grep`'s buffer, the heap's list.

`PROJECT.json` lists the hazards line by line (`hazards`) and what each definition
translates (`map`).

## 2. Modules

The grain everywhere: what the code does under one lock, from `acquire` to
`release` or to the `sleep` that gives it away, is one step; what it does without
a lock is a step of its own. `Spinlock` justifies the first half of that, being
itself at the grain of single instructions: a lock excludes and no interrupt
handler runs on a CPU that holds one.

| module | models | remarks |
|---|---|---|
| `Spinlock` | `spinlock.c` | one action per instruction that another CPU or an interrupt can see: read eflags, cli and count, test `holding`, `xchg`, record the holder, and the way back. A CPU takes locks in one order, as the kernel must (`LockOrder`), and interrupt handlers take locks too |
| `LockOrder` | who takes which lock under which | every critical section is a sequence of acquires and releases; a CPU runs any of them, the clock's only the boot CPU. `Exits` says whether `exit` is among them |
| `Proc`, `MCProc` | `proc.c` life cycle, round robin | sections under `ptable.lock`, up to `swtch`, are single steps; `fork`'s stack allocation, copy and publication, and the test before a `sleep`, are steps of their own. A running process may be preempted at any tick |
| `Sched`, `MCSchedFifo` | policies and accounting | one CPU (the Makefile's `CPUS := 1`). `SCHEDFLAG` is chosen once, at the start, among `Policies`; `medium` and `high` matter only in the scan that sets them. `Least` says what the scan's running minimum comes to, as a minimum over a set of slots by their distance from `t`. `MCSchedFifo` adds the history of who queued behind whom |
| `Log` | `log.c` | over a cache that may drop any buffer that is neither held nor dirty, and a disk that loses power between any two sector writes. A process holds one buffer from `bread` to `brelse`. Processes in `Stray` write outside transactions, as the `iput` of `exit` may |
| `AtomicDisk` | what `log.c` promises | a disk that changes by whole transactions |
| `BufCache`, `MCBufCache` | `bio.c`, `ide.c` | LRU list, flags, request queue, a disk that answers at any later time and, for a sector in `Faulty`, with an error. `kill` wakes sleepers early |
| `SharedBlocks` | what `bio.c` promises | blocks that one process at a time uses and that keep what was last written |
| `Pipe`, `MCPipe` | `pipe.c`, the end of `fileclose`, `kill` | bytes move one at a time under `p->lock`; both counters wrap at `Wrap`; all processes inherit both ends |
| `Fifo` | what a pipe promises | a bounded queue of bytes |
| `Layout` | `fs.h`, `mkfs.c` | the disk's layout as constants, and `mkfs` as a function to the first image |
| `FileSystem` | `fs.c`, `file.c`, `sysfile.c` | a system call is a list of operations kept in `todo`; what lies between `ilock` and `iunlock` is one operation and one step, unless it waits in between. `iput` that frees is four steps. A file is `BSIZE` cells a block; a directory entry is one cell. `fs` is what the cache shows, `disk` what a crash would leave |
| `UserTests`, `MCFileSystem` | `usertests.c`, `stressfs.c`, `init.c`, `ls.c`, `cat.c`, `mkdir.c`, `ln.c`, `rm.c` | programs: sequences of calls with the outcome each insists on; `oops` records an outcome it does not accept. Loops are unrolled with smaller counts |
| `Memory` | `kalloc.c`, `vm.c`, `proc.c` (fork, growproc, exit, wait), `exec.c`, `syscall.c` | a page is `PGSIZE` cells; a directory, a table and a page of data are all just that, so a page used without having been cleared reads as `kfree`'s junk. One turn of a loop over pages is a step, of `kinit1` and `kinit2` too. `kmap` is the pages of the kernel that `setupkvm` maps, in its order; sizes wrap around at the end of the address space |
| `MemoryTests`, `MCMemory` | the memory tests of `usertests.c`, `forktest.c` | programs as in `UserTests` |
| `Boot` | `bootmain.c`, `main.c`, `mp.c`, `picirq.c`, `ioapic.c`, `lapic.c`, `timer.c`, `userinit` | extends `Memory`, whose steps begin when a scheduler has found the first process. What the machine is, and what its BIOS says of it, is chosen among `Machines`; `outb`, `stosb` and the effect of an IPI are external |
| `Umalloc` | `umalloc.c` | headers at unit addresses; a program that allocates and frees in any order, `sbrk` that may refuse |
| `Library` | `string.c`, `ulib.c`, `printf.c`, `cprintf` of `console.c` | cells of memory and addresses, strings that end in 0; text as sequences of characters; integers of `WIDTH` bits |
| `Console` | `console.c`, `kbd.c` | operators on a record: the keyboard's bytes to characters, the line buffer with its unsigned counters (modulo `UINT`) and the cells in front of it that a shift without modulo reaches, the screen with cursor and scrolling |
| `LineEditor` | what a terminal promises | a line with a cursor, sent lines, readers |
| `Shell` | `sh.c`, `strtok` | operators: tokens, parse trees with their cells in the line, `nulterminate`, what is run in which order. `Meaning` and `IsLine` are the grammar written independently |
| `Filters` | `grep.c`, `wc.c` | operators on the results of reads; `MatchingLines` and `Counts` are the definitions they are compared with |
| `Terminal`, `MCTerminal` | `consoleread`, `consoleintr`, and the programs that read from the console | a user presses keys or kills, readers get what is sent |
| `LockProofs`, `ProcProofs`, `SchedProofs`, `LogProofs`, `BufCacheProofs`, `PipeProofs`, `MemoryProofs`, `BootProofs` | — | theorems and proofs, section 5 |

How they compose: `Boot` runs `Memory`, which is where the first process's memory
comes from. `FileSystem` starts from `Layout`'s image and takes from `Log` that a
transaction is committed as a whole. `Terminal` puts keyboard, line buffer, readers,
shell and filters together. `Log` contains the cache as `BufCache` promises it (a held
buffer is used by its holder alone, a dirty one is not evicted, a bwrite is
atomic); `BufCache` and `Pipe` contain `sleep`, `wakeup` and `kill` as `Proc` has
them (a sleeper is asleep and its lock free in one step for whoever holds
`ptable.lock`); all of them rest on `Spinlock` and `LockOrder`.

Four abstract specifications are refined and checked as properties of the
detailed module: `Log!Atomic` (`AtomicDisk`), `BufCache!SharesBlocks`
(`SharedBlocks`), `Pipe!IsFifo` (`Fifo`), `Terminal!EditsLines` (`LineEditor`). The mapping for the log: *stable* is the
home sectors under the blocks of a committed header on disk, *pending* is what
the log holds for a transaction whose header is not written, and the phase is
"committed" between the header's write and the release of `log.busy`. For the
cache: *content* is the buffer's data when the sector is cached and valid or
dirty, the disk's otherwise. For the pipe: the queue is the bytes between the two
counters, modulo the ring. For the console: the line is the ring from `w` to `e`,
cut at `a` cells before `e`, and *sent* the ring from `r` to `w`.

Definitions whose comment says "mutant" or "mistake" (`CliForgotten`, `RecyclableDirty`,
`FullByOne`, ...) are not used by any specification: each is the definition after
it with a plausible bug, and the property that must notice it is listed under
`mutants` in `PROJECT.json`.

## 3. What the runs show

Run `tlc -config X.cfg M` with the configuration and module listed in
`PROJECT.json`. Every run finishes; sizes are in distinct states.

| configuration | size | shows |
|---|---|---|
| `MCSpinlock` | 2 CPUs, 2 locks, 2 nested, 56 000 | `MutualExclusion`; `InterruptsKept`: interrupts are off while a lock is held, come back as they were, and no panic fires; `SpinnersOnlyLoseRaces`: a spinner never waits for a lock that is not given back (`xchg` gives no queue, so a spinner can lose every race; more than this is not true). Two locks are the least with nesting and with a handler that takes the other lock; each CPU has a context and one interrupted one |
| `MCLockOrder` | 3 CPUs, all locks, 427 000 | `NoDeadlock` for every critical section except `exit`'s |
| `MCProc` | 2 CPUs, 4 slots, 4 pids, 1.3 million up to symmetry | `StacksAndCpus`: one CPU per process, no stack freed in use; `Families`: no orphan, no zombie missed by `wait`; `NoLostWakeup`. Four slots are the least in which `init` inherits a zombie from a process that is not its own child; two of the pids may be killed |
| `MCProcLive` | 1 CPU, 3 slots, 3 pids | `RunnableRuns`, `KilledDies` |
| `MCSchedFifo` | 3 slots, quantum 1, 2 ticks, every policy, 7 million | `TimesOwned`: accounting through slot reuse; `PolicyKept`: 3Q's queues go before one another, and FRR and the medium queue are first in first out, for which the second tick is the first that can put a process behind one that was preempted before |
| `MCLog` | 2 processes, 2 blocks, 2 values, 452 000 | `Atomic`, `ReadsSeeTheLastWrite`, `NoPanic`, with a crash possible in every state, and `TransactionsEnd`. Two blocks are the least of which a torn transaction shows half; two writes per transaction fill the log (`LogSize` 2) and repeat a block |
| `MCBufCache` | 2 processes that hold up to 2 buffers, 2 buffers, 3 sectors (a block, a place in the log, a faulty one), 2 values, 259 000 up to symmetry | `SharesBlocks` for the sound sectors: eviction, one dirty buffer, waiting for a busy buffer, waiting for the disk; `NoBufferAstray`: one sector and one user for each buffer, nobody asleep for what has happened, and a panic of `bget` only when all buffers are in use; `NoCircularWait`: a block and its place in the log are asked for in both orders, by two processes, and no circle closes because one of them at a time is in a transaction (`BeginTrans`) |
| `MCPipe` | 3 processes, one killable, ring of 2, counters modulo 4, calls of 1 or 3 bytes, 2 byte values, 5.4 million up to symmetry | `IsFifo`: a call is longer than the ring, so writers sleep half way, and the counters wrap around at twice the ring; `EndOfFile`, `FreedAtTheEnd`, `SleepersWokenUp` with both ends shared by all |
| `MCFileSystem` | 2 processes, 20 inodes, 70 blocks of 4 cells, log of 10, 5 in-memory inodes, 4 files, 4 descriptors, 113 000 | 30 programs, each in every interleaving of its two processes. `TestsPass`: what the tests insist on, and (deadlock is checked) none hangs; `WritesInTransactions`: every write is in a transaction of one's own that fits the log, and nothing but two documented panics; `BlocksOwnedOnce`, `CountsMatch`: what a crash between any two commits leaves, and the references in memory. `NDIRECT` 8 and 4 addresses a block make files that need the indirect block, and transactions of `filewrite` that fill the log; `BPB` 12 gives six bitmap blocks, so that balloc crosses one |
| `MCMemory` | 31 machines of 9 to 39 pages, with 14 programs each, 16 machines with what their BIOS says, of up to 3 processors, 804 layouts of a kernel in 2 segments, heap of 8 units, memory of 6 cells, 219 000 | `PagesAccounted`, `AddressSpaces`, `TestsPass`, `OnlyTornPanics` with memory running out at every allocation of every program; `KernelLoaded`, `StartedWhole`, `InterruptsArrive` and, under fairness, `BootsUp`, for honest, absent, corrupt and inconsistent tables and a boot processor that is not number 0; `LibrarySound`: the heap after any order of `malloc` and `free`; `memmove` with every overlap; names that fill their place, found again by `strncmp`; `strcmp` as an order; numbers of 8 bits read back; the two `printf`s on all formats of up to 4 characters. Six cells hold two names of three, which need not end, side by side; three values of a cell are the least with an order between characters. A page of 4 cells gives 4 tables of 4 pages, so a program of two pages and a stack needs a second table |
| `MCTerminal` | ring of 8, screen of 4 by 3, 5 keys out of 8 (with shift, ctrl and arrows) at several places of ring and screen, 2 readers, kills; all lines of up to 4 characters of 10 and longer ones for the shell; all expressions and texts of up to 3 for `grep`, 773 000 | `EditsLines`, `ScreenShowsLine`, `NobodySleepsOnInput`; `RunsTheLine`: what is run is what the grammar says, and nothing for a line that is not in it; `FiltersAgree`. Both line ends of the screen, its last line and the end of the ring are within 5 keys of a start |

Processes, buffers, bytes and values are alike in what the symmetric runs check,
which are invariants and step properties only.

Bounds: `MaxPid`, `KillPids` (Proc), `MaxTicks` (Sched), `MaxHeld` (Spinlock),
`MaxWrites` (Log, what callers are allowed), `MayHold`, `MaxDirty` (BufCache, what
callers do), `Count`, `Wrap`, `PipeSize` (Pipe), `NINODE`, `NFILE`, `NOFILE`,
`LOGSIZE`, `PIPESIZE` (FileSystem), `HEAP` (Umalloc), `CELLS`, `BYTES`, `WORD`, `WIDTH` (Library), `Events` (keystrokes and
kills, Terminal). Deadlock is checked except where the system may stop: Sched
stops when the clock reaches `MaxTicks`, a pipe when all its descriptors are
closed, `BufCache` when it has panicked, Terminal when there are no more
keystrokes. In `FileSystem` and `Memory` a program that is over, or a kernel that
has panicked, stutters; every other state without a successor is a hang.

Each property that is a conjunction (`InterruptsKept`, `StacksAndCpus`, `Families`,
`TimesOwned`, `PolicyKept`, `NoBufferAstray`, `SleepersWokenUp`, `CountsMatch`) has
its parts defined and commented under names of their own; the type invariants of
`Proc`, `Sched`, `BufCache` and `Pipe` are among the parts, and all of these, with
those of `Spinlock` and `Log`, are proved (section 5).

Fairness: in `Spinlock`, each CPU executes its instructions. In `Proc`, weak
fairness of the scheduler's steps and strong fairness of kernel work and of
preemption on one CPU: only CPU 0 counts quanta down (`trap.c:51`), so nothing of
the kind may be assumed of the others; strong, because a process competes for
`ptable.lock` and for its turn. In `Log`, weak fairness of every process's steps
inside its call: round robin runs everybody and the disk answers.
In `Boot`, no processor stops of itself: weak fairness of the other processors'
steps and of `main`'s. The latter is written out with `Stuck` and `InMain`, which say
when `main` can go on, because TLC cannot evaluate `ENABLED` of so large an action
in reasonable time; what it waits for (an unknown entry, a processor) is excepted.
Nothing makes a process call, hold, write, kill or lose power.

## 4. Disagreements between code and comments

One is a run with `expect: violation`; its trace is short and was compared with
the code. `MCFileSystemCd`: a process whose working directory has been removed
changes to another; `chdir` (`sysfile.c:372`) puts the last reference down with no
transaction begun, and `log_write` panics, while `log.c:8` asks every call that
might write to begin one.

Five more have a configuration each beside those of the runs, with the one
property TLC finds violated:

| configuration | module | what happens |
|---|---|---|
| `MCLockOrderExit` | `LockOrder` | `exit` takes `tickslock` under `ptable.lock` (`proc.c:201`, `216`), the clock interrupt and `sys_sleep` the other way round: two CPUs deadlock |
| `MCProcKilledAsleep` | `MCProc` | on two CPUs a `kill` between the test of `killed` and the sleep leaves the process asleep (`KilledAwake`; `proc.c:621` says it is woken up) |
| `MCLogIput` | `Log` | the `iput` of `exit`, `chdir` and `exec` writes inside another call's transaction (`OneCallInTransaction`; `log.c:13`) |
| `MCBufCacheStray` | `MCBufCache` | the same `iput` holds a block, the bitmap for one, and asks for its place in the log (`log.c:174`), while `install_trans` of another's commit holds that place and asks for the block (`log.c:75-76`): both sleep for ever (`NoCircularWait`; `log.c:8`) |
| `MCBufCacheReadError` | `BufCache` | a failed read leaves a buffer marked valid (`ReadsTheSector`; `bio.c:95`, `ide.c:106`) |

Read in the source while modelling it, followed by the models where they are within them, but not stated as
runs of their own (they are in `hazards`): `kill(0)` marks an `UNUSED` slot whose
next process is born killed (`proc.c:619`, `Kill` in `Proc`); a child that runs
before `fork` has finished it (`proc.c:156`) has the priority of its slot's last
process and may be reported with a negative waiting time; 0 means both "no minimum
yet" and a value, so FRR and GRT pass over the process that has it (`proc.c:398`,
`412`, `Least` in `Sched`); 3Q may read `head->state` behind the last slot
(`proc.c:364`, `Chosen`); a killed writer that has filled the pipe leaves its reader
asleep (`pipe.c:85`, `WriteFails` in `Pipe`), which is why `ReadersWokenUp` speaks of
runs without a kill.

* *Files.* `..` of a removed directory whose parent has been freed names a free
  inode, and `ilock` panics with "no type" (`WritesInTransactions` admits it);
  `create` in a removed directory makes inodes nobody can reach; `balloc` looks for
  free blocks in the log as well (`fs.c:61`); `filewrite` returns -1 after chunks it
  has written (`file.c:152`); `mkfs` makes a root that fills its last block one block
  too large (`mkfs.c:146`).
* *Memory.* `copyuvm` loses the page it has just allocated (`vm.c:328`), `setupkvm`
  the directory and its tables (`vm.c:142`): the `lost` pages of `Memory`.
  `allocuvm` ignores a failure of `mappages` (`vm.c:240`): the process is `torn`, and
  a later `fork`, `exec` or argument at that address panics the kernel or kills the
  process (`OnlyTornPanics`); `uva2ka` (`vm.c:345-346`) reads the entry of a stack without
  a table at address 0. `growproc` takes a size of 0 for a failure after it has
  freed everything (`proc.c:115`).
* *Boot.* An entry of the BIOS table whose type `mpinit` does not know is looked at
  for ever (`mp.c:137`) where `mp.c:143` says "fall back to no MP"; entries are counted without regard to
  the enabled flag or to `NCPU` (`mp.c:123`), and `main` waits for processors that do
  not answer; the stack of a processor is not tested for 0 (`main.c:89`).
  "it doesn't matter" that whole sectors are loaded (`bootmain.c:92`) holds only if
  no two segments share a sector of memory without sharing it in the file: `Linked`
  in `MCMemory`.
* *Line editor.* The keys that `Strays` names: `^U` leaves `input.a` (`console.c:245`),
  a backspace at the beginning of the line shifts the line before it (251), shifts
  run over the end of the ring (212-229), the right arrow stops there (279), `^D` in
  the middle of a line sends it with the `^D` where the cursor is (310).
* *Programs.* `grep` looks for newlines beyond what it has read (`grep.c:20`) and
  drops a read without one (28); in the shell the first of two redirections wins,
  `a & b` is an error, `export PATH` without a final colon loses its last directory,
  more than ten of them run past the array, `dest` is sized by the first
  (`sh.c:424-427`), and a line longer than 100 characters is run in two pieces
  (`sh.c:491`).

## 5. What is proved

TLAPS proves the following for every value of the constants allowed by the
modules' assumptions (`SpinlockAssumption`, `LockOrderAssumption`, `ProcAssumption`,
`SchedAssumption`, `LogAssumption`, `BufCacheAssumption`, `PipeAssumption`, `MemoryAssumption`,
`ProgramsAssumption`, `BootAssumption`). They ask
for sizes that are natural numbers and not 0, for values such as `None` that are not
processes, blocks or tuples, and, besides:

* `BufCache`: finitely many buffers and sectors; `Faulty` and `LogBlock` any of the
  sectors, `Stray` any of the processes.
* `Pipe`: the counters wrap at a multiple of the ring's size, as 2^32 is of 512; at
  least one process.
* `Log`: a transaction writes at most what the log has room for, which `filewrite`
  sees to (`file.c:125-132`).
* `Memory`: a directory and its tables have as many entries as a page has cells, the
  kernel is mapped above `KERNBASE`, process 1 is among the processes. What programs call
  has arguments of the right kind, and only a program's first process forks: a child's
  calls are part of the `fork` and contain none. The repository's memory tests are like that.
* `Boot`: the boot processor is one of the machine's, the memory that `kinit1` frees is
  there, BIOS tables are lists. What the tables say, how many processors there are, how
  much memory and which programs run is free.

Two hypotheses stand in the theorems themselves, since the code does not always meet
them: `~Exits` for the lock order, and `Stray = {}` for the log and for the circular
waits of the buffer cache. Section 4 says what happens without.

| | types | safety | refinement |
|---|---|---|---|
| `Spinlock` | `SpinlockTypes` | `MutualExclusion`, `InterruptsKept` | |
| `LockOrder` | in `OrderInv` | `NoDeadlock` | |
| `Proc` | in `ProcInvariant` | `StacksAndCpus`, `Families`, `NoLostWakeup` | |
| `Sched` | in `SchedTimesOwned` | `TimesOwned`, `PolicyKept` (action properties) | |
| `Log` | `LogTypes` | `CallersExclude`, `NoPanic`, `ReadsSeeTheLastWrite` | `Atomic` |
| `BufCache` | in `BufCacheInvariant` | `NoBufferAstray`, `NoCircularWait` | `SharesBlocks` |
| `Pipe` | in `PipeInvariant` | `EndOfFile`, `FreedAtTheEnd`, `SleepersWokenUp` | `IsFifo` |
| `Memory` with `Boot` | in `Kept` and `Types` | `PagesAccounted`, `StartedWhole` | |

Each invariant was checked by TLC, on the instance of the component's run, before it was
proved.

**`LockProofs`**, of `Spinlock`: `SpinlockTypes`, `SpinlockExcludes`, and `SpinlockInterrupts`, which
collects `SpinlockNoInterrupt`, `SpinlockNoPanic` and `SpinlockFlagRestored`, for any CPUs, locks and depth. None is
inductive alone. `IInv` ties the variables together: a lock is held exactly by
the CPU one of whose contexts owns it or is between its exchange and its record
(`HolderInv`); the recorded holder is the context that may pass `holding`
(`MarkInv`); `ncli` counts the locks owned and the sections entered (`CountInv`);
a CPU with `ncli` above zero has interrupts off, and `intena` is the flag it had
(`FlagInv`); an interrupted context owns nothing (`SavedInv`). Each action has a
lemma that preserves `IInv`, `NextIInv` collects them.

**`LockProofs`**, of `LockOrder`: `LockOrderNoDeadlock`, for any number of CPUs, assuming
`~Exits` (with `exit` the property is false, section 4). The locks have ranks:
`kmem` and `cons` 3, `ptable` 2, the others 1. `SectionShapes` sorts the kernel's
sections into three shapes (one lock; two locks one after the other; two locks
nested, the inner of higher rank). `OrderInv` says that every CPU is at a place of one
of these shapes and holds exactly the locks of that place. `Upwards` follows: a CPU
that waits for a lock holds only locks of lower rank, so a set of CPUs that wait
for one another would climb through the three ranks for ever.

**`ProcProofs`**: `ProcInvariant`, and from it `ProcStacksAndCpus`, `ProcFamilies` and
`ProcNoLostWakeup`, for any number of CPUs, slots and pids. `IInv` says where in the
kernel a process of each state is (`PlaceInv`), what a CPU runs while it does or does
not hold `ptable.lock` (`CpuInv`), and who owns a slot that `fork` fills in without the
lock (`ForkInv`): an `EMBRYO` belongs to one fork, has the stack that fork allocated, and
its parent is set only in the publication. The three properties are not inductive, and
neither was the first attempt at this: a slot that is taken again must not remember a
parent, or the new process would have one whose `exit` it missed, so `ParentInv` and `ForkInv`
also say that free slots and unpublished children have none, that `init` has none, and
that nobody is its own parent. The case that needs most of it is `exit`, which wakes the
parent, hands all children to `init` and leaves the CPU in one step.

**`SchedProofs`**: `SchedTimesOwned`, `SchedHighestQueueFirst`, `SchedPolicyKept`, for any
number of slots, quantum, bound of the clock and set of policies. `IInv` adds to
`TimesOwned` that no time of a slot, its `qvalue` included, is ahead of the clock, none
ahead of `currentime` while a scan uses it (or GRT's quotient would be of a negative
number), that the process on the CPU is `RUNNING`, that `p` is past the table only where the model
stops, and that no policy but 3Q gives priorities. `TailIsOwnChild` is kept by `exit` and
`wait2` because a process that is in `fork` does neither. For the order within a queue
`LeastOf` says what the running minimum returns (one of the slots it ran over; the least,
if no value is 0), `QvalueStays` that nobody's `qvalue` changes while it is queued, and
`BehindInv` that whoever was preempted has a later `qvalue` than everybody that was in the queue.

**`LogProofs`**: `LogTypes`; `LogCallersExclude`, whatever processes in `Stray`
write; and, if `Stray` is empty, `LogNoPanic`, `LogIsAtomic`, which says that
the log implements `AtomicDisk`, crashes and recoveries included, and
`LogReadsSeeTheLastWrite`. The invariant
has three layers: `TypeInv` (types, and the buffer a writing process holds is
its own), `CallerInv` (recovery is alone, at most one caller is in a transaction
and then `busy` is set) and `LogInv` (header and log agree: the sectors of `lh`
are distinct blocks; for each place in `commit_trans` and `recover_from_log`, what
is in `lh`, on disk and installed so far; nothing is logged while nobody is in a
transaction). `LogIsAtomic` shows that `WriteHead` of a commit is the abstract
`Commit`, that the first write of a block and a repeated one are the abstract
`Write`, and that installing and erasing do not change *stable*. What a reader finds
needs a fourth, `CacheInv`: a block whose slot in the log is not installed yet (`Waiting`)
has a dirty buffer with the log's contents, unless somebody holds it, and every other free buffer is empty or what the
disk has; and `SomebodyInv`, that `busy` is set for somebody.

**`BufCacheProofs`**: `BufCacheInvariant`, `BufCacheNoBufferAstray`,
`BufCacheNoCircularWait` and `BufCacheSharesBlocks`, for any number of processes,
buffers and sectors, with any of them faulty. `IInv` follows a buffer through its use: what its holder knows of it
(`HeldInv`), that whoever is in `iderw` holds it and has it queued until it is synced
(`IderwInv`), that each request is queued once and for somebody who waits (`QueueInv`),
and what data and disk have to do with each other while the disk works (`FlagInv`,
`DiskInv`). `BufCacheNoCircularWait` assumes `Stray = {}` and nothing about the order in which
sectors are asked for: in a circle whoever is waited for both holds a buffer and waits, so it
is in a transaction (`TransInv`), `begin_trans` lets in one process at a time, and that one
would wait for what it holds itself, against `AskInv`. The other three hold for any `Stray`. `BufCacheSharesBlocks` shows that `bread` and `brelse`
are the abstract taking and giving back, that a change of the data is the abstract write,
and that eviction, requests, interrupts and wakeups change nothing a user can see of a sound sector.

**`PipeProofs`**: `PipeInvariant`, `PipeEndOfFile`, `PipeFreedAtTheEnd`,
`PipeSleepersWokenUp` and `PipeIsFifo`, for any number of processes, ring and
wrap-around. `IInv` ties the flags to the descriptors (`EndsInv`), says that what a loop
has tested still holds where it is used, because the lock was not given up in between
(`TestedInv`), and that a sleeper's condition holds unless the holder of the lock has
yet to call `wakeup` (`AsleepInv`). `PipeIsFifo` rests on lemmas about remainders: two
counters at most a ring apart name places of the ring one to one, also when one of
them has wrapped around.

**`MemoryProofs`** and **`BootProofs`**: `EachPageOnce` and `EachStartsWhole`, of `BootSpec`: from
the boot sector on, for any machine and any size of memory, and for any programs of which only
the first process forks (`ProgramsAssumption`; children that fork in turn are not covered).
`MemoryProofs` has the lemmas about pages and the steps of processes, `BootProofs` those about the start, and the theorems.

`EachPageOnce` is `PagesAccounted`. To count pages in page tables directly would need a new
count after every write to an entry; instead the proof gives each page an
owner. `Owned` says that the free pages are those on the free list, where each is once,
that a table is owned by the directory's entry that points to it and a page of memory by the entry
of a table, one entry for each page, and that everything there is has the right type;
`Roles` and `Accounts` that the rest are the kernel stacks, directories and new pages of
the processes and the stacks of the processors, each in one place. Every operation of `kalloc.c`
and `vm.c` (`kalloc`, `kfree`, `walkpgdir`, `mappages`, `setupkvm`, `allocuvm`,
`deallocuvm`, `freevm`, `copyuvm`, `loaduvm`, ...) has a lemma that says how owners change,
also where it fails half way: that is where pages become `lost`. `Kept` says what is true
between steps while the kernel has not panicked: accounts are in order, and each process
has in its slots what the place where it is in `fork`, `sbrk`, `exec`, `exit` or `wait` lets it have, which is
what makes the undoing of each of them free the rest once. `Booting` adds where the boot
processor is and what exists by then. That the owners account for the number of pages
is the last part: `InUse` tags each page with the way to it, and owners make these ways unique.

`EachStartsWhole` is `StartedWhole`. `Starting` says that the stacks of the processors that have one are
apart and among the pages that `kalloc` gave (`StacksApart`), and, for each place where
`main` can be, which processors may be under way (`Comes`): only the one whose turn it is
can read the stack in low memory, and whoever is counted as started has its own. `LowPages` is
why `entrypgdir` maps the stack: until `kinit2` the allocator has only the pages of `kinit1`. Unlike
`PagesAccounted`, this is kept after a panic of another processor, too: no step takes a
stack away or undoes what the first process needs. `Counted` says that `mpinit` knows of a
local controller or of one processor at most, whatever the BIOS tables hold.

Loops over pages and entries are recursive functions on the naturals, with an invariant each; where one
needs induction, `Induct` gives it for a set (`S` contains 0 and is closed under successor), from
the well-foundedness of the naturals.

Only model-checked, and why:

* liveness (`SpinnersOnlyLoseRaces`, `RunnableRuns`, `KilledDies`, `TransactionsEnd`, `BootsUp`): the prover has neither
  `ENABLED` nor fairness;
* `TestsPass`, of files and of memory: what a program insists on is part of the program, so
  it is true or not of each one;
* `AddressSpaces` and `OnlyTornPanics`: true of the repository's programs, not of all.
  After a growth that was torn, `deallocuvm` skips as many pages as a whole table maps from wherever
  it meets the missing one (`vm.c:262`), and can leave pages above the new `sz`; a `sbrk` down to 0
  gives the pages back but leaves `sz` as it was (`proc.c:114-116`), and the process is without
  pages below it;
* `KernelLoaded`: holds for kernels laid out as a linker does (`Linked`), an assumption on
  the machines that only the instance makes; `InterruptsArrive`: holds where the BIOS tables are
  `Honest`, and is about sequences of words sent to the controllers that are folded over;
* `WritesInTransactions`, `BlocksOwnedOnce` and `CountsMatch` of `FileSystem`: the operators
  of `fs.c` are folds and recursive operators over blocks and paths, and the list of
  operations a call has yet to do is data whose shape (which `iput` may follow which `ilock`,
  how much a transaction writes) would have to be part of the invariant;
* `Terminal` and what `Umalloc`, `Library`, `Shell` and `Filters` compute: recursive
  definitions over sequences, about which only an induction over the data could say
  anything for all inputs.

No statement rests on a recursive operator or on the library's induction theorems; where a
least element or an induction on numbers is needed (`FirstSlot`, `LastOf`, `Smallest`, `Induct`)
it comes from the well-foundedness of the naturals.

## 6. Limits

* Memory is sequentially consistent; the code relies on x86 and on `xchg` for that.
* A sector write is atomic. `Log` keeps one disk block per buffer and abstracts the
  contents to a few values; which blocks a system call writes is in `FileSystem`,
  where in turn a commit is one step.
* `Proc` abstracts quanta; `init` does not exit. `ncli` and `intena` across `swtch`
  are not modelled.
* `Sched` has one CPU. On others the scheduler's `p`, `medium` and `high` are
  uninitialised when first read.
* `BufCache` has one device. Who changes blocks holds one buffer and asks for
  others in any order: `bmap` and `balloc` inwards, `log_write` the log after the
  block, `install_trans` the block after the log. That nobody asks for what it holds
  itself is assumed of the callers; `balloc` giving away a block of the log
  (section 4) would break it. That `commit_trans` leaves nothing dirty is taken from
  `Log`. The kernel has `NBUF` =
  `LOGSIZE` = 10 and any number of readers, so `bget` can run out of buffers in
  the kernel as it does in the model. Liveness of the disk queue is not checked.
* `Pipe` starts with all processes holding both ends; `fork` and `dup` only share
  ends further.
* `FileSystem` runs the calls of programs, not all sequences of calls: the tests of
  the repository, its small programs, and a few that race for a name or stand in a
  removed directory. `DIRSIZ` is as in the code; a name is a sequence of characters only where
  its length matters.
* `Memory` has the programs in the same way; `exec` reads a program of given sizes. Where
  `uva2ka` takes a word at address 0 for the entry of the stack, `exec` may fail, or the
  kernel may trap or write where it should not; after the latter the model stops.
  The argument vector on the stack, segments and `switchuvm` are left out.
* In `Boot` what one processor does without being seen by another is one step. The
  modes of the processor and the rates of its timers are left out.
* `Terminal`: programs do not write while the user types; in the code
  `consolewrite` moves the cursor of the screen under a lock of its own.
* `Shell`: "cd " and "export PATH " are one character each; the process tree of a
  line is abstracted to what is run, in which order, with which redirections.
* Not modelled: the memory disk (`memide.c` has nothing to interleave), CGA and UART
  registers, the register-saving assembly
  (`swtch.S`, `trapasm.S`), the sanity programs (they print statistics), and the
  other copies of the tree.

## 7. Plan

1. Done: spin locks, lock order, processes, policies, log, buffer cache, pipes; the
   file system with descriptors; memory, boot and interrupt routing; the console with
   shell and filters; the heap, strings and `printf`.
2. Done: the safety of seven kernel components proved, with the refinements of
   `AtomicDisk`, `SharedBlocks` and `Fifo`; `PagesAccounted` and `StartedWhole` of memory and
   boot. Open: `WritesInTransactions` of `FileSystem` for any list of calls, which needs
   the calls' lists of operations as a type of their own.
3. Open: `sched`, `scheduler` and `swtch` with `ncli` and `intena`, and quanta on two
   CPUs; output of programs on the console while a line is edited.
