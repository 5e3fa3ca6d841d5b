# Verification of the zcu-os kernel simulator

zcu-os is a small operating system that runs as a Windows process: a boot loader loads
`kernel.dll`, the kernel runs `init` and a shell from `user.dll`, and programs call the kernel by
register values. Every thread of the system is a `std::thread` of the host, so the kernel's own
code runs concurrently and is guarded, where it is, by mutexes and home-made semaphores.

This directory holds TLA+ models of the kernel's logic, the TLC configurations that check them,
and TLAPS proofs. Paths such as `process.cpp` are below `src/src/kernel/`.
`PROJECT.json` lists components, runs, mutants, the source lines of each definition, the
findings, the hazards and the theorems.

## 1. The system

| Part | State it keeps | Operations | Talks to |
|---|---|---|---|
| semaphore (`semaphore.cpp`) | value, waiting count, a condition variable | acquire, release | pipe |
| pipe (`pipe.cpp`) | ring buffer, two indices, fill count, open ends, semaphores `empty` and `full` | write_in, read_out, close | pipe file system |
| processes and threads (`process/*`) | process and thread tables, native thread → TID map, "next" counters, per record: waiting queue, return value, thread state | Clone, Wait_For, exit, Shutdown, start and end of init | VFS (inherit, close), procfs |
| kernel entry (`kernel.cpp`) | — | Run_VM, dispatch of system calls | all |
| system calls on files (`io.cpp`) | — | create, close, read, write, pipe, delete, seek, cwd | handle tables, VFS |
| VFS (`filesystem/VFS*.cpp`) | descriptor table with counters, superblocks with connections | open, close, duplicate, openPipe, read, write, seek, delete | drivers |
| pipe file system (`filesystem/fs_pipe.cpp`) | table of pipes | createPipe, read, write, closeDescriptor | pipe |
| RAM disk (`memtree/*`, `Bitmap.cpp`) | inodes, block bitmap, blocks | open/create (with the directories on the way), delete, read, write, set size | VFS |
| stdio, procfs (`filesystem/fs_stdio.cpp`, `proc_fs.cpp`) | stream slots; map of process names | read, write, list | VFS, processes |
| path normalisation (`filesystem/VFS_paths.cpp`) | none | absolute path from cwd and argument | io, VFS |
| shell (`src/src/user/shell*.cpp`) and programs | the parsed line, streams and processes of its commands, handles it has open, the working directory | read a line, parse it, open files and pipes, start each command, close, wait; cd, md, rd, ps | system calls |

**What is hard in it.** Steps of several threads between lock acquisitions; a wake-up that has to
be given before, during or after the sleep it ends; tables that run full; counters that are read
and written without a lock; one of several steps that fails; inodes, blocks, descriptors, PIDs and
pipes that are reused while somebody still holds the old one. The hazards are listed at their
lines in `PROJECT.json`, with the properties that cover each one or a note why none does yet.

**What makes each part correct.**

- *semaphore*: permits are neither invented nor lost in the hand-off between `release` and a woken
  thread, no thread sleeps beside a permit, and it behaves as a counting semaphore with its liveness.
- *pipe*: FIFO, no overwritten byte, no use of an empty cell; a short read means the end of the
  data, a short write means a closed end; a close releases every thread asleep.
- *processes*: a handle names the record that was asked for until everybody has read its return
  value, then its slot is given back; the end of a program wakes whoever waits for it; nothing that
  a process has opened stays open, no process loses what it holds; no empty slot is dereferenced.
- *descriptors*: a counter equals the number of handles in all processes; an end of a pipe is open
  exactly as long as a descriptor is on it; what a handle leads to never changes under its holder.
- *RAM disk*: bitmap and inodes agree, no block belongs to two files, directory entries name live
  inodes with one name each, and a change of one file leaves the others alone.
- *shell*: every command line comes to its end, a line that was run leaves no process and no open end
  of a pipe behind, and a program sees the end of its input only after all of it.
- *paths*: a path, normalised, leads where its meaning says and nowhere above the root; a relative path
  never meets a drive that is not mounted; md and rd lose nothing that they were not told to remove.
- *procfs*: the entry of a running process shows its program, whatever is read and opened meanwhile; ps
  lists what lasts and comes to an end.

## 2. The modules

| Module | Models | Notes |
|---|---|---|
| `SemaphoreOps` | `semaphore.cpp` as operators on one value `[value, waiting_count, blocked, woken]` | used by `Semaphore` and, twice, by `Pipe` |
| `Semaphore` | threads calling `acquire` and `release` | `Acquire`, `Sleep`, `Resume`, `Release`, `SpuriousWake` |
| `CountingSemaphore` | the abstract semaphore: permits and waiting threads | refined by `Semaphore` |
| `Semaphore_proofs`, `Pipe_proofs`, `Process_proofs`, `Descriptors_proofs`, `FileNames_proofs`, `Procfs_proofs`, `Memtree_proofs`, `Shell_proofs` | theorems about the module of that name (section 6) | each extends its module |
| `Pipe` | `pipe.cpp` | one action per lock acquisition of `write_in`, `read_out`, `close` |
| `PipeChannel` | the abstract FIFO channel of bounded length | refined by `Pipe` |
| `Process` | `process.cpp`, `waiting_queue.cpp`, `thread_state.cpp`, `retval.cpp` | |
| `Descriptors` | handle tables (`process.cpp`), `VFS.cpp`, `fs_pipe.cpp`, the calls of `io.cpp` | |
| `MemtreeNodes` | `MemtreeMount.cpp`, `Bitmap.cpp`, inodes | operators on a disk value |
| `Memtree` | the driver `fs_mem_tree.cpp` over it | `MCMemtree` adds the symmetry set for TLC |
| `DirectoryTree` | the abstract disk: a tree of named directories and files | refined by `Memtree`, used by `FileNames` |
| `Paths` | `VFS_paths.cpp` as operators on sequences of tokens, and what a path means | |
| `FileNames` | `setWorkDir`, labels and drives of `VFS.cpp`, the programs `md.cpp` and `rd.cpp`, redirections | `MCFileNames` adds the paths for TLC |
| `Procfs` | `proc_fs.cpp`, the kernel that writes it, `ps.cpp` that reads it | `MCProcfs` adds the names for TLC |
| `ShellParser` | `shell_parser.cpp`, from tokens to commands | a fold over the tokens |
| `Shell` | `shell.cpp`, `shell_executor.cpp`, and how the programs use their streams | `MCShell` adds the lines for TLC |

**Semaphore and Pipe.** A call of the condition variable's `wait` is a step in which the thread
joins `blocked`; `notify_one` moves any member of `blocked` to `woken` (the standard lets it choose);
the step of a woken thread is the return of `wait`. `value`, `waiting_count` and the fill count of
the pipe are unsigned; the type invariants say that they never pass 0 downwards. In `Pipe` the two
semaphores are values of `SemaphoreOps`, so a step that acquires is exactly the code's. `close` runs
under `attr_lock` and is one step. A writer and a reader are wherever their `pc` says: `w_check`
(the test of the ends), `w_acquire`, `w_wait` (asleep), `w_recheck`, `w_store`, `w_signal`, `w_abort`,
and likewise for the reader. Bytes are members of a small set.

**Process.** The actors are the host's threads. `pc` says where each one is in the kernel; a stretch
of code under a lock is one step, and where the code drops the lock or never takes it
(`subroutineCreateProcess`, the tail of `Wait_For`) the steps interleave. A record of either table has
its creator or native thread, and `q`: the registered waiters, whether the queue is locked (the program
has ended), whether the return value is assigned, and the count of those still to read it. The counter
of the standard streams' descriptor is read in one step (`LoadCounter`: `InheritStreams`, `CloseStreams`) and
written in a later one (`Opened`, `Closed`), for the VFS has no lock there (`VFS.cpp:191`, `:336`); two removals exclude
each other, since `cleanProcess` holds `process_table_lock` (`TableFree`), a creation is excluded by nobody. `lost` counts,
for the properties only, what was opened for processes that were then not created, because their program does
not exist (`process.cpp:190`). An access
to an empty slot or outside a table is `Crash`. User programs are *any* sequence of legal calls;
`Liberties` names what a program may additionally permit itself (overlapping Clone calls, joining each
other's handles, filling the table, unknown program names, leaving children behind, Shutdown), and
that two of its threads count at the same time, which no program can rule out. Return
values, names, arguments and the working directory are left out.

**Descriptors.** Each access to a shared table is a step of its own: a handle is looked up, then the
descriptor is used, then the handle table is updated. A counter is read in one step and written in
another. `calls[p]` is the call that process `p`'s thread is in. `Dropped` and `Openers` name the
handles and threads that are between two of these steps, so the counting invariants hold at *every*
state and not only when the system is quiet. `lost` remembers descriptors that a failing call in the
code leaves behind, so that the invariants state exactly how much is forgotten, and nothing more.

**Memtree.** A disk is `[inodes, bitmap, data]`; sizes and positions count cells: one byte of a file or
one entry of a directory. In the code an entry has 24 bytes and may straddle two 2048-byte blocks; in
the model cells are whole. A read through a missing block leads far outside the disk's memory (`Wild`),
which ends the model in `crashed`. What is left in a block that belongs to nobody is not told apart:
it is `Stale`, like what was never written. What the deletion of a directory releases is the least set of inodes that has it and every
other entry of the directories in it (`deletedNodes`): the code's loop, which deletes while it counts up,
skips one entry after each that it deletes. Calls run one after another: the driver takes no lock at all, and its races are on the
level of single memory accesses.

**Shell.** `step` and `at` say where `executeCommands` (`prepare`) and `runCommands` (`create`, `close`,
`wait`) are; one turn of each loop is a step. A program is reduced to how it treats its streams:
writers never read (`echo`, `dir`, `ps`, `type` with a file), filters read everything and then write
(`sort`, `wc`, `freq`, `type` alone), and the two threads of `rgen` are `Writer(p)` and `Main(p)`. A
pipe is the number of its full cells; an end of it is open while the shell (`held`) or an unreaped
process has it. Names may be missing, files may not exist, `cd` may fail and the tables may be full: a
line is then given up as the code does, with what it leaves behind. A handle that was never given,
a message with `parameters[0]` of an empty vector and a Clone with a full table end the model in
`crashed`. `Liberties` are two ways to use a pipe that nobody reads.

**Paths and FileNames.** A path is a sequence of tokens (a separator of either kind, a dot, two dots, a
label such as `C:`, a name). `removeDots` keeps the code's two cursors and its buffer, which it rewrites
in place; a position counts tokens. The reference is `Meaning`: a walk from the root of a drive or from
the working directory on which a name leads down and `..` up. In `FileNames` every system call is one
step: `cd` is `LookUpDirectory` and, later, `changeWorkingDir`; md is `Look` and `MakeDirectory`; rd is
`Look`, `ReadFirstEntry` (with the user's answer) and `DeleteDirectory`; programs run in `Slots`, at the
same time as each other and as the shell that types the next line. The disk is a `DirectoryTree`:
`AfterCreate` has all outcomes of a creation, the disk full on the way included. `there[s]` remembers which
places have been there ever since program `s` first looked, and is read by the property only. Labels that
are not mounted, and the pipe drive, end the model in `crashed`.

**Procfs.** The map, the process table as far as it has names, and two actors: `kernel` adds and removes
entries in the steps of `addProcessToProcFS` and `cleanProcess`, `ps` reads the directory by index and
opens, reads and prints one entry after the other. An open of a pid without an entry makes one. `steady`
remembers the processes before whose entry nothing came or went while ps was reading, and is read by the
property only. One call is one step; that two calls are in the `std::map` at the same time has the
outcome `crashed` besides (`MapRace`), and so has a `substr` behind the end of a name.

**How they fit.** `Pipe` contains two semaphores of `SemaphoreOps`. `Pipe` with `OrderlyClose = TRUE`
assumes that an end is closed only with no thread inside it; `ThreadsInsideOpen` of `Descriptors` is
what guarantees that. `Descriptors` takes processes to start and end as `Process` describes, and uses a
pipe only through its ends. `Memtree`'s `Fds` are descriptors of the VFS.
`Shell` takes a pipe to do what `PipeChannel` says, an end to be open as long as it is held, as
`Descriptors` shows, and a process to keep its handles until it has been joined, as `Process` has it;
the lost wake-up of `Wait_For` is left to `Process`.
`Memtree` implements `DirectoryTree` by its names (`ImplementsTree`), which `FileNames` takes as its disk.
`Procfs` takes the kernel to add and remove entries in the places where `Process` does.

## 3. The runs

| Run | Question | States |
|---|---|---|
| `semaphore` | permits conserved, nobody stranded, refinement with liveness | 148 |
| `pipe` | cells, bytes, short reads and writes, FIFO refinement, return after close | 271 674 |
| `process_join` | well-behaved programs, their program names known or not: no crash, right handle, slots and entries given back, streams closed exactly once but those of creations without a program, woken joins return | 231 685 |
| `process_liberties` | whatever programs do, if no two threads count at the same time, nobody loses his standard streams | 1 077 445 |
| `process_lost_wakeup` | *violation*: a child that ends too early leaves its parent asleep | |
| `descriptors` | counters, connections, pipe ends and handles agree at every step | 1 111 805 |
| `memtree` | accounting of blocks and inodes, directories, descriptors, isolation of files, refinement of the tree | 54 799 |
| `memtree_remove` | *violation*: `rd /S` leaves every second file behind | |
| `names` | every path means what it says, from every working directory; md, rd and rd /S beside each other | 618 939 |
| `procfs` | ps beside processes that come and go: entries match, ps lists what lasts, ps ends | 1 568 556 |
| `shell` | lines of all kinds one after the other: each ends, is cleaned up, and no program sees its end too early | 235 515 |
| `shell_unread_pipe` | *violation*: a program that does not read its pipe blocks the shell for ever | |

With `OrderlyClose = FALSE` in `Pipe.cfg`, and one value of a byte, the ends are closed at any moment, also
under running calls, as a shutdown of the kernel does: `TypeOK`, `TokensBalance` (both are proved, for one reader)
and `ReturnAfterClose` hold then as well; the others are about closes that nobody is overtaken by.

### What the violations show

- `process_lost_wakeup`: `Wait_For` registers under the table locks, releases them and then sleeps
  without another look (`process.cpp:143`, `thread_state.cpp:24`). A child that ends between the two
  notifies nobody. `SleepersGetOut` says what remains true: who is already asleep is woken, and who is
  woken returns.
- `memtree_remove`: the loop over the directory counts up while the directory shrinks.
- `shell_unread_pipe`: the shell joins the programs of a line from the left, and a program's handles are
  closed only by the join. In `type file | echo` the second program ends at once, but its end of the pipe
  stays open: the first one waits for a free cell, the shell for the first one, for ever.

### Divergences that have no run of their own

They can be reproduced by adding the liberty, or raising the bound, in the named configuration, or are
visible in the named action.

| What | How |
|---|---|
| an acquire that returns without a permit after a wait that returned by itself: `acquire()` waits without a predicate (`semaphore.cpp:19`) | `NoMoreThanPermits` with `SPECIFICATION SpuriousSpec` in `Semaphore.cfg` |
| two Clone calls at once share one slot: `getNextFreePid` and `createFreePCB` run without the lock their comments ask for | `ThreadIdentity` with "overlapping clones" |
| a record removed while another thread of the process still waits for it (`process.cpp:541`) | `JoinedRecordKept` with "shared joins" |
| two threads count the standard streams at the same time, two clones or a clone and the removal of a process: one of the changes is lost (`VFS.cpp:191`, `:336`, called without a lock from `process.cpp:508`), and the streams of a process that runs are closed, or stay open for ever | `StreamsStayOpen`, and `NothingLeaks` by its part `OpeningsBalance`, with "count at the same time" |
| an opening that is never closed when the program name is unknown (`process.cpp:190`) | `NothingLeaks` states the leak by `lost`; with "unknown programs" the invariant `lost = 0` is false |
| an access outside the table when it is full: the sentinel is 65535, the callers test for another value (`process.cpp:380`). The comment at `process.cpp:174` says "there is no free PID", and `api_extension.h:7` has an error for it, that the process was not created for want of resources | `NoCrash` with "full table" |
| what `Wait_For` returns: `api.h:120` says "OUT: rax je index handle, ktery byl signalizovan" (rax is the *index* of the handle that was signalled), the comment at `process.cpp:113` says "OUT:rax is signalized handle", and the code does the latter (`context.rax.x = handle`, `process.cpp:153`). `JoinReturnsRequested` takes the text of `process.cpp:113`; the only caller of `user.dll`, `rtl.cpp:125`, looks at neither | the invariant `JoinReturnsIndex` in `ProcessJoin.cfg` |
| Wait_For reporting a handle nobody asked for: left over from a Wait_For on several handles (`process.cpp:128` enters the thread in each queue, nothing takes it out of the others), or after a Shutdown | `JoinReturnsRequested` with `MaxHandles = 2` or "shutdown" |
| counters of the VFS, slots of the pipe table, and both ends of a pipe, each under simultaneous calls | `CountersMatch`, `PipesMatch` with the liberties of `Descriptors` |
| two readers on one pipe, of which one sleeps for ever: a reader that finds the end of the data after its wait has used up a token of `full` and releases `empty` (`pipe.cpp:71`), so the one extra token of `close` wakes one reader only | `ReturnAfterClose` of `Pipe.cfg` with two `Readers` |
| two readers on one pipe, of which both fetch the last byte, so that `fields_count` wraps: the `release` of `close` adds a token to `full` that no byte belongs to (`pipe.cpp:98`), and the second look of `read_out` (`pipe.cpp:71`) is not repeated when the byte is taken | `TypeOK` and `TokensBalance` of `Pipe.cfg` with two `Readers` |
| what is left of a line that is given up: pipes of the commands before, processes nobody joins (`shell_executor.cpp:181`, `:237`) | the invariant `step = "prompt" => Open = {}` in `Shell.cfg` |
| a crash of the kernel or the shell by `wc < missing` (`process.cpp:974` throws) or by a line that begins with an operator (`shell_executor.cpp:251`) | the invariant `step # "crashed"` in `Shell.cfg` |
| a line with a pipe that leads nowhere (`type file \|`) never ends | `LinesEnd` of `Shell.cfg` with "dangling pipes" |
| a file deleted while a descriptor is open on it | `DescriptorsLive` with "delete open files" |
| a path on a drive that is not mounted (`cd D:/`) follows a null pointer: `VFS.cpp:67` tests the wrong pointer; `VFS_startup.cpp:19` says that the first drive is used then. `cd pipe:/` calls a function of the driver that was never set | the invariant `~crashed` in `FileNames.cfg` |
| rd, without /S, removes what was created in an empty directory after it looked; md empties a directory that was made after it looked | `KeepsWhatWasThere` without `there[s]` |
| ps lists a process twice or not at all when an entry before its own comes or goes while it reads; lists an entry without a name for a process that is gone; prints a line mixed of two names | `PsListsLasting` with `steady' = steady` in `Moves`; `printed` of `Procfs` |
| ps on a pid that changes to a process with a shorter name: `substr` throws out of the kernel (`proc_fs.cpp:67`) | the third disjunct of `ReadName` |
| an entry of procfs for a process that does not exist, made by looking at it (`proc_fs.cpp:110`) | the invariant `HasEntry(p) => process_table[p] # NoProcess` in `Procfs.cfg` |

## 4. Bounds

| Constant | Bounds | Why it is enough |
|---|---|---|
| `MaxReleases = 4` | releases in a run of the semaphore | one more than the threads: every order of hand-offs with one permit to spare |
| `PIPE_SIZE = 2`, `MaxChunk = 2` | cells, bytes of one call | the indices wrap, a call finds the pipe full or empty in its middle; two writers compete for the last cell |
| `SIZE_MAX = 7` | the largest `size_t` | a wrapped count is outside 0..`PIPE_SIZE`, which the type invariant sees |
| `MAX_PROCESS_COUNT` 4 or 3, `MAX_THREAD_COUNT` 5 or 3, `MaxClones` 4 or 3 (`process_join`, `process_liberties`) | table slots, creations | slots and handles are reused, the counters wrap; a parent, a child and a grandchild; with 3 slots for threads both tables fill up. The lost wake-up needs one creation |
| `MaxHandles = 1` (Process) | handles of one Wait_For | two meet the known defect in the table above, so the passing run does not speak of it |
| `fdCount = 3`, `pipeCapacity = 1`, `MaxHandles = 3` (Descriptors) | both tables, handles a process ever gets | both tables fill up, a freed descriptor, a freed slot and a closed handle are used again while the other process is in the middle of a call |
| `SomeLines` (MCShell) | lines typed: everything of up to two tokens, redirections, all pipelines of two commands, pipelines of three, four commands | every way through the parser and the executor; a failure before, in and behind a pipe; both tables full |
| `PIPE_SIZE = 1`, `MaxOutput = 2` (Shell) | cells of a pipe, cells a program writes | a program blocks in the middle of its output; it also writes nothing, or just fills the pipe |
| `MaxLeft = 2` | what earlier lines may have left when the next one is typed | a line meets a pipe or two processes of a line given up before it |
| 3 inodes, 3 blocks of 2 cells, 2 links, `MaxDepth = 2`, `MaxWrite = 2` | the disk | a path of two names creates a directory and a file; a file spans two blocks; disk full, inodes used up and the largest size are all reached |
| `Slots`: two, `MaxDepth = 2`, two names (FileNames) | programs at the same time, depth of the disk | one program makes or empties what the other has looked at, above or below it; beside them the shell redirects into it |
| `DiskPlaces` (FileNames) | what a command acts on: up to `MaxDepth` names | the disk never gets deeper, so that the model is finite |
| `CdFew`, `TypedFew`, `SomePaths` (MCFileNames) | paths | `cd` leads up, down, to the root, to every drive and to one that is not mounted; what is normalised are all relative paths of up to three parts with either separator and of four with one, and each of them behind every label: empty parts, dots and double dots in every position |
| three pids, two names of different length (Procfs) | slots, names | an entry has one before and one behind it; a pid is used again by a shorter and by a longer name |

`Memtree.cfg` permutes names and `FileNames.cfg` the slots (`SYMMETRY`); the models compare them for
equality only, and no liveness is checked there. Deadlock is checked in `pipe`,
`descriptors` and the shell runs; the shell stutters (`Stopped`) where it has ended or where `MaxLeft`
bounds it. It is not checked in the semaphore runs (all threads may legally be asleep, or the
release bound used up), in the process runs (the system ends when init does) and in `memtree`, `names` and
`procfs` (the model ends at a crash).

## 5. Fairness and assumptions

- A thread inside the semaphore, the pipe or the kernel goes on running: weak fairness of its own
  steps (`Resume`, `WriteStep(w)`, `ReadStep(r)`, `KernelStep(n)`), and so does the shell in the middle of
  a line (`RunLine`), each thread of a program that it has started (`Main(p)`, `Writer(p)`) and ps (`PsStep`). The
  host's scheduler gives each
  `std::thread` time, and none of these steps holds a lock while waiting for something else. No
  program is obliged to make a call, to write, to close or to exit: user steps have no fairness, and nobody
  needs to type a line or to end what he types into a program (`EndOfConsole`).
- No fairness is assumed of the choice in `notify_one`, and none between threads that compete for a
  semaphore; nothing stronger than weak fairness is used.
- In all runs a wait returns only when notified. The standard permits otherwise, and the code waits without
  a predicate: the first line of the table above is the price. `SpuriousSpec` has such returns, and the
  theorem `WaitersNotStranded` is about it too.
- "Well-behaved programs" are those that take none of the module's `Liberties`. The shell is one: it
  creates one process at a time, closes one handle at a time and joins every command it started,
  unless it gives a line up.
  The passing runs `process_join` and `descriptors` are about them; `process_join` also has creations of
  programs that do not exist, and `process_liberties` everything but counting at the same time.
- That two threads do not count at the same time is an assumption about luck and not about programs: the code has no
  lock there, and a user that clones while another program is reaped may violate it. `StreamsStayOpen`, `NothingLeaks`,
  `CountersMatch` and what is proved under `CountsAlone` say what holds without such a meeting. The other properties of
  `process_join` do not depend on the counter, and are proved with the liberty.
- In `Memtree` no program writes to a directory or changes its size. The programs of `user.dll` do neither; the
  driver's functions would let them (`fs_mem_tree.cpp:179`, `:212`); redirections open without `faDirectory`, which meets no directory.
- In `Descriptors` a process has one thread; clearing a record and writing a field are atomic;
  `directoryExists` behaves like the lookups that are there and is not a call of its own; an unknown
  program name is met at most once per descriptor, so that the counters stay bounded; the end of init
  is in `Process` only.
- In `FileNames` nobody removes the root of the disk (nothing in the code forbids it: "delete the
  root" among the `Liberties` of `Memtree`), names are short
  enough for a directory entry, and every program handles one path; several paths of one command are
  several programs in a row. Nobody but the kernel writes or removes entries of procfs, and one thread, the
  shell's, creates and joins processes. Which free pid is taken is left open.

## 6. Proofs

`tlapm` checks every step. The theorems hold for every value of the constants that the assumptions of the
modules admit (`SemaphoreAssumption`, `PipeAssumption` and so on: sets are finite, sizes are numbers; in
`Process` also `SlotAssumption`: `None` is no record, and both tables together have fewer slots than the
sentinel 65535, with 1024 each in the code; in `MemtreeNodes` also `WildAssumption`: what stands for the memory
outside of the disk is no inode and no entry; in `Paths` no name or label is a separator or dots, and in `Shell` no pipe
or pid is one of the marks that stand for a stream without a handle: in the code the ones are numbers, the others cases of
the executor). Every inductive invariant below was an invariant of TLC's runs first.
`PROJECT.json` lists the theorems with the property of a run that each one states.

**Semaphore.** Each operation of `SemaphoreOps` has a lemma (in `Semaphore_proofs`, and again in `Pipe_proofs`): what it does to the shape of the
semaphore, to `Covers` (a sleeper is counted, and nobody sleeps beside a permit), to `Disjoint` (no thread is
asleep and awake at once), to `Exact` (the count *equals* the sleepers) and to the tokens.

- `WaitersNotStranded`, `SemaphoreTypeCorrect`: for `Spec` and for `SpuriousSpec`, in which waits also
  return without a notify. `NoStrandedWaiter` is not inductive: when `notify_one` moves a thread that is also
  in `woken`, the count goes wrong. The inductive invariant is `IInv = TypeOK /\ Covers /\ Disjoint`.
- `PermitAccounting`: `release` raises the value only if `waiting_count = 0` and otherwise notifies; permits
  are conserved only if a counted waiter really sleeps. This needs `Exact` on top of `IInv`, and so waits
  that return only when notified.
- `CodeStepsAreAbstractSteps`: the safety half of the refinement of `CountingSemaphore`.

**Pipe.** The inductive invariant counts threads by the label they are at: every cell is a token of `empty`, a
byte, or in the hands of a thread between the semaphore and the buffer, and likewise every byte.

- `PipeTypeCorrect`, `PipeTokensBalance`: as long as the write end is open, for any number of readers and
  writers; for ever, if there is one reading thread (`OneReader`). With two the statement is false (table
  above). The pipes of the shell have one reader each.
- `ShortCalls`, `PipeIsChannel`: with one reader and ends that are closed when no thread is inside
  (`OrderlyClose`, which `ThreadsInsideAreSafe` of `Descriptors` justifies). The refinement needs
  `Ring`, that the write index is the read index plus the fill count, and maps the buffer to the sequence
  that begins at the read index; it is complete, since `PipeChannel` states no liveness.

**Process.** Two invariants. `AnyInv` holds whatever liberties programs take, Shutdown, overlapping Clone
calls and full tables included: types, and which handles can lead to the slots of init; and, as long as no two
threads count at the same time (`CountsAlone`), that what a thread has read of the counter is what it still shows
(`SeenInv`, under `Counted`), so that no change of it is lost.

- `ProcessTypeCorrect` follows for all liberties; `StreamsAreNotLost` for all under `CountsAlone`, without which it is false.

`IInv` is for programs that wait for one handle at a time and take no liberty but that they may name unknown programs
and count at the same time (`WellBehaved`: the shell is one;
with two handles the known defect of the table above refutes `JoinReturnsRequested`). By its parts: a thread's record is its own
(`BornInv`); a queue is locked exactly when its program has ended, and counts those still to
read it (`QueuesInv`); a thread that waits for a handle is in its queue, or has been notified of it, or has
found it locked (`WaitInv`); a child belongs to one thread, and has a record as long as that one keeps the handle
(`ChildInv`, `ChildrenApart`); at most one thread is creating a process, and what it has filled so far of both
records is known at each of its steps (`CreatorInv`, `OneCreator`); every record of the tables is somebody's (`OwnedInv`).
None of the properties is inductive alone: that a record is kept depends on who else could remove it, that on
who has the handle, and that on the record being the right one.

- `ThreadsAreThemselves`, `JoinsReturnRequested`, `RecordsAreKept`: properties of the run `process_join`, with threads
  that count at the same time as well: none of them speaks of the counter.
- `SlotsAreGivenBack`, for such programs too: a finished process is somebody's to join, and procfs shows what is in the table.
  `NothingIsLeaked` has, under `CountsAlone`, the streams besides (`OpeningsBalance`): open once for each process that has
  them, and once for each of the openings in `lost`.
- `CrashesOnlyWhenFull`: the kernel goes through an empty slot or beside a table only when a thread record is to be made
  with all slots taken. `NeverCrashes`, that is `NoCrash`, follows when fewer calls of Clone are made than there are slots for
  threads, as in the run.
- `EndsWakeSleepers`: the step in which a program ends wakes all who sleep for it. This is the half of `SleepersGetOut`
  without liveness.

**Descriptors.** The invariant says who has which descriptor: handles until their close has counted (`Held`), threads
that have opened one and not handed it over (`Opened`), threads that work alone at one not open yet or no longer
(`Works`); a counter is the number of the first two (`UsersInv`), and what a thread has read of a counter is what it still
shows (`SeenInv`).

- `CountersAreRight`, `DescriptorsTypeCorrect`, `HandlesAreStable`: as long as no two threads are in the middle of counting
  (`CountsAlone`; the code has no lock there, and without the condition the statements are false). The other liberties are permitted.
- `PipesAreRight`, `DescriptorsAreNotLost`, `ThreadsInsideAreSafe`: with no liberties at all; they need also that a slot of the table of pipes is
  claimed and freed by one thread at a time (`ClaimInv`, `PipesInv`).

**FileNames.** `ActsLoseNothingOld`: the disk stays a tree (`TreeInv`), what has been there all the time has its directories
(`ThereInv`), and below the place on which a program is about to act nothing has been there all the time (`ActInv`).

- `PathsMeanWhatTheySay` (`NormalizeMeetsReference`): for paths of any length. The rewriting in place of `removeDots` is followed token
  by token: what is before the write cursor is the walk so far, written out as names with one separator between them, and the write cursor is
  never in front of the read cursor, so that nothing is overwritten before it is read. The loop and the walk of `Meaning` are folds over the
  tokens; each is followed as the recursive function of the number of tokens taken that it is, by a least counterexample.
  The paths are those that a text can give (`WellFormed`, assumed in `TypedAssumption`): two names are never side by
  side, and a label with a `/` behind it stands only in first place. In any other place `isAbsolute` would take it for the
  drive (`VFS_paths.cpp:147`) and skip what is in front of it.
- `NamesTypeCorrect`: on top of these, the working directory, and the one that a `cd` is about to set, is always the result of a
  normalisation (`PathsInv`); normalising it again leaves it as it is.

**Procfs.** `ProcfsTypeCorrect`, `EntriesAreRight`, `LastingAreListed`. The last is about counting by index through a directory that
changes: the invariant relates the position of ps to the number of entries before a process (`Rank`); a
process that lasts is on the output exactly when ps has counted past it.

**Memtree.** The inductive invariant is `IInv = DiskInv(fs) /\ FilesInv /\ DescriptorsLive`. The disk's part says that a bit is set
exactly for the blocks that an inode in use owns, and that a block has one owner and is owned by one link (`Accounted`); that a free
block is `Stale` (`FreeIsStale`); that a file's blocks hold bytes also behind
its end (`FilesHold`), for otherwise a file that grows, or a directory that takes over a block, would show them as something else; that a directory holds
entries up to its end (`DirsHold`); and that an entry names an inode in use which has no other entry and is not the
root, under a name that its directory has once (`NamesInv`). Each of the properties needs the others: blocks are
freed by what the entries say, entries are found by what the blocks hold, and an inode that two entries named would be freed
under the second.

Each operator has a lemma of what it does to `DiskInv` and to the content of the other inodes (`PutCellsEffect`, `GrowEffect`,
`ReleaseBlocksEffect`, `CreateFileEffect`, `RemoveEntryEffect`, `DeleteFileEffect` and so on).
The walk along a path is a recursive function of the number of its parts; `WalkEffect` follows it by a least
counterexample, from what one step does (`WalkSteps`).

- `MemtreeTypeCorrect`, `BlocksAreAccounted`, `NamesAreRight`, `DescriptorsStayLive`, and the action property `FilesAreSeparate`
  (`OneFileChanges`): for every size of the disk, with the disk full, inodes used up and crashes included. They are about programs
  that delete neither what is open nor the root (`Careful`), as the run: the code forbids neither, and
  `DescriptorsLive` is false without it (table in section 3).
- `DiskIsTree`: under the same condition the disk by its names implements `DirectoryTree` (`ImplementsTree`), for paths of up to any
  `MaxDepth` names; the refinement is complete, since `DirectoryTree` states no liveness. The refinement mapping `TreeOn` goes over three
  things. The disk gives a set of names, each a directory, a name and an inode (`NamesOnDisk`); because of `NamesInv` it is `WellNamed`:
  no directory has a name twice, no inode two names, and the root none. The names give the places that can be reached from the root (`PlacesClosed`,
  `PlacesLeast`: the least set with the root that goes down along the names); in well-named ones a place has one inode and an inode one place
  (`OneNode`, `OnePath`). The places give the tree (`TreeIs`). What becomes of the tree is then shown for sets of names
  alone: a name more for a new inode (`TreeGrows`), a directory without its names (`TreeCleared`), a set of inodes taken with
  what they name and the name of the one on top (`TreeDeleted`). The lemmas on the operators say which of these a call does to
  the names (`NewName`, `OtherNames`, `DeletedNames`). A path along which `resolveFile` creates is followed step by step (`WalkCame`): from the first directory
  that it makes they are empty and each is a place more (`GrownTwice`), until there is no inode left, or one gets no block for its
  name: what is created in that is reached from nowhere, and the tree stays as it is.

**Shell.** What the parser gives for any line is linked: a command reads a pipe exactly if the one before it writes into a pipe. That is the
lemma `LinesAreLinked`, by a least counterexample over the tokens (`TokenKeepsState`). The inductive invariant `IInv` says of a line that is
being run how far each loop has come (`AtInv`); that every pipe was made for one command and is read by the
next (`StreamsInv`); that each process is one command's, with the streams of that command, until it is awaited (`HandlesInv`);
who has which end of a pipe: the shell until it is through with the command, and the processes on its two sides
(`PipesInv`); and that a program that has seen the end of its pipe finds it empty, and the program in front of it gone (`EndsInv`).
None of the properties is inductive alone: that nobody else has an end depends on pipes that are new when they are made, which depends on
the handles that the shell still holds, and so on the place where it is in the line.

- `ShellTypeCorrect`, `EndsOfInputAreTrue`: with all `Liberties`, whatever is left over of lines that were given up.
- `LinesLeaveNothing` (`NothingLeftBehind`): with the hypothesis that what is piped is piped into a command (`PipesLeadSomewhere`), as in the run. In
  `type file |` the shell never closes the end that nobody was to read.

**Only model-checked.**

- All liveness (`LinesEnd`, `PsEnds` and the others), with the other halves of the refinement of `CountingSemaphore` and of `SleepersGetOut`: the prover does not reason about
  weak fairness and `ENABLED`.
- `NoOrphans` is false: it is what `memtree_remove` refutes.

## 7. Not modelled

- Register dispatch, library loading, the boot loader, native handle conversion and the API headers have
  no logic to check; `rtl.cpp` moves arguments into registers and results out of them.
- `stopHandle`/`stopThread` are called by nobody. The shutdown of the VFS is called once, by `Shutdown_Kernel`
  (`kernel.cpp:58`), after init has been removed; it frees the two tables and leaves the rest as a TODO
  (`VFS.cpp:134`). Nothing of the models runs after it.
- Data races on the `std::map`s `thread_to_tid` and of procfs, and inside the RAM disk driver, are
  undefined behaviour below the level of these models. For procfs the model has the end of the kernel as
  an outcome; for the other two the hazards name them.
- On one line and without a state space: `labelSeparator` is searched for with `strstr` but has no
  terminating zero (`VFS_paths.cpp:9`); `getWorkDir` resets the carry flag that it has just set
  (`io.cpp:210`); a name of 12 or more characters ends the process in `strcpy_s`; the drivers of stdio and
  pipes leave members of their records unset, which `delFile` calls. The last two are outside of the paths
  that `FileNames` takes.
- `shell` and `rd` as commands of a line with pipes have no kind in `ShellParser`; rd is a program of `FileNames`. What the programs of `user.dll` compute, the splitting of a line into tokens and the error stream are left
  out, as `PROJECT.json` says of each; of the console only that its input ends. Files that programs write
  while others read them are files of `Memtree`, one call after another.

## 8. What is left

What is modelled is complete as far as the models' level of detail reaches, and every safety property of the passing runs is a theorem,
`ImplementsChannel` and `ImplementsTree` with them. What remains with TLC alone is in "Only model-checked" above.
