# Verification of the lsh shell and the Pintos kernel

The repository holds two programs. `OS-lab1-master` is `lsh`, a Unix shell.
`OS-lab2-master/pintos` is a Pintos kernel with the students' alarm clock. This
directory models them in TLA+, checks the models with TLC on small instances, and
proves the central invariants with TLAPS for all instances.

Paths below are relative to `src/OS-lab1-master/code` for the shell and to
`src/OS-lab2-master/pintos/src` for the kernel.

## 1. Inventory

### The shell

| Part | State | Operations | Hard behaviours |
|---|---|---|---|
| job control (`lsh.c`) | `foreground_pgid`, the terminal's group, child processes, pipe descriptors | read a line, fork, set up a pipeline, execute, wait, reap, Ctrl-C, exit | parent and child race to set group and terminal; SIGCHLD does not queue; a failed `execvp` falls through into the rest of the code |
| parser (`parse.c`) | three static buffers | `parse`, `acmd`, `nexttoken` | stale token buffer at the end of a line; fixed sizes |

### The kernel

| Part | State | Operations | Hard behaviours |
|---|---|---|---|
| threads (`threads/thread.c`) | `ready_list`, `all_list`, thread pages, `idle_thread` | create, block, unblock, yield, exit, schedule, foreach | preemption anywhere; dying threads freed by their successor; boot order; unprotected insertion into `all_list` |
| alarm clock (`devices/timer.c`) | `ticks`, `wakeup_time` | `timer_sleep`, timer interrupt | waking on the right tick, from a walk over all threads |
| synchronization (`threads/synch.c`) | semaphores, locks, condition variables | down, up, acquire, release, wait, signal, broadcast | a unit taken between up and wakeup; signal between release and sleep |
| pages (`threads/palloc.c`, `lib/kernel/bitmap.c`) | used map | get, free | frees without the lock during scans |
| blocks (`threads/malloc.c`) | arenas, free lists | malloc, calloc, realloc, free | arenas returned exactly when empty; size limits |
| lists (`lib/kernel/list.c`), hash tables (`lib/kernel/hash.c`) | links, buckets | all operations | in-place pointer surgery; rehashing that may fail |
| serial port and input (`devices/serial.c`, `intq.c`, `input.c`, `kbd.c`) | two interrupt queues, IER | putc, getc, flush, interrupt | lost wakeups, full queues in handlers, polled next to queued bytes |
| disks (`devices/ide.c`), partitions (`devices/partition.c`, `block.c`) | channel registers, completion semaphore | identify, read, write, interrupt, scan | stale completions, spurious interrupts, 32-bit sums from disk |
| file system (`filesys/*.c`, `lib/ustar.c`) | free map, directory, inodes, open files | create, open, read, write, remove, close, append, extract | crashes between sector writes, removed open files, failed creates |
| processes (`userprog/*.c`) | page directories, page pools, CR3 | execute, load, run, exit | order of destruction, failed loads, copied command lines |
| console and the end of the kernel (`lib/kernel/console.c`, `threads/interrupt.c`, `userprog/exception.c`, `lib/kernel/debug.c`, `devices/shutdown.c`) | recursive lock, interrupt controllers, panic level | print, interrupt, fault, panic, power off | messages inside messages, output from handlers, panics that need a lock |
| drivers (`devices/vga.c`, `kbd.c`, `rtc.c`, `pit.c`, `timer.c`) | screen and cursor, shift state, clock registers | write a character, handle a key, read the time, calibrate, delay | scrolling and wrapping, key sequences, registers that change while they are read |
| startup (`threads/loader.S`, `start.S`, `init.c`, `interrupt.c`, `intr-stubs.S`, `userprog/gdt.c`) | drives and partitions, page tables, descriptors, options | load, map, register, parse, run actions | 16-bit limits, fields split over a descriptor, frames that must match a struct |
| C library (`lib/*.c`, `lib/kernel/bitmap.c`) | bit arrays; otherwise none | sort, search, divide, copy, tokenize, format | boundaries |

Threads call synchronization, which blocks and unblocks threads; palloc, malloc, the
serial port and the disks use semaphores and locks; the file system uses the disks;
processes use threads, palloc and the file system. `PROJECT.json` lists every part with
its status, and the hazards at the lines where they bite.

Not modelled, with reasons:

- `devices/batch-scheduler.c`, whose `get_slot` and `release_slot` are still empty;
- `lib/user/syscall.c` (stubs; the kernel answers every system call by ending the process);
- `devices/speaker.c`, the TSS, the A20 gate and the switch to protected mode (single writes
  to ports and registers), `switch.S` beyond the exchange of the running thread;
- `cd` in the shell, and command lines given to the second shell that a leftmost command
  leaves behind when it cannot be executed;
- the sizes of the parser's buffers (`parse.c:164`);
- statistics, backtraces, and the wording of messages.

## 2. Modules

| Module | Models | Notes |
|---|---|---|
| `Threads` | `thread.c`, semaphores of `synch.c`, `timer.c` | from boot; the most general client may call any operation; `all_list` is linked store by store |
| `Synch`, `Monitor` | locks and condition variables | `Synch` implements the abstract `Monitor` |
| `AllList` | `all_list` under preemption | uses `ListOps` store by store |
| `ListOps`, `ListSpec`, `KernelList` | `list.c` | pointer operations; what each call does to sequences; refinement between them |
| `Palloc` | `palloc.c`, `bitmap.c` | every bit test and update is a step |
| `Malloc` | `malloc.c` | byte addresses, widths scaled |
| `Intq`, `Serial` | `intq.c`, `serial.c`, `input.c`, parts of `kbd.c`, `shutdown.c` | UART external |
| `Ide` | `ide.c` | disk external; the waits for it may give up |
| `FileSys`, `InodeIO` | `filesys/` | sectors with crashes; bytes within sectors |
| `Process` | `process.c`, `pagedir.c`, `exception.c`, `syscall.c` | two pools, CR3 |
| `Console` | `console.c`, `intr_handler`, `exception.c`, `debug.c`, `shutdown.c` | interrupt controllers external; a stack of frames per thread |
| `Lsh` | `lsh.c` | Unix kernel external |
| `Hash`, `Parse` | `hash.c`, `parse.c` | operators, with their references; so are all below |
| `Stdlib`, `Strings`, `Stdio`, `BitArray` | `stdlib.c`, `arithmetic.c`, `string.c`, `random.c`, `stdio.c`, `lib/user/console.c`, `bitmap.c` | C library |
| `Archive`, `Partition` | `ustar.c`, `fsutil.c`; `partition.c`, `block.c` | storage, with `InodeIO` |
| `Keyboard`, `Screen`, `Clocks` | `kbd.c`; `vga.c`; `rtc.c`, `pit.c`, `timer.c` | drivers |
| `Loader`, `Startup`, `Descriptors` | `loader.S`, `start.S`, `paging_init`; `main` of `init.c`, registry of `block.c`; `gdt.c`, gates and stubs | from the BIOS to the first action |
| `Library` | a caller of the modules of operators, and of `KernelList` and `Hash` | for TLC |
| `Queues` | queues as sequences | operators shared by `Threads` and `Synch` |
| `ThreadsLemmas`, `ThreadsProofs` | proofs about `Threads` | see section 5 |
| `SynchProofs`, `PallocProofs`, `IdeProofs`, `SerialProofs` | proofs about the module of that name | see section 5 |
| `FileSysLemmas`, `FileSysProofs` | proofs about `FileSys` | see section 5 |
| `MC*` | instances for TLC of modules whose constants or symmetry need definitions; the others have a `.cfg` of their own name | |

### How state and actions correspond to the code

The kernel runs on one CPU. What the code does with interrupts off is one action, and
between any two actions the timer may preempt. Variables have the names of the C
variables and struct members; a `pc` per thread holds the point inside a function where
it can be interrupted. Actions have the names of the functions, with a suffix where a
function takes several steps. Where a module leaves another part out it says so in its
header: `Synch` drops the scheduler (which `Threads` shows to run every ready thread),
`Malloc` takes what happens under a descriptor's lock as one step, `FileSys` runs one
operation at a time, because the documentation requires it of its callers
(`pintos/doc/userprog.texi`).

In `Lsh` each process carries the code of `main` from `fork` to `execvp` as its state
`st`, with the descriptors by number, because a failing `execvp` goes on with descriptors
that may be closed or reused. Stages count from the right, as the parsed list does.

The algorithms are operators that follow the code's loops as recursive functions or folds,
each beside a reference that says what should come out without saying how: the set of bits
that are one for a bitmap, the set of characters on an endless page for the scrolling
screen, the processor's way of reading a descriptor for the code that fills it in. Where
the code departs from what its comments or documents promise, the operator still does what
the code does, and the reference names the inputs it leaves out (section 6).

`thread_create` links the new thread with interrupts on. `Threads` makes each store of that
insertion a step (`push_prev`, `push_link`, `push_last`). As long as one insertion at a time
is under way and the last thread of the list does not exit meanwhile, the list read along
`next` is right whatever interrupts it. Otherwise the links are no longer those of a list:
`torn` records that, and from then on the timer's walk may go anywhere, end anywhere or not
end. `AllList` follows the actual links and shows what becomes of them.

In `Ide` the polling loops `wait_until_idle` and `wait_while_busy` may give up while the disk
is busy, as the code's do, and the driver goes on (or panics) as the code does. `timed_out`
records that a wait gave up. `load` in `Process` holds a page over the read that fills it, and
frees it in a step of its own when the read was short or the page cannot be mapped.

In `Console` a thread has a stack of frames: an interrupt, a page fault or a panic puts
frames on the stack of the thread it strikes, and the console lock belongs to the thread,
not to the frame. Whether the machine powers off, reboots or stays up is chosen when it
first matters, because the option is set once, before.

Definitions called `Mut_...` are deliberate errors, used only to show that the properties
notice them.

## 3. Runs

| Run | Instance | Shows |
|---|---|---|
| `threads` | 4 threads with idle and main, 3 ticks, 5 thread numbers | `IndInv`: run queue, wait lists, statuses, sleepers agree. `NoLostWakeup`: no thread is left queued behind a positive semaphore. `NoOverdueSleeper`, `NeverWokenEarly`: the alarm rings on its tick, not late as long as `all_list` is not torn, and never early. `ReadyRuns`, `SleeperRuns`: nobody starves until then |
| `synch` | 4 threads, one lock, one condition | `IndInv`, `LockProgress`, `SignalledWakes`, and that `Synch` implements `Monitor` |
| `all_list` | 4 threads | **violated**: see section 6 |
| `palloc` | 3 pages, 3 clients | `IndInv`: no page is shared and the used map is exact at every bit. `ContentsKept`: data and promised zeros survive. `FailureIsReal`: failure is reported only if no group was free |
| `malloc` | 3 pages of 16 bytes | `Inv`: blocks disjoint, pages all returned when their blocks are. `SizeHonoured`: a block is as large as asked, for every size that can be represented |
| `serial` | 1 writer, 2 readers, rings of 3 | `BytesInOrder`: every byte is sent and received once and in order. `NoLostInterrupt`. `WaitingReaderGetsKey`: the key a reader was woken for is delivered |
| `ide` | 2 threads, 3 operations, 1 spurious interrupt | `Inv`: one user, in step with the disk until a wait gives up, which without a spurious interrupt ends in a panic. `TransfersCorrect`: until then a read returns what the disk holds, and a write is acknowledged when on the medium unless the interrupt was spurious. `OperationsEnd`: every operation ends, a free channel that is wanted is taken |
| `filesys` | 4 sectors, 2 names, 2 handles, 1 crash | `SectorsAccounted`: no sector has two owners, and every one lost is due to a crash or a failed create. `ContentsKept`, `Inv` |
| `process` | 2 processes, 9 + 4 pages | `AddressSpaceRight`: the active page directory is never a freed one, and each program runs in its own. `Inv`: no page lost. `LoadsWhatWasAsked` |
| `lsh` | 4 processes, 2 command lines of 1 to 3 stages, or one of 4, with and without files | `Inv`: terminal returned, background jobs spared, Ctrl-C reaches every program of the foreground job. `PipesWired`: in a pipeline whose commands can all be executed each program runs once, with the pipes and files of its place. `ShellReaps` |
| `console` | 2 threads and idle, messages of 2 characters, up to 3 panics | `ConsoleInv`: depth, holder, interrupt state and controllers agree, and no line is shut out when a thread runs. `MessagesWhole`: until a panic only handlers put anything inside another thread's message. `ConsoleComesFree`. `PanicStops`: after a panic the machine does what it was configured to; with `-q` this is said of panics outside handlers in threads that do not have `malloc`'s lock |
| `library` | small inputs | `ContainersCorrect`, `ImplementsListSpec`: lists and hash tables, under any sequence of operations. Every call of a list function does what is said of that function. `StorageExact`, `AlgorithmsExact`, `DevicesExact`, `StartupExact`: the operators agree with their references |

### Bounds and why they are enough

Four threads are the initial and the idle thread and two others, which is what a race
between two clients and a third party that wakes them needs; the proofs cover any number.
Two lists and four elements are enough for splices between lists and for sorts with three
runs to merge. Three pages and groups of up to two make every overlap between a scan and
two frees happen; the proofs cover any pool, request and number of clients. Malloc's 16-byte pages give two block sizes, a block of more than half
a page and one of two pages. Rings of 3 wrap and fill within four bytes. One spurious
interrupt and one crash may happen anywhere; more repeat the same recovery. Four sectors
hold two files of one data sector or one of two, so that creation fails for want of space
at each step; the view of `MCFileSys` leaves out what no operation reads (free and lost
sectors, the order of the directory's entries, how far past its end a file is positioned).
The proofs about `Ide`, `FileSys` and `Serial` cover any number of sectors, names, open
files, threads and crashes, and rings of any size. Two pools of 9 and 4 pages make each allocation of a load fail in some behaviour.
Two command lines are a job left behind and a job after it; a pipeline of four is checked
alone. Division is checked for all
pairs of 8-bit numbers with 4-bit words. Two threads that print and the idle thread are
enough for a message to be cut by an interrupt, a fault and a panic at once and for each
lock to have a waiter. There is one bug, so that one fault or failed assertion starts all
that follows; `MaxLevel` nested panics fill the stack. In `library` every size
that the code compares with is scaled down so that inputs lie on both sides of it: a
screen of 2 rows of 3, bitmaps of up to 5 bits in elements of 2, a buffer of 8 digits,
drives of up to 20 sectors with partitions beyond the load limit and across the range of
the sector counter. Bounds are constants (`MaxTicks`, `MaxTid`,
`MaxOps`, `MaxCrash`, `MaxLines`, `MaxNesting`, ...), guarded in the actions.

`CHECK_DEADLOCK FALSE` is given where the bounds, an exit, a panic or a power off stop
the system.

### Fairness

`Threads`: the timer keeps interrupting, whatever the threads do (strong, because interrupts
are off now and then); a handler that was entered ends, unless it walks over torn links; a thread that has the CPU inside
`sema_down` goes on; boot goes on whenever it has the CPU again and again. Client code owes
nobody a call. `Synch`: operations of a thread that can take a step end, for which
`Threads!ReadyRuns` is the reason, and whoever holds the lock releases it; nobody has to
call anything. `Serial`: the UART finishes what it sends, its interrupt stays latched until
it is handled, and threads that can run do. `Ide`: the disk answers, possibly with a failure, its
interrupt is served, and a thread that can take a step does (weak fairness only: who of two
waiting threads gets the channel's lock is left open). `Console`:
a handler that was entered ends, a thread inside the kernel goes on however often it is
interrupted (`Threads!ReadyRuns`), and the timer keeps ticking; the console lock itself is
not fair and nothing is assumed of it. `Lsh`: the
operating system runs the shell, its handlers and its children up to `execvp`; programs
need not end.

## 4. Refinement

`ListSpec` says of each list function what a call of it does to the sequences and what it
returns; the variable `op`, which both modules share, names the call, so that a sort that does
nothing, or inserts in the wrong place, is not taken for some other operation. `KernelList`
implements it with the sequence read off the `next` pointers. `Monitor` has
an owner and a sequence of sleepers; `Synch` implements it with the owner read off the
program points and the condition's wait list.

## 5. Proofs

Every proof has the same shape: an invariant `IndInv` that the run of the module checks
(as such, or as the conjunction of the run's invariants), a lemma that the initial states
satisfy it, one lemma per action, and theorems that draw the properties from it. They hold
for every value of the constants that satisfies the `ASSUME` of the module.

`Threads`, from `ThreadAssumption` and `SemaAssumption` (the initial and the idle thread
are two threads, the two kernel semaphores are two semaphores), `PagesAssumption` (memory
for finitely many threads, used where threads are counted) and `BoundAssumption`.
`OneRunning` and `ReadyListExact` are not inductive alone: to put a thread on the run
queue without a duplicate one must know that a blocked thread is nowhere else, hence
`WaitInv` (wait lists hold exactly those blocked in `sema_down`), `SleepInv` (sleepers
are blocked in `timer_sleep`), `ChildInv` (a thread in the making has one maker), and
`BootInv` (which code runs in which thread, so that the idle thread is never queued).
`AllListExact` and `ClockInv`, which says how far the timer handler's walk has come, hold
until the list is torn; that an insertion interrupted between its stores does not hide a
thread from the walk is part of them. From them follow `AlarmNeverLate` and, step by step and
over torn links too, `AlarmNeverEarly`. `ThreadsLemmas` has what the routines for lists, the
scheduler and the semaphores do to the state, and the steps of boot and creation;
`ThreadsProofs` the interrupts, the operations of a running thread and the theorems. From
the invariant follow `OneRunningAlways`, `ReadyListAlwaysExact`, `TidLockAlwaysExclusive`
and `BlockedAlwaysHasOneWaker`. `WakeupsNeverLost` is an invariant on top of it: a
`sema_up` that finds waiters adds one unit and one released thread; a `sema_down` that
succeeds removes one unit and at most one released thread; and a thread only queues when
the value is zero. The counts are about finite sets, by the theorems on cardinality.

`SynchProofs!Invariance` proves `Synch`'s `IndInv`: mutual exclusion and the exact
`holder` need `QueueInv`, which ties the wait lists to program points. `Refinement`
proves that `Synch` implements `Monitor`.

`PallocProofs!Invariance` proves `Palloc`'s `IndInv` for a pool of any size, requests of
any size and any set of clients, from `PallocAssumption` (sizes are positive, no client is
called `None`). That no page is shared and that the used map is exact
are not inductive alone: a marked bit must have been clear, so `ScanInv` says that what
the scan found clear stays clear until it is marked. That holds because only the holder of
the lock sets bits (`LockInv`), while a free, which does not take it, only clears them. The
last conjunct of `ScanInv`, that a group free when the scan began still lies ahead, gives
`FailureAlwaysReal`. `ZeroInv` carries the zeros through the fill for `ContentsAlwaysKept`.
`StepOfOne` reduces each action to the client that takes it: the others keep their part of
the invariant as long as no bit they found clear is set and none of their pages written.

`Ide`, from `IdeAssumption` (the boot thread is a thread, there are sectors and values):
`ChannelInStep` and `TransfersAlwaysCorrect`. That a read returns the right sector depends
on who may touch the registers, so `OwnerInv` gives the channel one user, the holder of
the lock or the boot thread without it. `UserInv` says what that user knows of the disk at
each of its steps, `StatusInv` what holds whoever it is: a write that ended early leaves
the disk busy for the next user. `CompletionInv` counts completions on the line and in the
semaphore, and promises nothing after a spurious interrupt; the rest survives one, which
is why a read is right in any case and a write only without. All three are promised until a
wait gives up. `TimeoutInv` says when that can be: after a spurious interrupt, or the driver
has panicked.

`FileSys`, from `FileSysAssumption` (sizes are numbers, handles finitely many, no file has
the empty name): `FilesConsistent`, `SectorsNeverShared` and `ContentsNeverLost`. `OpInv`
and `Held` say what the operation in progress has done and which sectors are its own;
`SectorInv` divides the marked sectors between it, the files and those lost, and says
that the map on disk marks whatever the one in memory marks, so that a crash at any point
frees nothing that is in a file. `DirInv` ties entries, open inodes and handles together; removed files, which
no entry names any more, live in it until their last close. `CountsExact` needs the
theorems on cardinalities. `FileSysLemmas` has what allocation and release do, and the
steps of creation.

`Serial`, from `IntqAssumption` (a queue has at least two positions) and
`SerialAssumption` (nobody both prints and reads): `InterruptsNeverLost` and
`BytesNeverReordered`, for queues of any size. The first part is about the ring: the
lemmas `RingPut` and `RingGet` do the arithmetic modulo its size, `PutFacts` and
`GetFacts` turn it into `Append` and `Tail` of the contents. `HoldersExact` is what makes
the rest inductive: only the holder of the console lock can be asleep for room, only the
holder of the input buffer's lock for a byte, so the one waiter an interrupt queue can
register is the only thread asleep on it. The two theorems need each other: that what
leaves the queue is a byte at all follows from the order.

Only model-checked: liveness (it needs fairness), which is every property of that kind in
section 3; `Malloc`, `Process`, `Console` and `Lsh`, whose invariants are not inductive as
they stand and have no proofs yet; the refinement of `ListSpec` by `KernelList` and the
algorithms that `Library` calls, most of which are recursive, so that a proof would be by
induction on data.

## 6. Where code and documentation disagree

- `all_list` (run of that name): `thread.c:333` says `thread_foreach` calls its function
  "on all threads". `init_thread` inserts into the list with interrupts on
  (`thread.c:481`), so a preempted insertion can leave the list torn, threads are missed, and
  the alarm clock, which relies on the walk, misses sleepers. `Threads`' properties about
  the walk hold until then.

Met while modelling. In these cases the models do what the code does, and the properties,
which state what is promised, leave them out.

- `docs/README.md` of the shell: "Ctrl-C should terminate the current foreground
  process". Between `fork` and `execvp` the child still has the shell's handler with
  `foreground_pgid` 0 and ignores it; `Lsh!Inv` promises it to programs only.
- `docs/README.md:18` "one or more pipes": in a pipeline of four a third command that cannot
  be executed makes its process execute the leftmost one again; `PipesWired` speaks of pipelines
  whose commands can all be executed. A leftmost command that cannot be executed leaves a
  second shell that reads the terminal while the first one waits.
- "your shell should not leave any zombie processes behind": stages are children of the
  leftmost program, and stay zombies until it ends.
- `parse.c:82`: a line that ends in `<` or `>` takes its file name from what the buffer holds;
  `ParsesRight` says nothing of such lines.
- `calloc` and `malloc` near the limit of `size_t` return blocks smaller than asked
  (`malloc.c:165`, `malloc.c:109`).
- Two threads in `input_getc` can break the assertion in `intq.c:91`. The model stops there;
  `WaitingReaderGetsKey` says that a woken reader's key is delivered first.
- After a spurious interrupt `ide_write` can return before the disk has acknowledged, and the
  next command can find the disk busy until it gives up waiting. `ide.c:435` "Wait up to 10
  seconds": the loop waits 1000 times 10 microseconds.
- `filesys_create` loses the data sectors when `dir_add` fails (`filesys.c:55`);
  `SectorsAccounted` counts them as lost.
- `partition.c:36` "Reads the partition table in the given SECTOR": `partition.c:91` reads
  sector 0, so that a disk with an extended partition is scanned wrongly, and perhaps until
  the stack is full. `PartitionsInside` says of such disks only that what is registered lies
  on the device.
- `umod64` and `smod64` ("returns the remainder", `arithmetic.c:129`) return 32 bits of it;
  `memmove` ("Returns DST", `string.c:22`) returns the end of the copy when it copies upwards.
- `rtc.c:40` "Returns number of seconds since Unix epoch": `rtc_get_time` adds the days of the
  current month too and counts leap years wrongly. `DateRight` is about time between dates of
  one month, and between equal dates four years apart.
- `timer.c`: the refinement in `timer_calibrate` tests `high_bit | test_bit`, not the sum of
  the bits found so far. `pit.c`: for frequencies between two thirds of `PIT_HZ` and `PIT_HZ`
  the counter is 1, which `pit.c:67` calls illegal in mode 2; `PitRight` is about the others.
- `init.c:268` "This has no effect if an "-rs" option was specified": `random_init` reseeds
  whenever it is called; `StartedRight` speaks of the seed without `-rs`. `-rs` and `-ul`
  without a value read a null pointer in `atoi`.
- `stdio.c`: a negative width given by `*` together with `0` pads on both sides; a format
  that ends within a conversion is read past its end.
- `bitmap.c`: `bitmap_scan_and_flip` with a count of zero returns its start.
- `shutdown.c:94`: a panic with `-q` in a handler, or in the thread that has `malloc`'s
  lock, panics again in `filesys_done`, until the nested panics have filled the stack.
- `loader.S:98` decides by the carry flag, which `inc` does not set, whether to go on to the
  next drive: a drive whose last word compares below the signature ends the search.
  `loader.S:147` increments only the low 16 bits of the sector number, and `loop` takes a
  partition of size 0 for one of 65536 sectors.
- `start.S` fills 17 entries of each half of its page directory for 16 page tables.
- `intr-stubs.S`: the stub of vector 12 pushes a zero although the processor pushes an error
  code, so that `kill` finds the frame displaced.
- `init.c:356` "Run PROG and wait for it to complete": `process_wait` returns at once.

## 7. Plan

Done: the modules above. Next, in this order:

1. `Malloc` over `Palloc`, and its invariant proved for all page and block sizes;
   `Console!ConsoleInv` proved for any number of threads.
2. The refinement of `ListSpec` by `KernelList` proved for insertion and removal; the order
   argument behind `Process!AddressSpaceRight` proved.
3. The second shell's command lines in `Lsh`.
4. Dirty and accessed bits of page directories with the TLB.
5. The batch scheduler once it has a body.

## 8. Running

    tlc -config Threads.cfg Threads          # likewise every module that has a .cfg
    tlapm ThreadsProofs.tla                  # likewise the other proof modules
