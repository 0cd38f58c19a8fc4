# TLA+ models of unnamed-operating-system

A verification development for the kernel in `src/`: a 64-bit, single-processor
operating system with preemptive tasks, intrusive lists, pipes, a floppy driver and
a small file system.  The modules model the kernel's control - every state change,
guard, early return and `ERROR()` - and abstract its data.  File and line numbers
below refer to `src/`.

    tlc -workers 2 -config sched_open.cfg MCScheduler     # a run
    tlapm SchedulerProofs.tla                             # the proofs of a module

`PROJECT.json` lists the runs, the lines every definition models, the hazards of the
code and the findings.

## 1. The system

| Component | State | Operations | Talks to |
|---|---|---|---|
| Scheduler (`proc.c`, `asmbridge.S`) | TCBs; `current_task_TCB`, `FIRST_THREAD`/`LAST_THREAD`, `DEAD_TASKS`, `sleeping_task_list`, `irqwaiting`, `irqscalled`; the time slice; two lock counters and a flag | `schedule`, `block_task`, `unblock_task`, `switch_to_task`, `nano_sleep`, `wait_for_irq`, `ckprocA`, `PROC_EXIT`, `unblock_child`, `uwait`, `PIT_IRQ_handler`, `unblockirq` | everybody: calls, and interrupts at any instruction with IF set |
| Semaphores and pokes (`proc.c`) | a count and a queue through `TCB.next`; a slot for one TCB | `acquire_semaphore`, `release_semaphore`, `wfPokeT`, `PokeT` | scheduler below; pipes, disk and drivers above |
| Interrupt entry (`idt.c`, `idt_bridge.S`) | the gates, PIC and PIT | gates for timer, devices, int 0x80 | calls the handlers of the scheduler |
| System calls (`syscall.c`) | - | dispatch of int 0x80 | scheduler, files, memory |
| Program start (`usermode.c`) | the arguments handed to the new task | `ExecFile`, `ExecN` | `ckprocA`, loader, PAUSED state |
| Streams and descriptors (`filesystem.c`) | `stdIO` pairs with chains of 255-byte chunks, a semaphore and a poke slot; a table `kernelFd` per task and one hint, `kernelFdLastClosed`, for all of them | `READ`, `WRITE`, `OPEN`, `CLOSE`, `SEEK`, bindings | semaphores, pokes, heap, file system |
| Kernel heap (`malloc.c`) | a chain of tables of (bitmap, page) | `malloc`, `free` | page allocator below |
| Pages (`page.c`, `pf.c`, `switch_to_task`) | the bitmap of physical pages, the page tables, KPALLOC's pool, `brk`, a page per task for its user half | `KPALLOC`, runs, `P_FREES`, `sbrk`, page faults, the exchange of the user half | heap, loader, scheduler |
| File system (`qfs.c`, `perm.c`) | the inode cache `kINb`, the disk semaphore `disk0`, the image | path walk, `readPLUS`, `writePLUS`; `getIS` and `mkFile`, which nothing calls | floppy driver through `chs_qfs_if.c` |
| Floppy driver (`chs.c`) | `fDMA_uninit`, `floppy_in_use`, the DMA buffer; the controller's phase | initialisation, `FLOPPY_SEND_COMMAND` with its polls, reads and writes of a sector | `wait_for_irq`, PIC |
| Driver framework (`driver.c`) | the device list, two poke slots per device | `dOpen`; `dProbe`, which nothing calls | - |
| Keyboard (`ps2.c`) | a key map, shift state | interrupt loop, writes into the terminal's stream | `wait_for_irq`, PIC, the floppy for the key map |
| Loaders (`flat.c`, `elf.c`) | - | map a program | pages; `elf.c` is not in the build |
| Image builder (`insertFileSystem/main.c`) | a disk image | `readDir`, `cDF`; runs on the build machine | the layout `qfs.c` reads |
| Boot, terminal, user programs | - | hardware set-up, screen output, clients | - |

What makes the system hard:

* **Interrupts.**  The handlers enter wherever IF is set, and several waits are in two
  parts with interrupts on between them (`proc.c:395`, `423`, `530`): the task is
  listed first and blocked afterwards.
* **One link field.**  `TCB.next` serves the ready list, the sleeping list,
  `irqwaiting`, `DEAD_TASKS` and every semaphore queue.  `unblock_task` clears it only
  if the ready list was empty.
* **Global lock counters.**  `IRQ_disable_counter` and `postpone_task_switches_counter`
  count for the machine, not for a task: a task is suspended with unlocks still to do,
  and a new task begins inside another task's lock.
* **Postponed switches.**  Under `lock_stuff` a call of `schedule()` only sets a flag.
* **The end of a task.**  A dead task is freed by a later call of `schedule()`, while
  its parent, the ready list or the idle loop may still name it.
* **Widths.**  Masks computed from the `int` constant 1 meet bitmaps of 64 bits, in
  `malloc.c`, `page.c` and `idt.c`.
* **Shared services without a lock.**  The hint of `OPEN`, the inode cache, the heap and
  the page tables are used by tasks that are preempted anywhere.
* **EOIs without an address.**  Every driver's task sends a non-specific EOI long after
  the handler, and it ends the service of whichever line has priority then.
* **Two copies of a truth.**  A user half is in the PML4, in the page of a task and in the
  processor's cache; a sector is on the disk, in the DMA buffer and in a call's buffer.

What makes each component correct, in the order of the plan:

* scheduler: the locks balance, `schedule()` is never interrupted, one task runs, a
  woken or sleeping task is on the list where it will be found, no interrupt is lost,
  freed TCBs are not used, death is final and is reported, sleepers run again;
* semaphores and pokes: mutual exclusion, no place lost or doubled, whoever waits will
  be found;
* heap: blocks are disjoint, a block is taken back by `free`, bitmaps are exact;
* streams: a byte queue; calls return; readers are woken; an undisturbed `OPEN` gets a
  free entry; a terminal stream has one owner and is not lost;
* pages: a page has one owner; the pool does not run dry; a task finds its own pages;
* file system: one task at the disk; nothing in use is freed; a stream leads to the file
  its path names on the build machine; walks end;
* floppy: driver and controller stay in step; a transfer moves the sector asked for and no
  other; every line in service gets its EOI; calls return.

## 2. The modules

| Module | Models | Runs | Proofs |
|---|---|---|---|
| `Scheduler` | scheduler, interrupt entry, the system calls and the part of program start that reach it | `sched_open`, `sched_window` | `SchedulerProofs` |
| `Ipc` | semaphore and poke slot, composed with `Scheduler` (it EXTENDS it: the queue runs through the same `next`) | `sched_pair`, `ipc_*` | `IpcProofs` |
| `Malloc` | the kernel heap | `malloc_heap` | `MallocProofs` |
| `ByteQueue` | abstract: what a pipe promises | refined in `pipe` | `PipeProofs` |
| `Pipe` | `STDOUTStream` and `STDINStream` on one `stdIO` | `pipe` | `PipeProofs` |
| `Descriptors` | `kernelFd`, `OPEN` to `CLOSE`, `BINDR`, streams that come back from a dead child | `fds`, `fds_bound` | `DescriptorsProofs` |
| `Image` | the image builder, as operators | assumptions of `fs_open` | - |
| `Qfs` | opening, reading and closing files of such an image: path walk, inode cache, disk semaphore, heap blocks of the inodes | `fs_open` | `QfsProofs` |
| `Floppy` | `readPLUS` and `writePLUS` down to the controller; PIC and keyboard as far as they meet the floppy | `floppy` | `FloppyProofs` |
| `Pages` | physical pages, KPALLOC's pool, page faults, the user halves | `pages` | `PagesProofs` |
| `MC*` | instances for TLC | | |

The components meet at promises that one module makes and another takes for granted:
`Pipe` and `Qfs` take the semaphore of `Ipc`, and end (`TWO_HOLDERS`) where it may let in
two; `Qfs` takes a heap of disjoint blocks (`Malloc`) and a floppy command that ends (`Floppy`), `Floppy` one task
at a time (`OneTransfer` in `Qfs`) and a `wait_for_irq` that misses nothing
(`InterruptNotMissed` in `Scheduler`); `Qfs` reads what `Image` has built.

### Scheduler

One variable per field of `thread_control_block` that matters and one per global of
`proc.c`.  `cpu` is the kernel code being executed, `pc[t]` where a task's own code is,
`frame[t]` the locks a suspended task still has to give back when `schedule()` returns
in its context (`block_task` and `unlock_stuff`: one; `uwait`: two; interrupt: one and
an `iretq`; new task and `PROC_EXIT`: none).  Code that runs with interrupts off is
one action; a loop over a list is one action per element; wherever IF may be set there
is a step boundary, so `Tick` and `DeviceInterrupt` can come in.

| Code | Actions |
|---|---|
| `PIT_IRQ_handler` | `Tick`, `PitSleeper`, `PitSleepersDone`, `PitWaiter`, `PitSlice`, `HandlerUnlock` |
| `unblockirq` | `DeviceInterrupt`, `UnblockWaiter`, `UnblockirqDone`, `HandlerUnlock` |
| `schedule`, `reap`, `murderChild` | `ReapTask`, `ReapDone`, `DispatchReady`, `DispatchSame`, `DispatchBury`, `DispatchIdle`, `IdleExit` |
| `switch_to_task_wrapper`, `switch_to_task` | `SwitchTo`, `SwitchMarks`, `Resume` |
| `nano_sleep`, `wait_for_irq` | list (`NanoSleep`, `WaitForIrq`) and block (`NanoSleepBlock`, `WaitForIrqBlock`) |
| `ckprocA` | test of the list (`Ckproc`), first store (`CkprocLink`), store to `LAST_THREAD` (`CkprocLast`): it takes no lock |
| `PROC_EXIT`, `waitForChildToDie`, `unblock_child`, `uwait`, `ExecN`, int 0x80 | one action each; `Deadcode` is the return of a dead task |

`ERROR()` and `FAULT()` never return: `fault` records the code and only `Halted`
is enabled after it.  All checks of the code that a modelled state can reach are there.
A store through NULL ends the same way (`PAGE_FAULT`): page 0 is not mapped.

Abstractions: `ttn` is the number of ticks left.  A TCB address is used once
(`Unborn`), a freed TCB keeps its contents.  The boot task neither exits nor uses
int 0x80 (`start_init_task` ends in an `ERROR`).  A timed wait passes `wffi_err`, the
only time-out function of the kernel; the time-out writes over a saved return
address, and for the task that idles there is none, so it either takes effect or not
(`TimeoutReturns`).  A child is started when `ExecN` has PAUSED it; `ExecFile` makes its caller wait for that.
Address spaces (in `Pages`), `giveSTDIOback` (in `Descriptors`), kernel stacks, pids, the accounting
of time and `wait_for_procupdate` (nobody calls it) are left out.  The early return of
`nano_sleep_until` needs a wake-up time in the past and no caller has one.

### Ipc

`AcquireBlock` queues the task through `next` and enters `schedule()` from
`unlock_stuff`; a task that gets the processor again takes for granted that it was
handed the semaphore (`AcquireReturn`), as the code does.  `wfPokeT` is in two parts,
like the waits of the scheduler.  `holds` is a history of who is between acquire and
release.

### Malloc

Bitmaps and masks are sets of bit positions.  The operators carry the widths of the
build: `IntBit(j)` is `1<<j` of an `int`, with the shift count modulo its width and the sign
bit extended; `SizeMask(size)` is `(1<<size)-1`; `Fits` is the comparison of two numbers.  The search
looks at tables as the loop does, so the last of several tables is never searched.
A call is one step, which is right for one caller: `malloc` takes no lock, and two
tasks inside it at once are not modelled.  The check OVERALLOC cannot fail and is
left out.  64 and 32 are scaled to 8 and 4 in the runs.

### Pipe and ByteQueue

A pipe is a sequence of chunks; `sent` and `received` are the history of the bytes
copied in and out.  Tasks are preempted anywhere; `acquire` queues, `release` hands
over, a writer tests for a waiting reader after its release and pokes or sleeps, and a
reader that found nothing lists itself and then blocks.  The semaphore is a
queue, and `release` wakes its head.  The kernel's leaves the link from that task to
the next waiter in place (`proc.c:517`, `ipc_two_holders`), so with two or more tasks in the queue
`release` may as well let in two; then the behaviour ends with `fault` at `TWO_HOLDERS`
(`HandOverFaults`).  What the runs and theorems say of a pipe is therefore said of behaviours
up to that point, and none of them says that the semaphore excludes anybody.  The pairing of
the streams does not change, and output to the terminal is left out.

### Descriptors

| Code | Actions |
|---|---|
| `OPEN` | `Open` (the stream is made), `Search` (one turn of either loop), `Install` (the copy), `Opened` (the result is read from the hint); `OpenNothing` is `dOpen` |
| `READ`, `WRITE`, `SEEK` on a file | `Transfer`, `Seek`; the checks of a descriptor are `BadDescriptor` |
| `CLOSE` | `Close` (the stream frees its block), `Closing` (the entry and the hint) |
| `ExecFile`, `ExecN` | `Exec`, `InitKernelFd`, an `OPEN`, `Load`, `Closing`, `ExecFile` |
| `unblock_child`, `uwait`, the wait for a child, `PROC_EXIT` | `Signal`, `Uwait`, `Wait`, `Exit` |
| `BINDR` | `Give` (the copy), `Given` (the clearing) |
| `giveSTDIOback` in `schedule`, `reap` | `Bury`, `Reap` |

Any task may run between two actions.  `kernelFdLastClosed` is `lastClosed`, one for
everybody; `raced` records which calls of `OPEN` met a change of it by somebody else.  A
stream is closed, a file with its position, or a terminal stream on a numbered `stdIO`
block.  `SEEK` checks nothing, so a position is any number below `Wrap`, which stands for 2^64, and
the end of a transfer is computed modulo `Wrap` (`TransferFaults`: what `READ` and `WRITE`
check of it).  Abstractions: all files have one length, and a transfer asks for no more; blocks of terminal streams are the only
resource of a stream that is counted; a mother that was reaped before her child may or may not
be recognised (`AMBER_ALERT`).  Programs give streams only to a child that has not
started, as `sh.c` does: `BINDR` says of itself that it is multithreading-incompatible.

### Qfs

| Code | Actions |
|---|---|
| `OPEN`, `getFileFromFilename` | `Open`, `ReadDir`, `Descend`, `Found`, `NotFound`, `MakeStream` |
| its loops over a directory, with `GrabInode` and `kINb_gb` | `Hit`, `Miss`, `Skip` |
| `kINb_ad` | `Mark`, `Fill`: `exists` is set before the inode is copied |
| `readPLUS`, `InodeRead`, `floppy_read` | `Acquire`, `StartTransfer`, `EndTransfer`, `Release`, once round the middle two per sector |
| `READ` and `CLOSE` of an open file | `ReadFile`, `Close` |

A task is preempted between any two steps, and the path of every heap block is kept:
which blocks are in use, which of them hold the bytes of an inode (a freed block keeps
them), and which block each local variable of the walk names.  That is what the walk
gets wrong or right, since `curdir` and `n` are one block for a while.

Abstractions: the heap keeps the promise of `Malloc` (disjoint blocks, a block that is
not in use stops the machine in `free`), takes the first block that fits and has blocks
of one size only; `malloc` is one step.  `disk0` is a queue that may end in `TWO_HOLDERS`
once two tasks wait in it, as in `Pipe`.  The calls only read: a write goes through `writePLUS`, which is in `Floppy`, and
changes neither inodes nor directories; nothing calls `mkFile`.  The inode
numbers fit on the first page of the cache (46 of them), which exists before there is
a second task, so the cache does not grow.  Paths lead through directories.  The length
of an inode whose bytes were overwritten counts as zero.  Directories fit in one
sector.  A floppy command ends; what happens in it is in `Floppy`.

### Image

`insertFileSystem/main.c` runs once and alone, so it is a module of operators: `readDir`
and `readFile` build the tree in memory, `cDF` lays it out over inode numbers and sectors,
`wdiskr` writes and checks the end of the disk.  `MCQfs` uses it twice.  It builds the
image that `Qfs` runs on, so that `StreamsRight` compares what an open stream reads with what
the path names in the tree on the build machine.  And its assumption `BuilderRight` has TLC
build the image of every small tree and compare: no sector and no inode has two uses and every name, file
and directory is found again, unless the builder reports an error (`BuilderMeetsBoth`: some do).

### Floppy

| Code | Actions |
|---|---|
| `readPLUS`, `writePLUS`, `floppy_read`, `floppy_write` | `Call` (the transfers a call will make), `Start`, `Finish` |
| `FLOPPY_SEND_COMMAND` | `SendCommand`, `SendParam`, `ParamsSent`, `WaitForIrq`, `SendEOI`, `AwaitResults`, `TakeResult`, `AwaitNext`, `ResultsTaken`: each poll of the status register is a step, the last one allowed an `ERROR`; the loops before and after the results share one count |
| `floppy_init`, `floppy_ctrlrs` | a list of commands before the first transfer; `Reset` |
| the controller (external) | `BecomeReady`, `Execute`: late, early, and with failures of a transfer |
| handlers of both lines, the PIC (external) | `Deliver`: a line is held back while one of the same or higher priority is in service |
| `READ_KB_DATA` | `KbWait`, `KbRead`, `KbEOI`; `KeyPress` at any time |

The results of a command are never looked at and nothing is retried, so a failed transfer
leaves what was there (`Missed`); `stale` and `tainted` follow where it goes.  A good write does not
end a taint, since it goes over what was read from the sector before.  Only
initialisation waits with a time-out (`Timeout`).  The keyboard's driver reads its key map
from the floppy before its first `READ_KB_DATA`, so the first call is its own.
A read sector is its position and the number of the write it was last written by.

### Pages

The four levels of tables are one: a table of the kernel's half maps `PerTable` pages, the
user half of a task is one table.  Masks are those of an `int`, as in `Malloc`.  The
functions of `page.c` are operators on the record of its memory (`PL_FN`, `PL_SV`,
`KP_ALLOC3`, `KPALLOC` with its refill, `KP_ALLOC4`, `P_FREES`, `UP_ALLOC4`), the callers
are actions: `Alloc`, `AllocRun`, `Free`, `Spawn` (`new_task`), `Load` and `Sbrk` (`brk`),
`Fault` (`PAGE_FAULT`), `Switch` and `Exit` (`reap`, and `switch_to_task_wrapper`, whose
`FLUSH_TLB` comes before the exchange of the user half in `switch_to_task`: interrupts are off and only
the kernel's half is touched in between, so the two are one step).
`Cache` is an access that the processor serves from the tables and keeps in `tlb`.  The initial
state is what `P_ALLOC3_SETUP` (from `BootMem`) and `initialize_multitasking` leave.  A call is
one step, as in `Malloc`; the second level of the bitmap (memory above 32704 pages), permissions
and `UP_ALLOC3` and `U_PFREEALL`, which nothing calls, are left out: a call that would look there
(`PL_FN` comes to `Beyond`) is not made.  One page asked of `KPALLOCS` is `Alloc`, since
`KP_ALLOC4` hands it to `KPALLOC`, so `Runs` has longer ones.

## 3. What is checked

| Run | Instance | Shows |
|---|---|---|
| `sched_open` | 3 tasks, 1 line, all services, sleeps of 1 tick | `TypeOK`, `OneRunner`, `UnlocksBalance`, `ScheduleUninterrupted`, `PostponeBalanced`, `InterruptNotMissed` hold everywhere, the corrupted lists included; a parent never waits for a death that was reported (`MotherHasChild`) |
| `sched_pair` | 2 tasks, sleeps of up to 3 ticks, one poke slot, fair | the lists are sound with two tasks (`WokenListed`, `SleepersListed`, `NoFreedTask`), a poke finds its waiter (`PokeFindsWaiter`), the dead stay dead (`DeadStayDead`), a sleeper runs again (`SleeperRuns`) |
| `ipc_lock` | 3 tasks, one semaphore, sleep, interrupt | `MutualExclusion`, `PlacesAccounted`, `WaiterReleased` |
| `malloc_heap` | 3 tables of 2 pages of 8 chunks, requests of 1 and 2 | `NoOverlap`, `FreeAccepted`, `BitmapExact` |
| `pipe` | 2 writers, 1 reader, chunks of 2 bytes, 3 bytes per writer, fair | up to a release that lets two in: `ImplementsQueue`, `ChunksFull`, `WriteReturns`, `ReaderPoked` |
| `fds` | 3 tasks of one family, tables of 2 entries, 2 terminal streams, 3 calls of `OPEN` | an undisturbed `OPEN` gets a free entry (`OpenRight`); a terminal stream has one owner (`OneOwner`) and is lost only to a race or without an heir (`NoStreamLost`) |
| `fs_open` | 2 tasks, one `OPEN` each with reads and `CLOSE`, on the image of a tree with 5 inodes, one of them on two sectors; paths to a file in the root and in a directory, a missing directory and an empty one; fair | the disk is used by one at a time (`OneTransfer`); nothing in use is freed or shared (`BlocksAlive`); a stream reads the file its path names (`StreamsRight`); the walk ends (`WalkEnds`) |
| `floppy` | 2 sectors on both sides of a track boundary, one write, keys at any time, fair | driver and controller stay in step (`InStep`); transfers move the right sector (`SectorsRight`); each line in service has an EOI coming (`EOIOwed`); calls return (`CallReturns`) |
| `pages` | 2 tasks, words of 8 bits, runs of 2 and 3, 2 allocations by the kernel beside those of page faults | a page is given to one, be it a caller's, a table of a user half or one that a half maps (`NoPageTwice`); the pool does not run dry and no check stops the machine (`PoolHolds`); the exchange keeps the halves apart (`OwnHalf`), and the processor goes on with no translation of the task before (`OwnAccesses`) |

Three runs end in a counterexample, each to something the code says of itself:

| Run | Claim | What happens |
|---|---|---|
| `sched_window` | the checks at `proc.c:347`, `350`, `602` | a tick or interrupt between listing and blocking meets a RUNNING waiter |
| `ipc_two_holders` | "can only be read or write", `filesystem.c:179` | `unblock_task` keeps the link to the next waiter, who runs without the semaphore |
| `fds_bound` | "if((position+len)>(n->chunklen<<9)){ ERROR(ERR_FILE_PASTBOUND", `qfs.c:125` | `SEEK` stores any position, the sum comes round to the start of the numbers, and a `READ` of nothing in the file passes |

**Bounds.**  Scheduler: `MaxDelay` (ticks of a sleep), `SliceTicks`, the tasks and the calls they
make (`BootCalls`, `TaskCalls`).  A
slice of two ticks has a first and a last one.  Three tasks are the least that can have one
running, one being woken and one on a list; the lock properties do not depend on
more, as the proofs show.  The list properties do depend on it: `SleepersListed`,
`WokenListed` and `NoFreedTask` fail with three or four tasks, by the ways that the
violating runs show, so `sched_pair` states what is true with two.  With two tasks
`ckprocA` finds the list empty, since nobody else can be ready: its other branch, and
preemption between its stores, are in `sched_open`.
Heap (`MaxTables`, `Requests`): three tables are
the least with a middle one; two entries make the scan go on inside a table.
Pipe (`MaxLen`, `MaxBytes`): with
three bytes per writer, chunks of two and calls of up to two bytes a call is split over two
chunks and there is a chunk that is neither first nor last.
Files (`MaxOpens`, `MaxBlocks`): `fs_open` has one call per
task: blocks that a walk leaves behind stay in use, so a second call meets the heap of
the first with fewer blocks and a warm cache, which the other task already gives it.
Sixteen blocks are more than two walks can use.  `MCQfs` has TLC evaluate on this image what the theorems
about `Qfs` take for granted (`SmallImageRight`).
Descriptors (`Len`, `MaxIO`, `MaxOpens`, `Lendable`, `Size`, `Wrap`, the calls): with two entries, three calls
of `OPEN` meet an empty, a half-full and a full table and both loops of the search; of three tasks one can be
mother, child and heir of a stream at once.  A file of one unit with numbers up to 2 (`fds`) has the
positions before, at and past its end; one of two units with numbers up to 3 (`fds_bound`) has one
from which a transfer comes round.
Floppy (`MaxPolls`, `MaxWrites`): a loop of two polls can succeed at once, late or never; one write
is followed and preceded by reads of both sectors.
Pages (`MaxCalls`, `OneLevel`, `UserPages`, `Runs`): `OneLevel` leaves out exactly the calls that
the first level of the bitmap does not hold, and `BootFits` has TLC check that it holds what the
boot takes. Two calls, with the tables of the user halves, take KPALLOC past its threshold, so
that it fills the pool again, with a further table for it; they are enough to free a page and ask again, for a second
task to live and die, and for a run that no table holds. Three calls, with 970337 states, show
nothing else.

**Symmetry** is used for the tasks made by `ckprocA` where no liveness is checked:
`sched_open`, `ipc_*`, `sched_window`, `fds`.

**Deadlock** is checked except where the system may stop: `pipe` and `fs_open` (the
writers' bytes and the calls of `OPEN` are bounded), `fds` (every program may wait for ever or
have died), `fds_bound` (as `fds`), `floppy` (a key during the boot, below) and `pages` (a program with all
its pages and no call left has nothing to do).

**Fairness.**  `Scheduler!FairSpec`: kernel code executes (WF of `KernelStep`); the timer
goes on (WF of `Tick`); 10 ms between ticks are enough to leave the idle loop and, for
the running task, to reach its next kernel service (SF, since each tick takes the
processor away).  The last part is an assumption about the tasks that the scheduler
does not enforce: a task that got a slice of 0 (`proc.c:148`) is not preempted.
Indeed, `SleeperRuns` fails if tasks may go on making system calls that do not block.
`Ipc!IpcFairSpec` is this and the second half of `wfPokeT`.
`Pipe!FairSpec`: every task in a call goes on when it can (WF per task), which is what a sound ready list gives.
`WriteReturns`, `ReaderPoked` and `WalkEnds` say nothing of a machine that has stopped,
and `TWO_HOLDERS` counts as one.
`Qfs!FairSpec` is the same for a task inside a call, and a floppy command ends, which is what `floppy` shows.
`Floppy!FairSpec`: driver, keyboard's task and controller go on (WF), and an interrupt of the
floppy that is let through again and again is delivered (SF).  `CallReturns` assumes besides
that nobody types faster, for ever, than the keyboard's task answers (`KeysPause`), and excepts one
state, `BootStuck`: a key before the key map has been read is in service, holds back the line of the
floppy, and would be acknowledged by the task that waits for the floppy.
Nobody is required to call, and no key to be pressed.

**Known behaviour without a run.**

Scheduler and IPC.  `TASK_BADUNBLOCK` after a poke in the window of
`wfPokeT`; the loss of a sleeper with three tasks, through a ready list that runs on into the
sleeping list; the return of a dead task from `PROC_EXIT` and the use of a freed TCB with
four.  `ipc_lock` with pokes added violates `PlacesAccounted` with three tasks.
`ckprocA` may be preempted after its store to
`LAST_THREAD->next`: other tasks take the list apart, and the second store hangs the new task where
nobody looks (three tasks).  Between the two stores for the very first task `LAST_THREAD` is NULL, and the
switch that replaces the preempted task writes through it: a page fault in the kernel
(`SwitchFails`; `sched_open` goes through it).
A preempted task is "replaced on the list" behind `LAST_THREAD` after `schedule()` has
emptied it, and is lost (`asmbridge.S:124`; `SwitchMarks`).  Two sleepers woken by
the tick that ends the idle loop make `schedule()` switch away from a READY task, and the check at
`proc.c:140` stops the machine.  `ExecN` reports `done=1` before it is PAUSED
(`usermode.c:83`): a parent that starts the child at once meets the checks of `unblock_task`.

Streams.  A reader that looks, finds nothing and blocks after the writer's test waits
for the next write although there are bytes; a second reader on one pipe stops the
machine in `wfPokeT`.  `OPEN` in two tasks at once: the hint moves between the search and
the copy, so a stream is installed over another one, in the wrong entry, or past the table,
and the descriptor returned is not the one installed (`Install`, `Opened` of a task in `raced`).  The descriptor check
lets `fd = kernelFdLen` through (`filesystem.c:202`).  A `READ` from a position near 2^64 reads the
sectors before the file (`fds_bound`).  Streams of a dead task that has no
waiting mother are never freed, nor are those in entries other than 0.  `BIND_HANDLES` leaves
the peers of a freed `stdIO` dangling, and `BINDR` to a running child takes away what it is using.
`strcpy` copies no terminator, so the name handed to `openDEV` may end in old bytes (`filesystem.c:356`).

Heap and pages.  The search of `malloc` takes a run of bits in one half of a bitmap for one in the
other: sixteen blocks of 64 bytes, the first freed and 128 bytes requested end in the check at
`malloc.c:46`.  Adding 3 to `Requests` in `malloc_heap.cfg` violates
`BitmapExact`: a request of `IntWidth - 1` chunks or more (1984 bytes) makes a mask of
too few bits.  The last of several tables is never searched, and a new one is chained over its link
(`malloc.c:66`), which wastes memory and breaks nothing that is claimed of a heap.  The upper half of each group of 64 pages is never handed out, since the
int masks of `PL_FN` do not reach it; freeing one of the boot's pages there would clear the bit of
another.  `KP_ALLOC4` wanders on through addresses without tables when no run fits.  User
pages of dead tasks are never freed.  An access outside `brk` stops the machine, whoever makes it.
`V2P` masks with a wrong constant for memory from 1 GB on (`page.c:158`).  `malloc`, `KPALLOC` and
`manualptVlookup` take no lock, and a task preempted inside them may see its block, page or window
given away.

Files and floppy.  A path with two directories frees one block as `n` and as `curdir`
(`qfs.c:318`, `331`), and the check for a double free stops the machine, although `qfs.c:236` promises
"/DIR/DIR/DIR.../file".  With the path /home/user/txt among `Paths`, and a tree that has it, `fs_open` would
violate `BlocksAlive` within 28 steps of a single walk; the proof of `BlocksAlive` needs `Shallow` for this reason.
A file that exists is not found if
another task is between `exists` and the copy in `kINb_ad` (`qfs.c:93`): the name it
compares is empty.  Two tasks that grow the inode cache at once double its size twice (`qfs.c:84`); not modelled.  Looking into an empty directory stops the machine
(ERR_FILE_PASTBOUND; `fs_open` goes through it).  A walk that finds nothing
leaves its blocks behind, and `CLOSE` leaves the inode.  A path that leads through a file
takes its data for inode numbers; this one is outside the model.  A write of two sectors or more stops the
machine with ERR_FRLX (`write2`).  `wdiskr` compares with the size of the image and
leaves out that the file system begins at `LBA_FS_BASE`.  `IRQ_set_mask` keeps the bit it is to
clear and clears the others (`idt.c:48`), so the keyboard's line is always open: this is how a key
during the boot hangs it.

## 4. What is proved

Every theorem holds for all values of the constants that satisfy the assumption of its module
(`TaskAssumption`, `BoundAssumption` and `CallAssumption` of `Scheduler`, `PipeAssumption`,
`ImageAssumption`, `WidthAssumption`, `DescriptorAssumption`, `FloppyAssumption`,
`PagesAssumption` and `BootFits`).

| Theorem | Statement |
|---|---|
| `SchedulerProofs!TypeCorrect` | `Spec => []TypeOK` |
| `SchedulerProofs!OneRunnerCorrect` | `Spec => []OneRunner` |
| `SchedulerProofs!UnlocksBalanceCorrect` | `Spec => []UnlocksBalance` |
| `SchedulerProofs!ScheduleUninterruptedCorrect` | `Spec => []ScheduleUninterrupted` |
| `SchedulerProofs!PostponeBalancedCorrect` | `Spec => []PostponeBalanced` |
| `SchedulerProofs!MotherHasChildCorrect` | `Spec => []MotherHasChild`, if nobody calls `wait` |
| `IpcProofs!IpcKeepsLocks` | the four lock properties again, for `IpcSpec` |
| `IpcProofs!PokeFindsWaiterCorrect` | `IpcSpec => []PokeFindsWaiter` |
| `PipeProofs!ImplementsQueueCorrect` | `Spec => ImplementsQueue`: the refinement of `ByteQueue` |
| `PipeProofs!ChunksFullCorrect` | `Spec => []ChunksFull` |
| `QfsProofs!OneTransferCorrect` | `Spec => []OneTransfer`, for two tasks |
| `QfsProofs!BlocksAliveCorrect` | `Spec => []BlocksAlive`, if `Shallow` |
| `QfsProofs!StreamsRightCorrect` | `Spec => []StreamsRight`, if `Shallow` and `PathsRight` |
| `MallocProofs!NoOverlapCorrect` | `Spec => []NoOverlap`, if `SmallRequests` |
| `MallocProofs!FreeAcceptedCorrect` | `Spec => []FreeAccepted`, if `SmallRequests` |
| `MallocProofs!BitmapExactCorrect` | `Spec => []BitmapExact`, if `SmallRequests` |
| `DescriptorsProofs!OpenRightCorrect` | `Spec => []OpenRight` |
| `DescriptorsProofs!OneOwnerCorrect` | `Spec => []OneOwner` |
| `DescriptorsProofs!NoStreamLostCorrect` | `Spec => NoStreamLost`: an action property |
| `FloppyProofs!EOIOwedCorrect` | `Spec => []EOIOwed` |
| `FloppyProofs!InStepCorrect` | `Spec => []InStep` |
| `FloppyProofs!SectorsRightCorrect` | `Spec => []SectorsRight` |
| `PagesProofs!OwnHalfCorrect` | `Spec => []OwnHalf` |
| `PagesProofs!OwnAccessesCorrect` | `Spec => []OwnAccesses` |
| `PagesProofs!NoPageTwiceCorrect` | `Spec => []NoPageTwice` |
| `PagesProofs!PoolHoldsCorrect` | `Spec => []PoolHolds` |

**Scheduler.**  None of the properties is inductive alone; the argument goes in three layers.

1. `TypeInv` adds to `TypeOK` that `schedule()` runs in a task (`SomeTask`): otherwise
   `state[current]` means nothing.
2. `Runner` says what the mark RUNNING means where no task code runs: in a handler the
   interrupted task keeps it, in the idle loop nobody has it.  From there the task code
   is entered again.
3. `LockInv` relates the counter to the frames (`Balance`), says that the running task
   owes nothing (`RunnerOwesNothing`) and that the boot task owes something whenever it
   does not run (`BootOwes`).  The last is why interrupts are never enabled inside
   `schedule()`: `PROC_EXIT` gives its own lock back first, and only the unlock that
   the boot task owes keeps the count above zero.  It rests on `CallAssumption`: the boot task does not exit.

The counting itself is in the lemmas `OwedSplit`, `OwedChange` and `OwedAtLeast` about
the cardinality of the set of owed unlocks.

`MotherInv` follows a death from `PROC_EXIT` to the end of `reap`: a child is `Due` while it can
still die, while it is the dead task that `schedule()` is leaving, and while it is on
`DEAD_TASKS`; and a child has one mother. The hypothesis is that nobody calls
`waitForChildToDie` directly (the call `"wait"` is in neither `BootCalls` nor `TaskCalls`;
`sched_open` has none either): `uwait` keeps the scheduler locked from the start of the child to
the wait for it, while a direct call, as at `filesystem.c:401` and `syscall.c:64`, can come
after the death it waits for.

**Semaphores and pokes.** `Base` is the scheduler's invariants with the head of a semaphore's
queue and the slot being tasks or nobody; the steps of `Ipc` keep it, so the locks balance here
as well. `Listed` says that a task between the two halves of `wfPokeT` is in the slot and is
RUNNING or READY, and one that waits for a poke is in the slot. Nothing is said of the lists, so
it holds where they have run into each other; `PokeT` empties the slot and wakes its task under
one lock.

**Pipe.**  `SemaInv` is about the semaphore up to `TWO_HOLDERS`: who copies is the holder, who is blocked is in the
queue (`OneInside`, which is what the model of `release` says and no result), and nobody is in it twice, or
`release` would let a task in that is still queued.  `BytesInv` describes the chunks as consecutive windows on `sent`,
from the end of `received` to the end of `sent`; the first lemmas of the module are about cutting,
extending and dropping such windows.  From there a `CopyIn` or `CopyOut` is a step of
`ByteQueue` and everything else stutters.

**Files.**  `DiskInv`: a task is between acquiring and releasing `disk0` if and only if it is the
holder, and `floppy_in_use` is set only while the holder waits for its command.  With two tasks one
at most is queued when the other releases, so no hand-over can fail; that is all `OneTransferCorrect` says.
From the third task on `release` may let in two, and the other two theorems hold up to there.

`WalkInv` says for every task which blocks are its own and what for (`Own`: `n`, `curdir`, the
strings, the parameters of a floppy command, the stream), that these are in use (`Alive`) and
owned once (`Apart`), and that its locals are what its place in the walk needs (`Course`). The
point is `Loose`: when the last loop begins, `n` is still the block of `curdir`, or one that has
been freed, and the proof is that nothing reads or frees it before it is another block. A step
gives back what the task owns and takes what nobody has (`Trade`, `Exchange`), so the other
tasks need not be looked at. `Shallow` says that no path has more than one directory: the loops
over directories do free `n`, and with a second directory that is `curdir` (see "Known
behaviour"); the paths in the sources have one. `RightInv` adds what a task has read: its
directory is one that its path leads to, its `n` is the inode of its entry or an empty one that
another task is about to fill in, and these stay so because nobody writes to a block of another
(`Writes`). `PathsRight` is a statement about the image alone: a file that a path leads to has
the contents of its file on the build machine. Two files of one name in a directory would break
it.

**Heap.** `HeapInv`: every block lies on a page of a table and is shorter than an `int` is wide
(`Placed`), a chunk is free exactly if no block covers it (`Exact`), and blocks do not meet
(`Apart`). The interesting step is `malloc`'s search with `IntBit`: it may find a place where
there is none, and only the check at `malloc.c:46` keeps `Exact`; the proof shows that it is
enough. `SmallRequests` says that the mask of every request fits an `int`: at most 30 chunks
(1920 bytes). It is needed, as the violation with a request of `IntWidth - 1` shows.

**Descriptors.**  `OpenInv` adds that the hint is at most one past the table, which every task
relies on and every task changes.  `OwnInv` counts the hand of a task as one more place
of its table: every block has one place at most that leads to it, and that block is in use.  An
entry does not count while it is being closed or given away.  Each action keeps every place or moves
one (`Keeps`, `Moves`), also where an `OPEN` is disturbed and overwrites an entry: then a stream
is lost, but never shared.

`NoStreamLost` says when. `HandInv`: a stream is in a task's hand only inside `OPEN`, it is in the
task's table before `OPEN` returns, and the table of a task that has not begun is empty, so
nothing goes when `InitKernelFd` clears it. With it, each step but the two that `MayLose` names
leaves every stream that has a descriptor with one (`StepHeld`): `BINDR` and `giveSTDIOback` move
it, an undisturbed `OPEN` writes to an entry that was free (`OpenInv`), and `CLOSE` frees the
stream with its last descriptor.

**Floppy.** `EOIInv` counts line by line, and says that a key is in one place: requested, stored
or with the keyboard's task (`OneKey`).

`StepInv` says for every place in `FLOPPY_SEND_COMMAND` where the controller may be
(`Together`): how many parameters it still takes, that the results left are at most those the
driver has room for, that it works on the head of the driver's list. `OneRequest` says that its
interrupt is there for one wait and after its command; one too many would let the driver pass
the wait of the next command. `DataInv` says what is in the DMA buffer for each transfer
(`Loaded`), that the commands left are those of the transfer (`OnCourse`), that a write comes
right after the read of its sector (`ReadFirst`), and that the disk is right (`DiskRight`).
Positions are unique because a cylinder is a byte: `FloppyAssumption` has at most 256 of them
(`chs.c:5`).

**Pages.** `OwnAccesses` is inductive: a step that changes the half in force, or the page of an entry,
flushes (`Flushed`), an access adds what the half says (`CachedAccesses`), and the rest changes neither
(`SameAccesses`).  For the exchange it rests on the `FLUSH_TLB` of `proc.c:158` alone.  `PagesInv` has four parts; TLC has checked it on the instance of `pages`.

`HalfInv`: the running task lives and has a page for its half. What is left of `OwnHalf` is that
`KPALLOC` never returns the mark of an empty slot (`TakenPage`) and that a page fault adds one
entry (`UP_ALLOC4`) to the running task's half alone. `Shape` is about types, and that one task
at most waits for `reap`. `Apart`: what is in use has one owner and is not the boot's. `Kept` is
about the memory between two calls:

* `PhysInv`: the bitmap marks what the kernel's entries map and what the user halves map, and no
  two of these are the same physical page. `PL_SV` and `PL_FN` use masks of an `int`, which say
  the lower half of a word of the bitmap, and the sign bit the whole upper half with it; `BitInv` says that
  the upper half of a word is always marked with its sign bit. So the lowest clear bit is one the masks can
  say and `PL_FN`'s check never fails (`LowestClear`), and freeing a page that is not the boot's (`Fresh`)
  clears its bit and no other (`ClearBit`, `FreeSound`). Of the boot's pages this is not true: it
  is why `PoolHolds` says that no caller gets one.
* `VirtInv`: the pages in the pool, those that hold tables and those in use are mapped and
  differ, and only slots from `Low` on hold pages of the boot.
* `Stocked`: the slots from `Threshold` to `Low - 1` are full, so two pages are left whenever
  `KPALLOC` begins.

The refill calls `KP_ALLOC3`, which takes a page from the pool being filled whenever the tables
are full. `RefillAt` follows it slot by slot: the slots before are full except
slot 0, whose page may have become the table, and after that the new table holds the rest of the
refill (`LastFree`), since `Low` is at most `PerTable`; `Filled` is the step from a slot to the
next. The three chains of steps (the refill, a run and its freeing) are followed by induction over
a set of numbers (`Induction`, from the library's `WFMin`). Of the constants, the proof needs what `page.c` gives:
two slots between threshold and the end of the refill (32 and 64), no more slots to fill than a
table has entries (64 and 512), two of the boot's pages in the pool (there are four), whole
words for these (512 pages).

**Only model-checked.**

* `WokenListed`, `SleepersListed`, `NoFreedTask`, `DeadStayDead` hold with two tasks and are false for more:
  the lists share `next` and run into each other.  A proof would have to follow every list of a pair of
  tasks, which is what TLC does completely.
* `MutualExclusion`, `PlacesAccounted` and `WaiterReleased` hold in `ipc_lock` for three tasks; with four,
  `ipc_two_holders` violates the first for the same reason.
* `InterruptNotMissed` speaks of `irqwaiting`, a list through the same `next`: it holds in `sched_open` with the
  corrupted lists, but an invariant for every number of tasks would have to say what all the corrupted lists look like.
* The image builder is recursive, and its comparison is a bounded one (`BuilderRight`).
* All liveness: `SleeperRuns`, `WriteReturns`, `ReaderPoked`, `WalkEnds`, `CallReturns`; the prover has no `ENABLED`.

## 5. Plan

What would come next, in this order:

1. *An abstract life of a task* (unborn, ready, running, blocked, dead, freed), implemented by
   `Scheduler` with two tasks.
2. *Heap and page allocator with preemption*: two callers inside `malloc` or `KPALLOC`.
3. *Terminal*: the keyboard as a writer of the terminal's stream, `BIND_HANDLES` and the peers of a `stdIO`.

Not modelled, and not planned: boot code and gates (run once, program hardware); the
exceptions, which stop the machine; the driver framework (`dProbe` is never called, so there is
no device to open); making files (`getIS`, `mkFile`: nothing calls them); permissions (set,
never checked by a caller); the second level of the page bitmap; `wait_for_procupdate`; screen
output, key maps and byte copying, which are data; `elf.c`, which is not built; user programs, which
are the workloads.
