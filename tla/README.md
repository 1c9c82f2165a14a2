# A verification development for sios

sios is a small 64-bit operating system kernel (`src/kernel_64bit`): one
processor, a preemptive task manager, semaphores, a buddy allocator, a PATA
driver, a file system and a shell.  This directory holds TLA+ models of its core,
the TLC runs that check them and the proofs about them.

All source lines below are in `src/kernel_64bit/Source/`.

## The system

| Component | State | Operations | Interacts with |
|---|---|---|---|
| Task manager (`Scheduler.c`, counter in `slap.c`) | pool of PCBs, five ready queues, terminate queue, running task, rotor `Schedule_Priority`, quantum `Time_` | `Create_Process`, `Terminate_Process`, `exit`, `GiveOut_Processor`, `Preempted_ByTimeOut`, `ChangePriority`, the reaper `sched` | timer (interrupts it), semaphores (share `p_Next` and `p_Prev`), shell (its caller) |
| Lists of PCBs (`Scheduler.c`) | `p_Head`, `p_Tail`, `Task_Count`, links in the PCBs | add, insert, remove, get, for queues and for children | everything that queues tasks |
| Timer interrupt (`ISR_Handler.c`) | `Time_` | `ISR_Timer` | task manager |
| Semaphores (`semaphore.c`) | pool of semaphores with a count, one `Wait_Queue` for all | `AllocSemaphore`, `FreeSemaphore`, `acquire`, `release`, `RemoveFrom_Wait_Queue` | task manager, disk driver |
| FPU switching (`ISR_Handler.c`) | CR0.TS, `LastUsed_PID`, `Use_FPU`, saved contexts | `ISR_FPU_ContextSwitching` | task manager |
| Memory manager (`Memory.c`) | trees of buddies | `k_malloc`, `k_free` | its users |
| Disk driver (`DiskDriver.c`) | `IsInteruppted`, the mutex, drive registers | `ReadSector`, `WriteSector` | semaphores, disk interrupt |
| File system (`FilsSystem.c`) | super block, bitmaps, inodes, directories on disk, the working directory | format, create, delete, read, write, make and remove directories | disk driver |
| Console (`IO.c`) | cursor, screen | `putchar`, `printf`, `Scroll` | shell, commands |
| Keyboard (`IO.c`, `ISR_Handler.c`) | key ring, shift state | `ISR_Keyboard`, `PutKeyBuf`, `GetKeyBuf` | shell |
| Shell, commands (`Shell.c`, `Command.c`) | line, cursor | line editor, parameter splitting, commands | all of the above |
| Tables, PIC, PIT, RTC, 32-bit kernel, boot loader, image tool | none after boot | straight-line set-up | - |

What is hard in it: the timer interrupts kernel code wherever interrupts are
enabled, and several functions check a condition before their `cli` and use it
after; the state of a task is spread over a flag, a queue, its parent's list and
a counter, changed by four functions and by the reaper, itself a task; one pair
of links serves the ready, wait and terminate queues.  Failures to allocate are
reported by results that callers often ignore.  On disk, one operation is several
writes.  What makes each part correct:

* task manager: no task is lost or queued twice, the processor goes to live tasks
  only, a PCB is freed once, by the reaper, when nothing refers to it; every
  ready task runs in the end and every terminated one is reaped;
* lists: they are queues, whatever stale links the operations leave;
* semaphores: at most `MaxCount` holders, no lost wake-up;
* FPU: a task finds its own registers;
* memory: blocks in use are disjoint and as large as asked for;
* disk driver: a sector is read when its data is there, not before;
* file system: a block or inode in use is marked, and is used once;
* keyboard, shell, console: keys in order and none invented, the line within its
  buffer, the cursor within the screen.

## Modules

* `Scheduler` - the task manager with the timer and the pool counter.  Its
  variables have the names of the code's fields.  Code between a `cli` and its
  `sti` is one action.  Everywhere else a task may be preempted, and the places
  where it is between reading something and using it are locations `at[p]`:
  `yield` (about to enter `GiveOut_Processor`), `switch` (a ready task was
  seen, before the `cli`), `resumed` (scheduled again, before the rest of the
  call), `create` (the counter was compared), `kill` (the victim was found
  allocated), and for `sched` `start`, `create_shell`, `loop`, `drain` and `reap`.
  `sched` drains its queue with interrupts masked, so that loop is cut into steps
  (`sched_Take`, `sched_KillChild`, `Free_PCB`, `sched_Done`) that the timer
  cannot separate unless the interrupt flag says so; that it cannot is a part of
  the invariant, not of the model.  `RFLAGS[p]` is the interrupt flag in the
  saved context, `IntFlag` that of the processor.  `RFLAGS_` in
  `GiveOut_Processor` is a `bool` and cannot hold the bit `0x200`
  (`Scheduler.c:287,321`), so a task that has yielded runs with interrupts
  masked until it gives the processor to one that has not.
  `Decreased_Slip` and other definitions ending in `_Slip` are plausible mistakes
  in the definition that follows them.  Put in its place, each makes one property
  fail; this shows that the property depends on the code.
* `TaskLifecycle` - what the task manager promises, without queues or interrupts;
  `Scheduler` implements it under `lifecycleState`.
* `TaskQueue` - the doubly linked lists, link by link, for queues and for lists
  of children (they differ in `Scheduler.c:654`).  `Queues` is what they promise.
  `Scheduler` uses sequences in their place.  This is justified by
  `ImplementsQueues`, whose only precondition is that a PCB is added when it is in
  no queue, which is `LinkedOnce` of `Scheduler`.
* `SchedulerInv` - the inductive invariant; `SchedulerProofs` - the
  proofs; `TaskQueueProofs` - those of the linked lists; `MCScheduler`,
  `MCTaskQueue` - instances.
* `Semaphore` - extends `Scheduler`, so its tasks also allocate, acquire and release
  semaphores and everything the task manager does can come in between.  `op[p]` is where
  a task is: `waiting` between the `sti` of `acquire` and its `GiveOut_Processor`,
  `again` when `acquire` has returned false and the caller's loop
  (`DiskDriver.c:76,134`) will call it again, `releasing` between the comparison of
  `release` and its `cli`, and `searching`, `filling`, `marking`, `unmarking`,
  `emptying` between the steps of `Alloc_Semaphore` and `Free_Semaphore`, which mask no
  interrupts.  `Count`, `MaxCount` and `IsAlloced` are the code's; `holders`, `lost`
  (permits of tasks that died) and `torn` (semaphores that two tasks got at once, or
  that were freed in use) are history the properties need.  A release that takes a task
  from the wait queue goes on with `NULL` (`semaphore.c:86`) and the exception halts the
  machine: `halted`. `SemaphoreProofs` is its proof, `MCSemaphore` its instance.
* `BuddyMemory` - the trees of bytes in the memory they describe, `k_malloc`,
  `k_free`, and a client that writes into its block.  `Heap` is what an allocator
  promises.
* `DiskDriver` - `SetDisk`, `ReadSector`, `WriteSector` between status reads, the
  interrupt handler, and a drive (an external component) that becomes busy, ready and
  fails by itself.  `moved`, `ahead` and `misled` are history.  `DiskDriverProofs` has
  its proofs.
* `FileSystem` - the disk as bitmaps, inodes and sectors of directory entries.  A
  command computes in memory and writes sectors; the writes are `pending` and
  reach the disk one by one (`Write`), and the machine may stop between any two
  (`Crash`), after which `Format` mounts what is there.  `DirectoryTree` is what
  the commands promise.
* `Terminal` - keyboard interrupt, key ring, the line editor of the shell and the
  console under it, down to colors of cells: the prompt is protected from
  backspace by its color (`IO.c`).
* `BuddyProofs`, `TerminalProofs`, `FileSystemProofs` - their proofs.  `FileSystemInv` -
  the inductive invariant of the file system.  `NatLemmas` - what the proofs need of
  numbers: least elements, induction, iteration, remainders and powers of two.
* `MCBuddyMemory`, `MCDiskDriver`, `MCFileSystem`, `MCTerminal` - instances.

### What the environment is assumed to do

Kernel calls come from the sets `ProcessCalls` and `ThreadCalls`, which the
runs choose; priorities from `UsedPriorities` (the code's callers use
`PRIORITY_VERYHIGH` and `PRIORITY_MIDDLE`).  Three bounds are named in `Scheduler`:

* `PoolBound`: unless `FillsPool`, the last PCB is never asked for.  The code
  misbehaves when it is (run `scheduler_full_pool`); its pool has 2048 PCBs.
* `OrderlyVictim`, `OrderlyKill`: if `Orderly`, a task is terminated once, not
  after its parent, and one kill at a time.  The code does not see to this (run
  `scheduler_disorder`); the other runs and the proofs show what holds when its
  callers do.
* `Booted`: no task dies, and none waits for a semaphore, before `sched` has given
  out the processor once, right after it creates the shell.

If what a check found no longer held after it, the code would follow a null
pointer or use an uninitialised one.  The model has no step for this; that it
never happens is `ChecksStillHold`.

`Semaphore`: `DebtBound` limits how far below zero `Count` is driven: a caller whose
`acquire` returned false calls it again, and every call lowers `Count`.  A task
acquires an allocated semaphore that it does not hold, as the driver does.  Any task
allocates and frees at any time.  What the code then does to a semaphore in use is
modelled; nothing is promised of it afterwards (`torn`), and the run does not explore
further (`NothingTorn`).

`BuddyMemory`: three kinds of clients.  `shell` has at most one of the smallest
blocks, which is how the kernel uses the allocator, and overwrites it, tree and
all.  `careful` owns the blocks the trees lie in.  `any` is the client that the
trees do not survive (run `buddy_tree`).  `Sizes` are those whose blocks are of the two
smallest levels: `Is_ChildAlloced` asks only the halves of a block, so with three
levels in use a block whose quarter is allocated would be handed out.
`Align_MemSize` halves the largest block until it is no larger than the request
(`Memory.c:128`), so a request of 3 gets a block of 2: nobody may rely on the size of
the block, and no property does.  `CaculateMemorySize`, which probes
the memory once, is `g_RootCount`.

`DiskDriver`: one call at a time, as the mutex enforces.  The drive may answer at any
speed.  Three things it may do mislead the driver, which reads the status once for
each sector: it has not asked for the first sector of a write by the time the driver
looks (no interrupt announces that request); it has one sector ready before the driver
looks and the next one not (`IsInteruppted` is cleared only when the data was not there
at once, `DiskDriver.c:109`, so the interrupt of the first sector is taken for that of
the next); or it refuses IDENTIFY with an interrupt.  `misled` is the history of these:
the driver may then transfer garbage or wait for ever, which the model shows, and only
types and the mutex are promised.  Errors in the middle of a transfer are not looked
for by the driver, and the drive here has none.  What `SetDisk` reads instead of a size
is at most the size of the disk.

`FileSystem`: the shell calls whatever it likes, one call at a time; no guard keeps it
from what the code does badly.  Four things a call may do damage directories, and the
history variable `damage` remembers them:

* `overlap`: a block has two sectors but block `n` starts at sector `n`, so that to
  initialise or clear a block clears the first sector of the next, which may be
  another directory's (`FilsSystem.c:134`, `188`).  After `mkdir a`, `mkdir b`, a `touch`
  in `b` and `rmdir a` the entry in `b` is gone.  Inside one directory the overlap does
  no harm.
* `half made`: an entry is on the disk whose inode never got there (a shutdown, or a
  `mkdir` that ran out of blocks, `FilsSystem.c:330`), and a call changes the disk, or
  `cd` enters it.  That inode has the fields of an earlier owner, or is given out a
  second time.  Not each such call does harm; the model does not tell them apart.
* `hidden`: an entry is made where no search sees it (`FilsSystem.c:575`).
* `overwritten`: `write` puts its text where the inode's list of blocks says, and no call
  ever gives blocks to a file: the list is of an earlier owner, or what the disk held
  (`FilsSystem.c:226-231`).  If a directory has that block now, its header is lost.

Every property speaks of a disk that none of the four has happened to, and the run
does not explore beyond (`Undamaged`).  What else is bounded or assumed:

* Texts are shorter than a sector.  `Reserved > 1`, since a `mkdir` that fails also
  frees block 0 and clears its two sectors.  Fewer than 8192 blocks, beyond which the
  search of the bitmap differs (`FilsSystem.c:124-129`); inodes in the lower half,
  because the table reserves a sector for every eight inodes and writes four into each
  (`FilsSystem.c:626`).
* `Format` asks `WriteSector` for the whole table of inodes, which is more than the 256
  sectors it accepts, so that write does nothing: the inodes are `InodesBefore`, what
  the disk held, as far as these are inodes of such a disk.  The bitmaps `Format`
  starts from, uninitialised memory in the code, are taken to be zero.

`Terminal`: `LineBound` keeps the line one below its limit, where the shell stores a
key past its buffer (`Shell.c:45`).  `MaxTabs` limits tabs, which are shown but are
not in the line.  Two things end what can be said, and a history variable remembers
each.  `overrun`: `shutdown` takes a key with interrupts on, and an interrupt between
its read and its write of `Buf_Count` is lost from the count; a ring that counts fewer
keys than it holds accepts a key when it is full, over one that waits.  `printed`: the
command `task` starts `TestTask1` and `TestTask2`, which write to the row of their PID
for ever, over whatever stands there, and in the middle of what the shell writes.  The
run does not go on after either (`Undisturbed`).  Two shift keys are one, as in the
code.  That waiting for the acknowledgement of an LED command swallows scan codes
is left out.

## Runs

| Run | Checks | Bounds |
|---|---|---|
| `scheduler` | type invariant, seven safety invariants, `ImplementsLifecycle` | 5 PCBs: `sched`, the shell and two more, the fifth kept free; 2 priorities, quanta of 2 and 1 ticks; 2 million states |
| `scheduler_live` | `ReadyTaskRuns`, `TerminatedIsReaped`, and the inductive invariant `IInv` | 5 PCBs, 2 queues of which the children use the one of lower priority |
| `scheduler_full_pool` | `ChildrenEnqueued` fails | 4 PCBs, all of which may be used |
| `scheduler_disorder` | `LinkedOnce` fails | 5 PCBs, exits in any order, no kill |
| `task_queue` | `GetReturnsElement`, `ImplementsQueues` | 5 PCBs in 2 queues, PCBs interchangeable |
| `semaphore` | `AtMostMaxCount`, `CountAccounts`, `WaitersQueued`, `ImplementsLifecycle` | 5 PCBs, 1 priority, 1 semaphore with 1 permit (the disk's), `DebtBound` 1, until one is torn; 970 thousand states |
| `buddy` | type invariant, three safety invariants, `ImplementsHeap` | 3 roots of 8 blocks (4 levels), requests of 1, 2 and 3 smallest blocks, clients `shell` and `careful` |
| `buddy_tree` | `FlagMeansAllocated` fails | 1 root, client `any` |
| `disk` | type invariant, three safety invariants, `CommandWhenIdle`, `CallReturns` | 6 sectors, calls of up to 3 |
| `file_system` | type invariant, four safety invariants, `ImplementsTree` | 2 names, 5 inodes, some of which list blocks already, 9 blocks, directories of 2 blocks, 3 entries to a sector, until the first damage; 500 thousand states |
| `file_system_children` | `RemovedIsEmpty` fails | 2 entries to a sector, 5 inodes, 7 blocks |
| `terminal` | `ReadsInOrder`, `LineIsOnScreen`, `PromptKept`, `BackspaceErases` | ring of 2 keys, line of 4, screen of 2 lines of 4 cells, 5 kinds of keys, 1 tab, until an overrun or a test task prints; 1.5 million states |

Why these are enough.  `scheduler`: the properties relate at most a task, its parent,
its child and the reaper, which three tasks beside `sched` contain in every order; two
priorities are enough for the rotor to wrap and for a queue other than the first to be
served; two ticks for a quantum to be lowered and to run out. `task_queue`: five PCBs
give a list a middle on either side of its half, where `Get_Task_At` changes direction.
`semaphore`: one task can hold, one wait and one terminate either.  `buddy`: three roots
let a request pass from a full root to the next; four levels are the fewest at which a
tree takes four blocks of its own root and leaves some.  `disk`: three sectors have a
first, a middle and a last one. `file_system`: nine blocks hold the root, two
directories next to each other, and one that gets only a part of its blocks, so both
ways of `mkdir` occur and each kind of damage is met but `hidden`, which takes more
names than two (it is met in `file_system_children`, with shorter sectors); five inodes
run out; three entries to a sector make a search that sees one more or one less entry
visible.  The names are symmetric: nothing compares them but for equality. `terminal`:
the ring fills and wraps, lines wrap and scroll, and the prompt moves off its column.

* `LinkedOnce`: the links of a PCB are used by one queue at a time.
* `NoTaskLost`: every live task is in the queue its flag names, also when
  the timer preempts it between setting its flag and giving out the processor.
* `UseCountExact`: the counter raised in `Create_Process` and lowered in `sched`
  is the number of PCBs in use.
* `ThreadsHaveProcess`: a thread never outlives the process whose memory it uses.
* `ChildrenNameParent`: the lists of children hold nothing stale, so the reaper
  terminates tasks that are there and are children of the right process.
* `ChecksStillHold`: what was read before a `cli` still holds after it.
* `ChildrenEnqueued`: what the reaper terminates will itself be reaped.
* `ImplementsLifecycle`: a terminated task never runs again, only the reaper
  frees, the reaper itself neither dies nor blocks.
* `ReadyTaskRuns`, `TerminatedIsReaped`: no starvation, whatever the priority.
* `GetReturnsElement`, `ImplementsQueues`: links the operations leave stale are never
  followed.
* `AtMostMaxCount`: mutual exclusion, with the comparison in `release` outside its
  `cli` and no `cli` in `Alloc_Semaphore` and `Free_Semaphore`.  It is lost for a
  semaphore that two tasks got at once (`semaphore.c:32-37`), or that was freed in use:
  `torn` is what the property leaves out, and nothing else.
* `CountAccounts`: `Count` is exact after deaths and preemptions, hence `release` never
  takes the early return that swallows a permit.  It holds until the first wake-up
  only because that wake-up halts the machine.
* `WaitersQueued`: a waiting task is in the wait queue, and there only, whatever
  the timer does between the `sti` of `acquire` and the yield, and leaves it when killed.
* `FlagMeansAllocated`, `RefusedOnlyWhenFull`: the flags and the blocks in use say the
  same, in both directions, although the clients overwrite the tree.
* `FreeFindsBlock`: `k_free` gets an address that several nodes share, and picks the
  right one.
* `ImplementsHeap`: blocks in use are disjoint.
* `TransferWhenReady`: no stale interrupt flag lets the driver read the data port early,
  until the drive is ahead of the driver and then behind (`misled`).
* `CallMovesItsSectors`: a call that returns with success moved all sectors in order.
* `MutexHeldInCall`: no way out, error or not, keeps the mutex.
* `CommandWhenIdle`: `WriteSector` returns while the drive still writes; the next
  call waits for it.  `CallReturns`: no call waits for ever, until the driver is misled.
* `EntriesMarked`: a shutdown at any point leaves no entry whose inode could be
  given out again.  `DirectoriesOwnBlocks`: no block in two directories, none free,
  whatever the disk held before.
* `NothingLeaks`: between calls exactly what is used is marked, until a call is cut short
  or a `mkdir` runs out of blocks, which unmarks block 0 and leaves its entry.
* `WorkingDirectoryExists`: no `rmdir` takes away the directory the shell is in.
* `ImplementsTree`: every command, cut short or not, changes one entry of the tree or
  none. These five speak until a call damages directories (`damage`, above), so they
  also say that nothing but the four kinds of damage breaks them.
* `ReadsInOrder`: the ring is a queue although `shutdown` reads it unprotected, until
  it puts a key over one that waits; it never does while its count is right.
* `LineIsOnScreen`: what Enter runs is what is seen, across wrapping and scrolling,
  until a test task prints (also the two below).
* `PromptKept`, `BackspaceErases`: backspaces stop at the prompt, and the line is
  shortened only when the screen is.

### Disagreements with the code's own words

* `scheduler_full_pool`.  The comment at `Scheduler.c:53` says that all children
  of a reaped process are put into the terminate queue.  `Add_Task_in_Tail` refuses
  while the pool counter is at its limit (`Scheduler.c:512`), although the queues
  have no limit, and nobody looks at its result.  In the run a process exits,
  another task creates one that takes the last PCB, and the child of the first is
  marked terminated and is then in no queue; it is never freed.
* `scheduler_disorder`.  A process exits, and before `sched` runs its thread
  exits too.  The queue is then process, thread.  Reaping the process terminates
  the thread a second time, and it is linked twice into the queue (`Scheduler.c:53`
  and `157`-`173`).  The comment at `Scheduler.c:116` describes faults with just
  this cause, a PCB linked again through pointers that are in use.

* `buddy_tree`.  `Memory.h:14` says that the flag means allocated.  `Init_KernelMemory`
  puts the trees at `KMEM_ADDR`, the start of the memory they hand out (`Memory.c:23`),
  although `Memory.h` reserves `BUDDY_ADDRESS` for them.  Freeing a block clears it, and
  with it the flags that lie in it: a block in use is then free for the next request.
* `file_system_children`.  `rmdir` of a directory with entries must say "not removeable"
  (`Command.c:269`).  `RemoveDir` looks at two bytes of the header of the first block
  with masks that leave out entries 8 to 15, and at no other block
  (`FilsSystem.c:379`-`383`).  In the run a directory gets two files, the first is
  removed, and the directory, which still has the second, is removed.

### Fairness

`FairSpec` assumes three things.  The timer ticks for ever (weak fairness of
`Tick`).  A task that gets the processor again and again makes progress in kernel
code (strong fairness of `KernelStep`, for each task): between two ticks, 1 ms, a
processor executes far more instructions than there are in any of these
functions.  A task that runs with interrupts masked yields again: the only tasks
that ever yield are `sched` and `TestTask1` and `TestTask2` (`Scheduler.c:750-772`),
in endless loops.  Nothing is assumed of a task that runs with interrupts enabled;
the shell in particular need not call anything.

`FairSpec` of `DiskDriver` assumes weak fairness of three things: the task in the
driver gets on (its loops are busy waits that the scheduler returns to, by
`ReadyTaskRuns`), an interrupt that is raised is served (the driver runs with
interrupts on), and the drive ends what it was told to do.  The drive need not
fail, and nobody need make a call.

## Proofs

`SchedulerProofs` proves, for every size of the pool, number of priorities,
quantum and choice of calls satisfying the `ASSUME`s of `Scheduler`, with
`~FillsPool` and `Orderly`, that `IInv` is an invariant of `Spec` and with it
the type invariant and every safety invariant of the run `scheduler`, and that
`Spec` implements `TaskLifecycle!Spec`.

None of the safety invariants is inductive.  `IInv` adds:

* `FlagInv`: flags, allocation and the running task agree (a task flagged
  running is the one that runs);
* `QueueInv`: a queue holds only tasks with its flag and priority, and
  `NoTaskLost`; from this `LinkedOnce` follows, since a task has one flag;
* `MaskInv`: once `sched` has given out the processor it runs with interrupts
  masked for ever, so nothing comes between the steps of its loop;
* `ReaperInv`: what `sched` has in hand, and that exactly the children its loop
  has passed are terminated, from which `ChildrenEnqueued` follows;
* `OrderInv`: a dead child is in front of its dead process in the queue.  Without
  it the reaper could meet a child that is terminated already;
* `WindowInv`: what holds while a task is between the check and the `cli` of
  `Terminate_Process`;
* `PoolInv`: the counter, plus one for each task that has passed the comparison
  in `Create_Process`, stays below the size of the pool, from which a free slot
  is found.

The proof has one lemma per action, and one for the switch that
`GiveOut_Processor` and `Preempted_ByTimeOut` share, one for the part of
`Terminate_Process` that the reaper shares, and one for the body of
`Create_Process`.  The lemmas at its start say what removing, appending and taking
the head do to what a queue holds and to its order.

`TaskQueueProofs` proves, for any number of PCBs and queues, for queues and for lists
of children, both properties of the run `task_queue`; so the sequences of `Scheduler`
stand for the lists in every instance.  The only hypothesis is that nobody inserts in
the middle, as in the kernel.  `ListInv` says that what a walk from the head finds is
linked in both directions, from the head to the tail, and that no PCB is found twice.
It says nothing of the links that lead out of a queue: `AddFirst`, `RemoveMiddle` and
`Add_Child_in_Tail` leave old values there, and that no operation follows one is what
the lemma of each operation shows.

`SemaphoreProofs` proves, for every number of tasks, semaphores and permits, all
properties of the run `semaphore`.  `AtMostMaxCount` holds with any behaviour of the
task manager underneath.  "At most `MaxCount` holders" is not inductive: a holder that
is not counted in `Count` would let one more in.  `SInv` has the types; `CallInv`, a
task in `release` holds what it releases; and, for a semaphore that is not torn,
`Own`, it has a holder or a user only when allocated, and while one task allocates or
frees it no other uses it; and `Permit`, a positive `Count` plus the holders is at most
`MaxCount`.

`CountAccounts` and `WaitersQueued` need the task manager, with `~FillsPool` and
`Orderly`.  `IInv` has to hold while a task waits: such a task has the flag `WAITING`
from the middle of `acquire` on, but runs until it gives the processor out, or is
preempted first.  `WaitInv` says that only tasks in `acquire` have this flag, that they
do not hold what they wait for, and that one which will call `acquire` again is still
giving the processor out, so it cannot do so before it is killed.  Every step of the
task manager and of the semaphores keeps `IInv /\ WaitInv`, until the wake-up in
`release` halts the machine, and it still implements `TaskLifecycle`.  From the two
follow that the wait queue holds exactly the live tasks in `acquire`, and that each
death changes `Count`'s account by one permit or one debt.

`DiskDriverProofs` proves, for every size of the disk and of a call and every speed of
the drive, all safety properties of the run `disk`.  Types and mutex are kept by
`Basic`, whatever the drive does.  That a transfer finds the drive ready, while the
driver is not misled, is not inductive.  `DInv` adds `Accounts`, what was moved and what
the drive has left make up the call; `PhaseInv`, the phases the drive can be in at each
place of a call (before a command it is never between two sectors, and if busy it has
none left); and `FlagInv`, where the driver may go on to wait, the flag and `INTRQ` are
clear until the drive has data.  This last part is where a drive that misleads the
driver breaks it: after a sector that was ready at once the flag is stale, and `ahead`
remembers it.  There is one lemma per action.

`TerminalProofs` proves, for every size of the ring, of the line and of a screen that a
line fits on, every table of keys and every output of commands, all properties of the
run `terminal`, until what their history variables remember happens. `ReadsInOrder`
needs `RingInv`: where the next key is put, that there is room for the keys while none
was put over another, and, between the two halves of `shutdown`'s reading of a key, that
the count it has read is not larger than what the ring holds.  The three properties of
the screen need `LineInv`, until a test task prints: there is a row that starts with the
prompt, in its color; behind it are the characters of the line, and at most one cell
more for each tab, up to the cursor.  Cells are found again after `Scroll` one row
higher.  What `printf` leaves behind is a fold over the text.  It keeps a place of its
own beside the cursor, which a line feed that scrolls leaves below the screen: what
follows of the text is lost, but the two are always in the same column (`Below`), and
each call begins where the cursor is.  That a text, and a command's texts, leave a
screen is shown by induction on the length of the text, on the set of lengths for which
it does.

`BuddyProofs` proves, for any number of roots and of levels from three on, all
properties of the run `buddy`, for requests that get blocks of the two smallest levels
(`SmallSizes`) and clients that keep the trees (`KeepsTrees`).  Both restrictions are
the code's: `Is_ChildAlloced` looks one level down only, and with `any` client the
properties fail (run `buddy_tree`).  There are two invariants.  `CarefulInv`: what is in
use is exactly what the trees flag, and any two of these nodes have memory apart.
`ShellInv`: the kernel's one block is the first leaf, with whatever the kernel has
written in the bytes of the tree that lie in it; `k_free` clears these bytes together
with the flag.  That `k_free` picks the right one of the nodes that share an address,
and that the search of `k_malloc` misses no free node, follow from facts about levels
and powers of two.

Where a proof needs induction, it uses the least element of a set (`NatLemmas`), since
the induction theorems of the library take an operator.  That the recursive functions
of the models exist at all (the walks, the folds) is proved in the same way.

`FileSystemProofs` proves, for every size of the disk, of the bitmaps, of a sector and
of a directory and every table of inodes the disk may hold before, all properties of
the run `file_system`: the types, the four safety invariants and that it implements
`DirectoryTree`.  But for the types they speak until the first `damage`, which is no
hypothesis about what is called: the theorems are about every behaviour of the code,
and say that only those four steps can break what they state.
`FileSystemRemovals` says in the same way that no step takes away the entry of a
directory that has entries (`EmptyIfGone`).  Without "until the first damage" this is
`RemovedIsEmpty`, which the run `file_system_children` refutes with a hidden entry.

None of the properties is inductive, because a call is many writes and the machine may
stop after any of them.  `FileSystemInv` says three things.

* Of the disk: `DirectoryInv`, the directories that can be reached from the root have
  marked blocks of their own and all their entries in the first sector; `EntryInv`, two
  entries never name the same inode, nor have the same name in one directory, and a
  file has no blocks; `ReservedInv`, what `Format` marked stays marked.
* Of the writes still `pending`: `StepInv`, each of them keeps this.  A bitmap to be
  written covers the blocks of all directories; a block to be cleared belongs to none
  of them; a block of entries is the working directory's with one entry added, removed
  or renamed; an inode is written last, after its blocks are marked and their headers
  empty.  This is where the order of the writes in the code matters.
* Of the disk when they are done: `ExactInv`.  `BlockBitsAtEnd`, `InodeBitsAtEnd` and
  `HeaderAtEnd` are what the last write to each leaves there.  Between calls these are
  the bitmaps themselves and `NothingLeaks` follows.

`FormatInv` says the same of a disk that is not formatted yet.  Once a `mkdir` has run
out of blocks, or a crash has left an entry whose inode was not written (`half`), less
is claimed: such an entry need not be marked, and `ExactInv` says nothing any more.
That `Directories`, a fixed number of rounds from the root, is the set of all that can
be reached, is proved by counting: as many rounds as there are inodes find all.  There
is one lemma per call (what its writes are, place by place, and that they satisfy
`StepInv`), one per kind of write, and one for a crash.  Each also says what happens to
the entries, all of them kept, or one added, removed or renamed; from this the steps of
`DirectoryTree` follow.

Only model-checked: liveness, which is out of reach of the prover.

## Not modelled, and the plan

* FPU switching.  `Scheduler` sets `CR0_TS`, `LastUsed_PID` and `Use_FPU` as the code
  does, but the handler is left out: a switch by the timer does not set the
  task-switched bit (`Scheduler.c:369`), so registers are lost whenever it
  happens, and no line of the code promises otherwise.
* `ChangePriority` has no caller.  `Insert_Task_At` in the middle has none either; it is
  in `TaskQueue` and switched off.
* Register contents, stacks and memory addresses of tasks; `at` stands for the
  saved context.
* The LED protocol and the set-up of the keyboard controller, busy waits on ports;
  `printk` at boot and of exceptions; the conversion of numbers; the hardware cursor;
  `GetParameter`, which writes through `argv[0]` before it is set (`Shell.c:151`); what
  `help`, `date` and `systeminfo` print; the string functions: names are model values.
* Reading a file or listing a directory changes nothing.
* Tables, hardware set-up, the 32-bit kernel, the boot loader and the image tool are
  straight-line code with no state to go wrong over time, and `src/Temp` is not compiled.

What is left: a model of the FPU registers, if a promise about them is written down, and
a proof for the task manager when tasks call in any order (`~Orderly`) of what still
holds then.
