# A verification of honeycomb

Honeycomb is a board application on the RT-Thread real-time kernel. This directory models in TLA+ the kernel
(`src/src`: scheduler, threads, timers, semaphores, mutexes, events, mailboxes, message queues, memory
pools), the services its drivers share (`src/components/drivers/src`: completions, data queues, work queues,
ring buffers, wait queues, pipes), the application (its command protocol and the threads that execute it)
and the bootloader. TLC checks the models on small instances. TLAPS proves the safety properties of all of them except
events, message queues and timers for every value of their constants, refinements included.

PROJECT.json lists the components, the runs, the source lines each definition stands for, and the hazards.

## 1. The system

### Parts and how they interact

| Part | Source | State | Operations |
|---|---|---|---|
| Scheduler | `scheduler.c` | one ready queue per priority, a bitmap of the non-empty ones, the current thread, the lock count | `rt_schedule`, insert, remove, enter/exit critical |
| Threads | `thread.c` | per thread: `stat`, priority, `error`, slice, a timer, one list node `tlist` | create, startup, exit, delete, yield, sleep, suspend, resume, control |
| Idle thread | `idle.c` | the defunct list | frees threads that have ended |
| Clock | `clock.c` | the tick | `rt_tick_increase`: time slice, then `rt_timer_check` |
| Timers | `timer.c` | a list sorted by timeout, per timer flags and `timeout_tick` | init, detach, start, stop, control, check |
| IPC | `ipc.c` | per object a wait list and its own data | take/release, send/receive, reset, detach |
| Memory pools | `mempool.c` | free list and counter, a list of waiters and its counter | alloc, free |
| Driver services | `components/drivers/src` | completion flag; data queue with two wait lists and a low-water mark; work list and work thread; ring with mirrored indices; wait queues; pipe over both | wait, done, push, pop, reset, dowork, cancel, put, get, open, close, read, write |
| Application | `bsp/stm32f4xx-HAL-BOX/applications` | frame parser, one command slot, a semaphore, buffers and flags of the settings | the receive interrupt parses, `mega32u4_uart` executes and replies, `thread_sensor` applies settings |
| Bootloader | `bsp/stm32f4xx-HAL-bootloader/applications` | program flash, `system.cfg`, `update.cfg` and the image on an SPI flash | compare versions, erase, copy, record, jump |

A thread has one list node. Suspending and resuming it moves the node between the ready queues and the
wait lists of the IPC objects. The bitmap, `stat`, the thread timer and the node must agree after every
such move, and several parties make them: the thread itself, other threads, interrupt handlers and the
thread's timer.

### What makes it hard

- Only sections between `rt_hw_interrupt_disable` and `rt_hw_interrupt_enable` are atomic, and many
  operations have two or three of them. A tick, an interrupt handler or a switch comes in between.
- A service that blocks suspends its caller with interrupts masked, unmasks, and only then calls
  `rt_schedule`. In that window a thread executes that is already suspended, and may be resumed before
  it stops.
- A time-out and a wake-up race for the same waiter.
- Mailboxes and message queues hand nothing over: a woken thread may find that another was faster.
- Message queues copy with interrupts enabled, while the slot is on no list.
- Mutexes change the priority of a thread that is in some list sorted by priority.
- Several services test a list or a flag with interrupts enabled and act on the result later
  (`rt_thread_resume`, `rt_data_queue_reset`, the work thread, `rt_completion_done`).
- A second frame overwrites the command slot, and the receive buffer its data point into, while the first
  is being executed; the line loses bytes.
- The power may fail at any moment of an update, and flash operations may fail.
- The tick counter wraps, and timeout functions start and stop timers while the list is walked.

## 2. The modules

All modules of the kernel describe one CPU. A masked section is one step. Between two steps any interrupt may come.

| Module | Models | State and actions |
|---|---|---|
| `Kernel` | scheduler, wait lists, thread timers, tick | `list` maps every list head to the threads linked to it; `group` is the bitmap; `resched` holds the threads between "unmask" and `rt_schedule`; `irq` says whether interrupts are masked or `rt_timer_check` runs. `Tick`, `TimerExpire`, `TimerCheckDone`, `Schedule`; primitives such as `ResumeThread` and `SuspendOn` for the services |
| `Threads` | thread API, scheduler lock, idle clean-up | `call` is the call each thread is in and the thread it acts on; one action per section (`ResumeCheck`, `ResumeUnlink`, `ResumeInsert`, ...) |
| `Semaphore` | take, release (thread and interrupt), reset | `value`, and in `pc` the call of each thread; `TakeAvailable`, `TakeWait`, `TakeReturn`, `Release`, `ReleaseFromISR`, `ResetBegin`, `ResetResume`, `ResetEnd` |
| `CountingSemaphore` | what a semaphore promises | units, waiting threads and what they were told |
| `Mutex` | take, release, nesting, priority inheritance, sleeping owners | `owner`, `hold`, `original_priority`, `value` |
| `Ipc` | what event, mailbox and message queue share | `Wait`, `WakeFirst`, reset in steps |
| `Event` | event sets with AND, OR, CLEAR | `set`; `SendLoop` folds the walk over the waiters |
| `Mailbox` | ring with two wait lists | `msg_pool`, `in_offset`, `out_offset`, `entry`; `left`, what is left of a call's timeout |
| `MessageQueue` | linked slots and a free list | `next`, `data`, head, tail, free, `entry`; `SendAlloc`, `SendCopy`, `SendLink`, `Recv`, `RecvFree` |
| `BoundedQueue` | what mailbox and message queue promise | a sequence |
| `Timers` | sorted list on a wrapping tick | `StartRemove`, `StartTime`, `StartInsert`, `StopCheck`, `StopRemove`, `StopEnd`, `TickIncrease`, `CheckFire`, `TimeoutStart`, `TimeoutStop`, `TimeoutReturn`, `CheckDone` |
| `CountdownTimers` | what timers promise | ticks that remain; the thread timers of `Kernel` are of this kind |
| `Waiting` | how the services above wait | `suspended`, `timer`, `error`, `call`; `SuspendOn`, `ResumeFirst`, `Timeout`. There are no priorities: any ready thread may go on, so that the services are checked for every assignment of them |
| `MemPool` | memory pools | `block_list`, `block_free_count`, `suspend_thread_count`; `Alloc`, `AllocAgain`, `Free` |
| `Completion` | completions | `completed`; `WaitSuspend`, `WaitReturn`, `DoneTest`, `DoneSection` |
| `DataQueue` | data queues | `put_index`, `get_index`, `queue`; `Push`, `Pop`, and reset in steps, with the scheduler locked |
| `WorkQueue` | work queues | `work_list`, `work_current`, and where the work thread is; `DoWork`, `DoWorkResume`, `CancelSync`, ... |
| `RingBuffer` | the ring buffer, as operators | `Put`, `Get`, `PutForce`, `PutCharForce`, `Contents` |
| `Pipe` | pipes over a ring and two wait queues | `Open`, `Close`; a read and a write in the steps between lock, wake-up and wait |
| `Drivers` | these services together | a behaviour uses one of them |
| `Protocol` | the frame parser | one disjunct of `AnalyzeByte` per parser state |
| `Panel` | peer, interrupt, `mega32u4_uart`, `thread_sensor` | `RxByte`, `Take`, `ReadCmd`, `UseByte`, `Raise`, `Reply`, `SensorLoop`, ... |
| `Bootloader` | the update at power-on, with power losses and failing flash operations | `stage` of the program, `flash`, `system`, `update`; `Begin`, `Erase`, `CopyUnit`, `Record`, `Load`, `PowerLoss`, ... |
| `KernelProofs`, `ThreadProofs`, `SemaphoreProofs`, `MutexProofs`, `MailboxProofs`, `PipeProofs`, `DriverProofs`, `BoardProofs` | the proofs (section 4) | |
| `MC...` | instances for TLC | |

Abstractions. The tick value is left out of `Kernel`: a thread timer is the number of ticks that remain,
which `Timers`
justifies by implementing `CountdownTimers`. Names, stacks, hooks, logging and the context switch itself are left out.
Interrupt handlers do not nest. A call that changes nothing (a failed poll) has no action. `Timers`
clears `timeout_tick` of an unlinked timer, which nothing reads; `Event` keeps `event_set` and
`event_info` with the pending call, the only time they are read. Deleting a thread sets CLOSE and links
it to the defunct list in one step, and the idle thread unlinks and frees it in one step.

In `Panel` the semaphore is a counter, which `sem` justifies; the commands are one of each kind; all data
bytes of a frame are its number, so that a mixture of two frames shows. In `Bootloader` a file is what the
code reads from it, sizes are counted in turns of the copy loop, and a unit or sector whose write or erase is interrupted
becomes `Torn`. `system.cfg` changes on the medium when it is closed. In `Drivers` a state in which the code takes
the head of an empty list for a thread or a work (`mp_stray`, `dq_stray`, `wq_stray`) ends the model of the service: what the program
does from there is not defined.

What `Threads` asks of callers, because the code does not protect it: one caller at a time resumes a
thread, and not one whose timer runs; another thread is suspended or deleted under the scheduler lock, and
deleted only when its timer does not run; the idle thread is left alone. `Timers` asks that one context at a time operates on a timer, that a periodic
timer has a period above 0, and, in the passing run, that a timeout function does not start its own timer.

Refinement mappings. `CountingSemaphore`: the count is `value` plus the units handed to threads that
have not returned yet (ready, in `rt_sem_take`, `error` still `RT_EOK`), and a thread asks while it is in
`rt_sem_take`. `BoundedQueue`: the mails
from `out_offset` on, `entry` of them, around the ring; or the data of the slots from the head on.
`CountdownTimers`: the signed distance from the tick to `timeout_tick`, at least 1 outside `rt_timer_check`.

## 3. What TLC checks

| Run | Shows |
|---|---|
| `threads` | list nodes, bitmap, `stat` and timers agree through create, startup, exit, deletion, priority change, yield, suspend and resume in their sections; the highest-priority thread runs; a thread is not preempted by one of its own priority |
| `sem` | no unit is lost, granted twice or left next to a waiter; only threads in `rt_sem_take` are linked; the code implements `CountingSemaphore`; a timed take comes back; equal priorities share the CPU |
| `mutex` | a mutex is free or owned, a take returns success exactly when it owns it; inheritance and its end, with timeouts and sleeping owners |
| `event` | no thread sleeps on events that are there; a receiver gets events it asked for and that were sent; a CLEAR event is received once |
| `mailbox` | no mail or free place is left next to a sleeping thread; repeated waits keep the timeout; the ring implements a bounded FIFO queue |
| `mq` | slots are conserved while messages are copied; tail and counter are exact; no message stranded; implements a bounded queue with urgent messages |
| `timers` | the sorted list implements `CountdownTimers` across the wrap of the tick: timers fire at their tick and none is passed over; `rt_timer_check` ends |
| `drivers` | blocks of a pool are conserved, and no thread waits next to a free one; nobody sleeps on a completion that is done; items of a data queue come out in order and once, and no thread is left waiting for them; a work is executed once, a synchronous cancel comes back; a pipe delivers its bytes in order, reader and writers do not wait for each other; what a forced put pushes out of a ring |
| `panel` | a frame is found exactly when it is undamaged, and a lost byte costs at most the next frame as well; a peer that waits for replies has its commands executed as sent; for one that does not, the last command wins; settings are applied whole, and in the end |
| `bootloader` | only erased flash is written; the recorded version is the installed one; no partial image is started; a usable update is installed in the end, however often the power fails |

Each run on `Kernel` except `timers` also checks `KernelInv`, the agreement of lists, bitmap, states and timers
(in `Consistent`, `Ownership`, `EventInv`, `NothingStranded` and `SlotsExact` together with types and what the name says).
`threads` checks `HighestRuns`, preemptive scheduling, and TLAPS proves it of `Threads` and `Semaphore`. It does not hold for
mutexes: a release that lowers its owner's priority and wakes nobody does not call `rt_schedule` (`ipc.c:888`).
`PriorityInherited` is checked for one mutex; the release of one of two nested mutexes drops what was inherited through the
other (`ipc.c:847`). Every property of these runs is broken by a mutant: a changed definition beside
the original, such as `SendNoWake` beside `Send`.

Where the code does less than one might expect, the properties say so in their statement: `DataInOrder` holds until the
16-bit `put_index` wraps; `ForceKeepsNewest` has the case in which `rt_ringbuffer_put_force` empties the ring;
`NoReaderStranded` is about a pipe with one reader; `NoWorkStranded` about a work thread of higher priority
than its clients; `SettingsApplied` leaves out the dial, whose flag is lowered after a delay; and
`suspend_thread_count` of a pool is only at least the number of waiters.

Runs that show a disagreement between the code and its own comments:

| Run | What happens |
|---|---|
| `timer_restart` | a one-shot timer started again by its own timeout function is listed but not active, and `rt_timer_stop` does not stop it |
| `write_fails` | a flash write that fails ends the copy loop of the bootloader, and the new version is recorded although its image is not there |

### Bounds

- Three threads besides idle: a waiter, a competitor and a third party, of equal (`threads`, `sem`)
  and of different priorities (`mutex`, `mailbox`). Two in `event` and `mq`, where the interrupt handler is the third party.
- `MaxDelay` 1 or 2 ticks: timers that fire at the next tick, later, and partly used up by an earlier wait.
  `event` and `mq` use the longest delay and "forever", `mailbox`,
  the largest model, only the delay. `Slice` 1: every tick ends a slice.
- `MaxValue` and `MaxHold` bound the semaphore value and the nesting of a mutex; `MaxNest` the lock.
- Mailbox of two places, queue of three slots: empty, in between, full, and the wrap. Two mails or
  messages tell an order from its reverse; they are only copied, so they are symmetric.
- Three event bits (symmetric) and two waiters: AND and OR sets that overlap in part.
- Three timers and twelve tick values (`RT_TICK_MAX` 11): the counter and the timeouts wrap at different moments. `MaxInit + MaxLate` stays below half of the counter, as the code
  needs: it asserts this of the period alone, and depends on not being held up for the rest.
- `drivers`: three threads, so that a third is faster than a thread that was woken; two blocks, two works, a data
  queue of two places with low-water mark 1; indices that wrap after 4 items, of 5. A ring of 3 bytes, reads and writes of
  1 and 4: they fit, wrap, and are larger than the ring. `MaxCount`, `MaxPushed`, `MaxBytes` bound counters.
- `panel`: three frames of any of six commands, one lost byte anywhere, a peer that waits for each reply and
  one that has two outstanding. With three frames the damaged one, the one it may spoil and one after it occur.
- `bootloader`: three versions with images of 1, 2 and 3 units, in a flash of two sectors of two units: inside one
  sector, exactly at its end, and in two. Three faults: a power loss in an update and again in the one that repeats it.

### Fairness

`sem` assumes that ticks keep coming (strong fairness: a tick that is masked stays pending), that the tick
handler and a masked section run to their ends (weak fairness: nothing interrupts them), and that a thread
about to call `rt_schedule` does so, although every tick handler suspends it for a while (strong fairness).
Nothing is assumed of application code: a thread may keep the CPU, or never release a semaphore. `timers` assumes that timeout
functions return and that `rt_timer_check` is not interrupted. `panel` assumes that `thread_sensor` and, between its delays,
`mega32u4_uart` go on; nothing of the peer. `bootloader` assumes that the bootloader goes on while there is power and that
the board is switched on again; nothing of the user, and power losses are bounded.

## 4. What TLAPS proves

Every theorem holds for any finite set of threads, any priorities, objects, sizes and bounds that satisfy the named
assumptions of its module (`ThreadAssumption`, `PrioAssumption`, ...). Each one rests on an inductive invariant that is stronger
than the property, with one lemma per action that keeps it. The bounds that cap counters for TLC are constants here, so the
theorems hold however large they are.

### Kernel objects

| Module | Theorem | Statement |
|---|---|---|
| `ThreadProofs` | `ThreadsConsistent` | `ThreadSpec => []Consistent`: nodes, bitmap, states and timers agree through all sections of the thread API |
| | `ThreadsPreempt` | `ThreadSpec => []HighestRuns` |
| | `TimeoutsPreemptUpwards` | `ThreadSpec => EqualPriorityNeverPreempts` |
| `SemaphoreProofs` | `SemaphoreTypes`, `KernelSafe`, `PreemptiveScheduling` | `Spec => []TypeOK`, `[]KernelInv`, `[]HighestRuns` of semaphores |
| | `NoUnitStranded`, `OnlyTakersWait` | `Spec => []NoUnitWhileWaiting`, `[]WaitersAreTaking` |
| | `SemaphoreCounts` | `Spec => ImplementsCounting`: the code implements `CountingSemaphore` |
| `MutexProofs` | `MutualExclusion` | `Spec => []Ownership` |
| | `PriorityComesBack`, `InheritanceHolds` | `Spec /\ []OneAtATime => []PriorityRestored`, `[]PriorityInherited` |
| `MailboxProofs` | `MailboxWakesEnough`, `MailboxKeepsTimeouts` | `Spec => []NothingStranded`, `[]TimeoutKept` |
| | `MailboxIsFifo` | `Spec => ImplementsFifo`: the code implements `BoundedQueue` |

What they share is proved once, in `KernelProofs`. First, what append, insert and remove do to the range and the injectivity of a
sequence. Then `MoveLemma`, which says that moving one node to the list that agrees with the new `stat` and
priority keeps `Queues`, the part of `KernelInv` on lists; `ResumeStep`, `SuspendOnStep`, `YieldStep` and `SetPriorityStep` apply it
to the primitives, `KernelStepInv` to the tick, the timers and the scheduler.

*Semaphores.* `HighestRuns` needs the exact bitmap, the bitmap needs nodes that are linked once, and this needs to know that a
waiter a release takes from the list is suspended and has its own node there. So
`IInv == KernelInv /\ HighestRuns /\ SemInv`, where `SemInv` is the types of `value` and `pc`, `NoUnitWhileWaiting`,
`WaitersAreTaking` and `WaiterErrorClear` (a waiter's `error` is still `RT_EOK`). `WaitersAreTaking` makes the node a release
unlinks that of a suspended thread in `rt_sem_take`, and lets a time-out unlink it without touching `value`. For the refinement
`ResetInv` is added (a reset runs with interrupts masked, and the value it will set is not there yet); the count of handed-over
units is a cardinality, and a step that hands one over, or collects it, changes it by one.

*Threads.* A call acts on another thread in several sections, and the others run in between. `ThreadIndInv` adds
`SectionInv`, what holds between two sections (a thread about to be resumed still waits and has no timer, one about to be
inserted is in no list, who suspends or deletes another holds the scheduler lock), `OneActor` (no two calls act on the same
thread), and `ReadyIsQueued`. These are kept only because of what `Threads` asks of callers.

*Mutexes.* `FreeOrOwned` and `TakerOwnsIffGranted` need each other (a hand-over finds a suspended thread in `rt_mutex_take`
because only such threads are linked; nobody else takes the mutex because it is not free), and both need `KernelInv`; the
invariant adds that the idle thread owns nothing: a change of its priority would empty the lowest queue. A take
with inheritance and a hand-over move two nodes in one masked section; they are proved with the state between the moves
(`InheritStep` and `BlockStep`, `RestoreStep` and `HandOverStep`). `HighestRuns` is no part of it (see section 3).
What is promised of priorities has a hypothesis, because the code keeps it only then: `OneAtATime`, no thread owns or waits for two
mutexes at once. A mutex remembers one priority to give back, and an owner inherits once, when a waiter arrives, so a
chain or a nest of mutexes breaks it (`ipc.c:847`). `InheritanceHolds` also asks for `RT_IPC_FLAG_PRIO`: after a hand-over the new owner of a FIFO mutex does
not inherit from those still waiting. `PrioInv` adds that the priority to give back is the owner's own and that the
first waiter is one of the most urgent.

*Mailboxes.* `IInv` is `KernelInv`, the offsets and `entry` of the ring, the calls of the waiters, what is left of their
timeouts, and that neither a mail nor a free place is stranded. A mail is not handed over, so
`NoMailStranded` counts: there are at least as many resumed receivers as mails while a receiver waits. `MailboxIsFifo` follows
from the offsets: a send writes the slot after the last, a receive takes the first, and the other slots keep their place around the ring.

### Driver services

`Drivers` lets a behaviour use one service, whose variables no other step changes. The theorems are about the specification
of each service alone (`PoolSpec`, `QueueSpec`, ...), which every behaviour of `Drivers` with that service satisfies.

| Module | Theorem | Statement |
|---|---|---|
| `DriverProofs` | `PoolSafe` | `PoolSpec => []PoolInv` |
| | `CompletionSafe` | `CompletionSpec => []NoWaiterWhileDone` |
| | `QueueKeepsOrder`, `QueueWakes` | `QueueSpec => []DataInOrder`, `[]NoDataStranded` |
| | `WorkSafe` | `WorkSpec => []WorkInv` |
| | `PipeKeepsOrder`, `PipeWakes`, `PipeForces` | `PipeSpec => []PipeInOrder`, `[]NoPipeStranded`, `[]ForceKeepsNewest` |
| `PipeProofs` | `PutAppends`, `GetTakesOldest` | the contents of a ring after `Put` and `Get`, for any size and any set of bytes |
| | `ForceDropsOldest` | the contents after `PutForce`: the newest bytes, or the case in which it empties the ring |

`DriverProofs` extends `PipeProofs`, which has the ring buffer, then what all services share, then the steps of the pipe. What is
shared is `WaitInv`: a thread is linked at most once, only when it is suspended in a call, and a running timer belongs to a
linked thread. The properties on stranded threads count (threads that were resumed against blocks or items that are there), and
`Counting` has the facts on cardinalities. The invariants are `PoolIndInv`, `CompletionIndInv`, `QueueIndInv` and
`WorkQueueIndInv`, each `WaitInv` with the data of the service.

The theorems on rings rest on `IsRing`, which says how the two mirror bits and the two indices relate, and on `RingLen`, which turns
it into the length; the rest is arithmetic: how a moving index changes the length (`WriteMoves`, `ReadMoves`), and slots counted
around the ring (`SlotOffset`, `WriteSlot`). For pipes `PipeIndInv` adds that the fifo is a ring, that a closed
pipe has no unread bytes (`PipeInv`), and in `PipeWaitInv` what keeps a reader and a writer from waiting for each other: which calls
a side may be in, and that whoever saw the ring full, or empty, is followed by a wake-up that is still to come.

### Board

| Module | Theorem | Statement |
|---|---|---|
| `BoardProofs` | `WritesErasedFlash` | `BootSpec => []Consistent`: the sectors that are erased cover what is written |
| | `RecordedVersionIsInstalled`, `BootedImageIsWhole` | `BootSpec => []RecordedIsInstalled`, `[]BootsWholeImage` |
| | `CommandsExecutedAsSent`, `LastCommandWins` | `Spec => []ExecutedAsSent`, `[]LastFrameWins` of the panel |
| | `ParserFindsFrames` | `Spec => FramesFound` |
| | `SettingsNotLost` | `Spec => []SettingsApplied` |

*Bootloader.* The invariant adds `Progress`: while an update is erased, copied or recorded it is newer than the recorded version
and usable, and what has been copied is the new image up to `cur_size`. It carries "whole" from the last turn
of the loop to the record. `BootsWholeImage` is proved as `LoadsWholeImage`, which says the same from the decision to load on.

*Panel.* `ParserInv` says where the parser is in the frame that is being sent: in step with it, behind by the byte
that was lost, or skipping what a damaged frame left. `WaitInv` ties the command slot, the semaphore and the replies together, `LastInv` says
that the slot holds the last frame found, and `SettingsInv` that a raised flag has its buffer filled. The first three theorems assume
`MaxLost <= 1`, at most one lost byte in a behaviour, and do not hold without it: a frame that loses its length byte and a data
byte can pass for another frame, since the checksum of a frame is a constant (`SettingsNotLost` needs no such assumption).

### Only model-checked

Liveness: the provers do not do it under fairness. Events: `SendLoop` folds the walk of a send over the waiters, and what the fold
leaves behind for a list of any length is an induction over that list, which is out of reach of the provers. Message queues: the contents are read
along the links with the recursive function `Nth`, and the same holds. Timers: that the sorted list implements
`CountdownTimers` is arithmetic modulo the tick range about the place of each timer in the list; it was not attempted.

## 5. Not modelled

- Hardware and vendor libraries, file systems, network stacks, shell, CPU ports, start-up, and parts that are not
  configured (slab, modules, signals, soft timers). PROJECT.json gives the reason for each.
- Detach and delete of semaphores, mutexes, events, mailboxes, message queues and pools, `rt_workqueue_destroy`: they end
  an object while others may be using it, which the API leaves to its callers. `rt_ipc_list_resume_all` tests its list
  unmasked there (`ipc.c:175`), as `rt_data_queue_reset` does, which is modelled.
- `rt_thread_resume` of a thread whose timer runs (`thread.c:707`): the timer may fire between its test and its section,
  which then unlinks a ready thread. `Threads` excludes such callers.
- The heaps (`mem.c`, `memheap.c`): address arithmetic under a semaphore, without concurrency of its own.
- Device reference counts (`device.c`) and the serial framework, whose fifo is emptied in the interrupt that fills it.
- A thread that ends while it owns a mutex: it needs `Threads` and `Mutex` in one composition.
- poll and ioctl of pipes, the sensor readings of the application: I/O without shared state that a property is about.
