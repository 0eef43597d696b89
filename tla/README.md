# TLA+ verification of the SylixOS kernel's blocking objects

SylixOS is a real-time operating system for one or several CPUs. This project
models the part of its kernel (`src/SylixOS/kernel`) on which every thread
depends when it waits for something: event control blocks, their wait queues,
the kernel lock with interrupts nested in it, timeouts, signals, suspension,
the objects built on them (counting semaphore, mutex, read-write semaphore,
message queue), timers, and the life of the threads themselves. It checks
the models with TLC on small instances and proves the central invariants of the
blocking objects and the life cycle, and that mutex, message queue and timers
implement their abstract specifications, with TLAPS for every instance.

The code comments (in Chinese) and `CHANGELOG` are the only documentation of
these internals; the repository has no tests for them.

## 1. Inventory

| component | state it keeps | operations | hard because | correct when |
|---|---|---|---|---|
| kernel lock, `core/_KernelStatus.c` | `CPU_iKernelCounter`, the lock | enter, enter with interrupts off, exit | an interrupt handler enters again on the CPU that has the lock, wherever a section has interrupts on | sections nest, the outer one goes on when the inner one is done |
| event control blocks and wait queues, `core/_EventHighLevel.c`, `_EventQueue.c`, `inline/inlSearchEventQueue.h`, `list/listEvent.c` | two queues of rings (one FIFO or `__EVENT_Q_SIZE` priority buckets), `WQ_usNum`, in each TCB the event it waits on, its bucket, status bits, timeout and deletion flags | wait, ready low level, ready high level, unqueue | readying is done in two pieces with interrupts on between them; a wait may end in four ways | queue, count and TCB agree; a thread is in the ready ring exactly once when nothing holds it |
| counting semaphore, `interface/SemaphoreC*.c` | counter, maximum, option, queue | create, delete, pend, try-pend, post, release, flush, clear | post, release, flush and clear may come from interrupts, in the windows of each other | no token beside a waiter, nobody stranded by deletion, the pend reports what happened |
| mutex, `interface/SemaphoreM*.c` | owner, recursion depth, the owner's saved priority, ceiling | create, delete, pend, post | hand-over to a thread that still sleeps, recursion, priority inheritance | one holder; no inversion against its waiters; the priority comes back |
| read-write semaphore, `interface/SemaphoreRW*.c` | users counted, status R or W, the writer and its recursion, two queues | create, delete, pend for reading, for writing, post | a post hands over to several readers, one at a time; it decides before interrupts are off | a writer is alone; nobody waits for a free one |
| message queue, `core/_MsgQueueLib.c`, `interface/MsgQueue*.c` | a list per priority, a map of the priorities in use, a free list, counter, a queue of receivers and one of senders | create, delete, send, urgent and broadcast send, receive, try, clear, flush | a message goes past the buffer into a sleeping receiver's memory; a sender woken for a slot starts over | each message once, in order; a receive reports what it got |
| binary semaphore, event set | a message pointer; a flag word | | the same windows | nothing lost, nobody stranded |
| tick and wakeup line, `core/_TimeTick.c`, `_WakeupLine.c` | a list of time differences, a cursor into it | add, delete, tick | what runs between two nodes of a scan moves the cursor | every timeout is met, none early |
| timers, `core/_ITimerThread.c`, `interface/Timer*.c` | the timer lists, the time they were last brought up to date | create, start, cancel, reset, delete, the scan by the interrupt or the timer thread | routines run with the kernel unlocked inside the scan; time passed is taken off when a node is added or deleted | every timer fires, high-speed ones at their tick |
| signals, `system/signal/signalLib.c` | masks, pending queue, contexts stacked on the thread | send, deliver, return | delivery ends a wait, the handler may wait itself | the interrupted call goes on as if undisturbed, or is told `EINTR` |
| scheduler, `core/_Sched.c`, `_SchedCand.c`, `_ReadyRing.c` | ready rings by priority, the candidate of each CPU | schedule, change priority, time slice | CPUs change each other's candidates | a CPU runs the most urgent ready thread it may run |
| thread life cycle, `interface/Thread*.c`, `core/_ThreadJoinLib.c`, `_ThreadSafeLib.c` | TCB table, free list, table of TCBs to be joined, join lists, safe mode | create, start, join, detach, delete, force delete, safe, unsafe, restart | a deletion takes several kernel sections, by the deleter or the exception thread, and others join, detach and delete in between | joins agree on both sides; no TCB in two places or free while referenced |
| deferred jobs and work queues, `core/_JobQueue.c`, `interface/InterDefer.c`, `WorkQueue.c` | ring buffer of calls | add, run, delete | added by interrupts while a thread runs them | every job once and in order |
| vutex, `vutex/vutexLib.c` | waiters hashed by address | wait, post | value tested and thread queued must be one step | no lost wakeup |
| rate-monotonic periods, partitions, regions, heap, coroutines, ids | | | mostly sequential | |
| everything else: POSIX layer, virtual memory, file systems, network, loader, shell, drivers, ports, applications | | | I/O, hardware, vendored code | not in scope |

How they interact. A blocking call takes the kernel lock, sets the TCB's
status, links the thread into the event's queue and, with a timeout, into the
wakeup line, and leaves the kernel, which switches to another thread. The wait
is ended by a call that readies the thread (`_EventReadyXxxLowLevel`, then
`_EventReadyHighLevel`), by the tick, by `API_ThreadWakeup` or by a signal, the
last three through `_EventUnQueue`. Each end writes flags into the TCB, and the
call reads them when the thread runs again. `PROJECT.json` lists the hazards at
their lines.

## 2. Modules

```
Event            wait machinery; no Next of its own, partial actions
  SemaphoreC     counting semaphore          MCSemaphoreC   instances
  SemaphoreM     mutex                       MCSemaphoreM   instances
    Lock         what a mutex promises
  SemaphoreRW    read-write semaphore        MCSemaphoreRW  instances
    ReadWriteLock
                 what a read-write semaphore promises
  MsgQueue       message queue               MCMsgQueue     instances
    Channel      what a message queue promises
WakeupLine       delta list with its cursor, operators on one record
  Timer          both kinds of timers        MCTimer        instances
    Countdown    what a high-speed timer promises
    TimerEarly   Timer with a history of when each timer is due
ThreadLife       threads from creation to the free list
                                             MCThreadLife   instances
QueueLemmas      sequences as queues
EventProofs      EXTENDS Event, QueueLemmas: the invariant of the wait machinery
  SemaphoreCProofs, SemaphoreMProofs, SemaphoreRWProofs, MsgQueueProofs
                 EXTEND the component and EventProofs
TimerProofs      EXTENDS Timer, QueueLemmas
ThreadLifeProofs EXTENDS ThreadLife
```

**Event** has the kernel lock, the wait queues, the TCB fields, and what ends a
wait from outside.

* *Windows.* What the kernel does with interrupts off is one step. A section
  that has interrupts on in the middle is a frame on the stack `frames[1..nest]`:
  `TakeFirst` is the piece up to the window (the waiter is off the queue, its
  PEND bit still set), a later step is `_EventReadyHighLevel`. Only the top
  frame moves; an interrupt handler (`IsrEnter`) may start a new one on top, a
  thread's call (`ThreadEnter`) only on an empty stack, because the kernel lock
  excludes other CPUs. The frame at the bottom may be an interrupt handler's.
* *Queues.* The buckets of a priority queue, in order, are one sequence `wq[e]`;
  `ring[t]` is the bucket the thread was put in (`TCB_ppringPriorityQueue`).
  `StaysAhead` is the comparison of `_AddTCBToEventPriority`.
* *TCB.* `usStatus` is the set of status bits; `inRing` counts how often the
  thread is linked into a ready ring, so that a double link shows.
* *Time.* `call[t].left` is what is left of the timeout of the call. The tick
  takes one off every call and then wakes the threads that are due, one by one
  with a window after each. A running tick is not interrupted by another one.
* *Signals.* `Signal` is `_doSignal` with a handler: `__sigMakeReady`, then the
  context on the stack `sig[t]` with the two flags and the scheduler result.
  The handler may make blocking calls. `SigReturn` is `__sigReturn`. Masks and
  queues of pending signals are left out.
* *History.* `call[t].got` is what the kernel has handed to the waiter; the code
  has no such field. `SemaphoreM` adds `held` and `basePrio`.

**SemaphoreC** and **SemaphoreM** add the objects' fields and one action per API
call; loops (`ReleaseLoop`, `FlushLoop`, `DeleteLoop`) are one action per
round. Calls that return an error without changing anything are left out,
except in pend, where they end a restarted call. Creation is one step, since
nobody has the handle before it returns. `MPost` is only called for a mutex a
pend has returned: the header of the file asks for pairs. **Lock** has an owner,
a depth and a set of waiters per mutex, no queues, sections or free list.
`IsLock` maps the owner to `Holder`: in the window of `MPost` the waiter in hand
has the mutex already, although `EVENT_pvTcbOwn` still names the old owner.

**SemaphoreRW** is one semaphore whose two queues are the two `Events`. `RWPost`
is in pieces as in the code: the decision whom to wake (with interrupts on),
the section that takes the waiters off, and one `_EventReadyHighLevel` per
round; ticks and `API_ThreadWakeup` come in between. `held` is a history
variable with what the pends have returned. None of the calls may be made by an
interrupt handler. **ReadWriteLock** has how often each thread reads and writes
and a set of waiters for each mode, no counter, status, queues or sections.
`IsReadWriteLock` maps a thread's holds to its `Claims`: a thread has let go when
`RWPost` begins, and a waiter is in when it is taken off its queue.

**MsgQueue** is one queue; receivers and senders are the two `Events`. The
buffer is a sequence per priority (`mono`) with the map and the free count the
code keeps beside it. A message handed to a waiting receiver goes into
`recv[t]`, which stands for the receiver's buffer and `TCB_pstMsgByteSize`. A
sender that was woken sends again from the start (`send[t]` has its arguments).
A message is a number; length and priority are functions of it, so that short
receive buffers (`E2BIG`, truncation with `LW_OPTION_NOERROR`) are in the model.
**Channel** has the pending messages of each priority in order, a limit and an
inbox per receiver, no buffer, windows or senders. `IsChannel` maps `mono` to
them (nothing is pending in a queue that is not there) and `recv[t].msg` to the
inbox.

**WakeupLine** has `_WakeupAdd`, `_WakeupDel`, and the scan macros of
`k_scanlink.h` as operators on a record: the nodes with their time differences,
the cursor `WU_plineOp` and the time since `WU_i64LastTime`. **Timer** uses it
twice. High-speed timers (kind H) are scanned by `API_TimerHTicks` in an
interrupt. Application timers (kind I) are scanned by `_ITimerThread`, which
sleeps until the first is due and takes the time it slept from the tick counter.
`scan[k]` is where the scan of a line is: between two nodes, or in a routine
called with the kernel unlocked, when every call on timers may be made. **Countdown** is
a number per timer that every tick takes one from; `HTimersCountDown` maps the
sum of the differences up to a node to it.

**ThreadLife** has a TCB per thread, the tables and lists it can be in
(`table`, `twj`, `freed`), the join pointers and lists, the two pointers of safe
mode (`deleteMe`, `deleteWait`) and the progress of each deletion (`job`). A
deletion is `Mark`, for a suicide `ExcJobAdd`, then `WaitDeath`, `ThreadUnlink`
and `ThreadRelease`, done by the caller (`pc = "works"`) or by the exception
thread, whose queue is `excQ`. Between any two of these everybody else runs,
the marked target too. `SignalExit` is how a signal takes a thread out of its
join. `pc = "sleep"` is the endless loop of a thread that waits for its own
deletion.

Every mutant (`X_Something`, before `X`) is a plausible slip in the code of `X`,
kept to show that the property it belongs to would notice.

## 3. What TLC checks

| run | instance | shows |
|---|---|---|
| `semc_isr` | 3 threads, 1 event, 3 nested sections, counter to 1, releases of 2, suspend nesting 2 | `TypeOK`, `QueueConsistent`, `NoTokenWithWaiters`, `FreeHasNoWaiter`, `ReadyRingOnce`, `HonestPend` in every window |
| `semc_signal` | 2 threads, a handler each, restart or `EINTR`, 2 priorities in one bucket | `HonestPend`, `HighestFirst` |
| `semc_live` | 2 threads, priority queue, priorities change | `TimedCallReturns`, `DeletedWaiterLeaves`, `QueueConsistent` |
| `semm_safe` | 3 threads, 2 priorities, an inheriting mutex, suspension, depth 2 | `TypeOK`, `OneHolder`, `FreeMutexIdle`, `InheritBound`, `NeverLowered`, `IsLock` |
| `semm_signal` | 2 threads, a handler each, a recursive or a normal mutex | `OneHolder` |
| `semm_live` | 2 threads, priority queue, priorities change | `WaiterServed`, `OneHolder` |
| `semrw` | 3 threads, either preference, each may have it twice | `TypeOK`, `WriterAlone`, `CounterCounts`, `FreeHasNoWaiterPreferred`, `IsReadWriteLock` |
| `msgq` | 2 threads, 2 nested sections, 3 messages of 2 lengths and 2 priorities, queues of 1 and 2 | `TypeOK`, `BufferConsistent`, `NoMessageWithReceiver`, `HonestReceive`, `IsChannel` |
| `timer` | 2 timers of any kind, once or repeating, intervals of 1 and 2 ticks, a timer thread up to 2 ticks late | `TypeOK`, `LineConsistent`, `HTimersCountDown` |
| `timer_fires` | the same, application timers only | `TimerFires` |
| `thread` | 3 TCBs, any kind of thread, safe mode once, 2 deletions, TCBs reclaimed at once or kept for a join | `TypeOK`, `ReadyRingOnce`, `JoinConsistent`, `DeleterAwaited`, `OnePlace`, `DeletionGoesOn` |

One run ends in a violation, a finding in `PROJECT.json`: `semrw_stuck`. With
reader preference, `RWPost` finds a reader waiting and decides to pass over the
writers; before it turns interrupts off, a tick ends the reader's wait. The
post then finds no reader, marks the semaphore free, and a writer waits for it.

*Refinements.* `HTimersCountDown` is `Timer => Countdown` for the high-speed
timers, with the additional demand that every call of `API_TimerHTicks` is a
tick there. `IsChannel` is `MsgQueue => Channel`, `IsLock` is
`SemaphoreM => Lock`, `IsReadWriteLock` is `SemaphoreRW => ReadWriteLock`. All
hold with all the windows the detailed modules have.

*Further configurations*, each of which ends in a counterexample that shows why
a hypothesis or a weaker property was chosen above:

| configuration | module | what it shows |
|---|---|---|
| `semc_signal_suspended.cfg` | `MCSemaphoreC` | a pend that timed out while its thread was suspended, and is then interrupted by a signal, returns `ERROR_NONE` without a token (`HonestPend`); the reason signals and suspension are checked apart |
| `semc_isr_wakeup.cfg` | `MCSemaphoreC` | `API_ThreadWakeupEx(id, LW_TRUE)` in an interrupt, in the window of a post, takes the waiter off its queue twice (`QueueConsistent`) |
| `semc_prio_changed.cfg` | `MCSemaphoreC` | a waiter's new priority does not move it in the queue (`HighestFirst`) |
| `semm_restore.cfg` | `MCSemaphoreM` | the waiter that lent its priority times out; the owner keeps it after its post (`PriorityRestored`) |
| `semm_two.cfg` | `MCSemaphoreM` | a thread that has two mutexes loses one; it gets back the priority saved for that one while an urgent thread waits for the other (`InheritBound`) |
| `semm_fifo.cfg` | `MCSemaphoreM` | an inheriting mutex with a FIFO queue is handed to a thread less urgent than the next one (`InheritBound`) |
| `semm_prio_changed.cfg` | `MCSemaphoreM` | the application lowers the priority of an owner somebody waits for (`InheritBound`) |
| `semm_lowered.cfg` | `MCSemaphoreM` | the application makes an owner more urgent; giving the mutex up puts it back to the priority saved before (`NeverLowered`) |
| `msgq_stuck.cfg` | `MCMsgQueue` | a sender woken for a free slot hands its message to a receiver, the slot stays free and a second sender waits on an empty queue (`NobodyStuck`) |
| `timer_early.cfg` | `TimerEarly` | a timer started while a late scan has time left to apply is charged for it, and its right neighbour is called early (`NeverEarly`) |
| `thread_forced.cfg` | `MCThreadLife` | a thread in safe mode whose deleter waits is deleted by force; nobody resumes the deleter (`DeleterAwaited`) |
| `thread_lost.cfg` | `MCThreadLife` | a thread is deleted by force after it unlinked another one from the table and before it put that TCB anywhere; the TCB stays lost (`NothingLost`) |

*Bounds.* Three threads are the fewest for a waiter in hand, another in the
queue and a third that arrives in the window; three sections let a handler
interrupt a handler inside a window. One tick suffices for a timeout to meet
any window. Two priorities in one bucket show the order inside it, which
insertion has to find by comparing; with three priorities in two buckets the
same run also passes, but takes twice as long. In
`semrw` the third thread is the writer that waits behind a reader; two
holds per thread give recursion and reading inside writing. In `msgq` two threads
and a handler give a waiting receiver, a second one and a sender that is neither;
capacity 1 makes senders wait. Two timers are the fewest with a right neighbour,
and a lag of two ticks is more than the first difference, which is when elapsed
time is lost. In `thread` two deletions among three TCBs let a deleter be
deleted, a joiner be deleted, and a TCB be used again after it. The threads are
symmetric in most safety runs. The liveness runs use no symmetry. `semm_safe`
and `semrw` use it although they check refinements too: `IsLock` and
`IsReadWriteLock` are safety properties, and the abstract specifications treat
all threads alike, so a step and its permutation agree on them.

*Deadlock* is checked everywhere but in `thread`: elsewhere a tick is always
possible between sections, so a deadlock would be a section that cannot go on.
In `ThreadLife` all threads may end, or join each other.

*Fairness.* In `semc_live` and `semm_live`, a handler ends and the section below
goes on (`SF` per depth), and a ready thread is scheduled and gets the kernel
lock (`SF` per thread). In `semc_live` the clock interrupt stays pending until
interrupts are on, so it is taken infinitely often if it can be (`SF` on
`Tick`). `semm_live` does not need the clock, but `WaiterServed` needs that an
owner posts, which the application owes (`SF` on `SemaphoreMPost`). Strong fairness is needed because other handlers may enter
whenever a section could go on; the hardware bounds their rate. In `timer_fires`
both timer interrupts keep coming and run to their end, and routines return
(`WF`); the timer thread competes for the kernel lock with the callers (`SF`).
`TimerFires` asks in addition that the calls on timers come to an end, since a
caller that resets a timer for ever keeps it from firing.

## 4. What is proved

Every theorem has the form `Spec => []P`, `Spec /\ []H => []P` for a hypothesis
`H` on the behaviour, or `Spec => A` for an abstract specification `A`, for any sets of threads, events and timers, any nesting depth
and all bounds of the model.

| module | theorem: property |
|---|---|
| `SemaphoreCProofs` | `TypeCorrect`: `TypeOK`; `ReadyRingCorrect`: `ReadyRingOnce`; `QueueCorrect`: `QueueConsistent`; `NoLostToken`: `NoTokenWithWaiters`; `DeleteStrandsNobody`: `FreeHasNoWaiter`; `HonestCorrect`: `HonestPend`; `HighestFirstCorrect`: `HighestFirst` |
| `SemaphoreMProofs` | `TypeCorrect`: `TypeOK`; `OneHolderCorrect`: `OneHolder`; `NobodyLeftBehind`: `FreeMutexIdle`; `InheritCorrect`: `InheritBound`; `NeverLoweredCorrect`: `NeverLowered`; `ImplementsLock`: `IsLock` |
| `SemaphoreRWProofs` | `TypeCorrect`: `TypeOK`; `WriterAloneCorrect`: `WriterAlone`; `CounterCorrect`: `CounterCounts`; `NobodyStuckPreferred`: `FreeHasNoWaiterPreferred`; `ImplementsReadWriteLock`: `IsReadWriteLock` |
| `MsgQueueProofs` | `TypeCorrect`: `TypeOK`; `BufferCorrect`: `BufferConsistent`; `NoMessageLeft`: `NoMessageWithReceiver`; `HonestReceiveCorrect`: `HonestReceive`; `ImplementsChannel`: `IsChannel` |
| `TimerProofs` | `TypeCorrect`: `TypeOK`; `LineCorrect`: `LineConsistent`; `ImplementsCountdown`: `HTimersCountDown` |
| `ThreadLifeProofs` | `TypeCorrect`: `TypeOK`; `ReadyRingCorrect`: `ReadyRingOnce`; `JoinCorrect`: `JoinConsistent`; `DeleterCorrect`: `DeleterAwaited`; `PlaceCorrect`: `OnePlace`; `DeletionGoesOnCorrect`: `DeletionGoesOn`; `NothingLostCorrect`: `NothingLost` |

They follow from one inductive invariant per module, proved in
`InductiveInvariant` (`InvariantAlways` in `ThreadLifeProofs`). `InheritCorrect`,
`NeverLoweredCorrect` and the last three theorems of `ThreadLifeProofs` need a
second one beside it.

*Assumptions.* Besides those on the constants, each stands for something the
code does not survive, and a configuration of section 3 shows the
counterexample without it:

| assumption | of | counterexample |
|---|---|---|
| `IsrWakesPended = FALSE`: no interrupt handler calls `API_ThreadWakeupEx` with `LW_TRUE` | everything over `Event` | `semc_isr_wakeup.cfg` |
| `MaxSig = 0 \/ MaxSuspend = 0`: signals and suspension do not meet | `HonestCorrect`; all of `SemaphoreMProofs`, as a pend that reports success without the mutex breaks exclusion | `semc_signal_suspended.cfg` |
| `PrioChanges = FALSE` | `HighestFirstCorrect`, `InheritCorrect`, `NeverLoweredCorrect` | `semc_prio_changed.cfg`, `semm_prio_changed.cfg`, `semm_lowered.cfg` |
| `OneAtATime`: the owner of a mutex neither has nor waits for another one | `InheritCorrect` | `semm_two.cfg` |
| a mutex that inherits queues by priority | `InheritCorrect` | `semm_fifo.cfg` |
| `ForcesAwaited = FALSE`: nobody deletes by force a thread that a deleter waits for | `ThreadLifeProofs` | `thread_forced.cfg` |
| `DeletersSpared`: nobody deletes a thread that is deleting another one | `NothingLostCorrect` | `thread_lost.cfg` |

*The wait machinery* (`EventProofs`). `EvInv` is `RingOnce` and `QueuesAgree`
with what makes them inductive: `EvWait` (a thread points to an event exactly
while its SEM bit is set; a thread in somebody's hand is not on the wakeup line;
a waiter's flags are as pend set them) and `EvFrames` (the waiter in hand of a
section is in nobody else's hand and still has its bit). A tick or a handler in
the window cannot touch the waiter in hand because `_EventReady...LowLevel`
takes it off the wakeup line too; a flush or post cannot because it is off the
queue; together they are the second conjunct of `WaitOK` and `QueuesAgree`.
`EvCalls` says that a call that waits knows its event, also one stacked under a
signal handler. `EvHonest` says that the flags a call will find after its wait,
in the TCB or in the context a handler returns to, are those of what was done
for it. There is a lemma per partial action of `Event`; `AbortWait` is proved
once for tick, wakeup and signal, `TakeFirst` once for post, release, flush and
delete. The objects' proofs use these and add their own variables.

*Counting semaphore.* `IInv` adds the counter's bound and no token with a
waiter, and that a deletion is at the bottom of the stack and its event is
`UNUSED`. For `HighestFirst`, `Sorted` says that `ring[t]` is the bucket of
`t`'s priority and that a queue is in order.

*Mutex.* `OneHolder` counts claims: what pends have returned, a hand-over the
waiter has not seen yet, and the hand-overs in the signal contexts of a thread
whose handler blocks. The invariant says who has each mutex by the section that
is open: during a post it is the waiter in hand, otherwise `EVENT_pvTcbOwn`
(`Has`, `Counts`); `OwnerOK` ties owner, counter, depth and queue.

`InheritCorrect` rests on a second invariant, `PrioInv`, which holds beside the
first while `OneAtATime` does (the theorem is `Spec /\ []OneAtATime =>
[]InheritBound`). `Urgent` is the bound, said of `Has`. It survives a hand-over
because the head of the queue is the most urgent waiter: `Ordered` says that the
queue is in order of bucket and priority. An owner that waits for its own mutex,
which a mutex without recursion lets it do, is boosted where it stands and may
then be out of order in its bucket; it is the one exception `Before` allows.
Leaving the window restores the old owner's priority, which must not be in any
queue at that moment (`PosterAwake`). A new waiter boosts the owner before it is
queued, so `InsertedAt` places it with the priorities after the boost. When
threads leave, for any reason, what stays is in the old order (`Shrinks`), so
those steps share one lemma.

`NeverLoweredCorrect` has an invariant of its own, `BaseInv`: what is saved for
the owner of a mutex is no less urgent than the owner's base priority
(`SavedOK`), also for one that was handed the mutex while it slept. `SavedOK`
speaks of the thread in `EVENT_pvTcbOwn` and not of the one that posts, so a
hand-over that forgot to save anew would break it.

For `IsLock` every action is shown to be one step of `Lock` or invisible: there
is a lemma per step of `Lock` (`SimAcquire`, `SimDepth`, `SimWait`, `SimGiveUp`,
`SimRelease`, `SimDestroy`), about owner, depth and waiters of one mutex while
the others stay, and the actions' lemmas give its premises. `OwnerOK` shows that
a pend that takes the mutex overtakes nobody, and `QueuesAgree` that a thread
that runs is in no queue.

*Read-write semaphore.* The invariant is by the section that is open. `Idle`:
the counter is the number of read holds, or there is one writer; `Posting`: the
writer in hand is the only one; `Releasing`: the holds of readers already taken
off the queue count too; `Deleting`: nobody new. `CounterCounts` is about a sum
over threads; it is stated as the cardinality of the set of pairs
(thread, k-th hold), of which a pend adds one and a post takes one away.

For `IsReadWriteLock` there is again a lemma per step of `ReadWriteLock`
(`SimGain`, `SimWait`, `SimGiveUp`, `SimAdmit`, `SimLeave`, `SimCreate`,
`SimDestroy`), about one thread's claims and the waiters of one mode. What the
steps demand comes from the invariant: `Posting` before a writer is let in,
`Releasing` in the loop over the readers, and `Preferred`, which also says that
with writer preference no writer waits while that loop runs. A reader that waits
may be let in past a waiting writer only after `bIgnWrite`. The end of a pend is
invisible: its claim is the same before, as a hand-over, and after, as a hold.

*Message queue.* `BufferInv` is `BufferConsistent` with the finiteness of the
set of linked nodes, of which a send adds one and a receive takes the one of the
least priority in the map. `SectionInv` says what the window of each call knows
when it goes on (a broadcast its message, a handler's send the message it has
still to place) and that the queues of a control block that is not in use are
empty unless its deletion is under way, so that creation finds them so.
`ReceiveOK` ties the receiver's buffer to the history: a message or a refusal is
there exactly when a send has taken the receiver off the queue. `EvHonest` then
gives `HonestReceive`. For `IsChannel` each action's lemma also says which step
of `Channel` it is: a store accepts, a hand-over needs `NoMessageWithReceiver`
to overtake nobody, and what wakes, flushes or times out a waiter changes nothing
that `Channel` sees.

*Timers.* `WaitOf`, the sum of the counters up to a place in the line, is a
recursive function. That it is one, and how sums move when a node is linked,
unlinked or counted down, is proved from the least number that would be an
exception (`UpTo`), since the library's induction needs an operator parameter.
On it rest the lemmas about lines: `_WakeupAdd` makes the new node wait what was
asked and nobody else differently, `_WakeupDel` delays nobody, and a tick taken
off the first node is taken off every node. `IInv` then says that a line holds
exactly the timers that run (`Members`), that none waits longer than `MaxCount`,
that a timer that runs has an interval (`Started`, so that one that starts over
is not due at once), and, in `HScan`, where a high-speed scan can be: between
scans nobody is due; within one the tick has been applied, and every node that
is due is ahead of the cursor, which is first or at a node that is not due
(`MidScan`). The last is what routines that start and cancel timers in the
middle of a scan could break, and `WU_plineOp` being moved by `_WakeupDel` is
what saves it. For `HTimersCountDown` every action is shown to be a step of
`Countdown` or not seen by it, and `API_TimerHTicks` to be its `Tick`. Of the
application timers no such refinement holds: `timer_early.cfg` is the
counterexample.

*Thread life cycle.* `PlaceInv` says that the table, the wait-join table, a
deletion that has unlinked the TCB, and the free list exclude each other; `JobInv` ties
`TCB_iDeleteProcStatus` to the progress of the deletion, `SafeInv` says that a
thread inside a deletion has entered safe mode once more than the application
made it (so the decrement at the end cannot pass below zero), and `WaitInv` that
nobody waits for a thread whose deletion has begun. Who does a deletion is a
second invariant, `WorkInv`: the exception thread has the jobs it was given, and
a thread that deletes another one works on nothing else and is ready until it is
over. It gives `DeletionGoesOn`: somebody goes on with every deletion that has
begun (`GoesOn`), unless the thread that does it is over (`Abandoned`); and
`OnePlace`, which counts an unlinked TCB as placed only while somebody goes on
with it, and otherwise as lost. The code can lose one: `API_ThreadForceDelete`
does not look at safe mode, so it may delete a deleter in the middle of its work
(`thread_lost.cfg`). `NothingLostCorrect` says that this is the only way: with
`NoOrphan`, no TCB is lost in any behaviour where nobody deletes a deleter.

*Only model-checked.* The liveness properties (`TimedCallReturns`,
`DeletedWaiterLeaves`, `WaiterServed`, `TimerFires`), whose fairness is out of
the prover's reach. Every safety property and refinement of a passing run is
proved, some under the assumptions above.

## 5. Not modelled

* The scheduler's choice among ready threads (every ready thread may step), the
  spinlock under the kernel lock, the change of another CPU's thread status by
  IPI.
* Masks and queues of signals. Signals and suspension are in `SemaphoreC` and
  `SemaphoreM`, not in `SemaphoreRW` and `MsgQueue`, whose paths through
  `_EventUnQueue` are the same code.
* `LW_OPTION_DELETE_SAFE`, which would tie the mutexes to `ThreadLife`, and what
  the deletion of a thread does to its wait on an event. In `ThreadLife` a
  thread blocks only in a join or for a deletion.
* `API_ThreadRestart` and processes. A restart has the steps of a deletion and
  multiplies the states by more than the time for a run allows; it would also
  meet the hazard at `ThreadRestart.c:307`. Resuming, by an application, a
  thread that waits for a deletion is left out too, and so is an overflow of
  the exception thread's job queue.
* The tick of `Event` counts down a number per call, and `WakeupLine` shows how
  the delta list does that for timers; the two are not composed.
* The status and information calls, which only read.
* Wrap-around of tick counters at the width of `ULONG`.
* Allocators, coroutines, the POSIX layer, memory management, file systems,
  network, loader, shell and drivers: I/O, hardware or vendored code, most of the
  repository by size. `PROJECT.json` gives the reason for each component.

## 6. Plan

1. Done: `Event`, `SemaphoreC`, `SemaphoreM` with `Lock`, `SemaphoreRW` with `ReadWriteLock`, `MsgQueue` with
   `Channel`, `WakeupLine` and `Timer` with `Countdown`, `ThreadLife`.
2. Proofs: done for every safety property of `SemaphoreC`, `SemaphoreM`,
   `SemaphoreRW`, `MsgQueue`, `Timer` and `ThreadLife`, and for the refinements
   of `Lock`, `ReadWriteLock`, `Channel` and `Countdown`.
3. Models: `SemaphoreB` (with `PostEx` and `PendEx`) and `EventSet` over `Event`;
   `Sched` (ready rings, candidates, exchange between CPUs); `JobQueue`, `Vutex`,
   `Partition`, `Rms`; restart in `ThreadLife`.
