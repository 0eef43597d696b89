------------------------------- MODULE Event -------------------------------
(***************************************************************************)
(* The wait machinery every blocking kernel object of SylixOS shares: the  *)
(* wait queues of an event control block, the fields of a thread control   *)
(* block a wait reads and writes, the kernel lock with the interrupt       *)
(* handlers that nest inside it, and what ends a wait from outside: a tick,*)
(* API_ThreadWakeup, a signal.  An object (SemaphoreC, ...) EXTENDS this   *)
(* module and builds its API calls from the partial actions below.         *)
(*                                                                         *)
(* Every partial action names the variables it changes.  The kernel runs   *)
(* them with interrupts off, so each is one atomic piece of a step.        *)
(***************************************************************************)
EXTENDS Integers, Sequences, FiniteSets, SequencesExt

CONSTANTS
  Threads,        \* thread control blocks
  Events,         \* the pool of event control blocks, _K_eventBuffer
  Null,           \* LW_NULL
  Priorities,     \* thread priorities; a smaller number is more urgent
  EventQWidth,    \* priorities per bucket of a priority queue: 2^__EVENT_Q_SHIFT
  MaxNest,        \* bound: kernel sections nested on the CPU that owns the lock
  MaxTimeout,     \* bound: longest finite timeout, in ticks
  MaxSig,         \* bound: signal handlers stacked on one thread (0: no signals)
  MaxSuspend,     \* bound: suspend nesting (0: nobody suspends)
  PrioChanges,    \* is API_ThreadSetPriority in use
  IsrWakesPended  \* may an interrupt handler call API_ThreadWakeupEx(id, LW_TRUE)

ASSUME EventAssumption ==
  /\ Null \notin Threads \cup Events
  /\ Priorities \subseteq Nat
  /\ EventQWidth \in Nat \ {0}
  /\ MaxNest \in Nat \ {0}
  /\ MaxTimeout \in Nat
  /\ MaxSig \in Nat
  /\ MaxSuspend \in Nat
  /\ PrioChanges \in BOOLEAN
  /\ IsrWakesPended \in BOOLEAN

VARIABLES
  nest,             \* CPU_iKernelCounter of the CPU that holds the kernel lock
  frames,           \* frames[1..nest]: the kernel sections it is inside, top last
  wq,               \* EVENT_wqWaitQ: the buckets of the queue, one after another
  wqNum,            \* WQ_usNum
  usStatus,         \* TCB_usStatus, the set of its bits
  inRing,           \* how often the thread is linked into a ready ring
  waitOn,           \* TCB_peventPtr
  ring,             \* TCB_ppringPriorityQueue, the bucket the thread waits in
  ucPriority,       \* TCB_ucPriority
  ucWaitTimeout,    \* TCB_ucWaitTimeout
  ucIsEventDelete,  \* TCB_ucIsEventDelete
  ulSuspendNesting, \* TCB_ulSuspendNesting
  call,             \* the blocking call the thread is in: its locals
  sig               \* the signal contexts stacked on the thread (SIGCTLMSG)

kernVars  == <<nest, frames>>
queueVars == <<wq, wqNum>>
waitVars  == <<usStatus, inRing, waitOn, ucWaitTimeout>>
eventVars == <<kernVars, queueVars, waitVars, ring, ucPriority,
               ucIsEventDelete, ulSuspendNesting, call, sig>>

-----------------------------------------------------------------------------
(* Values.                                                                 *)

DELAY   == "DELAY"
SUSPEND == "SUSPEND"
PendAny == {"SEM"}                     \* LW_THREAD_STATUS_PEND_ANY of these objects
StatusBits == PendAny \cup {DELAY, SUSPEND}

Infinite == -1                         \* LW_OPTION_WAIT_INFINITE
NotWait  == 0                          \* LW_OPTION_NOT_WAIT
Timeouts == Infinite .. MaxTimeout

(* got is a history variable: what the kernel has handed to the waiter.    *)
Got == {"no", "token", "flush", "deleted"}
SchedRets == {"NONE", "EINTR", "RESTART"}

Call == [pc    : {"run", "pend", "again"},
         ev    : Events \cup {Null},
         left  : Timeouts,             \* ulTimeout less the ticks gone by
         inter : BOOLEAN,              \* ulEventOption & LW_OPTION_SIGNAL_INTER
         ret   : SchedRets,            \* iSchedRet
         got   : Got]

Running == [pc |-> "run", ev |-> Null, left |-> NotWait, inter |-> FALSE,
            ret |-> "NONE", got |-> "no"]

(* LW_CLASS_SIGCTLMSG with the register context that resumes the call.     *)
SigCtx == [call : Call, iSchedRet : SchedRets,
           ucWaitTimeout : {"CLEAR", "OUT"}, ucIsEventDelete : {"EXIST", "DELETE"}]

(* A kernel section stopped where interrupts are on.  tcb # Null: a waiter *)
(* is off its queue and _EventReadyHighLevel has still to run.             *)
Ops == {"post", "release", "flush", "delete", "tick"}
Frame == [op : Ops, ev : Events \cup {Null}, tcb : Threads \cup {Null}, n : Nat]
NoFrame == [op |-> "post", ev |-> Null, tcb |-> Null, n |-> 0]

IsReady(t) == usStatus[t] = {}         \* __LW_THREAD_IS_READY

(* Some call has taken t off its queue and has still to make it ready.      *)
InLimbo(t) == \E i \in 1..nest : frames[i].tcb = t

(* The types of the variables above, by the part they belong to.           *)
KernType   == nest \in 0..MaxNest /\ frames \in [1..MaxNest -> Frame]
QueueType  == wq \in [Events -> Seq(Threads)] /\ wqNum \in [Events -> Int]
StatusType == usStatus \in [Threads -> SUBSET StatusBits]
RingType   == inRing \in [Threads -> Int]
WaitType   == waitOn \in [Threads -> Events \cup {Null}]
FlagType   == /\ ucWaitTimeout \in [Threads -> {"CLEAR", "OUT"}]
              /\ ucIsEventDelete \in [Threads -> {"EXIST", "DELETE"}]
PrioType   == ring \in [Threads -> Nat] /\ ucPriority \in [Threads -> Priorities]
NestType   == ulSuspendNesting \in [Threads -> 0..MaxSuspend]
CallType   == call \in [Threads -> Call]
SigType    == sig \in [Threads -> Seq(SigCtx)]

EventType == /\ KernType /\ QueueType /\ StatusType /\ RingType /\ WaitType
             /\ FlagType /\ PrioType /\ NestType /\ CallType /\ SigType

(* All threads run; no event is in use.                                    *)
EventInit ==
  /\ nest = 0
  /\ frames = [i \in 1..MaxNest |-> NoFrame]
  /\ wq = [e \in Events |-> <<>>]
  /\ wqNum = [e \in Events |-> 0]
  /\ usStatus = [t \in Threads |-> {}]
  /\ inRing = [t \in Threads |-> 1]
  /\ waitOn = [t \in Threads |-> Null]
  /\ ring = [t \in Threads |-> 0]
  /\ ucPriority \in [Threads -> Priorities]
  /\ ucWaitTimeout = [t \in Threads |-> "CLEAR"]
  /\ ucIsEventDelete = [t \in Threads |-> "EXIST"]
  /\ ulSuspendNesting = [t \in Threads |-> 0]
  /\ call = [t \in Threads |-> Running]
  /\ sig = [t \in Threads |-> <<>>]

-----------------------------------------------------------------------------
(* The kernel lock.  A thread enters when nobody is inside; an interrupt   *)
(* handler also nests in a section that has interrupts on, and runs to its *)
(* end before that section goes on.  Every frame on the stack is such a    *)
(* section: what runs with interrupts off is a single step.                *)

ThreadEnter == nest = 0
IsrEnter    == nest < MaxNest

SetFrame(d, f) == /\ frames' = [frames EXCEPT ![d] = f]
                  /\ nest' = d

EndFrame(d) == /\ frames' = [frames EXCEPT ![d] = NoFrame]
               /\ nest' = d - 1

-----------------------------------------------------------------------------
(* Wait queues.                                                            *)

EventWaitNum(e) == wqNum[e]

EventIndexQ(p) == p \div EventQWidth

(* Where _AddTCBToEventPriority puts t: in its own bucket, before the first *)
(* waiter that is strictly less urgent, otherwise at the bucket's end.      *)
(* prio is TCB_ucPriority at this moment: a mutex boosts its owner first.   *)
(* Mutant: the order inside a bucket is not looked at.                       *)
StaysAhead_BucketOnly(u, t, prio) == ring[u] =< EventIndexQ(prio[t])

StaysAhead(u, t, prio) ==
  \/ ring[u] < EventIndexQ(prio[t])
  \/ /\ ring[u] = EventIndexQ(prio[t])
     /\ prio[u] =< prio[t]

PriorityPlace(s, t, prio) ==
  CHOOSE i \in 1 .. Len(s) + 1 :
    /\ \A j \in 1 .. i - 1 : StaysAhead(s[j], t, prio)
    /\ i =< Len(s) => ~StaysAhead(s[i], t, prio)

AddTCBToEventPriority(s, t, prio) == InsertAt(s, PriorityPlace(s, t, prio), t)

AddTCBToEventFifo(s, t) == Append(s, t)

(* _EventWaitFifo and _EventWaitPriority with the TCB fields the API has    *)
(* set just before.                                                        *)
(* Mutant: TCB_ucIsEventDelete is not set to LW_EVENT_EXIST before the wait. *)
EventWait_StaleDelete(e, t, byPriority, timed, prio) ==
  /\ waitOn' = [waitOn EXCEPT ![t] = e]
  /\ inRing' = [inRing EXCEPT ![t] = @ - 1]
  /\ wq' = [wq EXCEPT ![e] = IF byPriority THEN AddTCBToEventPriority(@, t, prio)
                                           ELSE AddTCBToEventFifo(@, t)]
  /\ wqNum' = [wqNum EXCEPT ![e] = @ + 1]
  /\ ring' = [ring EXCEPT ![t] = IF byPriority THEN EventIndexQ(prio[t]) ELSE @]
  /\ usStatus' = [usStatus EXCEPT ![t] =
                    @ \cup {"SEM"} \cup (IF timed THEN {DELAY} ELSE {})]
  /\ ucWaitTimeout' = [ucWaitTimeout EXCEPT ![t] = "CLEAR"]
  /\ UNCHANGED ucIsEventDelete

EventWait(e, t, byPriority, timed, prio) ==
  /\ waitOn' = [waitOn EXCEPT ![t] = e]
  /\ inRing' = [inRing EXCEPT ![t] = @ - 1]
  /\ wq' = [wq EXCEPT ![e] = IF byPriority THEN AddTCBToEventPriority(@, t, prio)
                                           ELSE AddTCBToEventFifo(@, t)]
  /\ wqNum' = [wqNum EXCEPT ![e] = @ + 1]
  /\ ring' = [ring EXCEPT ![t] = IF byPriority THEN EventIndexQ(prio[t]) ELSE @]
  /\ usStatus' = [usStatus EXCEPT ![t] =
                    @ \cup {"SEM"} \cup (IF timed THEN {DELAY} ELSE {})]
  /\ ucWaitTimeout' = [ucWaitTimeout EXCEPT ![t] = "CLEAR"]
  /\ ucIsEventDelete' = [ucIsEventDelete EXCEPT ![t] = "EXIST"]

(* _EventReadyFifoLowLevel, _EventReadyPriorityLowLevel: the first waiter   *)
(* leaves the queue and the wakeup line, and nothing else of it changes.    *)
FirstWaiter(e) == Head(wq[e])

(* Mutant: the waiter is left on the wakeup line.                            *)
EventReadyLowLevel_KeepsDelay(e) ==
  /\ wq' = [wq EXCEPT ![e] = Tail(@)]
  /\ wqNum' = [wqNum EXCEPT ![e] = @ - 1]
  /\ UNCHANGED usStatus

EventReadyLowLevel(e) ==
  /\ wq' = [wq EXCEPT ![e] = Tail(@)]
  /\ wqNum' = [wqNum EXCEPT ![e] = @ - 1]
  /\ usStatus' = [usStatus EXCEPT ![FirstWaiter(e)] = @ \ {DELAY}]

(* _EventReadyHighLevel.                                                   *)
(* Mutant: a waiter that is also suspended is put into the ready ring.       *)
EventReadyHighLevel_Always(t) ==
  /\ waitOn' = [waitOn EXCEPT ![t] = Null]
  /\ ucWaitTimeout' = [ucWaitTimeout EXCEPT ![t] = "CLEAR"]
  /\ usStatus' = [usStatus EXCEPT ![t] = @ \ {"SEM"}]
  /\ inRing' = [inRing EXCEPT ![t] = @ + 1]

EventReadyHighLevel(t) ==
  LET timedOut == ucWaitTimeout[t] = "OUT"
      status   == IF timedOut THEN usStatus[t] ELSE usStatus[t] \ {"SEM"}
  IN  /\ waitOn' = [waitOn EXCEPT ![t] = Null]
      /\ ucWaitTimeout' = [ucWaitTimeout EXCEPT ![t] = "CLEAR"]
      /\ usStatus' = [usStatus EXCEPT ![t] = status]
      /\ inRing' = [inRing EXCEPT ![t] = IF ~timedOut /\ status = {} THEN @ + 1 ELSE @]

(* The calls that ready waiters.  A piece with interrupts off takes the     *)
(* first waiter off its queue and leaves the call in a window as frame d;   *)
(* a later step makes that waiter ready; a loop goes on from there.         *)
GotOf(op) == CASE op = "flush" -> "flush" [] op = "delete" -> "deleted" [] OTHER -> "token"

TakeFirst(op, e, n, d) ==
  /\ EventWaitNum(e) > 0
  /\ EventReadyLowLevel(e)
  /\ call' = [call EXCEPT ![FirstWaiter(e)].got = GotOf(op)]
  /\ SetFrame(d, [op |-> op, ev |-> e, tcb |-> FirstWaiter(e), n |-> n])
  /\ UNCHANGED <<inRing, waitOn, ucWaitTimeout, ring, ucPriority, ucIsEventDelete,
                 ulSuspendNesting, sig>>

notKern == <<queueVars, waitVars, ring, ucPriority, ucIsEventDelete,
             ulSuspendNesting, call, sig>>

(* _EventUnQueue.                                                          *)
(* Mutant: the bucket is computed from the thread's present priority, so the *)
(* thread stays linked into the one it was put in.                           *)
EventUnQueue_PresentBucket(t) ==
  IF waitOn[t] = Null
  THEN UNCHANGED <<queueVars, waitOn>>
  ELSE /\ wq' = [wq EXCEPT ![waitOn[t]] =
                   IF ring[t] = EventIndexQ(ucPriority[t]) THEN RemoveFirst(@, t) ELSE @]
       /\ wqNum' = [wqNum EXCEPT ![waitOn[t]] = @ - 1]
       /\ waitOn' = [waitOn EXCEPT ![t] = Null]

EventUnQueue(t) ==
  IF waitOn[t] = Null
  THEN UNCHANGED <<queueVars, waitOn>>
  ELSE /\ wq' = [wq EXCEPT ![waitOn[t]] = RemoveFirst(@, t)]
       /\ wqNum' = [wqNum EXCEPT ![waitOn[t]] = @ - 1]
       /\ waitOn' = [waitOn EXCEPT ![t] = Null]

(* The body _ThreadTick, __sigMakeReady and API_ThreadWakeupEx share: off   *)
(* the wakeup line, off the wait queue, ready if no other bit holds it.     *)
(* A thread that waited for nothing has its timeout flag set to otherwise.  *)
AbortWait(t, otherwise) ==
  LET pending == usStatus[t] \cap PendAny # {}
      status  == usStatus[t] \ ({DELAY} \cup PendAny)
  IN  /\ usStatus' = [usStatus EXCEPT ![t] = status]
      /\ ucWaitTimeout' = [ucWaitTimeout EXCEPT ![t] = IF pending THEN "OUT" ELSE otherwise]
      /\ IF pending THEN EventUnQueue(t) ELSE UNCHANGED <<queueVars, waitOn>>
      /\ inRing' = [inRing EXCEPT ![t] = IF status = {} THEN @ + 1 ELSE @]

-----------------------------------------------------------------------------
(* What ends or disturbs a wait.  The variables of the object itself stay   *)
(* as they are.                                                            *)

(* The tick interrupt.  _ThreadTick takes a tick off every thread on the    *)
(* wakeup line, then wakes the ones that are due, with interrupts on        *)
(* between two of them.                                                    *)
(* Mutant: the last tick of a timeout is never counted.                      *)
OneTickLess_KeepsLast(c) == [c EXCEPT !.left = IF @ > 1 THEN @ - 1 ELSE @]

OneTickLess(c) == [c EXCEPT !.left = IF @ > 0 THEN @ - 1 ELSE @]

Due(c, t) == c[t].left = 0 /\ DELAY \in usStatus[t]

TickFrame == [op |-> "tick", ev |-> Null, tcb |-> Null, n |-> 0]

Tick ==
  /\ IsrEnter
  /\ \A i \in 1..nest : frames[i].op # "tick"
  /\ call' = [t \in Threads |-> OneTickLess(call[t])]
  /\ sig' = [t \in Threads |-> [k \in DOMAIN sig[t] |->
              [sig[t][k] EXCEPT !.call = OneTickLess(@)]]]
  /\ \/ /\ \E t \in Threads : Due(call', t) /\ AbortWait(t, "CLEAR")
        /\ SetFrame(nest + 1, TickFrame)
     \/ /\ \A t \in Threads : ~Due(call', t)
        /\ UNCHANGED <<kernVars, queueVars, waitVars>>
  /\ UNCHANGED <<ring, ucPriority, ucIsEventDelete, ulSuspendNesting>>

TickNext ==
  /\ nest > 0 /\ frames[nest].op = "tick"
  /\ \/ /\ \E t \in Threads : Due(call, t) /\ AbortWait(t, "CLEAR")
        /\ UNCHANGED kernVars
     \/ /\ \A t \in Threads : ~Due(call, t)
        /\ EndFrame(nest)
        /\ UNCHANGED <<queueVars, waitVars>>
  /\ UNCHANGED <<ring, ucPriority, ucIsEventDelete, ulSuspendNesting, call, sig>>

(* API_ThreadWakeupEx.  Without withInfPend only a thread on the wakeup     *)
(* line is woken.  The function has no test for interrupt context.          *)
ThreadWakeup(t, withInfPend) ==
  /\ ThreadEnter \/ (IsrEnter /\ (withInfPend => IsrWakesPended))
  /\ ~IsReady(t)
  /\ withInfPend \/ DELAY \in usStatus[t]
  /\ AbortWait(t, ucWaitTimeout[t])
  /\ UNCHANGED <<kernVars, ring, ucPriority, ucIsEventDelete,
                 ulSuspendNesting, call, sig>>

(* _doSignal: __sigMakeReady, then __sigCtlCreate stacks the handler's      *)
(* context.  saType is LW_SIGNAL_RESTART for a handler with SA_RESTART.     *)
(* One sent from an interrupt is deferred to a kernel thread.  A signal to  *)
(* a thread in no blocking call finds no wait to disturb and is left out.   *)
Signal(t, saType) ==
  LET blocked == usStatus[t] \cap ({DELAY} \cup PendAny) # {}
  IN
  /\ ThreadEnter
  /\ call[t].pc # "run" /\ Len(sig[t]) < MaxSig
  /\ IF IsReady(t) THEN UNCHANGED <<waitVars, queueVars>> ELSE AbortWait(t, "CLEAR")
  /\ sig' = [sig EXCEPT ![t] = Append(@,
              [call            |-> call[t],
               iSchedRet       |-> IF blocked THEN saType ELSE "NONE",
               ucWaitTimeout   |-> ucWaitTimeout'[t],
               ucIsEventDelete |-> ucIsEventDelete[t]])]
  /\ call' = [call EXCEPT ![t] = Running]
  /\ UNCHANGED <<kernVars, ring, ucPriority, ucIsEventDelete, ulSuspendNesting>>

(* __sigReturn: the handler has come to its end; the interrupted call goes  *)
(* on with the flags and the scheduler result recorded for it.              *)
(* Mutant: the timeout flag recorded for the call is not restored.           *)
SigReturn_LosesTimeout(t) ==
  /\ IsReady(t) /\ call[t].pc = "run" /\ sig[t] # <<>>
  /\ LET ctx == sig[t][Len(sig[t])]
     IN  /\ call' = [call EXCEPT ![t] = [ctx.call EXCEPT
                       !.ret = IF ctx.iSchedRet = "NONE" THEN @ ELSE ctx.iSchedRet]]
         /\ ucIsEventDelete' = [ucIsEventDelete EXCEPT ![t] = ctx.ucIsEventDelete]
  /\ sig' = [sig EXCEPT ![t] = Front(@)]
  /\ UNCHANGED <<kernVars, queueVars, usStatus, inRing, waitOn, ring, ucPriority,
                 ulSuspendNesting, ucWaitTimeout>>

SigReturn(t) ==
  /\ IsReady(t) /\ call[t].pc = "run" /\ sig[t] # <<>>
  /\ LET ctx == sig[t][Len(sig[t])]
     IN  /\ call' = [call EXCEPT ![t] = [ctx.call EXCEPT
                       !.ret = IF ctx.iSchedRet = "NONE" THEN @ ELSE ctx.iSchedRet]]
         /\ ucWaitTimeout' = [ucWaitTimeout EXCEPT ![t] = ctx.ucWaitTimeout]
         /\ ucIsEventDelete' = [ucIsEventDelete EXCEPT ![t] = ctx.ucIsEventDelete]
  /\ sig' = [sig EXCEPT ![t] = Front(@)]
  /\ UNCHANGED <<kernVars, queueVars, usStatus, inRing, waitOn, ring, ucPriority,
                 ulSuspendNesting>>

(* API_ThreadSuspend.  An interrupt handler cannot suspend a ready thread.  *)
ThreadSuspend(t) ==
  /\ ThreadEnter \/ (IsrEnter /\ ~IsReady(t))
  /\ ulSuspendNesting[t] < MaxSuspend
  /\ inRing' = [inRing EXCEPT ![t] = IF IsReady(t) THEN @ - 1 ELSE @]
  /\ usStatus' = [usStatus EXCEPT ![t] = @ \cup {SUSPEND}]
  /\ ulSuspendNesting' = [ulSuspendNesting EXCEPT ![t] = @ + 1]
  /\ UNCHANGED <<kernVars, queueVars, waitOn, ring, ucPriority, ucWaitTimeout,
                 ucIsEventDelete, call, sig>>

(* API_ThreadResume takes one level off, API_ThreadForceResume all of them. *)
ThreadResume(t, levels) ==
  LET left   == ulSuspendNesting[t] - levels
      status == IF left = 0 THEN usStatus[t] \ {SUSPEND} ELSE usStatus[t]
  IN
  /\ IsrEnter
  /\ ulSuspendNesting[t] > 0
  /\ ulSuspendNesting' = [ulSuspendNesting EXCEPT ![t] = left]
  /\ usStatus' = [usStatus EXCEPT ![t] = status]
  /\ inRing' = [inRing EXCEPT ![t] = IF status = {} THEN @ + 1 ELSE @]
  /\ UNCHANGED <<kernVars, queueVars, waitOn, ring, ucPriority, ucWaitTimeout,
                 ucIsEventDelete, call, sig>>

(* API_ThreadSetPriority, _SchedSetPrio: no wait queue is put in order.     *)
ThreadSetPriority(t, p) ==
  /\ ThreadEnter /\ PrioChanges
  /\ ucPriority[t] # p
  /\ ucPriority' = [ucPriority EXCEPT ![t] = p]
  /\ UNCHANGED <<kernVars, queueVars, waitVars, ring, ucIsEventDelete,
                 ulSuspendNesting, call, sig>>

-----------------------------------------------------------------------------
(* The tail of every blocking call, after __KERNEL_EXIT has switched the    *)
(* thread back in.                                                         *)

PendReturn(t) ==
  /\ IsReady(t) /\ call[t].pc = "pend"
  /\ LET c == call[t]
     IN  call' = [call EXCEPT ![t] =
           IF \/ c.ret = "NONE"
              \/ c.ret = "EINTR" /\ c.inter
              \/ c.left = NotWait                   \* _sigTimeoutRecalc
           THEN Running
           ELSE [c EXCEPT !.pc = "again"]]          \* goto __wait_again
  /\ UNCHANGED <<kernVars, queueVars, waitVars, ring, ucPriority,
                 ucIsEventDelete, ulSuspendNesting, sig>>

(* What the call returns once it is past the scheduler result.              *)
PendResult(wt, del) ==
  IF wt = "OUT" THEN "ERROR_THREAD_WAIT_TIMEOUT"
  ELSE IF del = "EXIST" THEN "ERROR_NONE" ELSE "ERROR_EVENT_WAS_DELETED"

=============================================================================
