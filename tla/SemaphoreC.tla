----------------------------- MODULE SemaphoreC -----------------------------
(***************************************************************************)
(* The counting semaphore: API_SemaphoreCCreate, CDelete, CPend, CTryPend, *)
(* CPost, CRelease, CFlush, CClear over the wait machinery of Event.       *)
(*                                                                         *)
(* Delete, Create and Pend are for threads; the others may be called by an *)
(* interrupt handler, also while another call has the kernel lock and sits *)
(* in one of its windows with interrupts on.                               *)
(***************************************************************************)
EXTENDS Event

CONSTANTS
  MaxCounter,     \* bound: largest ulMaxCounter a semaphore is created with
  MaxRelease,     \* bound: largest ulReleaseCounter
  Options         \* ulOption values in use, records [prio, inter]

ASSUME SemaphoreCAssumption ==
  /\ MaxCounter \in Nat \ {0}
  /\ MaxRelease \in Nat
  /\ Options \subseteq [prio : BOOLEAN, inter : BOOLEAN]
  /\ Options # {}

VARIABLES
  ucType,         \* EVENT_ucType
  freeEvents,     \* the free list of _K_resrcEvent
  ulCounter,      \* EVENT_ulCounter
  ulMaxCounter,   \* EVENT_ulMaxCounter
  ulOption        \* EVENT_ulOption

objVars == <<ucType, freeEvents, ulCounter, ulMaxCounter, ulOption>>
vars == <<eventVars, objVars>>

-----------------------------------------------------------------------------
ObjType ==
  /\ ucType \in [Events -> {"UNUSED", "SEMC"}]
  /\ freeEvents \subseteq Events
  /\ ulCounter \in [Events -> 0..MaxCounter]
  /\ ulMaxCounter \in [Events -> 0..MaxCounter]
  /\ ulOption \in [Events -> Options]

TypeOK == EventType /\ ObjType

Init ==
  /\ EventInit
  /\ ucType = [e \in Events |-> "UNUSED"]
  /\ freeEvents = Events
  /\ ulCounter = [e \in Events |-> 0]
  /\ ulMaxCounter = [e \in Events |-> 0]
  /\ ulOption \in [Events -> Options]

-----------------------------------------------------------------------------
(* _Allocate_Event_Object and the initialisation; the handle is unknown     *)
(* until the call returns, so the two are one step.                         *)
SemaphoreCCreate(e, init, max, option) ==
  /\ ThreadEnter
  /\ e \in freeEvents
  /\ max > 0 /\ init =< max
  /\ freeEvents' = freeEvents \ {e}
  /\ ucType' = [ucType EXCEPT ![e] = "SEMC"]
  /\ ulCounter' = [ulCounter EXCEPT ![e] = init]
  /\ ulMaxCounter' = [ulMaxCounter EXCEPT ![e] = max]
  /\ ulOption' = [ulOption EXCEPT ![e] = option]
  /\ wq' = [wq EXCEPT ![e] = <<>>]
  /\ wqNum' = [wqNum EXCEPT ![e] = 0]
  /\ UNCHANGED <<kernVars, waitVars, ring, ucPriority, ucIsEventDelete,
                 ulSuspendNesting, call, sig>>

(* API_SemaphoreCPend from __wait_again to __KERNEL_EXIT.                   *)
PendSection(t, e, timeout) ==
  /\ ThreadEnter
  /\ \/ /\ \/ ucType[e] # "SEMC"                     \* ERROR_EVENT_TYPE
           \/ ulCounter[e] = 0 /\ timeout = NotWait  \* ERROR_THREAD_WAIT_TIMEOUT
        /\ call' = [call EXCEPT ![t] = Running]
        /\ UNCHANGED <<queueVars, waitVars, ring, ucIsEventDelete, objVars>>
     \/ /\ ucType[e] = "SEMC" /\ ulCounter[e] > 0
        /\ ulCounter' = [ulCounter EXCEPT ![e] = @ - 1]
        /\ call' = [call EXCEPT ![t] = Running]
        /\ UNCHANGED <<queueVars, waitVars, ring, ucIsEventDelete,
                       ucType, freeEvents, ulMaxCounter, ulOption>>
     \/ /\ ucType[e] = "SEMC" /\ ulCounter[e] = 0 /\ timeout # NotWait
        /\ EventWait(e, t, ulOption[e].prio, timeout # Infinite, ucPriority)
        /\ call' = [call EXCEPT ![t] =
                      [pc |-> "pend", ev |-> e, left |-> timeout,
                       inter |-> ulOption[e].inter, ret |-> "NONE", got |-> "no"]]
        /\ UNCHANGED objVars
  /\ UNCHANGED <<kernVars, ucPriority, ulSuspendNesting, sig>>

SemaphoreCPend(t, e, timeout) ==
  /\ IsReady(t) /\ call[t].pc = "run"
  /\ PendSection(t, e, timeout)

SemaphoreCPendAgain(t) ==
  /\ IsReady(t) /\ call[t].pc = "again"
  /\ PendSection(t, call[t].ev, call[t].left)

(* Mutant: the counter is not looked at.                                     *)
SemaphoreCTryPend_Unguarded(e) ==
  /\ IsrEnter
  /\ ucType[e] = "SEMC"
  /\ ulCounter' = [ulCounter EXCEPT ![e] = @ - 1]
  /\ UNCHANGED <<eventVars, ucType, freeEvents, ulMaxCounter, ulOption>>

SemaphoreCTryPend(e) ==
  /\ IsrEnter
  /\ ucType[e] = "SEMC" /\ ulCounter[e] > 0
  /\ ulCounter' = [ulCounter EXCEPT ![e] = @ - 1]
  /\ UNCHANGED <<eventVars, ucType, freeEvents, ulMaxCounter, ulOption>>

SemaphoreCClear(e) ==
  /\ IsrEnter
  /\ ucType[e] = "SEMC"
  /\ ulCounter' = [ulCounter EXCEPT ![e] = 0]
  /\ UNCHANGED <<eventVars, ucType, freeEvents, ulMaxCounter, ulOption>>

-----------------------------------------------------------------------------
(* The calls that ready waiters, built from TakeFirst and EventHigh.        *)

(* No waiter: the token goes into the counter if it has room.               *)
(* Mutant: the waiters are not looked at.                                    *)
CountToken_IgnoresWaiters(e) ==
  /\ ulCounter[e] < ulMaxCounter[e]
  /\ ulCounter' = [ulCounter EXCEPT ![e] = @ + 1]
  /\ UNCHANGED <<ucType, freeEvents, ulMaxCounter, ulOption>>

CountToken(e) ==
  /\ EventWaitNum(e) = 0
  /\ ulCounter[e] < ulMaxCounter[e]
  /\ ulCounter' = [ulCounter EXCEPT ![e] = @ + 1]
  /\ UNCHANGED <<ucType, freeEvents, ulMaxCounter, ulOption>>

Full(e) == EventWaitNum(e) = 0 /\ ulCounter[e] >= ulMaxCounter[e]

SemaphoreCPost(e) ==
  /\ IsrEnter
  /\ ucType[e] = "SEMC"
  /\ \/ TakeFirst("post", e, 0, nest + 1) /\ UNCHANGED objVars
     \/ CountToken(e) /\ UNCHANGED eventVars

(* The for loop of API_SemaphoreCRelease with n tokens to go.               *)
ReleaseLoop(e, n, d) ==
  \/ n > 0 /\ TakeFirst("release", e, n, d) /\ UNCHANGED objVars
  \/ /\ n > 0 /\ CountToken(e)
     /\ SetFrame(d, [op |-> "release", ev |-> e, tcb |-> Null, n |-> n - 1])
     /\ UNCHANGED notKern
  \/ /\ n = 0 \/ Full(e)
     /\ EndFrame(d)
     /\ UNCHANGED <<notKern, objVars>>

SemaphoreCRelease(e, n) ==
  /\ IsrEnter /\ ucType[e] = "SEMC" /\ n > 0
  /\ ReleaseLoop(e, n, nest + 1)

FlushLoop(e, d) ==
  \/ TakeFirst("flush", e, 0, d) /\ UNCHANGED objVars
  \/ /\ EventWaitNum(e) = 0
     /\ EndFrame(d)
     /\ UNCHANGED <<notKern, objVars>>

SemaphoreCFlush(e) ==
  /\ IsrEnter /\ ucType[e] = "SEMC"
  /\ FlushLoop(e, nest + 1)

(* After the first piece the type is LW_TYPE_EVENT_UNUSED; _Free_Event_Object *)
(* runs when the queue is drained.                                          *)
(* Mutant: the event is freed before its queue is drained.                   *)
DeleteLoop_FreesFirst(e, d) ==
  /\ freeEvents' = freeEvents \cup {e}
  /\ \/ TakeFirst("delete", e, 0, d)
     \/ /\ EventWaitNum(e) = 0
        /\ EndFrame(d)
        /\ UNCHANGED notKern

(* Mutant: only the first waiter is told of the deletion.                    *)
DeleteLoop_FirstOnly(e, d) ==
  \/ d > nest /\ TakeFirst("delete", e, 0, d) /\ UNCHANGED freeEvents
  \/ /\ d = nest \/ EventWaitNum(e) = 0
     /\ freeEvents' = freeEvents \cup {e}
     /\ EndFrame(d)
     /\ UNCHANGED notKern

DeleteLoop(e, d) ==
  \/ TakeFirst("delete", e, 0, d) /\ UNCHANGED freeEvents
  \/ /\ EventWaitNum(e) = 0
     /\ freeEvents' = freeEvents \cup {e}
     /\ EndFrame(d)
     /\ UNCHANGED notKern

SemaphoreCDelete(e) ==
  /\ ThreadEnter /\ ucType[e] = "SEMC"
  /\ ucType' = [ucType EXCEPT ![e] = "UNUSED"]
  /\ DeleteLoop(e, nest + 1)
  /\ UNCHANGED <<ulCounter, ulMaxCounter, ulOption>>

(* Out of a window: _EventReadyHighLevel for the waiter taken before it.    *)
(* API_SemaphoreCPost ends there, the loops come to their next window.      *)
EventHigh ==
  /\ nest > 0 /\ frames[nest].tcb # Null
  /\ LET f == frames[nest]
     IN  /\ EventReadyHighLevel(f.tcb)
         /\ ucIsEventDelete' = IF f.op = "delete"
                               THEN [ucIsEventDelete EXCEPT ![f.tcb] = "DELETE"]
                               ELSE ucIsEventDelete
         /\ CASE f.op = "post"    -> EndFrame(nest)
              [] f.op = "release" -> SetFrame(nest, [f EXCEPT !.tcb = Null, !.n = @ - 1])
              [] OTHER            -> SetFrame(nest, [f EXCEPT !.tcb = Null])
  /\ UNCHANGED <<queueVars, ring, ucPriority, ulSuspendNesting, call, sig, objVars>>

(* Out of a window between two rounds of a loop.                            *)
LoopNext ==
  /\ nest > 0 /\ frames[nest].tcb = Null
  /\ LET f == frames[nest]
     IN  \/ f.op = "release" /\ ReleaseLoop(f.ev, f.n, nest)
         \/ f.op = "flush" /\ FlushLoop(f.ev, nest)
         \/ /\ f.op = "delete" /\ DeleteLoop(f.ev, nest)
            /\ UNCHANGED <<ucType, ulCounter, ulMaxCounter, ulOption>>

-----------------------------------------------------------------------------
(* Steps that leave the semaphores alone.                                   *)
Environment ==
  /\ \/ Tick
     \/ TickNext
     \/ \E t \in Threads :
          \/ \E inf \in BOOLEAN : ThreadWakeup(t, inf)
          \/ \E s \in {"EINTR", "RESTART"} : Signal(t, s)
          \/ SigReturn(t)
          \/ ThreadSuspend(t)
          \/ \E levels \in {1, ulSuspendNesting[t]} : ThreadResume(t, levels)
          \/ \E p \in Priorities : ThreadSetPriority(t, p)
          \/ PendReturn(t)
  /\ UNCHANGED objVars

Next ==
  \/ \E e \in Events :
       \/ \E init \in 0..MaxCounter, max \in 1..MaxCounter, o \in Options :
            SemaphoreCCreate(e, init, max, o)
       \/ \E t \in Threads, timeout \in Timeouts : SemaphoreCPend(t, e, timeout)
       \/ SemaphoreCTryPend(e)
       \/ SemaphoreCClear(e)
       \/ SemaphoreCPost(e)
       \/ \E n \in 1..MaxRelease : SemaphoreCRelease(e, n)
       \/ SemaphoreCFlush(e)
       \/ SemaphoreCDelete(e)
  \/ \E t \in Threads : SemaphoreCPendAgain(t)
  \/ EventHigh
  \/ LoopNext
  \/ Environment

Spec == Init /\ [][Next]_vars

(* Fairness.  The clock interrupt is latched until interrupts are on, so it *)
(* is not passed over for ever; interrupts leave every section inside the    *)
(* kernel time to go on; a ready thread is scheduled and gets the kernel     *)
(* lock.  Nothing is assumed of those who post, delete or suspend.           *)
SectionStep(d) == nest = d /\ (EventHigh \/ LoopNext \/ (TickNext /\ UNCHANGED objVars))

ThreadStep(t) == (PendReturn(t) /\ UNCHANGED objVars) \/ SemaphoreCPendAgain(t)

Fairness == /\ SF_vars(Tick /\ UNCHANGED objVars)
            /\ \A d \in 1..MaxNest : SF_vars(SectionStep(d))
            /\ \A t \in Threads : SF_vars(ThreadStep(t))

LiveSpec == Spec /\ Fairness

-----------------------------------------------------------------------------
(* Properties.                                                             *)

(* A thread is linked into a ready ring exactly once if it has no status    *)
(* bit, and not at all otherwise: the double link or the forgotten one that *)
(* an interrupt between _EventReady...LowLevel and _EventReadyHighLevel     *)
(* could cause would corrupt the ring or lose the thread.                   *)
ReadyRingOnce ==
  \A t \in Threads : inRing[t] = (IF IsReady(t) THEN 1 ELSE 0)

(* WQ_usNum is the number of threads in the queue, no thread is there twice,*)
(* and a thread is in the queue of the event it points to as long as no     *)
(* call has taken it off to make it ready.                                  *)
QueueConsistent ==
  /\ \A e \in Events : wqNum[e] = Len(wq[e]) /\ IsInjective(wq[e])
  /\ \A e \in Events, t \in Threads :
       Contains(wq[e], t) <=> waitOn[t] = e /\ ~InLimbo(t)

(* A semaphore never keeps a token while a thread waits for one, in none of *)
(* the windows of API_SemaphoreCRelease, CFlush or CDelete either.          *)
NoTokenWithWaiters ==
  \A e \in Events : ucType[e] = "SEMC" /\ ulCounter[e] > 0 => wq[e] = <<>>

(* An event control block on the free list is of type LW_TYPE_EVENT_UNUSED *)
(* and nobody waits on it: API_SemaphoreCCreate would forget such a thread. *)
FreeHasNoWaiter ==
  \A e \in freeEvents : ucType[e] = "UNUSED" /\ wq[e] = <<>> /\
                        \A t \in Threads : waitOn[t] # e

(* What a call past its wait will return is what the kernel did for it: a   *)
(* token or a flush is success, a deletion ERROR_EVENT_WAS_DELETED, nothing *)
(* a timeout, and a call that was handed something does not wait again.     *)
(* It holds of the calls under signal handlers as well.                     *)
HonestOutcome(c, ret, wt, del) ==
  IF ret = "NONE"
  THEN PendResult(wt, del) =
         CASE c.got \in {"token", "flush"} -> "ERROR_NONE"
           [] c.got = "deleted"            -> "ERROR_EVENT_WAS_DELETED"
           [] OTHER                        -> "ERROR_THREAD_WAIT_TIMEOUT"
  ELSE c.got = "no"

HonestPend ==
  \A t \in Threads :
    /\ call[t].pc = "pend" /\ usStatus[t] \cap PendAny = {} =>
         HonestOutcome(call[t], call[t].ret, ucWaitTimeout[t], ucIsEventDelete[t])
    /\ \A k \in 1..Len(sig[t]) :
         sig[t][k].call.pc = "pend" =>
           HonestOutcome(sig[t][k].call,
                         IF sig[t][k].iSchedRet = "NONE" THEN sig[t][k].call.ret
                                                         ELSE sig[t][k].iSchedRet,
                         sig[t][k].ucWaitTimeout, sig[t][k].ucIsEventDelete)

(* The thread _EventQGetTcbPriority takes from a priority queue is the most *)
(* urgent of the waiting threads.                                           *)
HighestFirst ==
  \A e \in Events : ulOption[e].prio =>
    \A i \in 1..Len(wq[e]) : ucPriority[FirstWaiter(e)] =< ucPriority[wq[e][i]]

(* A call with a finite timeout comes back, whoever takes the tokens and     *)
(* however often a tick and a post race for the waiter.                      *)
TimedCallReturns ==
  \A t \in Threads :
    call[t].pc # "run" /\ call[t].left # Infinite ~> call[t].pc = "run"

(* API_SemaphoreCDelete lets nobody behind: a thread that waits on a         *)
(* semaphore that is being deleted comes out of its wait, also one that      *)
(* waits for ever.                                                           *)
DeletedWaiterLeaves ==
  \A t \in Threads, e \in Events :
    waitOn[t] = e /\ ucType[e] = "UNUSED" ~> waitOn[t] = Null

=============================================================================
