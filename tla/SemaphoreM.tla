----------------------------- MODULE SemaphoreM -----------------------------
(***************************************************************************)
(* The mutex: API_SemaphoreMCreate, MDelete, MPend, MPost over the wait     *)
(* machinery of Event, with recursion, priority inheritance and priority   *)
(* ceiling.  None of the calls may be made by an interrupt handler; ticks   *)
(* and wakeups still come between the pieces of MPost and MDelete.          *)
(*                                                                         *)
(* LW_OPTION_DELETE_SAFE, which guards the owner against deletion, is left *)
(* out: threads are not deleted here.                                       *)
(***************************************************************************)
EXTENDS Event

CONSTANTS
  MaxRecursion,   \* bound: recursive pends on top of the first
  Ceilings,       \* ucCeilingPriority values in use
  Lowest,         \* LW_PRIO_LOWEST
  Options         \* ulOption values in use: [prio, inter, inherit, kind]

Kinds == {"recursive", "errorcheck", "normal"}

ASSUME SemaphoreMAssumption ==
  /\ MaxRecursion \in Nat
  /\ Ceilings \subseteq Priorities /\ Ceilings # {}
  /\ Lowest \in Nat
  /\ Options \subseteq [prio : BOOLEAN, inter : BOOLEAN, inherit : BOOLEAN, kind : Kinds]
  /\ Options # {}

VARIABLES
  ucType,             \* EVENT_ucType
  freeEvents,         \* the free list of _K_resrcEvent
  ulCounter,          \* EVENT_ulCounter: LW_TRUE while nobody owns the mutex
  ulMaxCounter,       \* EVENT_ulMaxCounter: the owner's priority when it got it
  pvTcbOwn,           \* EVENT_pvTcbOwn
  pvPtr,              \* EVENT_pvPtr: recursive pends of the owner
  ucCeilingPriority,  \* EVENT_ucCeilingPriority
  ulOption,           \* EVENT_ulOption
  held,               \* history: pends that returned ERROR_NONE, less the posts
  basePrio            \* history: the priority the application gave the thread

mutexVars == <<ucType, freeEvents, ulCounter, ulMaxCounter, pvTcbOwn, pvPtr,
               ucCeilingPriority, ulOption>>
vars == <<eventVars, mutexVars, held, basePrio>>

TypeOK ==
  /\ EventType
  /\ ucType \in [Events -> {"UNUSED", "MUTEX"}]
  /\ freeEvents \subseteq Events
  /\ ulCounter \in [Events -> BOOLEAN]
  /\ ulMaxCounter \in [Events -> Priorities \cup {Lowest}]
  /\ pvTcbOwn \in [Events -> Threads \cup {Null}]
  /\ pvPtr \in [Events -> 0..MaxRecursion]
  /\ ucCeilingPriority \in [Events -> Ceilings]
  /\ ulOption \in [Events -> Options]
  /\ held \in [Threads -> [Events -> 0..MaxRecursion + 1]]
  /\ basePrio \in [Threads -> Priorities]

Init ==
  /\ EventInit
  /\ ucType = [e \in Events |-> "UNUSED"]
  /\ freeEvents = Events
  /\ ulCounter = [e \in Events |-> FALSE]
  /\ ulMaxCounter = [e \in Events |-> Lowest]
  /\ pvTcbOwn = [e \in Events |-> Null]
  /\ pvPtr = [e \in Events |-> 0]
  /\ ucCeilingPriority \in [Events -> Ceilings]
  /\ ulOption \in [Events -> Options]
  /\ held = [t \in Threads |-> [e \in Events |-> 0]]
  /\ basePrio = ucPriority

-----------------------------------------------------------------------------
SemaphoreMCreate(e, ceiling, option) ==
  /\ ThreadEnter
  /\ e \in freeEvents
  /\ freeEvents' = freeEvents \ {e}
  /\ ucType' = [ucType EXCEPT ![e] = "MUTEX"]
  /\ ulCounter' = [ulCounter EXCEPT ![e] = TRUE]
  /\ ulMaxCounter' = [ulMaxCounter EXCEPT ![e] = Lowest]
  /\ ucCeilingPriority' = [ucCeilingPriority EXCEPT ![e] = ceiling]
  /\ ulOption' = [ulOption EXCEPT ![e] = option]
  /\ pvPtr' = [pvPtr EXCEPT ![e] = 0]
  /\ pvTcbOwn' = [pvTcbOwn EXCEPT ![e] = Null]
  /\ wq' = [wq EXCEPT ![e] = <<>>]
  /\ wqNum' = [wqNum EXCEPT ![e] = 0]
  /\ UNCHANGED <<kernVars, waitVars, ring, ucPriority, ucIsEventDelete,
                 ulSuspendNesting, call, sig, held, basePrio>>

(* _EventPrioTryBoost: the owner gets the priority of the thread that is     *)
(* about to wait, or the ceiling.                                            *)
IsHigh(p, q) == p < q                  \* LW_PRIO_IS_HIGH

EventPrioTryBoost(e, t) ==
  LET own == pvTcbOwn[e]
      new == IF ulOption[e].inherit THEN ucPriority[t] ELSE ucCeilingPriority[e]
  IN  ucPriority' = IF IsHigh(ucPriority[t], ucPriority[own]) /\ IsHigh(new, ucPriority[own])
                    THEN [ucPriority EXCEPT ![own] = new] ELSE ucPriority

Acquired(t, e) == held' = [held EXCEPT ![t][e] = @ + 1]

(* API_SemaphoreMPend from __wait_again to __KERNEL_EXIT.  The lock is held  *)
(* with interrupts on, but no interrupt handler changes what it reads.       *)
PendFails(t, e, timeout) ==
  /\ \/ ucType[e] # "MUTEX"                                      \* ERROR_EVENT_TYPE
     \/ /\ ~ulCounter[e] /\ pvTcbOwn[e] = t                       \* EDEADLK
        /\ ulOption[e].kind = "errorcheck"
     \/ /\ ~ulCounter[e] /\ timeout = NotWait                     \* TIMEOUT
        /\ pvTcbOwn[e] = t => ulOption[e].kind = "normal"
  /\ call' = [call EXCEPT ![t] = Running]
  /\ UNCHANGED <<queueVars, waitVars, ring, ucPriority, ucIsEventDelete, mutexVars, held>>

(* Mutant: the owner's priority is not saved.                                *)
PendTakes_NotSaved(t, e) ==
  /\ ucType[e] = "MUTEX" /\ ulCounter[e]
  /\ ulCounter' = [ulCounter EXCEPT ![e] = FALSE]
  /\ pvTcbOwn' = [pvTcbOwn EXCEPT ![e] = t]
  /\ Acquired(t, e)
  /\ call' = [call EXCEPT ![t] = Running]
  /\ UNCHANGED <<queueVars, waitVars, ring, ucPriority, ucIsEventDelete, ucType,
                 freeEvents, ulMaxCounter, pvPtr, ucCeilingPriority, ulOption>>

PendTakes(t, e) ==
  /\ ucType[e] = "MUTEX" /\ ulCounter[e]
  /\ ulCounter' = [ulCounter EXCEPT ![e] = FALSE]
  /\ ulMaxCounter' = [ulMaxCounter EXCEPT ![e] = ucPriority[t]]
  /\ pvTcbOwn' = [pvTcbOwn EXCEPT ![e] = t]
  /\ Acquired(t, e)
  /\ call' = [call EXCEPT ![t] = Running]
  /\ UNCHANGED <<queueVars, waitVars, ring, ucPriority, ucIsEventDelete, ucType,
                 freeEvents, pvPtr, ucCeilingPriority, ulOption>>

PendRecurses(t, e) ==
  /\ ucType[e] = "MUTEX" /\ ~ulCounter[e] /\ pvTcbOwn[e] = t
  /\ ulOption[e].kind = "recursive" /\ pvPtr[e] < MaxRecursion
  /\ pvPtr' = [pvPtr EXCEPT ![e] = @ + 1]
  /\ Acquired(t, e)
  /\ call' = [call EXCEPT ![t] = Running]
  /\ UNCHANGED <<queueVars, waitVars, ring, ucPriority, ucIsEventDelete, ucType,
                 freeEvents, ulCounter, ulMaxCounter, pvTcbOwn, ucCeilingPriority, ulOption>>

PendWaits(t, e, timeout) ==
  /\ ucType[e] = "MUTEX" /\ ~ulCounter[e] /\ timeout # NotWait
  /\ pvTcbOwn[e] = t => ulOption[e].kind = "normal"
  /\ EventPrioTryBoost(e, t)
  /\ EventWait(e, t, ulOption[e].prio, timeout # Infinite, ucPriority')
  /\ call' = [call EXCEPT ![t] =
                [pc |-> "pend", ev |-> e, left |-> timeout,
                 inter |-> ulOption[e].inter, ret |-> "NONE", got |-> "no"]]
  /\ UNCHANGED <<mutexVars, held>>

PendSection(t, e, timeout) ==
  /\ ThreadEnter
  /\ \/ PendFails(t, e, timeout)
     \/ PendTakes(t, e)
     \/ PendRecurses(t, e)
     \/ PendWaits(t, e, timeout)
  /\ UNCHANGED <<kernVars, ulSuspendNesting, sig, basePrio>>

SemaphoreMPend(t, e, timeout) ==
  /\ IsReady(t) /\ call[t].pc = "run"
  /\ PendSection(t, e, timeout)

SemaphoreMPendAgain(t) ==
  /\ IsReady(t) /\ call[t].pc = "again"
  /\ PendSection(t, call[t].ev, call[t].left)

(* The end of API_SemaphoreMPend after a wait.                               *)
SemaphoreMPendReturn(t) ==
  /\ PendReturn(t)
  /\ IF /\ call[t].ret = "NONE" /\ call[t].ev # Null
        /\ PendResult(ucWaitTimeout[t], ucIsEventDelete[t]) = "ERROR_NONE"
     THEN Acquired(t, call[t].ev)
     ELSE UNCHANGED held
  /\ UNCHANGED <<mutexVars, basePrio>>

-----------------------------------------------------------------------------
(* API_SemaphoreMPost by the owner; by anybody else it is ERROR_EVENT_NOT_OWN*)
(* and changes nothing.  Pends and posts come in pairs, as the header of the *)
(* file asks: nobody posts what no pend has returned to him yet.             *)
Released(t, e) == held' = [held EXCEPT ![t][e] = @ - 1]

(* Mutant: recursive pends are not counted down first.                       *)
Recursed_Never(e) == pvPtr[e] < 0

Recursed(e) == pvPtr[e] > 0

PostRecursed(e) ==
  /\ Recursed(e)
  /\ pvPtr' = [pvPtr EXCEPT ![e] = @ - 1]
  /\ UNCHANGED <<eventVars, ucType, freeEvents, ulCounter, ulMaxCounter,
                 pvTcbOwn, ucCeilingPriority, ulOption>>

PostHandsOver(e) ==
  /\ ~Recursed(e)
  /\ TakeFirst("post", e, 0, nest + 1)
  /\ UNCHANGED mutexVars

(* Mutant: the waiters are not looked at.                                    *)
PostFrees_IgnoresWaiters(e) ==
  /\ ~Recursed(e) /\ ~ulCounter[e]
  /\ ulCounter' = [ulCounter EXCEPT ![e] = TRUE]
  /\ ulMaxCounter' = [ulMaxCounter EXCEPT ![e] = Lowest]
  /\ pvTcbOwn' = [pvTcbOwn EXCEPT ![e] = Null]
  /\ UNCHANGED <<eventVars, ucType, freeEvents, pvPtr, ucCeilingPriority, ulOption>>

PostFrees(e) ==
  /\ ~Recursed(e) /\ EventWaitNum(e) = 0 /\ ~ulCounter[e]
  /\ ulCounter' = [ulCounter EXCEPT ![e] = TRUE]
  /\ ulMaxCounter' = [ulMaxCounter EXCEPT ![e] = Lowest]
  /\ pvTcbOwn' = [pvTcbOwn EXCEPT ![e] = Null]
  /\ UNCHANGED <<eventVars, ucType, freeEvents, pvPtr, ucCeilingPriority, ulOption>>

SemaphoreMPost(t, e) ==
  /\ ThreadEnter /\ IsReady(t) /\ call[t].pc = "run"
  /\ ucType[e] = "MUTEX" /\ pvTcbOwn[e] = t /\ held[t][e] > 0
  /\ PostRecursed(e) \/ PostHandsOver(e) \/ PostFrees(e)
  /\ Released(t, e)
  /\ UNCHANGED basePrio

(* Out of the window of MPost: _EventPrioTryResume for the old owner, the    *)
(* waiter becomes the owner and is made ready.                               *)
(* Mutant: the new owner gets the priority saved for the old one.            *)
PostHigh_Swapped ==
  /\ nest > 0 /\ frames[nest].op = "post" /\ frames[nest].tcb # Null
  /\ LET e == frames[nest].ev
         t == frames[nest].tcb
     IN  /\ ucPriority' = [ucPriority EXCEPT ![t] = ulMaxCounter[e]]
         /\ ulMaxCounter' = [ulMaxCounter EXCEPT ![e] = ucPriority'[t]]
         /\ pvTcbOwn' = [pvTcbOwn EXCEPT ![e] = t]
         /\ EventReadyHighLevel(t)
  /\ EndFrame(nest)
  /\ UNCHANGED <<queueVars, ring, ucIsEventDelete, ulSuspendNesting, call, sig, ucType,
                 freeEvents, ulCounter, pvPtr, ucCeilingPriority, ulOption, held, basePrio>>

(* Mutant: the new owner's priority is not saved.                            *)
PostHigh_NotSaved ==
  /\ nest > 0 /\ frames[nest].op = "post" /\ frames[nest].tcb # Null
  /\ LET e == frames[nest].ev
         t == frames[nest].tcb
     IN  /\ ucPriority' = [ucPriority EXCEPT ![pvTcbOwn[e]] = ulMaxCounter[e]]
         /\ pvTcbOwn' = [pvTcbOwn EXCEPT ![e] = t]
         /\ EventReadyHighLevel(t)
  /\ EndFrame(nest)
  /\ UNCHANGED <<queueVars, ring, ucIsEventDelete, ulSuspendNesting, call, sig, ucType,
                 freeEvents, ulCounter, ulMaxCounter, pvPtr, ucCeilingPriority, ulOption,
                 held, basePrio>>

PostHigh ==
  /\ nest > 0 /\ frames[nest].op = "post" /\ frames[nest].tcb # Null
  /\ LET e == frames[nest].ev
         t == frames[nest].tcb
     IN  /\ ucPriority' = [ucPriority EXCEPT ![pvTcbOwn[e]] = ulMaxCounter[e]]
         /\ ulMaxCounter' = [ulMaxCounter EXCEPT ![e] = ucPriority'[t]]
         /\ pvTcbOwn' = [pvTcbOwn EXCEPT ![e] = t]
         /\ EventReadyHighLevel(t)
  /\ EndFrame(nest)
  /\ UNCHANGED <<queueVars, ring, ucIsEventDelete, ulSuspendNesting, call, sig, ucType,
                 freeEvents, ulCounter, pvPtr, ucCeilingPriority, ulOption, held, basePrio>>

(* API_SemaphoreMDelete, a round of its loop or its end: the owner gets its  *)
(* priority back and the event is freed.  (History: nobody holds it any more,*)
(* also one that was handed the mutex and has not come back from its pend.)  *)
Forget(c, e) == IF c.ev = e /\ c.got = "token" THEN [c EXCEPT !.ev = Null] ELSE c

DeleteEnds(e, d) ==
  /\ EventWaitNum(e) = 0
  /\ ucPriority' = IF pvTcbOwn[e] = Null THEN ucPriority
                   ELSE [ucPriority EXCEPT ![pvTcbOwn[e]] = ulMaxCounter[e]]
  /\ pvTcbOwn' = [pvTcbOwn EXCEPT ![e] = Null]
  /\ freeEvents' = freeEvents \cup {e}
  /\ held' = [t \in Threads |-> [held[t] EXCEPT ![e] = 0]]
  /\ call' = [t \in Threads |-> Forget(call[t], e)]
  /\ sig' = [t \in Threads |-> [k \in DOMAIN sig[t] |->
              [sig[t][k] EXCEPT !.call = Forget(@, e)]]]
  /\ EndFrame(d)
  /\ UNCHANGED <<queueVars, waitVars, ring, ucIsEventDelete, ulSuspendNesting>>

(* Mutant: the owner loses the mutex before the waiters have left.           *)
DeleteLoop_OwnerFirst(e, d) ==
  \/ /\ TakeFirst("delete", e, 0, d)
     /\ pvTcbOwn' = [pvTcbOwn EXCEPT ![e] = Null]
     /\ held' = [t \in Threads |-> [held[t] EXCEPT ![e] = 0]]
     /\ UNCHANGED freeEvents
  \/ DeleteEnds(e, d)

DeleteLoop(e, d) ==
  \/ /\ TakeFirst("delete", e, 0, d)
     /\ UNCHANGED <<freeEvents, pvTcbOwn, held>>
  \/ DeleteEnds(e, d)

SemaphoreMDelete(e) ==
  /\ ThreadEnter /\ ucType[e] = "MUTEX"
  /\ ucType' = [ucType EXCEPT ![e] = "UNUSED"]
  /\ DeleteLoop(e, nest + 1)
  /\ UNCHANGED <<ulCounter, ulMaxCounter, pvPtr, ucCeilingPriority, ulOption, basePrio>>

DeleteHigh ==
  /\ nest > 0 /\ frames[nest].op = "delete" /\ frames[nest].tcb # Null
  /\ LET f == frames[nest]
     IN  /\ ucIsEventDelete' = [ucIsEventDelete EXCEPT ![f.tcb] = "DELETE"]
         /\ EventReadyHighLevel(f.tcb)
         /\ SetFrame(nest, [f EXCEPT !.tcb = Null])
  /\ UNCHANGED <<queueVars, ring, ucPriority, ulSuspendNesting, call, sig, mutexVars,
                 held, basePrio>>

DeleteNext ==
  /\ nest > 0 /\ frames[nest].op = "delete" /\ frames[nest].tcb = Null
  /\ DeleteLoop(frames[nest].ev, nest)
  /\ UNCHANGED <<ucType, ulCounter, ulMaxCounter, pvPtr, ucCeilingPriority, ulOption, basePrio>>

-----------------------------------------------------------------------------
(* Steps that leave the mutexes alone.                                       *)
Environment ==
  /\ \/ Tick
     \/ TickNext
     \/ \E t \in Threads :
          \/ \E inf \in BOOLEAN : ThreadWakeup(t, inf)
          \/ \E s \in {"EINTR", "RESTART"} : Signal(t, s)
          \/ SigReturn(t)
          \/ ThreadSuspend(t)
          \/ \E levels \in {1, ulSuspendNesting[t]} : ThreadResume(t, levels)
  /\ UNCHANGED <<mutexVars, held, basePrio>>

SetPriority(t, p) ==
  /\ ThreadSetPriority(t, p)
  /\ basePrio' = [basePrio EXCEPT ![t] = p]
  /\ UNCHANGED <<mutexVars, held>>

Next ==
  \/ \E e \in Events :
       \/ \E c \in Ceilings, o \in Options : SemaphoreMCreate(e, c, o)
       \/ \E t \in Threads, timeout \in Timeouts : SemaphoreMPend(t, e, timeout)
       \/ \E t \in Threads : SemaphoreMPost(t, e)
       \/ SemaphoreMDelete(e)
  \/ \E t \in Threads : SemaphoreMPendAgain(t) \/ SemaphoreMPendReturn(t)
  \/ PostHigh
  \/ DeleteHigh
  \/ DeleteNext
  \/ Environment
  \/ \E t \in Threads, p \in Priorities : SetPriority(t, p)

Spec == Init /\ [][Next]_vars

(* Fairness.  As for the semaphore, sections and ready threads go on; and a  *)
(* thread that holds a mutex posts it sooner or later, which is what the     *)
(* application owes.                                                         *)
SectionStep(d) ==
  nest = d /\ \/ PostHigh
              \/ DeleteHigh
              \/ DeleteNext
              \/ TickNext /\ UNCHANGED <<mutexVars, held, basePrio>>

ThreadStep(t) == SemaphoreMPendReturn(t) \/ SemaphoreMPendAgain(t)

Fairness == /\ \A d \in 1..MaxNest : SF_vars(SectionStep(d))
            /\ \A t \in Threads : SF_vars(ThreadStep(t))
            /\ \A t \in Threads, e \in Events : SF_vars(SemaphoreMPost(t, e))

LiveSpec == Spec /\ Fairness

-----------------------------------------------------------------------------
(* Properties.                                                               *)

(* The pends of t on e that have returned ERROR_NONE and are not posted, and *)
(* those that were handed the mutex and have still to return, under a signal *)
(* handler perhaps.                                                          *)
HandedOver(c, e) == c.pc = "pend" /\ c.ev = e /\ c.got = "token"

Claims(t, e) ==
  held[t][e] + (IF HandedOver(call[t], e) THEN 1 ELSE 0)
    + Cardinality({k \in DOMAIN sig[t] : HandedOver(sig[t][k].call, e)})

(* In the window of API_SemaphoreMPost the waiter taken off the queue has    *)
(* the mutex already, while EVENT_pvTcbOwn still names the thread that posts.*)
HandTo(e) == {frames[i].tcb : i \in {j \in 1..nest : frames[j].op = "post" /\ frames[j].ev = e}}

Holder(e) == IF HandTo(e) = {} THEN pvTcbOwn[e] ELSE CHOOSE t \in HandTo(e) : TRUE

(* Mutual exclusion: at any moment one thread at most has claims on a mutex, *)
(* and it has as many as EVENT_pvPtr says, through hand-over to a waiter,    *)
(* timeouts and signals that race it, recursion and deletion.                *)
OneHolder ==
  \A e \in Events, t \in Threads :
    Claims(t, e) = IF t = Holder(e) THEN pvPtr[e] + 1 ELSE 0

(* A mutex that is free has no owner and nobody waits for it: MPend would    *)
(* otherwise let a newcomer pass those who wait, and nobody would wake them. *)
FreeMutexIdle ==
  \A e \in Events : ucType[e] = "MUTEX" =>
    /\ ulCounter[e] <=> pvTcbOwn[e] = Null
    /\ ulCounter[e] => wq[e] = <<>>

(* Priority inheritance: the owner is at least as urgent as any thread that  *)
(* waits for the mutex, also right after it was handed over to the waiter    *)
(* at the head of the queue.                                                 *)
InheritBound ==
  \A e \in Events :
    ucType[e] = "MUTEX" /\ ulOption[e].inherit =>
      \A i \in 1..Len(wq[e]) : ucPriority[Holder(e)] =< ucPriority[wq[e][i]]

(* No thread ends up less urgent than the application made it: what is given *)
(* back by MPost, or by MDelete to an owner that was handed the mutex in a   *)
(* window and may not have run since, is the priority saved for this owner   *)
(* and not for one before it.  (API_ThreadSetPriority does not touch what is *)
(* saved; this holds while nobody calls it.)                                 *)
NeverLowered == \A t \in Threads : ucPriority[t] =< basePrio[t]

(* "Try to return to the former priority": a thread without a mutex has the  *)
(* priority the application gave it.                                         *)
PriorityRestored ==
  \A t \in Threads :
    (\A e \in Events : pvTcbOwn[e] # t) => ucPriority[t] = basePrio[t]

(* The mutexes are locks: MPost hands the mutex over in the step that takes  *)
(* the waiter off the queue, and what follows in its window, timeouts that   *)
(* race it and the loop of MDelete are invisible; nobody passes a waiter,    *)
(* and no recursive pend is lost.  (A mutex that is deleted while its owner  *)
(* holds it keeps EVENT_pvPtr until it is created again.)                    *)
L == INSTANCE Lock WITH
       Mutexes <- Events,
       owner <- [e \in Events |-> Holder(e)],
       depth <- [e \in Events |-> IF Holder(e) = Null THEN 0 ELSE pvPtr[e]],
       waiters <- [e \in Events |-> {t \in Threads : Contains(wq[e], t)}]

IsLock == L!Spec

(* If every owner posts, a waiter is served: no post of MPost, no timeout    *)
(* that races it and no change of priority leaves a thread behind in the     *)
(* queue.  (With several waiters it holds of FIFO queues only: a priority    *)
(* queue may starve the least urgent.)                                       *)
WaiterServed ==
  \A t \in Threads, e \in Events : waitOn[t] = e ~> waitOn[t] = Null

=============================================================================
