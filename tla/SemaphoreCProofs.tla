-------------------------- MODULE SemaphoreCProofs --------------------------
(***************************************************************************)
(* Proofs about SemaphoreC for every number of threads, events, nested      *)
(* interrupts and tokens.  The wait machinery's part of the invariant, and  *)
(* what each of its actions does to it, is in EventProofs.                  *)
(***************************************************************************)
EXTENDS SemaphoreC, EventProofs

-----------------------------------------------------------------------------
(* The inductive invariant.                                                *)

(* The sections inside the kernel know their event, a release has the token *)
(* in hand to give, and a deletion, a thread's call, is at the bottom.      *)
SectionOK(i, f) ==
  /\ f.op # "tick" => f.ev \in Events
  /\ f.op = "release" /\ f.tcb # Null => f.n > 0
  /\ f.op = "delete" => i = 1 /\ ucType[f.ev] = "UNUSED"

Sections == \A i \in 1..nest : SectionOK(i, frames[i])

ObjInv == ObjType /\ Sections /\ NoTokenWithWaiters /\ FreeHasNoWaiter

IInv == EvInv /\ EvCalls(TRUE) /\ ObjInv

(* A queue by priority is in order, each thread in the bucket of its         *)
(* priority: true as long as nobody changes a priority.                      *)
InOrder(e) ==
  \A i, j \in 1..Len(wq[e]) :
    /\ ring[wq[e][i]] = EventIndexQ(ucPriority[wq[e][i]])
    /\ i =< j => ucPriority[wq[e][i]] =< ucPriority[wq[e][j]]

Sorted == \A e \in Events : ulOption[e].prio => InOrder(e)

(* What is proved of every step.  Honesty needs that signals and suspension  *)
(* do not meet, the order of the queues that priorities do not change.       *)
Kept == /\ IInv'
        /\ EvHonest /\ (MaxSig = 0 \/ MaxSuspend = 0) => EvHonest'
        /\ Sorted /\ PrioChanges = FALSE => Sorted'

-----------------------------------------------------------------------------
(* The sections are fine if each is an old one or is fine itself, and no     *)
(* event that is being deleted comes into use.                               *)
LEMMA SectionsKept ==
  ASSUME Sections, \A x \in Events : ucType[x] = "UNUSED" => ucType'[x] = "UNUSED",
         \A i \in 1..nest' : \/ OldFrame(i)
                             \/ /\ frames'[i].op # "tick" => frames'[i].ev \in Events
                                /\ frames'[i].op = "release" /\ frames'[i].tcb # Null =>
                                     frames'[i].n > 0
                                /\ frames'[i].op = "delete" =>
                                     i = 1 /\ ucType'[frames'[i].ev] = "UNUSED"
  PROVE  Sections'
<1> SUFFICES ASSUME NEW i \in 1..nest'
             PROVE  /\ frames'[i].op # "tick" => frames'[i].ev \in Events
                    /\ frames'[i].op = "release" /\ frames'[i].tcb # Null => frames'[i].n > 0
                    /\ frames'[i].op = "delete" => i = 1 /\ ucType'[frames'[i].ev] = "UNUSED"
  BY DEF Sections, SectionOK
<1>1. CASE OldFrame(i)
  <2>1. i \in 1..nest /\ frames'[i] = frames[i]
    BY <1>1 DEF OldFrame
  <2>2. SectionOK(i, frames[i])
    BY <2>1 DEF Sections
  <2> QED BY <2>1, <2>2 DEF SectionOK
<1> QED BY <1>1

(* Threads that leave the queues leave no token beside a waiter behind.      *)
LEMMA LeavesObj ==
  ASSUME IInv, EvInv', OnlyLeaves, UNCHANGED objVars
  PROVE  ObjInv'
<1> USE DEF IInv, ObjInv
<1>0. UNCHANGED <<ucType, freeEvents, ulCounter, ulMaxCounter, ulOption>>
  BY DEF objVars
<1>1. ObjType'
  BY <1>0 DEF ObjType
<1>2. Sections'
  <2>1. \A i \in 1..nest' : OldFrame(i) \/ frames'[i] = TickFrame
    BY DEF OnlyLeaves
  <2>2. TickFrame.op = "tick"
    BY DEF TickFrame
  <2> QED BY <1>0, <2>1, <2>2, SectionsKept
<1>3. \A e \in Events : wq[e] = <<>> => wq'[e] = <<>>
  <2> SUFFICES ASSUME NEW e \in Events, wq[e] = <<>> PROVE wq'[e] = <<>>
    OBVIOUS
  <2>1. wq'[e] \in Seq(Threads) /\ Shrinks(wq'[e], <<>>)
    BY DEF OnlyLeaves, EvInv, EventType, QueueType
  <2> QED BY <2>1, ShrinksEmpty
<1>4. NoTokenWithWaiters'
  BY <1>0, <1>3 DEF NoTokenWithWaiters
<1>5. FreeHasNoWaiter'
  BY <1>0, <1>3, EventAssumption DEF OnlyLeaves, FreeHasNoWaiter, ObjType
<1> QED BY <1>1, <1>2, <1>4, <1>5

(* A part of a queue in order is in order.                                   *)
LEMMA ShrinksOrder ==
  ASSUME NEW e \in Events, InOrder(e), Shrinks(wq'[e], wq[e]), UNCHANGED <<ring, ucPriority>>
  PROVE  InOrder(e)'
<1> SUFFICES ASSUME NEW i \in 1..Len(wq'[e]), NEW j \in 1..Len(wq'[e])
             PROVE  /\ ring[wq'[e][i]] = EventIndexQ(ucPriority[wq'[e][i]])
                    /\ i =< j => ucPriority[wq'[e][i]] =< ucPriority[wq'[e][j]]
  BY DEF InOrder, EventIndexQ
<1>0. i =< i
  OBVIOUS
<1>1. PICK a, b \in 1..Len(wq[e]) : a =< b /\ wq'[e][i] = wq[e][a] /\ wq'[e][i] = wq[e][b]
  BY <1>0 DEF Shrinks
<1>2. ASSUME i =< j PROVE ucPriority[wq'[e][i]] =< ucPriority[wq'[e][j]]
  <2>1. PICK c, d \in 1..Len(wq[e]) : c =< d /\ wq'[e][i] = wq[e][c] /\ wq'[e][j] = wq[e][d]
    BY <1>2 DEF Shrinks
  <2>2. ucPriority[wq[e][c]] =< ucPriority[wq[e][d]]
    BY <2>1 DEF InOrder
  <2> QED BY <2>1, <2>2
<1> QED BY <1>1, <1>2 DEF InOrder

(* Queues that only grow shorter stay in order.                              *)
LEMMA LeavesSorted ==
  ASSUME Sorted, \A e \in Events : Shrinks(wq'[e], wq[e]),
         UNCHANGED <<ring, ucPriority, ulOption>>
  PROVE  Sorted'
  BY ShrinksOrder DEF Sorted

-----------------------------------------------------------------------------
(* The environment's steps.                                                  *)
LEMMA EnvironmentKeeps ==
  ASSUME IInv, IsrWakesPended = FALSE, Environment
  PROVE  Kept
<1> USE DEF IInv
<1>0. UNCHANGED objVars /\ UNCHANGED ulOption /\ TRUE \in BOOLEAN
  BY DEF Environment, objVars
<1>s. OnlyLeaves => \A e \in Events : Shrinks(wq'[e], wq[e])
  BY DEF OnlyLeaves
<1>1. CASE Tick \/ TickNext
  <2>1. UNCHANGED <<ring, ucPriority>>
    BY <1>1, TickCases
  <2> QED BY <1>0, <1>s, <1>1, <2>1, TickKeeps, TickLeaves, TickCallsKept, LeavesObj, LeavesSorted
          DEF Kept
<1>3. ASSUME NEW t \in Threads, NEW inf \in BOOLEAN, ThreadWakeup(t, inf) PROVE Kept
  <2>1. UNCHANGED <<ring, ucPriority>>
    BY <1>3, ThreadWakeupCases
  <2> QED BY <1>0, <1>s, <1>3, <2>1, ThreadWakeupKeeps, ThreadWakeupLeaves, ThreadWakeupCalls,
             LeavesObj, LeavesSorted DEF Kept
<1>4. ASSUME NEW t \in Threads, NEW s \in {"EINTR", "RESTART"}, Signal(t, s) PROVE Kept
  <2>1. UNCHANGED <<ring, ucPriority>>
    BY <1>4, SignalCases
  <2> QED BY <1>0, <1>s, <1>4, <2>1, SignalKeeps, SignalLeaves, SignalCalls, LeavesObj, LeavesSorted
          DEF Kept
<1>5. ASSUME NEW t \in Threads, SigReturn(t) PROVE Kept
  <2>1. UNCHANGED <<ring, ucPriority>>
    BY <1>5, SigReturnCases
  <2> QED BY <1>0, <1>s, <1>5, <2>1, SigReturnKeeps, SigReturnLeaves, SigReturnCalls, LeavesObj,
             LeavesSorted DEF Kept
<1>9. ASSUME NEW t \in Threads, PendReturn(t) PROVE Kept
  <2>1. UNCHANGED <<ring, ucPriority>>
    BY <1>9, PendReturnCases
  <2> QED BY <1>0, <1>s, <1>9, <2>1, PendReturnKeeps, PendReturnLeaves, PendReturnCalls, LeavesObj,
             LeavesSorted DEF Kept
<1>q. ASSUME EvInv', UNCHANGED kernVars, UNCHANGED <<wq, waitOn, ring>>, EvCalls(TRUE)',
             EvHonest => EvHonest', ucPriority' = ucPriority \/ PrioChanges
      PROVE  Kept
  <2>1. OnlyLeaves
    BY <1>q, QuietLeaves
  <2>2. ASSUME Sorted, PrioChanges = FALSE PROVE Sorted'
    BY <1>0, <1>s, <1>q, <2>1, <2>2, LeavesSorted
  <2> QED BY <1>0, <1>q, <2>1, <2>2, LeavesObj DEF Kept
<1>b. ASSUME NEW t \in Threads, NEW st, usStatus' = [usStatus EXCEPT ![t] = st],
             "SEM" \in st <=> "SEM" \in usStatus[t],
             UNCHANGED <<kernVars, queueVars, waitOn, ring, ucPriority, ucWaitTimeout,
                         ucIsEventDelete, call, sig>>, EvInv'
      PROVE  Kept
  <2>1. \A u \in Threads : Stays(u) /\ SameSigs(u)
    BY <1>b, CtxKept DEF Stays, SameCall, EvInv, EventType, StatusType
  <2>2. UNCHANGED <<wq, waitOn, ring>> /\ UNCHANGED kernVars /\ ucPriority' = ucPriority
    BY <1>b DEF queueVars
  <2> QED BY <1>0, <1>q, <1>b, <2>1, <2>2, StaysCalls
<1>6. ASSUME NEW t \in Threads, ThreadSuspend(t) PROVE Kept
  BY <1>b, <1>6, ThreadSuspendKeeps DEF ThreadSuspend, SUSPEND
<1>7. ASSUME NEW t \in Threads, NEW levels \in {1, ulSuspendNesting[t]}, ThreadResume(t, levels)
      PROVE  Kept
  BY <1>b, <1>7, ThreadResumeKeeps DEF ThreadResume, SUSPEND
<1>8. ASSUME NEW t \in Threads, NEW p \in Priorities, ThreadSetPriority(t, p) PROVE Kept
  <2>1. /\ UNCHANGED kernVars /\ UNCHANGED <<wq, waitOn, ring>> /\ PrioChanges
        /\ UNCHANGED <<usStatus, waitOn, ucWaitTimeout, ucIsEventDelete, call, sig>>
    BY <1>8 DEF ThreadSetPriority, queueVars, waitVars
  <2> QED BY <1>0, <1>8, <1>q, <2>1, ThreadSetPriorityKeeps, NotKernCalls
<1> QED BY <1>1, <1>3, <1>4, <1>5, <1>6, <1>7, <1>8, <1>9 DEF Environment


-----------------------------------------------------------------------------
(* The steps of the semaphore that put nobody into a queue.                  *)

(* A step that leaves the queues alone keeps everything if it keeps the      *)
(* invariant; an option is only given to an event nobody waits on.           *)
LEMMA QueuesSame ==
  ASSUME EvInv', EvCalls(TRUE)', EvHonest => EvHonest', ObjInv',
         UNCHANGED <<wq, ring, ucPriority>>,
         \A e \in Events : ulOption'[e] = ulOption[e] \/ wq[e] = <<>>
  PROVE  Kept
<1>1. ASSUME Sorted PROVE Sorted'
  <2> SUFFICES ASSUME NEW e \in Events, ulOption'[e].prio PROVE InOrder(e)'
    BY DEF Sorted
  <2>1. CASE wq[e] = <<>>
    BY <2>1 DEF InOrder
  <2>2. CASE ulOption'[e] = ulOption[e]
    BY <1>1, <2>2 DEF Sorted, InOrder, EventIndexQ
  <2> QED BY <2>1, <2>2
<1> QED BY <1>1 DEF Kept, IInv

(* A step of a thread that waits for nothing: its call ends, or the counter  *)
(* of a semaphore changes, or both.                                          *)
LEMMA CounterKeeps ==
  ASSUME IInv, UNCHANGED kernVars,
         UNCHANGED <<queueVars, waitVars, ring, ucPriority, ucIsEventDelete,
                     ulSuspendNesting, sig, ucType, freeEvents, ulMaxCounter, ulOption>>,
         \/ call' = call
         \/ \E t \in Threads : IsReady(t) /\ call' = [call EXCEPT ![t] = Running],
         ulCounter' \in [Events -> 0..MaxCounter],
         NoTokenWithWaiters'
  PROVE  Kept
<1> USE DEF IInv
<1>1. UNCHANGED <<wq, wqNum, usStatus, inRing, waitOn, ucWaitTimeout>> /\ TRUE \in BOOLEAN
  BY DEF queueVars, waitVars
<1>2. SigType' /\ FlagType' /\ PrioType' /\ ObjType'
  BY <1>1 DEF EvInv, EventType, SigType, FlagType, PrioType, ObjInv, ObjType
<1>5. \A u \in Threads : call'[u] = call[u] \/ (call'[u] = Running /\ IsReady(u))
  BY DEF EvInv, EventType, CallType
<1>6. CallType'
  BY <1>5, RunningCall DEF EvInv, EventType, CallType
<1>8. \A u \in Threads : "SEM" \in usStatus[u] => SameWait(u)
  BY <1>5 DEF SameWait, IsReady
<1>9. EvInv'
  BY <1>1, <1>2, <1>6, <1>8, KernSame, QuietKeeps
<1>10. EvCalls(TRUE)' /\ (EvHonest => EvHonest')
  BY <1>1, NotKernCalls, RunningCalls
<1>11. FreeHasNoWaiter'
  BY <1>1 DEF ObjInv, FreeHasNoWaiter
<1>12. Sections'
  BY DEF ObjInv, Sections, SectionOK, kernVars
<1> QED BY <1>1, <1>2, <1>9, <1>10, <1>11, <1>12, QueuesSame DEF ObjInv

(* A counter that grows smaller never leaves a token beside a waiter.         *)
LEMMA CounterDown ==
  ASSUME IInv, NEW e \in Events, NEW n \in 0..MaxCounter, n =< ulCounter[e],
         ulCounter' = [ulCounter EXCEPT ![e] = n], UNCHANGED <<wq, ucType>>
  PROVE  ulCounter' \in [Events -> 0..MaxCounter] /\ NoTokenWithWaiters'
<1> USE DEF IInv, ObjInv
<1>1. ulCounter' \in [Events -> 0..MaxCounter]
  BY DEF ObjType
<1>2. \A x \in Events : ulCounter'[x] > 0 => ulCounter[x] > 0
  <2> SUFFICES ASSUME NEW x \in Events, ulCounter'[x] > 0 PROVE ulCounter[x] > 0
    OBVIOUS
  <2>1. ulCounter[x] \in 0..MaxCounter /\ MaxCounter \in Nat
        /\ ulCounter \in [Events -> 0..MaxCounter]
    BY SemaphoreCAssumption DEF ObjType
  <2> QED BY <2>1
<1> QED BY <1>1, <1>2 DEF NoTokenWithWaiters

(* API_SemaphoreCTryPend.                                                    *)
LEMMA SemaphoreCTryPendKeeps ==
  ASSUME IInv, NEW e \in Events, SemaphoreCTryPend(e)
  PROVE  Kept
<1>1. ulCounter[e] - 1 \in 0..MaxCounter /\ ulCounter[e] - 1 =< ulCounter[e]
  BY SemaphoreCAssumption DEF SemaphoreCTryPend, IInv, ObjInv, ObjType
<1>2. UNCHANGED <<kernVars, queueVars, waitVars, ring, ucPriority, ucIsEventDelete,
                  ulSuspendNesting, call, sig, ucType, freeEvents, ulMaxCounter, ulOption>>
  BY DEF SemaphoreCTryPend, eventVars
<1>3. ulCounter' = [ulCounter EXCEPT ![e] = ulCounter[e] - 1] /\ wq' = wq
  BY <1>2 DEF SemaphoreCTryPend, queueVars
<1> QED BY <1>1, <1>2, <1>3, CounterDown, CounterKeeps

(* API_SemaphoreCClear.                                                      *)
LEMMA SemaphoreCClearKeeps ==
  ASSUME IInv, NEW e \in Events, SemaphoreCClear(e)
  PROVE  Kept
<1>1. 0 \in 0..MaxCounter /\ 0 =< ulCounter[e]
  BY SemaphoreCAssumption DEF IInv, ObjInv, ObjType
<1>2. UNCHANGED <<kernVars, queueVars, waitVars, ring, ucPriority, ucIsEventDelete,
                  ulSuspendNesting, call, sig, ucType, freeEvents, ulMaxCounter, ulOption>>
  BY DEF SemaphoreCClear, eventVars
<1>3. ulCounter' = [ulCounter EXCEPT ![e] = 0] /\ wq' = wq
  BY <1>2 DEF SemaphoreCClear, queueVars
<1> QED BY <1>1, <1>2, <1>3, CounterDown, CounterKeeps

(* A free event has an empty queue, so emptying it again changes nothing.    *)
LEMMA SemaphoreCCreateKeeps ==
  ASSUME IInv, NEW e \in Events, NEW init \in 0..MaxCounter, NEW max \in 1..MaxCounter,
         NEW option \in Options, SemaphoreCCreate(e, init, max, option)
  PROVE  Kept
<1> USE DEF IInv, ObjInv
<1>1. /\ UNCHANGED kernVars
      /\ UNCHANGED <<usStatus, inRing, waitOn, ucWaitTimeout, ring, ucPriority,
                     ucIsEventDelete, ulSuspendNesting, call, sig>>
      /\ nest = 0 /\ TRUE \in BOOLEAN
  BY DEF SemaphoreCCreate, waitVars, ThreadEnter
<1>2. e \in freeEvents /\ wq[e] = <<>>
  BY DEF SemaphoreCCreate, FreeHasNoWaiter
<1>3. wqNum[e] = 0
  BY <1>2 DEF EvInv, QueuesAgree
<1>4. wq' = wq /\ wqNum' = wqNum
  BY <1>2, <1>3 DEF SemaphoreCCreate, EvInv, EventType, QueueType
<1>5. UNCHANGED eventVars
  BY <1>1, <1>4 DEF eventVars, waitVars, queueVars
<1>6. EvInv' /\ EvCalls(TRUE)' /\ (EvHonest => EvHonest')
  BY <1>1, <1>5, EventSameKeeps, NotKernCalls
<1>8. ObjType'
  BY SemaphoreCAssumption DEF SemaphoreCCreate, ObjType
<1>9. NoTokenWithWaiters'
  BY <1>2, <1>4 DEF SemaphoreCCreate, ObjType, NoTokenWithWaiters
<1>10. FreeHasNoWaiter'
  BY <1>1, <1>4 DEF SemaphoreCCreate, ObjType, FreeHasNoWaiter
<1>11. Sections'
  BY <1>1 DEF Sections, kernVars
<1>12. \A x \in Events : ulOption'[x] = ulOption[x] \/ wq[x] = <<>>
  BY <1>2 DEF SemaphoreCCreate, ObjType
<1> QED BY <1>1, <1>4, <1>6, <1>8, <1>9, <1>10, <1>11, <1>12, QueuesSame

-----------------------------------------------------------------------------
(* The pend.                                                                 *)

(* The place by priority keeps a queue in order.                             *)
LEMMA InsertOrder ==
  ASSUME IInv, NEW t \in Threads, NEW e \in Events, InOrder(e), ~Contains(wq[e], t),
         wq'[e] = AddTCBToEventPriority(wq[e], t, ucPriority),
         ring' = [ring EXCEPT ![t] = EventIndexQ(ucPriority[t])],
         UNCHANGED ucPriority
  PROVE  InOrder(e)'
<1> DEFINE s == wq[e]
           k == PriorityPlace(s, t, ucPriority)
<1>1. /\ s \in Seq(Threads) /\ k \in 1..Len(s) + 1
      /\ \A j \in 1..k-1 : StaysAhead(s[j], t, ucPriority)
      /\ k =< Len(s) => ~StaysAhead(s[k], t, ucPriority)
  BY PriorityPlaceFacts DEF IInv, EvInv, EventType, QueueType
<1> HIDE DEF s, k
<1>2. /\ Len(wq'[e]) = Len(s) + 1 /\ Len(s) \in Nat
      /\ \A j \in 1..Len(s)+1 : wq'[e][j] =
              IF j < k THEN s[j] ELSE IF j = k THEN t ELSE s[j-1]
  <2>1. wq'[e] = InsertAt(s, k, t)
    BY DEF s, k, AddTCBToEventPriority
  <2>2. Len(s) \in Nat
    BY <1>1, LenProperties
  <2> QED BY <1>1, <2>1, <2>2, InsertAtProps
<1>3. /\ \A u \in Threads : ucPriority[u] \in Nat /\ ring[u] \in Nat
      /\ ring \in [Threads -> Nat]
  BY EventAssumption DEF IInv, EvInv, EventType, PrioType
<1>4. \A i \in 1..Len(s) : /\ s[i] \in Threads /\ s[i] # t
                           /\ ring[s[i]] = EventIndexQ(ucPriority[s[i]])
                           /\ \A j \in 1..Len(s) : i =< j => ucPriority[s[i]] =< ucPriority[s[j]]
  BY <1>1 DEF s, InOrder, Contains
<1>5. \A p, q \in Nat : p < q => EventIndexQ(p) =< EventIndexQ(q)
  BY IndexMonotone
<1>6. \A u \in Threads : ring[u] = EventIndexQ(ucPriority[u]) =>
                           (StaysAhead(u, t, ucPriority) <=> ucPriority[u] =< ucPriority[t])
  <2> SUFFICES ASSUME NEW u \in Threads, ring[u] = EventIndexQ(ucPriority[u])
               PROVE  StaysAhead(u, t, ucPriority) <=> ucPriority[u] =< ucPriority[t]
    OBVIOUS
  <2>1. EventIndexQ(ucPriority[u]) \in Int /\ EventIndexQ(ucPriority[t]) \in Int
    BY <1>3, EventAssumption DEF EventIndexQ
  <2>2. ucPriority[u] < ucPriority[t] => EventIndexQ(ucPriority[u]) =< EventIndexQ(ucPriority[t])
    BY <1>3, <1>5
  <2>3. ucPriority[t] < ucPriority[u] => EventIndexQ(ucPriority[t]) =< EventIndexQ(ucPriority[u])
    BY <1>3, <1>5
  <2>4. ucPriority[u] = ucPriority[t] => EventIndexQ(ucPriority[u]) = EventIndexQ(ucPriority[t])
    OBVIOUS
  <2>5. ucPriority[u] \in Nat /\ ucPriority[t] \in Nat
    BY <1>3
  <2> QED BY <2>1, <2>2, <2>3, <2>4, <2>5 DEF StaysAhead
<1>7. \A j \in 1..Len(s) : /\ j < k => ucPriority[s[j]] =< ucPriority[t]
                           /\ k =< j => ucPriority[t] =< ucPriority[s[j]]
  <2> SUFFICES ASSUME NEW j \in 1..Len(s)
               PROVE  /\ j < k => ucPriority[s[j]] =< ucPriority[t]
                      /\ k =< j => ucPriority[t] =< ucPriority[s[j]]
    OBVIOUS
  <2>1. j < k => ucPriority[s[j]] =< ucPriority[t]
    BY <1>1, <1>4, <1>6
  <2>2. ASSUME k =< j PROVE ucPriority[t] =< ucPriority[s[j]]
    <3>1. k \in 1..Len(s)
      BY <1>1, <1>2, <2>2
    <3>2. ~(ucPriority[s[k]] =< ucPriority[t])
      BY <1>1, <1>4, <1>6, <3>1
    <3>3. ucPriority[s[k]] =< ucPriority[s[j]]
      BY <1>4, <2>2, <3>1
    <3>4. ucPriority[s[k]] \in Nat /\ ucPriority[s[j]] \in Nat /\ ucPriority[t] \in Nat
      BY <1>3, <1>4, <3>1
    <3> QED BY <3>2, <3>3, <3>4
  <2> QED BY <2>1, <2>2
<1> SUFFICES ASSUME NEW i \in 1..Len(wq'[e]), NEW j \in 1..Len(wq'[e])
             PROVE  /\ ring'[wq'[e][i]] = EventIndexQ(ucPriority[wq'[e][i]])
                    /\ i =< j => ucPriority[wq'[e][i]] =< ucPriority[wq'[e][j]]
  BY DEF InOrder, EventIndexQ
<1>8. ring'[t] = EventIndexQ(ucPriority[t]) /\ \A u \in Threads : u # t => ring'[u] = ring[u]
  BY <1>3
<1>9. ring'[wq'[e][i]] = EventIndexQ(ucPriority[wq'[e][i]])
  <2>1. wq'[e][i] = t \/ \E a \in 1..Len(s) : wq'[e][i] = s[a]
    BY <1>1, <1>2
  <2> QED BY <1>4, <1>8, <2>1
<1>10. ASSUME i =< j PROVE ucPriority[wq'[e][i]] =< ucPriority[wq'[e][j]]
  <2>1. CASE wq'[e][i] = t /\ wq'[e][j] = t
    BY <1>3, <2>1
  <2>2. CASE i = k /\ j > k
    <3>1. wq'[e][i] = t /\ j - 1 \in 1..Len(s) /\ k =< j - 1 /\ wq'[e][j] = s[j-1]
      BY <1>1, <1>2, <2>2
    <3> QED BY <1>7, <3>1
  <2>3. CASE i < k /\ j = k
    <3>1. wq'[e][j] = t /\ i \in 1..Len(s) /\ wq'[e][i] = s[i]
      BY <1>1, <1>2, <2>3
    <3> QED BY <1>7, <2>3, <3>1
  <2>4. CASE i # k /\ j # k
    <3> DEFINE a == IF i < k THEN i ELSE i - 1
               b == IF j < k THEN j ELSE j - 1
    <3>0. i \in 1..Len(s)+1 /\ j \in 1..Len(s)+1 /\ k \in 1..Len(s)+1 /\ Len(s) \in Nat
      BY <1>1, <1>2
    <3>1. a \in 1..Len(s) /\ b \in 1..Len(s) /\ a =< b
      BY <1>10, <2>4, <3>0
    <3>2. wq'[e][i] = s[a] /\ wq'[e][j] = s[b]
      BY <1>2, <2>4, <3>0
    <3> QED BY <1>4, <3>1, <3>2
  <2>5. (i = k /\ j = k) => wq'[e][i] = t /\ wq'[e][j] = t
    BY <1>1, <1>2
  <2>6. i \in Int /\ j \in Int /\ k \in Int
    BY <1>1, <1>2
  <2> QED BY <1>10, <2>1, <2>2, <2>3, <2>4, <2>5, <2>6
<1> QED BY <1>9, <1>10

(* The thread that waits was in no queue.                                    *)
LEMMA ReadyInNoQueue ==
  ASSUME EvInv, NEW t \in Threads, IsReady(t)
  PROVE  waitOn[t] = Null /\ \A x \in Events : ~Contains(wq[x], t)
<1>1. waitOn[t] = Null
  BY DEF EvInv, EvWait, WaitOK, IsReady
<1> QED BY <1>1, EventAssumption DEF EvInv, QueuesAgree

(* The wait on a semaphore that has no token.                                *)
LEMMA WaitKeeps ==
  ASSUME IInv, NEW t \in Threads, NEW e \in Events, NEW timed \in BOOLEAN, NEW c,
         Waiting(c, e), IsReady(t), ThreadEnter, ucType[e] = "SEMC", ulCounter[e] = 0,
         EventWait(e, t, ulOption[e].prio, timed, ucPriority), call' = [call EXCEPT ![t] = c],
         UNCHANGED <<kernVars, ucPriority, ulSuspendNesting, sig, objVars>>
  PROVE  Kept
<1> USE DEF IInv, ObjInv
<1>1. /\ UNCHANGED <<ucType, freeEvents, ulCounter, ulMaxCounter, ulOption>>
      /\ UNCHANGED <<kernVars, ucPriority, ulSuspendNesting, sig>>
      /\ ucPriority' \in [Threads -> Priorities] /\ TRUE \in BOOLEAN
  BY DEF objVars, EvInv, EventType, PrioType
<1>2. EvInv'
  BY <1>1, EventWaitKeeps
<1>3. EvCalls(TRUE)' /\ (EvHonest => EvHonest')
  BY <1>1, EventWaitCalls
<1>4. ObjType'
  BY <1>1 DEF ObjType
<1>5. Sections'
  BY <1>1 DEF Sections, SectionOK, kernVars
<1>6. \A x \in Events : x # e => wq'[x] = wq[x]
  BY DEF EventWait, EvInv, EventType, QueueType
<1>7. NoTokenWithWaiters'
  BY <1>1, <1>6 DEF NoTokenWithWaiters
<1>8. FreeHasNoWaiter'
  <2>1. e \notin freeEvents
    BY DEF FreeHasNoWaiter
  <2>2. \A u \in Threads : waitOn'[u] \in {waitOn[u], e}
    BY DEF EventWait, EvInv, EventType, WaitType
  <2> QED BY <1>1, <1>6, <2>1, <2>2 DEF FreeHasNoWaiter, ObjType
<1>9. ASSUME Sorted PROVE Sorted'
  <2> SUFFICES ASSUME NEW x \in Events, ulOption[x].prio PROVE InOrder(x)'
    BY <1>1 DEF Sorted
  <2>1. InOrder(x) /\ ~Contains(wq[x], t) /\ waitOn[t] = Null
    BY <1>9, ReadyInNoQueue DEF Sorted
  <2>2. CASE x = e
    <3>1. wq'[e] = AddTCBToEventPriority(wq[e], t, ucPriority)
      BY <2>2 DEF EventWait, EvInv, EventType, QueueType
    <3>2. ring' = [ring EXCEPT ![t] = EventIndexQ(ucPriority[t])]
      BY <2>2 DEF EventWait
    <3> QED BY <1>1, <2>1, <2>2, <3>1, <3>2, InsertOrder
  <2>3. CASE x # e
    <3>1. wq'[x] = wq[x] /\ \A i \in 1..Len(wq[x]) : wq[x][i] \in Threads /\ wq[x][i] # t
      BY <1>6, <2>1, <2>3 DEF Contains, EvInv, EventType, QueueType
    <3>2. \A u \in Threads : u # t => ring'[u] = ring[u]
      BY DEF EventWait, EvInv, EventType, PrioType
    <3>3. \A i, j \in 1..Len(wq[x]) :
             /\ ring'[wq[x][i]] = EventIndexQ(ucPriority[wq[x][i]])
             /\ i =< j => ucPriority[wq[x][i]] =< ucPriority[wq[x][j]]
      BY <2>1, <3>1, <3>2 DEF InOrder
    <3> QED BY <1>1, <3>1, <3>3 DEF InOrder, EventIndexQ
  <2> QED BY <2>2, <2>3
<1> QED BY <1>2, <1>3, <1>4, <1>5, <1>7, <1>8, <1>9 DEF Kept

(* The section of API_SemaphoreCPend inside the kernel.                      *)
LEMMA PendSectionKeeps ==
  ASSUME IInv, NEW t \in Threads, NEW e \in Events, NEW timeout \in Timeouts,
         IsReady(t), PendSection(t, e, timeout)
  PROVE  Kept
<1>0. UNCHANGED <<kernVars, ucPriority, ulSuspendNesting, sig>> /\ ThreadEnter
  BY DEF PendSection
<1>1. CASE /\ call' = [call EXCEPT ![t] = Running]
           /\ UNCHANGED <<queueVars, waitVars, ring, ucIsEventDelete, objVars>>
  <2>1. ulCounter' \in [Events -> 0..MaxCounter] /\ NoTokenWithWaiters'
    BY <1>1 DEF IInv, ObjInv, ObjType, objVars, queueVars, NoTokenWithWaiters
  <2>2. UNCHANGED <<ucType, freeEvents, ulMaxCounter, ulOption>>
    BY <1>1 DEF objVars
  <2> QED BY <1>0, <1>1, <2>1, <2>2, CounterKeeps
<1>2. CASE /\ ulCounter[e] > 0
           /\ ulCounter' = [ulCounter EXCEPT ![e] = @ - 1]
           /\ call' = [call EXCEPT ![t] = Running]
           /\ UNCHANGED <<queueVars, waitVars, ring, ucIsEventDelete,
                          ucType, freeEvents, ulMaxCounter, ulOption>>
  <2>1. ulCounter[e] - 1 \in 0..MaxCounter /\ ulCounter[e] - 1 =< ulCounter[e]
    BY <1>2, SemaphoreCAssumption DEF IInv, ObjInv, ObjType
  <2>2. ulCounter' = [ulCounter EXCEPT ![e] = ulCounter[e] - 1] /\ UNCHANGED <<wq, ucType>>
    BY <1>2 DEF queueVars
  <2>3. ulCounter' \in [Events -> 0..MaxCounter] /\ NoTokenWithWaiters'
    BY <2>1, <2>2, CounterDown
  <2> QED BY <1>0, <1>2, <2>3, CounterKeeps
<1>3. CASE /\ ucType[e] = "SEMC" /\ ulCounter[e] = 0 /\ timeout # NotWait
           /\ EventWait(e, t, ulOption[e].prio, timeout # Infinite, ucPriority)
           /\ call' = [call EXCEPT ![t] =
                      [pc |-> "pend", ev |-> e, left |-> timeout,
                       inter |-> ulOption[e].inter, ret |-> "NONE", got |-> "no"]]
           /\ UNCHANGED objVars
  <2> DEFINE c == [pc |-> "pend", ev |-> e, left |-> timeout,
                   inter |-> ulOption[e].inter, ret |-> "NONE", got |-> "no"]
  <2>0. ulOption[e] \in [prio : BOOLEAN, inter : BOOLEAN]
    BY SemaphoreCAssumption DEF IInv, ObjInv, ObjType
  <2>1. ulOption[e].inter \in BOOLEAN
    BY <2>0
  <2>2. Waiting(c, e)
    BY <2>1 DEF Waiting, Call, SchedRets, Got
  <2>3. call' = [call EXCEPT ![t] = c]
    BY <1>3
  <2>4. (timeout # Infinite) \in BOOLEAN
    OBVIOUS
  <2> HIDE DEF c
  <2> QED BY <1>0, <1>3, <2>2, <2>3, <2>4, WaitKeeps
<1> QED BY <1>1, <1>2, <1>3 DEF PendSection

(* A call that goes back to __wait_again.                                    *)
LEMMA SemaphoreCPendAgainKeeps ==
  ASSUME IInv, NEW t \in Threads, SemaphoreCPendAgain(t)
  PROVE  Kept
<1>1. call[t] \in Call /\ call[t].pc = "again"
  BY DEF SemaphoreCPendAgain, IInv, EvInv, EventType, CallType
<1>2. call[t].ev \in Events /\ call[t].left \in Timeouts
  BY <1>1 DEF Call, IInv, EvCalls, HasEvent
<1> QED BY <1>2, PendSectionKeeps DEF SemaphoreCPendAgain

-----------------------------------------------------------------------------
(* The calls that ready waiters.                                             *)

(* The first waiter is taken: no token appears, nobody comes to wait.        *)
LEMMA TakeKeeps ==
  ASSUME IInv, NEW op \in Ops \ {"tick"}, NEW e \in Events, NEW n \in Nat,
         NEW d \in 1..MaxNest, AtTop(d), TakeFirst(op, e, n, d),
         ucType' \in {ucType, [ucType EXCEPT ![e] = "UNUSED"]},
         UNCHANGED <<freeEvents, ulCounter, ulMaxCounter, ulOption>>,
         op = "release" => n > 0,
         op = "delete" => d = 1 /\ ucType'[e] = "UNUSED"
  PROVE  Kept
<1> USE DEF IInv, ObjInv
<1>1. EvInv' /\ EvCalls(TRUE)' /\ (EvHonest => EvHonest')
  BY TakeFirstKeeps, TakeFirstCalls
<1>2. PICK t \in Threads :
         /\ wq' = [wq EXCEPT ![e] = Tail(wq[e])]
         /\ nest' = d /\ frames'[d].op = op /\ frames'[d].ev = e /\ frames'[d].tcb = t
         /\ frames'[d].n = n
         /\ \A i \in 1..nest' : i # d => OldFrame(i) /\ frames[i].tcb # t
         /\ UNCHANGED <<waitOn, ring, ucPriority>>
  BY TakeFirstFacts
<1>3. wq[e] # <<>>
  BY FirstWaiterFacts DEF TakeFirst
<1>4. \A x \in Events : Shrinks(wq'[x], wq[x]) /\ (wq[x] = <<>> => wq'[x] = <<>>)
  <2> SUFFICES ASSUME NEW x \in Events
               PROVE  Shrinks(wq'[x], wq[x]) /\ (wq[x] = <<>> => wq'[x] = <<>>)
    OBVIOUS
  <2>1. wq[x] \in Seq(Threads) /\ wq[e] \in Seq(Threads) /\ wq \in [Events -> Seq(Threads)]
    BY DEF EvInv, EventType, QueueType
  <2>2. CASE x = e
    <3>1. Len(wq[e]) > 0
      BY <1>3, <2>1, EmptySeq
    <3> QED BY <1>2, <1>3, <2>1, <2>2, <3>1, TailShrinks
  <2>3. CASE x # e
    BY <1>2, <2>1, <2>3, ShrinksSelf
  <2> QED BY <2>2, <2>3
<1>5. ObjType' /\ \A x \in Events : ucType'[x] \in {ucType[x], "UNUSED"}
  BY DEF ObjType
<1>6. Sections'
  BY <1>2, <1>5, SectionsKept
<1>7. NoTokenWithWaiters'
  BY <1>4, <1>5 DEF NoTokenWithWaiters
<1>8. FreeHasNoWaiter'
  BY <1>2, <1>4, <1>5 DEF FreeHasNoWaiter, ObjType
<1>9. ASSUME Sorted PROVE Sorted'
  BY <1>2, <1>4, <1>9, LeavesSorted
<1> QED BY <1>1, <1>5, <1>6, <1>7, <1>8, <1>9 DEF Kept

(* A step of the kernel that leaves every thread and every queue alone.      *)
LEMMA KernelStep ==
  ASSUME IInv, UNCHANGED notKern, KernType',
         \A i \in 1..nest' : OldFrame(i) \/ NoTcb(i),
         \A u \in Threads : InLimbo(u)' <=> InLimbo(u),
         UNCHANGED ulOption, ObjInv'
  PROVE  Kept
<1>1. /\ UNCHANGED <<wq, wqNum, usStatus, inRing, waitOn, ucWaitTimeout, ring, ucPriority,
                     ucIsEventDelete, ulSuspendNesting, call, sig>>
      /\ TRUE \in BOOLEAN
  BY DEF notKern, queueVars, waitVars
<1> QED BY <1>1, NotKernKeeps, NotKernCalls, QueuesSame DEF IInv

(* A token is counted only when nobody waits.                                *)
LEMMA CountTokenKeeps ==
  ASSUME IInv, NEW e \in Events, CountToken(e), wq' = wq, waitOn' = waitOn
  PROVE  /\ ObjType' /\ NoTokenWithWaiters' /\ FreeHasNoWaiter'
         /\ UNCHANGED <<ucType, ulOption>>
<1> USE DEF IInv, ObjInv
<1>1. wq[e] = <<>>
  BY NoWaiterFacts DEF CountToken
<1>2. ulCounter[e] + 1 \in 0..MaxCounter
  BY SemaphoreCAssumption DEF CountToken, ObjType
<1>3. ObjType'
  BY <1>2 DEF CountToken, ObjType
<1>4. NoTokenWithWaiters'
  BY <1>1 DEF CountToken, ObjType, NoTokenWithWaiters
<1>5. FreeHasNoWaiter'
  BY DEF CountToken, FreeHasNoWaiter
<1> QED BY <1>3, <1>4, <1>5 DEF CountToken

(* The objects are as they were when neither they nor the waits change.      *)
LEMMA ObjSame ==
  ASSUME IInv, UNCHANGED <<wq, waitOn, objVars>>
  PROVE  /\ ObjType' /\ NoTokenWithWaiters' /\ FreeHasNoWaiter'
         /\ UNCHANGED <<ucType, ulOption>>
<1>1. UNCHANGED <<ucType, freeEvents, ulCounter, ulMaxCounter, ulOption>>
  BY DEF objVars
<1> QED BY <1>1 DEF IInv, ObjInv, ObjType, NoTokenWithWaiters, FreeHasNoWaiter

(* A section that ends, or goes on without a waiter in hand.                 *)
LEMMA TopKeeps ==
  ASSUME IInv, NEW d \in 1..MaxNest, AtTop(d), UNCHANGED notKern,
         \/ EndFrame(d)
         \/ \E f \in Frame : /\ f.tcb = Null /\ f.op = "release" /\ f.ev \in Events
                             /\ SetFrame(d, f),
         \A x \in Events : ucType[x] = "UNUSED" => ucType'[x] = "UNUSED",
         UNCHANGED ulOption, ObjType', NoTokenWithWaiters', FreeHasNoWaiter'
  PROVE  Kept
<1>1. /\ KernType'
      /\ \A i \in 1..nest' : OldFrame(i) \/ NoTcb(i)
      /\ \A u \in Threads : InLimbo(u)' <=> InLimbo(u)
  BY TopQuiet DEF IInv
<1>2. d \in {nest, nest + 1} /\ KernType
  BY DEF AtTop, IInv, EvInv, EventType
<1>3. \A i \in 1..nest' : OldFrame(i) \/ /\ frames'[i].tcb = Null /\ frames'[i].op = "release"
                                         /\ frames'[i].ev \in Events
  BY <1>2, FramesAfter
<1>4. Sections'
  BY <1>3, SectionsKept DEF IInv, ObjInv
<1> QED BY <1>1, <1>4, KernelStep DEF ObjInv

(* API_SemaphoreCPost.                                                       *)
LEMMA SemaphoreCPostKeeps ==
  ASSUME IInv, NEW e \in Events, SemaphoreCPost(e)
  PROVE  Kept
<1>1. nest + 1 \in 1..MaxNest /\ AtTop(nest + 1)
  BY EventAssumption DEF SemaphoreCPost, IsrEnter, AtTop, IInv, EvInv, EventType, KernType
<1>2. CASE TakeFirst("post", e, 0, nest + 1) /\ UNCHANGED objVars
  <2>1. "post" \in Ops \ {"tick"} /\ 0 \in Nat
    BY DEF Ops
  <2>2. UNCHANGED <<ulCounter, ulMaxCounter, ulOption, freeEvents>> /\ ucType' = ucType
    BY <1>2 DEF objVars
  <2> QED BY <1>1, <1>2, <2>1, <2>2, TakeKeeps
<1>3. CASE CountToken(e) /\ UNCHANGED eventVars
  <2>1. UNCHANGED <<notKern, kernVars, wq, waitOn>>
    BY <1>3 DEF eventVars, notKern, queueVars, waitVars
  <2>2. ObjType' /\ NoTokenWithWaiters' /\ FreeHasNoWaiter' /\ UNCHANGED <<ucType, ulOption>>
    BY <1>3, <2>1, CountTokenKeeps
  <2>3. Sections'
    BY <2>1, <2>2 DEF IInv, ObjInv, Sections, SectionOK, kernVars
  <2> QED BY <2>1, <2>2, <2>3, KernSame, KernelStep DEF IInv, ObjInv
<1> QED BY <1>2, <1>3 DEF SemaphoreCPost

(* A round of the loop of API_SemaphoreCRelease.                             *)
LEMMA ReleaseLoopKeeps ==
  ASSUME IInv, NEW e \in Events, NEW n \in Nat, NEW d \in 1..MaxNest, AtTop(d),
         ReleaseLoop(e, n, d)
  PROVE  Kept
<1>1. CASE n > 0 /\ TakeFirst("release", e, n, d) /\ UNCHANGED objVars
  <2>1. "release" \in Ops \ {"tick"}
    BY DEF Ops
  <2>2. UNCHANGED <<ulCounter, ulMaxCounter, ulOption, freeEvents>> /\ ucType' = ucType
    BY <1>1 DEF objVars
  <2> QED BY <1>1, <2>1, <2>2, TakeKeeps
<1>2. CASE /\ n > 0 /\ CountToken(e)
           /\ SetFrame(d, [op |-> "release", ev |-> e, tcb |-> Null, n |-> n - 1])
           /\ UNCHANGED notKern
  <2> DEFINE f == [op |-> "release", ev |-> e, tcb |-> Null, n |-> n - 1]
  <2>1. f \in Frame /\ f.tcb = Null /\ f.op = "release" /\ f.ev \in Events
    BY <1>2 DEF Frame, Ops
  <2>2. SetFrame(d, f)
    BY <1>2
  <2> HIDE DEF f
  <2>3. UNCHANGED <<wq, waitOn>>
    BY <1>2 DEF notKern, queueVars, waitVars
  <2>4. ObjType' /\ NoTokenWithWaiters' /\ FreeHasNoWaiter' /\ UNCHANGED <<ucType, ulOption>>
    BY <1>2, <2>3, CountTokenKeeps
  <2> QED BY <1>2, <2>1, <2>2, <2>4, TopKeeps
<1>3. CASE EndFrame(d) /\ UNCHANGED <<notKern, objVars>>
  <2>1. UNCHANGED <<wq, waitOn, objVars>>
    BY <1>3 DEF notKern, queueVars, waitVars
  <2> QED BY <1>3, <2>1, ObjSame, TopKeeps
<1> QED BY <1>1, <1>2, <1>3 DEF ReleaseLoop

(* A round of the loop of API_SemaphoreCFlush.                               *)
LEMMA FlushLoopKeeps ==
  ASSUME IInv, NEW e \in Events, NEW d \in 1..MaxNest, AtTop(d), FlushLoop(e, d)
  PROVE  Kept
<1>1. CASE TakeFirst("flush", e, 0, d) /\ UNCHANGED objVars
  <2>1. "flush" \in Ops \ {"tick"} /\ 0 \in Nat
    BY DEF Ops
  <2>2. UNCHANGED <<ulCounter, ulMaxCounter, ulOption, freeEvents>> /\ ucType' = ucType
    BY <1>1 DEF objVars
  <2> QED BY <1>1, <2>1, <2>2, TakeKeeps
<1>2. CASE EndFrame(d) /\ UNCHANGED <<notKern, objVars>>
  <2>1. UNCHANGED <<wq, waitOn, objVars>>
    BY <1>2 DEF notKern, queueVars, waitVars
  <2> QED BY <1>2, <2>1, ObjSame, TopKeeps
<1> QED BY <1>1, <1>2 DEF FlushLoop

(* A deletion is at the bottom of the stack: when its queue is drained       *)
(* nobody is in anybody's hand, so nobody points to the event any more.      *)
LEMMA DeleteLoopKeeps ==
  ASSUME IInv, NEW e \in Events, 1 \in 1..MaxNest, AtTop(1), DeleteLoop(e, 1),
         ucType' = [ucType EXCEPT ![e] = "UNUSED"],
         UNCHANGED <<ulCounter, ulMaxCounter, ulOption>>
  PROVE  Kept
<1> USE DEF IInv, ObjInv
<1>0. /\ ucType'[e] = "UNUSED"
      /\ \A x \in Events : ucType'[x] \in {ucType[x], "UNUSED"}
  BY DEF ObjType
<1>1. CASE TakeFirst("delete", e, 0, 1) /\ UNCHANGED freeEvents
  <2>1. "delete" \in Ops \ {"tick"} /\ 0 \in Nat
    BY DEF Ops
  <2> QED BY <1>0, <1>1, <2>1, TakeKeeps
<1>2. CASE /\ EventWaitNum(e) = 0
           /\ freeEvents' = freeEvents \cup {e}
           /\ EndFrame(1)
           /\ UNCHANGED notKern
  <2>1. UNCHANGED <<wq, waitOn>>
    BY <1>2 DEF notKern, queueVars, waitVars
  <2>2. wq[e] = <<>>
    BY <1>2, NoWaiterFacts
  <2>3. \A u \in Threads : ~InLimbo(u)
    BY EventAssumption DEF AtTop, InLimbo, EvInv, EventType, KernType
  <2>4. \A u \in Threads : waitOn[u] # e
    BY <2>2, <2>3 DEF EvInv, QueuesAgree, Contains
  <2>5. ObjType'
    BY <1>2 DEF ObjType
  <2>6. NoTokenWithWaiters'
    BY <1>0, <2>1 DEF NoTokenWithWaiters
  <2>7. FreeHasNoWaiter'
    BY <1>0, <1>2, <2>1, <2>2, <2>4 DEF ObjType, FreeHasNoWaiter
  <2> QED BY <1>0, <1>2, <2>5, <2>6, <2>7, TopKeeps
<1> QED BY <1>1, <1>2 DEF DeleteLoop

(* API_SemaphoreCDelete up to its first window.                              *)
LEMMA SemaphoreCDeleteKeeps ==
  ASSUME IInv, NEW e \in Events, SemaphoreCDelete(e)
  PROVE  Kept
<1>1. nest + 1 = 1 /\ 1 \in 1..MaxNest /\ AtTop(1)
  BY EventAssumption DEF SemaphoreCDelete, ThreadEnter, AtTop
<1> QED BY <1>1, DeleteLoopKeeps DEF SemaphoreCDelete

(* The loops going on from a window.                                         *)
LEMMA LoopNextKeeps ==
  ASSUME IInv, LoopNext
  PROVE  Kept
<1> DEFINE f == frames[nest]
<1>1. nest \in 1..MaxNest /\ AtTop(nest) /\ nest \in 1..nest
  BY EventAssumption DEF LoopNext, AtTop, IInv, EvInv, EventType, KernType
<1>2. f \in Frame /\ f.n \in Nat
  BY <1>1 DEF IInv, EvInv, EventType, KernType, Frame
<1>e. SectionOK(nest, f)
  BY <1>1 DEF IInv, ObjInv, Sections
<1>3. CASE f.op = "release" /\ ReleaseLoop(f.ev, f.n, nest)
  <2>1. f.ev \in Events
    BY <1>e, <1>3 DEF SectionOK
  <2> QED BY <1>1, <1>2, <1>3, <2>1, ReleaseLoopKeeps
<1>4. CASE f.op = "flush" /\ FlushLoop(f.ev, nest)
  <2>1. f.ev \in Events
    BY <1>e, <1>4 DEF SectionOK
  <2> QED BY <1>1, <1>4, <2>1, FlushLoopKeeps
<1>5. CASE /\ f.op = "delete" /\ DeleteLoop(f.ev, nest)
           /\ UNCHANGED <<ucType, ulCounter, ulMaxCounter, ulOption>>
  <2>1. f.ev \in Events /\ nest = 1 /\ ucType[f.ev] = "UNUSED"
    BY <1>e, <1>5 DEF SectionOK
  <2>2. ucType' = [ucType EXCEPT ![f.ev] = "UNUSED"]
    BY <1>5, <2>1 DEF IInv, ObjInv, ObjType
  <2> QED BY <1>1, <1>5, <2>1, <2>2, DeleteLoopKeeps
<1> QED BY <1>3, <1>4, <1>5 DEF LoopNext

(* Out of a window: the waiter in hand becomes ready.                        *)
LEMMA EventHighKeeps ==
  ASSUME IInv, EventHigh
  PROVE  Kept
<1> USE DEF IInv, ObjInv
<1>1. PICK t : t = frames[nest].tcb
  OBVIOUS
<1>2. PICK f : f = frames[nest]
  OBVIOUS
<1>3. /\ nest > 0 /\ t # Null /\ EventReadyHighLevel(t)
      /\ ucIsEventDelete' = IF frames[nest].op = "delete"
                            THEN [ucIsEventDelete EXCEPT ![t] = "DELETE"]
                            ELSE ucIsEventDelete
      /\ UNCHANGED <<queueVars, ring, ucPriority, ulSuspendNesting, call, sig, objVars>>
      /\ CASE f.op = "post"    -> EndFrame(nest)
           [] f.op = "release" -> SetFrame(nest, [f EXCEPT !.tcb = Null, !.n = @ - 1])
           [] OTHER            -> SetFrame(nest, [f EXCEPT !.tcb = Null])
  BY <1>1, <1>2 DEF EventHigh
<1>4. /\ nest \in 1..MaxNest /\ nest \in 1..nest /\ f \in Frame /\ t \in Threads
      /\ waitOn' = [waitOn EXCEPT ![t] = Null]
  BY <1>1, <1>2, <1>3, HighFacts
<1>5. SectionOK(nest, f) /\ f.tcb = t
  BY <1>1, <1>2, <1>4 DEF Sections
<1>6. EndFrame(nest) \/ \E g \in Frame : /\ g.tcb = Null /\ g.op = f.op /\ g.ev = f.ev
                                         /\ SetFrame(nest, g)
  <2>1. CASE f.op = "post"
    BY <1>3, <2>1
  <2>2. CASE f.op = "release"
    <3> DEFINE g == [f EXCEPT !.tcb = Null, !.n = @ - 1]
    <3>1. f.n > 0
      BY <1>3, <1>5, <2>2 DEF SectionOK
    <3>2. g \in Frame /\ g.tcb = Null /\ g.op = f.op /\ g.ev = f.ev
      <4>1. f.n \in Nat
        BY <1>4 DEF Frame
      <4>2. f.n - 1 \in Nat
        BY <3>1, <4>1
      <4>3. g = [f EXCEPT !.tcb = Null, !.n = f.n - 1]
        OBVIOUS
      <4> QED BY <1>4, <4>2, <4>3 DEF Frame
    <3>3. SetFrame(nest, g)
      BY <1>3, <2>2
    <3> HIDE DEF g
    <3> QED BY <3>2, <3>3
  <2>3. CASE f.op \notin {"post", "release"}
    <3> DEFINE g == [f EXCEPT !.tcb = Null]
    <3>2. g \in Frame /\ g.tcb = Null /\ g.op = f.op /\ g.ev = f.ev
      BY <1>4 DEF Frame
    <3>3. SetFrame(nest, g)
      BY <1>3, <2>3
    <3> HIDE DEF g
    <3> QED BY <3>2, <3>3
  <2> QED BY <2>1, <2>2, <2>3
<1>7. UNCHANGED <<wq, wqNum, ucType, freeEvents, ulCounter, ulMaxCounter, ulOption>>
      /\ ucPriority' \in [Threads -> Priorities] /\ TRUE \in BOOLEAN
  BY <1>3 DEF queueVars, objVars, EvInv, EventType, PrioType
<1>8. EvInv'
  <2>1. EndFrame(nest) \/ \E g \in Frame : g.tcb = Null /\ SetFrame(nest, g)
    BY <1>6
  <2>2. ucIsEventDelete' \in {[ucIsEventDelete EXCEPT ![t] = "DELETE"], ucIsEventDelete}
    BY <1>3
  <2> QED BY <1>1, <1>3, <1>7, <2>1, <2>2, HighKeeps
<1>9. EvCalls(TRUE)' /\ (EvHonest => EvHonest')
  BY <1>1, <1>3, <1>7, HighCalls
<1>10. ObjType' /\ NoTokenWithWaiters'
  BY <1>7 DEF ObjType, NoTokenWithWaiters
<1>11. FreeHasNoWaiter'
  <2>1. \A u \in Threads : waitOn'[u] \in {waitOn[u], Null}
    BY <1>4 DEF EvInv, EventType, WaitType
  <2> QED BY <1>7, <2>1, EventAssumption DEF FreeHasNoWaiter, ObjType
<1>12. Sections'
  <2>1. KernType /\ nest \in {nest, nest + 1}
    BY DEF EvInv, EventType
  <2>2. \A i \in 1..nest' : OldFrame(i) \/ /\ i = nest /\ frames'[i].tcb = Null
                                           /\ frames'[i].op = f.op /\ frames'[i].ev = f.ev
    BY <1>4, <1>6, <2>1, FramesAfter
  <2> QED BY <1>5, <1>7, <2>2, SectionsKept DEF SectionOK
<1> QED BY <1>3, <1>7, <1>8, <1>9, <1>10, <1>11, <1>12, QueuesSame

-----------------------------------------------------------------------------
(* The initial states satisfy the invariant.                                 *)
LEMMA InitIInv == Init => IInv /\ EvHonest /\ Sorted
<1> SUFFICES ASSUME Init PROVE IInv /\ EvHonest /\ Sorted
  OBVIOUS
<1>1. EventInit /\ TRUE \in BOOLEAN
  BY DEF Init
<1>2. EvInv /\ EvCalls(TRUE) /\ EvHonest
  BY <1>1, EvInit, CallsInit
<1>3. ObjType
  BY SemaphoreCAssumption DEF Init, ObjType
<1>4. NoTokenWithWaiters /\ FreeHasNoWaiter
  BY EventAssumption DEF Init, EventInit, NoTokenWithWaiters, FreeHasNoWaiter
<1>5. Sections /\ Sorted
  BY DEF Init, EventInit, Sections, Sorted, InOrder
<1> QED BY <1>2, <1>3, <1>4, <1>5 DEF IInv, ObjInv

(* A step that changes nothing.                                              *)
LEMMA StutterKeeps ==
  ASSUME IInv, UNCHANGED vars
  PROVE  Kept
<1>1. UNCHANGED <<notKern, kernVars, wq, waitOn, objVars>>
  BY DEF vars, eventVars, notKern, queueVars, waitVars
<1>2. ObjInv' /\ UNCHANGED ulOption
  BY <1>1, ObjSame DEF IInv, ObjInv, Sections, SectionOK, kernVars
<1> QED BY <1>1, <1>2, KernSame, KernelStep DEF IInv

(* Every step keeps the invariant when interrupt handlers do not abort the   *)
(* infinite waits of others.                                                 *)
LEMMA NextIInv ==
  ASSUME IInv, IsrWakesPended = FALSE, [Next]_vars
  PROVE  Kept
<1>1. CASE \E e \in Events, init \in 0..MaxCounter, max \in 1..MaxCounter, o \in Options :
             SemaphoreCCreate(e, init, max, o)
  BY <1>1, SemaphoreCCreateKeeps
<1>2. CASE \E e \in Events, t \in Threads, timeout \in Timeouts : SemaphoreCPend(t, e, timeout)
  BY <1>2, PendSectionKeeps DEF SemaphoreCPend
<1>3. CASE \E e \in Events : SemaphoreCTryPend(e)
  BY <1>3, SemaphoreCTryPendKeeps
<1>4. CASE \E e \in Events : SemaphoreCClear(e)
  BY <1>4, SemaphoreCClearKeeps
<1>5. CASE \E e \in Events : SemaphoreCPost(e)
  BY <1>5, SemaphoreCPostKeeps
<1>t. IsrEnter => nest + 1 \in 1..MaxNest /\ AtTop(nest + 1)
  BY EventAssumption DEF IsrEnter, AtTop, IInv, EvInv, EventType, KernType
<1>6. CASE \E e \in Events, n \in 1..MaxRelease : SemaphoreCRelease(e, n)
  <2>1. PICK e \in Events, n \in 1..MaxRelease : SemaphoreCRelease(e, n)
    BY <1>6
  <2>2. n \in Nat /\ IsrEnter /\ ReleaseLoop(e, n, nest + 1)
    BY <2>1 DEF SemaphoreCRelease
  <2> QED BY <1>t, <2>2, ReleaseLoopKeeps
<1>7. CASE \E e \in Events : SemaphoreCFlush(e)
  BY <1>7, <1>t, FlushLoopKeeps DEF SemaphoreCFlush
<1>8. CASE \E e \in Events : SemaphoreCDelete(e)
  BY <1>8, SemaphoreCDeleteKeeps
<1>9. CASE \E t \in Threads : SemaphoreCPendAgain(t)
  BY <1>9, SemaphoreCPendAgainKeeps
<1>10. CASE EventHigh
  BY <1>10, EventHighKeeps
<1>11. CASE LoopNext
  BY <1>11, LoopNextKeeps
<1>12. CASE Environment
  BY <1>12, EnvironmentKeeps
<1>13. CASE UNCHANGED vars
  BY <1>13, StutterKeeps
<1> QED
  BY <1>1, <1>2, <1>3, <1>4, <1>5, <1>6, <1>7, <1>8, <1>9, <1>10, <1>11, <1>12, <1>13 DEF Next

-----------------------------------------------------------------------------
(* The inductive invariant holds in every behaviour of the semaphore in      *)
(* which interrupt handlers use API_ThreadWakeup but not                      *)
(* API_ThreadWakeupEx(id, LW_TRUE).                                           *)
THEOREM InductiveInvariant == ASSUME IsrWakesPended = FALSE PROVE Spec => []IInv
<1>1. IInv /\ [Next]_vars => IInv'
  BY NextIInv DEF Kept
<1>2. Init => IInv
  BY InitIInv
<1> QED BY <1>1, <1>2, PTL DEF Spec

(* Every variable of the kernel keeps its type, EVENT_ulCounter its range     *)
(* 0 .. EVENT_ulMaxCounter's bound included.                                  *)
THEOREM TypeCorrect == ASSUME IsrWakesPended = FALSE PROVE Spec => []TypeOK
<1>1. IInv => TypeOK
  BY DEF IInv, EvInv, ObjInv, TypeOK
<1> QED BY <1>1, InductiveInvariant, PTL

(* A thread is in the ready ring exactly once while it is ready, whatever     *)
(* interrupts come between _EventReady...LowLevel and _EventReadyHighLevel.   *)
THEOREM ReadyRingCorrect == ASSUME IsrWakesPended = FALSE PROVE Spec => []ReadyRingOnce
<1>1. IInv => ReadyRingOnce
  BY DEF IInv, EvInv, RingOnce, ReadyRingOnce
<1> QED BY <1>1, InductiveInvariant, PTL

(* The wait queues, WQ_usNum and TCB_peventPtr agree in every window of every *)
(* call, for any number of threads, semaphores and nested interrupts.         *)
THEOREM QueueCorrect == ASSUME IsrWakesPended = FALSE PROVE Spec => []QueueConsistent
<1>1. IInv => QueueConsistent
  BY DEF IInv, EvInv, QueuesAgree, QueueConsistent
<1> QED BY <1>1, InductiveInvariant, PTL

(* No wakeup is lost: a semaphore that keeps a token has nobody waiting.      *)
THEOREM NoLostToken == ASSUME IsrWakesPended = FALSE PROVE Spec => []NoTokenWithWaiters
<1>1. IInv => NoTokenWithWaiters
  BY DEF IInv, ObjInv
<1> QED BY <1>1, InductiveInvariant, PTL

(* API_SemaphoreCDelete gives an event back only when nobody waits on it or   *)
(* still points to it, so API_SemaphoreCCreate never strands a thread.        *)
THEOREM DeleteStrandsNobody == ASSUME IsrWakesPended = FALSE PROVE Spec => []FreeHasNoWaiter
<1>1. IInv => FreeHasNoWaiter
  BY DEF IInv, ObjInv
<1> QED BY <1>1, InductiveInvariant, PTL

(* The outcome a thread finds recorded is the one HonestPend asks for.       *)
LEMMA HonestMeans ==
  ASSUME NEW c, NEW ret, NEW wt, NEW del, Honest(c, ret, wt, del)
  PROVE  HonestOutcome(c, ret, wt, del)
<1>1. CASE ret # "NONE"
  BY <1>1 DEF Honest, HonestOutcome
<1>2. CASE ret = "NONE"
  <2>1. CASE wt = "OUT" /\ c.got = "no"
    BY <1>2, <2>1 DEF HonestOutcome, PendResult
  <2>2. CASE wt = "CLEAR" /\ del = "EXIST" /\ c.got \in {"token", "flush"}
    BY <1>2, <2>2 DEF HonestOutcome, PendResult
  <2>3. CASE wt = "CLEAR" /\ del = "DELETE" /\ c.got = "deleted"
    BY <1>2, <2>3 DEF HonestOutcome, PendResult
  <2> QED BY <1>2, <2>1, <2>2, <2>3 DEF Honest
<1> QED BY <1>1, <1>2

(* A pend reports what was done for it: whoever got a token, was flushed or   *)
(* had its semaphore deleted is told so, and nobody else, under handlers and   *)
(* restarts, as long as signals do not meet suspended threads.                *)
THEOREM HonestCorrect ==
  ASSUME IsrWakesPended = FALSE, MaxSig = 0 \/ MaxSuspend = 0
  PROVE  Spec => []HonestPend
<1>1. Init => IInv /\ EvHonest
  BY InitIInv
<1>2. IInv /\ EvHonest /\ [Next]_vars => IInv' /\ EvHonest'
  BY NextIInv DEF Kept
<1>3. EvHonest => HonestPend
  <2> SUFFICES ASSUME EvHonest, NEW t \in Threads
               PROVE  /\ call[t].pc = "pend" /\ usStatus[t] \cap PendAny = {} =>
                           HonestOutcome(call[t], call[t].ret, ucWaitTimeout[t],
                                         ucIsEventDelete[t])
                      /\ \A k \in 1..Len(sig[t]) :
                           sig[t][k].call.pc = "pend" =>
                             HonestOutcome(sig[t][k].call, CtxRet(sig[t][k]),
                                           sig[t][k].ucWaitTimeout, sig[t][k].ucIsEventDelete)
    BY DEF HonestPend, CtxRet
  <2>1. usStatus[t] \cap PendAny = {} => "SEM" \notin usStatus[t]
    BY DEF PendAny
  <2> QED BY <2>1, HonestMeans DEF EvHonest, HonestCall, HonestCtx
<1> QED BY <1>1, <1>2, <1>3, PTL DEF Spec

(* The waiter a post readies is the most urgent one of a queue by priority,   *)
(* as long as nobody changes a waiter's priority.                             *)
THEOREM HighestFirstCorrect ==
  ASSUME IsrWakesPended = FALSE, PrioChanges = FALSE
  PROVE  Spec => []HighestFirst
<1>1. Init => IInv /\ Sorted
  BY InitIInv
<1>2. IInv /\ Sorted /\ [Next]_vars => IInv' /\ Sorted'
  BY NextIInv DEF Kept
<1>3. IInv /\ Sorted => HighestFirst
  <2> SUFFICES ASSUME IInv, Sorted, NEW e \in Events, ulOption[e].prio,
                      NEW i \in 1..Len(wq[e])
               PROVE  ucPriority[FirstWaiter(e)] =< ucPriority[wq[e][i]]
    BY DEF HighestFirst
  <2>1. wq[e] \in Seq(Threads) /\ 1 \in 1..Len(wq[e]) /\ 1 =< i
    BY DEF IInv, EvInv, EventType, QueueType
  <2>2. FirstWaiter(e) = wq[e][1]
    BY <2>1 DEF FirstWaiter
  <2> QED BY <2>1, <2>2 DEF Sorted, InOrder
<1> QED BY <1>1, <1>2, <1>3, PTL DEF Spec
=============================================================================
