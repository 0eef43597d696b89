---------------------------- MODULE SemaphoreRW ----------------------------
(***************************************************************************)
(* The read-write semaphore: API_SemaphoreRWCreate, RWDelete, RWPendR,      *)
(* RWPendW, RWPost over the wait machinery of Event.  One semaphore; the    *)
(* two wait queues of its control block are the Events of that module.      *)
(* None of the calls may be made by an interrupt handler; ticks and wakeups *)
(* come between the pieces of RWPost and RWDelete.                           *)
(*                                                                         *)
(* Pends and posts come in pairs: a post by a thread without the semaphore   *)
(* is left out.  So are signals, suspension and LW_OPTION_DELETE_SAFE.       *)
(***************************************************************************)
EXTENDS Event

CONSTANTS
  Q_R, Q_W,       \* EVENT_RW_Q_R and EVENT_RW_Q_W, the two wait queues
  MaxHolds,       \* bound: times a thread has the semaphore
  Options         \* ulOption values in use: [prio, inter, preferWriter]

ASSUME SemaphoreRWAssumption ==
  /\ Q_R # Q_W /\ Events = {Q_R, Q_W}
  /\ IsFiniteSet(Threads)
  /\ MaxHolds \in Nat \ {0}
  /\ Options \subseteq [prio : BOOLEAN, inter : BOOLEAN, preferWriter : BOOLEAN]
  /\ Options # {}

VARIABLES
  ucType,         \* EVENT_ucType
  ulCounter,      \* EVENT_ulCounter: those who use it
  iStatus,        \* EVENT_iStatus, "R" or "W"
  pvTcbOwn,       \* EVENT_pvTcbOwn: the writer
  pvPtr,          \* EVENT_pvPtr: recursive pends of the writer
  ulOption,       \* EVENT_ulOption
  held            \* history: pends for reading and writing that returned
                  \* ERROR_NONE to a thread, less its posts

rwVars == <<ucType, ulCounter, iStatus, pvTcbOwn, pvPtr, ulOption>>
vars == <<eventVars, rwVars, held>>

Nothing == [R |-> 0, W |-> 0]

TypeOK ==
  /\ EventType
  /\ ucType \in {"UNUSED", "SEMRW"}
  /\ ulCounter \in 0 .. Cardinality(Threads) * MaxHolds
  /\ iStatus \in {"R", "W"}
  /\ pvTcbOwn \in Threads \cup {Null}
  /\ pvPtr \in 0 .. MaxHolds
  /\ ulOption \in Options
  /\ held \in [Threads -> [R : 0 .. MaxHolds, W : 0 .. MaxHolds]]

Init ==
  /\ EventInit
  /\ ucType = "UNUSED"
  /\ ulCounter = 0
  /\ iStatus = "R"
  /\ pvTcbOwn = Null
  /\ pvPtr = 0
  /\ ulOption \in Options
  /\ held = [t \in Threads |-> Nothing]

-----------------------------------------------------------------------------
(* The control block is free again when nobody drains it any more.           *)
SemaphoreRWCreate(option) ==
  /\ ThreadEnter
  /\ ucType = "UNUSED"
  /\ ucType' = "SEMRW"
  /\ ulCounter' = 0
  /\ iStatus' = "R"
  /\ pvTcbOwn' = Null
  /\ pvPtr' = 0
  /\ ulOption' = option
  /\ wq' = [q \in Events |-> <<>>]
  /\ wqNum' = [q \in Events |-> 0]
  /\ UNCHANGED <<kernVars, waitVars, ring, ucPriority, ucIsEventDelete,
                 ulSuspendNesting, call, sig, held>>

ModeOf(q) == IF q = Q_R THEN "R" ELSE "W"

(* When API_SemaphoreRWPendR and API_SemaphoreRWPendW need not wait.         *)
(* Mutant: a reader looks at the waiting writers only.                       *)
MayRead_NotStatus(t) == EventWaitNum(Q_W) = 0

MayRead(t) == iStatus = "R" /\ EventWaitNum(Q_W) = 0

MayWrite(t) == ulCounter = 0

Recurses(t) == ulCounter # 0 /\ pvTcbOwn = t

PendFails(t, q, timeout) ==
  /\ \/ ucType # "SEMRW"                             \* ERROR_EVENT_TYPE
     \/ /\ timeout = NotWait                         \* ERROR_THREAD_WAIT_TIMEOUT
        /\ IF q = Q_R THEN ~MayRead(t) ELSE ~MayWrite(t) /\ ~Recurses(t)
  /\ UNCHANGED <<queueVars, waitVars, ring, ucIsEventDelete, call, rwVars, held>>

ReadPasses(t) ==
  /\ ucType = "SEMRW" /\ MayRead(t)
  /\ ulCounter' = ulCounter + 1
  /\ held' = [held EXCEPT ![t].R = @ + 1]
  /\ UNCHANGED <<queueVars, waitVars, ring, ucIsEventDelete, call, ucType, iStatus,
                 pvTcbOwn, pvPtr, ulOption>>

WritePasses(t) ==
  /\ ucType = "SEMRW" /\ MayWrite(t)
  /\ ulCounter' = ulCounter + 1
  /\ iStatus' = "W"
  /\ pvTcbOwn' = t
  /\ held' = [held EXCEPT ![t].W = @ + 1]
  /\ UNCHANGED <<queueVars, waitVars, ring, ucIsEventDelete, call, ucType, pvPtr, ulOption>>

WriteRecurses(t) ==
  /\ ucType = "SEMRW" /\ Recurses(t)
  /\ pvPtr' = pvPtr + 1
  /\ held' = [held EXCEPT ![t].W = @ + 1]
  /\ UNCHANGED <<queueVars, waitVars, ring, ucIsEventDelete, call, ucType, ulCounter,
                 iStatus, pvTcbOwn, ulOption>>

PendWaits(t, q, timeout) ==
  /\ ucType = "SEMRW" /\ timeout # NotWait
  /\ IF q = Q_R THEN ~MayRead(t) ELSE ~MayWrite(t) /\ ~Recurses(t)
  /\ EventWait(q, t, ulOption.prio, timeout # Infinite, ucPriority)
  /\ call' = [call EXCEPT ![t] =
                [pc |-> "pend", ev |-> q, left |-> timeout,
                 inter |-> ulOption.inter, ret |-> "NONE", got |-> "no"]]
  /\ UNCHANGED <<rwVars, held>>

SemaphoreRWPendR(t, timeout) ==
  /\ ThreadEnter /\ IsReady(t) /\ call[t].pc = "run"
  /\ held[t].R < MaxHolds
  /\ PendFails(t, Q_R, timeout) \/ ReadPasses(t) \/ PendWaits(t, Q_R, timeout)
  /\ UNCHANGED <<kernVars, ucPriority, ulSuspendNesting, sig>>

SemaphoreRWPendW(t, timeout) ==
  /\ ThreadEnter /\ IsReady(t) /\ call[t].pc = "run"
  /\ held[t].W < MaxHolds
  /\ \/ PendFails(t, Q_W, timeout)
     \/ WritePasses(t)
     \/ WriteRecurses(t)
     \/ PendWaits(t, Q_W, timeout)
  /\ UNCHANGED <<kernVars, ucPriority, ulSuspendNesting, sig>>

(* The end of both after a wait.  (History: a semaphore that was deleted in  *)
(* the meantime gives nothing.)                                              *)
SemaphoreRWPendReturn(t) ==
  /\ PendReturn(t)
  /\ held' = IF /\ PendResult(ucWaitTimeout[t], ucIsEventDelete[t]) = "ERROR_NONE"
                /\ call[t].ev # Null
             THEN [held EXCEPT ![t][ModeOf(call[t].ev)] = @ + 1]
             ELSE held
  /\ UNCHANGED rwVars

-----------------------------------------------------------------------------
(* API_SemaphoreRWPost.  The frames of its sections:                        *)
(*   post, no tcb     before __release_pend; n: bIgnWrite                    *)
(*   post, tcb        a writer is taken off its queue                        *)
(*   release          the loop that readies all readers                      *)

PostCounts(t) ==
  /\ iStatus = "R" /\ ulCounter > 1
  /\ ulCounter' = ulCounter - 1
  /\ held' = [held EXCEPT ![t].R = @ - 1]
  /\ UNCHANGED <<eventVars, ucType, iStatus, pvTcbOwn, pvPtr, ulOption>>

(* Mutant: the recursion is not looked at.                                   *)
PostRecursed_Always(t) ==
  /\ iStatus = "W" /\ pvTcbOwn = t
  /\ pvPtr' = pvPtr - 1
  /\ held' = [held EXCEPT ![t].W = @ - 1]
  /\ UNCHANGED <<eventVars, ucType, ulCounter, iStatus, pvTcbOwn, ulOption>>

PostRecursed(t) ==
  /\ iStatus = "W" /\ pvTcbOwn = t /\ pvPtr > 0
  /\ pvPtr' = pvPtr - 1
  /\ held' = [held EXCEPT ![t].W = @ - 1]
  /\ UNCHANGED <<eventVars, ucType, ulCounter, iStatus, pvTcbOwn, ulOption>>

(* The decision that readers go first is taken with interrupts on.           *)
(* Mutant: LW_OPTION_RW_PREFER_WRITER is not looked at.                      *)
IgnWrite_NotOption == iStatus = "R" /\ EventWaitNum(Q_R) > 0

IgnWrite == iStatus = "R" /\ ~ulOption.preferWriter /\ EventWaitNum(Q_R) > 0

PostDecides(t) ==
  /\ \/ iStatus = "R" /\ ulCounter = 1
     \/ iStatus = "W" /\ pvTcbOwn = t /\ pvPtr = 0
  /\ SetFrame(nest + 1, [op |-> "post", ev |-> Null, tcb |-> Null,
                         n |-> IF IgnWrite THEN 1 ELSE 0])
  /\ held' = [held EXCEPT ![t][iStatus] = @ - 1]
  /\ UNCHANGED <<notKern, rwVars>>

SemaphoreRWPost(t) ==
  /\ ThreadEnter /\ IsReady(t) /\ call[t].pc = "run"
  /\ held[t][iStatus] > 0
  /\ ucType = "SEMRW" /\ ulCounter > 0
  /\ PostCounts(t) \/ PostRecursed(t) \/ PostDecides(t)

(* The loop that readies the readers; it ends in the state for reading.      *)
WakeReaders(d, counted) ==
  \/ /\ TakeFirst("release", Q_R, 0, d)
     /\ ulCounter' = counted + 1
     /\ UNCHANGED <<ucType, iStatus, pvTcbOwn, pvPtr, ulOption, held>>
  \/ /\ EventWaitNum(Q_R) = 0
     /\ EndFrame(d)
     /\ pvTcbOwn' = Null /\ iStatus' = "R"
     /\ UNCHANGED <<notKern, ucType, ulCounter, pvPtr, ulOption, held>>

(* __release_pend: a writer is handed the semaphore, or all readers are, or  *)
(* it is free.                                                               *)
(* Mutant: the readers that wait are not looked at.                          *)
ReleasePend_NoReaders(ignWrite, d) ==
  \/ /\ ~ignWrite /\ EventWaitNum(Q_W) > 0
     /\ TakeFirst("post", Q_W, 0, d)
     /\ UNCHANGED <<rwVars, held>>
  \/ /\ ignWrite \/ EventWaitNum(Q_W) = 0
     /\ EndFrame(d)
     /\ ulCounter' = ulCounter - 1
     /\ pvTcbOwn' = Null /\ iStatus' = "R"
     /\ UNCHANGED <<notKern, ucType, pvPtr, ulOption, held>>

ReleasePend(ignWrite, d) ==
  \/ /\ ~ignWrite /\ EventWaitNum(Q_W) > 0
     /\ TakeFirst("post", Q_W, 0, d)
     /\ UNCHANGED <<rwVars, held>>
  \/ /\ ignWrite \/ EventWaitNum(Q_W) = 0
     /\ EventWaitNum(Q_R) > 0
     /\ WakeReaders(d, ulCounter - 1)
  \/ /\ ignWrite \/ EventWaitNum(Q_W) = 0
     /\ EventWaitNum(Q_R) = 0
     /\ EndFrame(d)
     /\ ulCounter' = ulCounter - 1
     /\ pvTcbOwn' = Null /\ iStatus' = "R"
     /\ UNCHANGED <<notKern, ucType, pvPtr, ulOption, held>>

(* API_SemaphoreRWDelete drains the readers, then the writers.  (History:    *)
(* nobody holds it any more.)                                                *)
Forget(c) == IF c.got = "token" THEN [c EXCEPT !.ev = Null] ELSE c

DeleteLoop(d) ==
  \/ /\ TakeFirst("delete", Q_R, 0, d)
     /\ UNCHANGED <<pvTcbOwn, held>>
  \/ /\ EventWaitNum(Q_R) = 0
     /\ TakeFirst("delete", Q_W, 0, d)
     /\ UNCHANGED <<pvTcbOwn, held>>
  \/ /\ EventWaitNum(Q_R) = 0 /\ EventWaitNum(Q_W) = 0
     /\ pvTcbOwn' = Null
     /\ held' = [t \in Threads |-> Nothing]
     /\ call' = [t \in Threads |-> Forget(call[t])]
     /\ EndFrame(d)
     /\ UNCHANGED <<queueVars, waitVars, ring, ucPriority, ucIsEventDelete,
                    ulSuspendNesting, sig>>

SemaphoreRWDelete ==
  /\ ThreadEnter /\ ucType = "SEMRW"
  /\ ucType' = "UNUSED"
  /\ DeleteLoop(nest + 1)
  /\ UNCHANGED <<ulCounter, iStatus, pvPtr, ulOption>>

(* Out of a window with a waiter in hand: _EventReadyHighLevel, and for the  *)
(* writer the end of the post.                                               *)
(* Mutant: EVENT_iStatus is not set for the new writer.                      *)
EventHigh_StatusStays ==
  /\ nest > 0 /\ frames[nest].tcb # Null
  /\ LET f == frames[nest]
     IN  /\ EventReadyHighLevel(f.tcb)
         /\ ucIsEventDelete' = IF f.op = "delete"
                               THEN [ucIsEventDelete EXCEPT ![f.tcb] = "DELETE"]
                               ELSE ucIsEventDelete
         /\ IF f.op = "post"
            THEN EndFrame(nest) /\ pvTcbOwn' = f.tcb
            ELSE SetFrame(nest, [f EXCEPT !.tcb = Null]) /\ UNCHANGED pvTcbOwn
  /\ UNCHANGED <<queueVars, ring, ucPriority, ulSuspendNesting, call, sig, ucType,
                 ulCounter, iStatus, pvPtr, ulOption, held>>

EventHigh ==
  /\ nest > 0 /\ frames[nest].tcb # Null
  /\ LET f == frames[nest]
     IN  /\ EventReadyHighLevel(f.tcb)
         /\ ucIsEventDelete' = IF f.op = "delete"
                               THEN [ucIsEventDelete EXCEPT ![f.tcb] = "DELETE"]
                               ELSE ucIsEventDelete
         /\ IF f.op = "post"
            THEN EndFrame(nest) /\ pvTcbOwn' = f.tcb /\ iStatus' = "W"
            ELSE SetFrame(nest, [f EXCEPT !.tcb = Null]) /\ UNCHANGED <<pvTcbOwn, iStatus>>
  /\ UNCHANGED <<queueVars, ring, ucPriority, ulSuspendNesting, call, sig, ucType,
                 ulCounter, pvPtr, ulOption, held>>

(* Out of a window without one.                                              *)
SectionNext ==
  /\ nest > 0 /\ frames[nest].tcb = Null
  /\ LET f == frames[nest]
     IN  \/ f.op = "post" /\ ReleasePend(f.n = 1, nest)
         \/ f.op = "release" /\ WakeReaders(nest, ulCounter)
         \/ /\ f.op = "delete" /\ DeleteLoop(nest)
            /\ UNCHANGED <<ucType, ulCounter, iStatus, pvPtr, ulOption>>

-----------------------------------------------------------------------------
Environment ==
  /\ \/ Tick
     \/ TickNext
     \/ \E t \in Threads, inf \in BOOLEAN : ThreadWakeup(t, inf)
  /\ UNCHANGED <<rwVars, held>>

Next ==
  \/ \E o \in Options : SemaphoreRWCreate(o)
  \/ \E t \in Threads, timeout \in Timeouts :
       SemaphoreRWPendR(t, timeout) \/ SemaphoreRWPendW(t, timeout)
  \/ \E t \in Threads : SemaphoreRWPendReturn(t) \/ SemaphoreRWPost(t)
  \/ SemaphoreRWDelete
  \/ EventHigh
  \/ SectionNext
  \/ Environment

Spec == Init /\ [][Next]_vars

-----------------------------------------------------------------------------
(* Properties.                                                               *)

(* How often t has the semaphore for mode: pends that returned it, and one   *)
(* that RWPost has given it to and that has still to return.                 *)
Claims(t, mode) ==
  held[t][mode] + IF /\ call[t].pc = "pend" /\ call[t].got = "token"
                     /\ call[t].ev # Null /\ ModeOf(call[t].ev) = mode
                  THEN 1 ELSE 0

Readers == {t \in Threads : Claims(t, "R") > 0}
Writers == {t \in Threads : Claims(t, "W") > 0}

(* A writer is alone, at every step of the hand-over from writer to readers  *)
(* and back, while timeouts take waiters off the queues in its windows.      *)
WriterAlone ==
  /\ Writers # {} => Readers = {}
  /\ Cardinality(Writers) =< 1

(* The reads that threads are in, the k-th of each.                          *)
ReadHolds == {x \in Threads \X (1 .. MaxHolds) : x[2] =< Claims(x[1], "R")}

(* EVENT_ulCounter is the number of those who have the semaphore, so that    *)
(* the last post and no other releases it; the writer's recursion is         *)
(* EVENT_pvPtr.                                                              *)
CounterCounts ==
  ucType = "SEMRW" /\ nest = 0 =>
    /\ ulCounter = Cardinality(ReadHolds) + Cardinality(Writers)
    /\ iStatus = "W" <=> Writers # {}
    /\ \A t \in Writers : pvTcbOwn = t /\ pvPtr = Claims(t, "W") - 1

(* Nobody waits for a semaphore that nobody has: only a post would wake him. *)
(* A writer that is queued also keeps every later reader out.                *)
FreeHasNoWaiter ==
  ucType = "SEMRW" /\ nest = 0 /\ ulCounter = 0 => wq[Q_R] = <<>> /\ wq[Q_W] = <<>>

(* The same of a semaphore with LW_OPTION_RW_PREFER_WRITER, whose last reader*)
(* decides nothing before interrupts are off.                                *)
FreeHasNoWaiterPreferred == ulOption.preferWriter => FreeHasNoWaiter

(* It is a read-write lock: the windows of RWPost, the loop that readies the *)
(* readers, timeouts that race them and the loops of RWDelete let nobody in  *)
(* that ReadWriteLock keeps out, and nobody loses what it has.  (The thread  *)
(* that posts has given its hold up before RWPost looks for waiters.)        *)
L == INSTANCE ReadWriteLock WITH
       has <- [t \in Threads |-> [m \in {"R", "W"} |-> Claims(t, m)]],
       waiting <- [m \in {"R", "W"} |->
                     {t \in Threads : Contains(wq[IF m = "R" THEN Q_R ELSE Q_W], t)}],
       preferWriter <- ulOption.preferWriter

IsReadWriteLock == L!Spec

=============================================================================
