------------------------------ MODULE MsgQueue ------------------------------
(***************************************************************************)
(* The message queue: API_MsgQueueCreate, Delete, Send2, SendEx2, Receive,  *)
(* ReceiveEx, TryReceive, Clear, FlushSend, FlushReceive over the wait       *)
(* machinery of Event and the buffer of _MsgQueueLib.c.  One queue; the two  *)
(* wait queues of its control block are the Events of that module.           *)
(*                                                                         *)
(* Interrupt handlers send, try to receive, clear and flush, also between    *)
(* two pieces of another call.  A message is a number; its length and the    *)
(* priority the option of its send gives it are functions of it.             *)
(* API_MsgQueueFlush is FlushSend and then FlushReceive.  Signals and        *)
(* suspension of the threads are left out.                                   *)
(***************************************************************************)
EXTENDS Event

CONSTANTS
  Q_R, Q_S,       \* EVENT_MSG_Q_R and EVENT_MSG_Q_S, the two wait queues
  Messages,       \* what is sent: positive numbers
  Bytes,          \* stMsgLen of each message
  Prio,           \* uiPrio of each message, 0 is the most urgent
  PrioLow,        \* EVENT_MSG_Q_PRIO_LOW
  Capacities,     \* ulMaxMsgCounter values in use
  BufferSizes,    \* stMaxByteSize values of receivers
  Options         \* ulOption values in use: [prio, inter]

ASSUME MsgQueueAssumption ==
  /\ Q_R # Q_S /\ Events = {Q_R, Q_S}
  /\ Messages \subseteq Nat \ {0}
  /\ PrioLow \in Nat
  /\ Bytes \in [Messages -> Nat \ {0}]
  /\ Prio \in [Messages -> 0 .. PrioLow]
  /\ Capacities \subseteq Nat \ {0} /\ Capacities # {}
  /\ BufferSizes \subseteq Nat \ {0}
  /\ Options \subseteq [prio : BOOLEAN, inter : BOOLEAN] /\ Options # {}

VARIABLES
  ucType,         \* EVENT_ucType
  ulCounter,      \* EVENT_ulCounter: messages in the buffer
  ulMaxCounter,   \* EVENT_ulMaxCounter
  ulOption,       \* EVENT_ulOption
  mono,           \* MSGQUEUE_pmonoHeader/Tail: the list of each priority
  uiMap,          \* MSGQUEUE_uiMap: the priorities that have messages
  free,           \* the length of MSGQUEUE_pmonoFree
  recv,           \* what a waiting receiver left in its TCB, and its locals
  send            \* the send call a thread is in: its arguments

msgVars  == <<ucType, ulCounter, ulMaxCounter, ulOption>>
bufVars  == <<mono, uiMap, free>>
vars     == <<eventVars, msgVars, bufVars, recv, send>>

None == 0                              \* no message

(* TCB_stMaxByteSize, TCB_ulRecvOption & LW_OPTION_NOERROR, the length       *)
(* *TCB_pstMsgByteSize and what the buffer TCB_pvMsgQueueMessage holds.      *)
Recv == [stMaxByteSize : BufferSizes \cup {0}, noError : BOOLEAN,
         len : Nat, msg : Messages \cup {None}]
NoRecv == [stMaxByteSize |-> 0, noError |-> TRUE, len |-> 0, msg |-> None]

Send == [msg : Messages \cup {None}, ulTimeout : Timeouts]
NoSend == [msg |-> None, ulTimeout |-> NotWait]

TypeOK ==
  /\ EventType
  /\ ucType \in {"UNUSED", "MSGQUEUE"}
  /\ ulMaxCounter \in Capacities
  /\ ulCounter \in 0 .. ulMaxCounter
  /\ ulOption \in Options
  /\ mono \in [0 .. PrioLow -> Seq(Messages)]
  /\ uiMap \subseteq 0 .. PrioLow
  /\ free \in 0 .. ulMaxCounter
  /\ recv \in [Threads -> Recv]
  /\ send \in [Threads -> Send]

Init ==
  /\ EventInit
  /\ ucType = "UNUSED"
  /\ ulCounter = 0
  /\ ulMaxCounter \in Capacities
  /\ ulOption \in Options
  /\ mono = [p \in 0 .. PrioLow |-> <<>>]
  /\ uiMap = {}
  /\ free = 0
  /\ recv = [t \in Threads |-> NoRecv]
  /\ send = [t \in Threads |-> NoSend]

-----------------------------------------------------------------------------
(* The buffer, _MsgQueueLib.c.                                              *)

MsgQueueClear(max) ==
  /\ mono' = [p \in 0 .. PrioLow |-> <<>>]
  /\ uiMap' = {}
  /\ free' = max

(* Mutant: a message goes to the front of its list.                          *)
MsgQueuePut_Front(m) ==
  /\ mono' = [mono EXCEPT ![Prio[m]] = <<m>> \o @]
  /\ uiMap' = uiMap \cup {Prio[m]}
  /\ free' = free - 1

MsgQueuePut(m) ==
  /\ mono' = [mono EXCEPT ![Prio[m]] = Append(@, m)]
  /\ uiMap' = uiMap \cup {Prio[m]}
  /\ free' = free - 1

FirstPrio == Min(uiMap)                \* archFindLsb(MSGQUEUE_uiMap) - 1
MsgQueueMsgLen == Bytes[Head(mono[FirstPrio])]

(* Mutant: the bit of the priority is cleared with messages left.            *)
MsgQueueGet_ClearsBit ==
  /\ mono' = [mono EXCEPT ![FirstPrio] = Tail(@)]
  /\ uiMap' = uiMap \ {FirstPrio}
  /\ free' = free + 1

MsgQueueGet ==
  /\ mono' = [mono EXCEPT ![FirstPrio] = Tail(@)]
  /\ uiMap' = IF mono'[FirstPrio] = <<>> THEN uiMap \ {FirstPrio} ELSE uiMap
  /\ free' = free + 1

-----------------------------------------------------------------------------
MsgQueueCreate(max, option) ==
  /\ ThreadEnter
  /\ ucType = "UNUSED"
  /\ ucType' = "MSGQUEUE"
  /\ ulCounter' = 0
  /\ ulMaxCounter' = max
  /\ ulOption' = option
  /\ MsgQueueClear(max)
  /\ wq' = [q \in Events |-> <<>>]
  /\ wqNum' = [q \in Events |-> 0]
  /\ UNCHANGED <<kernVars, waitVars, ring, ucPriority, ucIsEventDelete,
                 ulSuspendNesting, call, sig, recv, send>>

(* The message is copied to the first waiting receiver; one whose buffer is  *)
(* too small, and that does not take a part of it, is sent away instead.     *)
Refuses(r, m) == Bytes[m] > r.stMaxByteSize /\ ~r.noError

Handed(r, m) ==
  IF Refuses(r, m)
  THEN [r EXCEPT !.len = 0, !.stMaxByteSize = 0]
  ELSE [r EXCEPT !.len = Min({Bytes[m], r.stMaxByteSize}), !.msg = m]

HandOver(m, op, n, d) ==
  /\ TakeFirst(op, Q_R, n, d)
  /\ recv' = [recv EXCEPT ![FirstWaiter(Q_R)] = Handed(@, m)]
  /\ UNCHANGED <<msgVars, bufVars>>

(* Mutants: the limit is off by one; waiting receivers are not looked at.    *)
Store_OffByOne(m) ==
  /\ EventWaitNum(Q_R) = 0
  /\ ulCounter =< ulMaxCounter
  /\ ulCounter' = ulCounter + 1
  /\ MsgQueuePut(m)
  /\ UNCHANGED <<ucType, ulMaxCounter, ulOption, recv>>

Store_Always(m) ==
  /\ ulCounter < ulMaxCounter
  /\ ulCounter' = ulCounter + 1
  /\ MsgQueuePut(m)
  /\ UNCHANGED <<ucType, ulMaxCounter, ulOption, recv>>

Store(m) ==
  /\ EventWaitNum(Q_R) = 0
  /\ ulCounter < ulMaxCounter
  /\ ulCounter' = ulCounter + 1
  /\ MsgQueuePut(m)
  /\ UNCHANGED <<ucType, ulMaxCounter, ulOption, recv>>

Full == EventWaitNum(Q_R) = 0 /\ ulCounter >= ulMaxCounter

(* One pass of a thread through API_MsgQueueSend2 or an urgent SendEx2 from  *)
(* __re_send on.  After a refusal, and after a wait that a receiver ended,   *)
(* the call goes back there with the ulTimeout it was called with.           *)
SendFails(t, timeout) ==
  /\ ucType # "MSGQUEUE" \/ (Full /\ timeout = NotWait)
  /\ send' = [send EXCEPT ![t] = NoSend]
  /\ UNCHANGED <<eventVars, msgVars, bufVars, recv>>

SendHands(t, m, timeout) ==
  /\ ucType = "MSGQUEUE"
  /\ HandOver(m, "post", 0, nest + 1)
  /\ send' = [send EXCEPT ![t] = IF Refuses(recv[FirstWaiter(Q_R)], m)
                                 THEN [msg |-> m, ulTimeout |-> timeout] ELSE NoSend]

SendStores(t, m) ==
  /\ ucType = "MSGQUEUE"
  /\ Store(m)
  /\ send' = [send EXCEPT ![t] = NoSend]
  /\ UNCHANGED eventVars

SendWaits(t, m, timeout) ==
  /\ ucType = "MSGQUEUE" /\ Full /\ timeout # NotWait
  /\ EventWait(Q_S, t, ulOption.prio, timeout # Infinite, ucPriority)
  /\ call' = [call EXCEPT ![t] =
                [pc |-> "pend", ev |-> Q_S, left |-> timeout,
                 inter |-> ulOption.inter, ret |-> "NONE", got |-> "no"]]
  /\ send' = [send EXCEPT ![t] = [msg |-> m, ulTimeout |-> timeout]]
  /\ UNCHANGED <<kernVars, ucPriority, ulSuspendNesting, sig, msgVars, bufVars, recv>>

SendFrom(t, m, timeout) ==
  /\ ThreadEnter /\ IsReady(t) /\ call[t].pc = "run"
  /\ \/ SendFails(t, timeout)
     \/ SendHands(t, m, timeout)
     \/ SendStores(t, m)
     \/ SendWaits(t, m, timeout)

MsgQueueSend(t, m, timeout) == send[t] = NoSend /\ SendFrom(t, m, timeout)

Resend(t) == send[t] # NoSend /\ SendFrom(t, send[t].msg, send[t].ulTimeout)

(* The same by an interrupt handler as frame d, which never waits; n = m: it *)
(* goes back to __re_send.                                                   *)
IsrSend(m, d) ==
  /\ ucType = "MSGQUEUE"
  /\ \/ HandOver(m, "post", IF Refuses(recv[FirstWaiter(Q_R)], m) THEN m ELSE 0, d)
     \/ /\ Store(m)
        /\ IF d = nest THEN EndFrame(d) ELSE UNCHANGED kernVars
        /\ UNCHANGED notKern
     \/ /\ d = nest /\ Full
        /\ EndFrame(d)
        /\ UNCHANGED <<notKern, msgVars, bufVars, recv>>
  /\ UNCHANGED send

MsgQueueSendIsr(m) == IsrEnter /\ IsrSend(m, nest + 1)

(* API_MsgQueueSendEx2 with LW_OPTION_BROADCAST: whoever waits gets it.      *)
BroadcastLoop(m, d) ==
  \/ HandOver(m, "release", m, d)
  \/ /\ EventWaitNum(Q_R) = 0 /\ d = nest
     /\ EndFrame(d)
     /\ UNCHANGED <<notKern, msgVars, bufVars, recv>>

MsgQueueBroadcast(m) ==
  /\ IsrEnter /\ ucType = "MSGQUEUE"
  /\ BroadcastLoop(m, nest + 1)
  /\ UNCHANGED send

-----------------------------------------------------------------------------
(* A message is taken from the buffer and one sender that waits is woken to  *)
(* try again.  A message too long for a receiver that wants no part of it    *)
(* stays (E2BIG).                                                            *)
TakesMessage(size, noError) ==
  /\ ucType = "MSGQUEUE" /\ ulCounter > 0
  /\ noError \/ MsgQueueMsgLen =< size
  /\ ulCounter' = ulCounter - 1
  /\ MsgQueueGet
  /\ \/ TakeFirst("post", Q_S, 0, nest + 1)
     \/ EventWaitNum(Q_S) = 0 /\ UNCHANGED eventVars
  /\ UNCHANGED <<ucType, ulMaxCounter, ulOption, recv>>

ReceiveWaits(t, size, noError, timeout) ==
  /\ ucType = "MSGQUEUE" /\ ulCounter = 0 /\ timeout # NotWait
  /\ EventWait(Q_R, t, ulOption.prio, timeout # Infinite, ucPriority)
  /\ call' = [call EXCEPT ![t] =
                [pc |-> "pend", ev |-> Q_R, left |-> timeout,
                 inter |-> ulOption.inter, ret |-> "NONE", got |-> "no"]]
  /\ recv' = [recv EXCEPT ![t] = [stMaxByteSize |-> size, noError |-> noError,
                                  len |-> 0, msg |-> None]]
  /\ UNCHANGED <<kernVars, ucPriority, ulSuspendNesting, sig, msgVars, bufVars>>

(* API_MsgQueueReceiveEx; API_MsgQueueReceive is the one with noError.       *)
MsgQueueReceive(t, size, noError, timeout) ==
  /\ ThreadEnter /\ IsReady(t) /\ call[t].pc = "run" /\ send[t] = NoSend
  /\ \/ TakesMessage(size, noError)
     \/ ReceiveWaits(t, size, noError, timeout)
  /\ UNCHANGED send

MsgQueueTryReceive ==
  /\ IsrEnter
  /\ TakesMessage(0, TRUE)
  /\ UNCHANGED send

-----------------------------------------------------------------------------
(* The loop of Clear and FlushSend over the senders, of FlushReceive over    *)
(* the receivers, whose length is set to 0.                                  *)
FlushLoop(q, d) ==
  \/ /\ TakeFirst("flush", q, 0, d)
     /\ recv' = IF q = Q_R THEN [recv EXCEPT ![FirstWaiter(q)].len = 0] ELSE recv
  \/ /\ EventWaitNum(q) = 0
     /\ IF d = nest THEN EndFrame(d) ELSE UNCHANGED kernVars
     /\ UNCHANGED <<notKern, recv>>

MsgQueueFlush(q) ==
  /\ IsrEnter /\ ucType = "MSGQUEUE" /\ EventWaitNum(q) > 0
  /\ FlushLoop(q, nest + 1)
  /\ UNCHANGED <<msgVars, bufVars, send>>

MsgQueueClearAll ==
  /\ IsrEnter /\ ucType = "MSGQUEUE"
  /\ MsgQueueClear(ulMaxCounter)
  /\ ulCounter' = 0
  /\ FlushLoop(Q_S, nest + 1)
  /\ UNCHANGED <<ucType, ulMaxCounter, ulOption, send>>

(* API_MsgQueueDelete drains the receivers, then the senders.                *)
DeleteLoop(d) ==
  \/ TakeFirst("delete", Q_R, 0, d)
  \/ EventWaitNum(Q_R) = 0 /\ TakeFirst("delete", Q_S, 0, d)
  \/ /\ EventWaitNum(Q_R) = 0 /\ EventWaitNum(Q_S) = 0
     /\ IF d = nest THEN EndFrame(d) ELSE UNCHANGED kernVars
     /\ UNCHANGED notKern

MsgQueueDelete ==
  /\ ThreadEnter /\ ucType = "MSGQUEUE"
  /\ ucType' = "UNUSED"
  /\ DeleteLoop(nest + 1)
  /\ UNCHANGED <<ulCounter, ulMaxCounter, ulOption, bufVars, recv, send>>

-----------------------------------------------------------------------------
(* Out of a window with a waiter in hand: _EventReadyHighLevel, and the end  *)
(* of a call that readies one thread.                                        *)
(* Mutant: TCB_ucIsEventDelete is not set by Delete.                         *)
EventHigh_NotDeleted ==
  /\ nest > 0 /\ frames[nest].tcb # Null
  /\ LET f == frames[nest]
     IN  /\ EventReadyHighLevel(f.tcb)
         /\ IF f.op = "post" /\ f.n = 0
            THEN EndFrame(nest)
            ELSE SetFrame(nest, [f EXCEPT !.tcb = Null])
  /\ UNCHANGED <<ucIsEventDelete, queueVars, ring, ucPriority, ulSuspendNesting, call, sig,
                 msgVars, bufVars, recv, send>>

EventHigh ==
  /\ nest > 0 /\ frames[nest].tcb # Null
  /\ LET f == frames[nest]
     IN  /\ EventReadyHighLevel(f.tcb)
         /\ ucIsEventDelete' = IF f.op = "delete"
                               THEN [ucIsEventDelete EXCEPT ![f.tcb] = "DELETE"]
                               ELSE ucIsEventDelete
         /\ IF f.op = "post" /\ f.n = 0
            THEN EndFrame(nest)
            ELSE SetFrame(nest, [f EXCEPT !.tcb = Null])
  /\ UNCHANGED <<queueVars, ring, ucPriority, ulSuspendNesting, call, sig,
                 msgVars, bufVars, recv, send>>

(* Out of a window without one: the loops go on, an interrupt handler sends  *)
(* again.                                                                    *)
SectionNext ==
  /\ nest > 0 /\ frames[nest].tcb = Null
  /\ LET f == frames[nest]
     IN  \/ f.op = "post" /\ IsrSend(f.n, nest)
         \/ f.op = "release" /\ BroadcastLoop(f.n, nest) /\ UNCHANGED send
         \/ /\ f.op = "flush" /\ FlushLoop(f.ev, nest)
            /\ UNCHANGED <<msgVars, bufVars, send>>
         \/ /\ f.op = "delete" /\ DeleteLoop(nest)
            /\ UNCHANGED <<msgVars, bufVars, recv, send>>

(* The end of a receive and of a send after a wait.                          *)
MsgQueueReturn(t) ==
  /\ PendReturn(t)
  /\ IF call[t].ev = Q_R
     THEN recv' = [recv EXCEPT ![t] = NoRecv] /\ UNCHANGED send
     ELSE /\ send' = IF PendResult(ucWaitTimeout[t], ucIsEventDelete[t]) = "ERROR_NONE"
                     THEN send ELSE [send EXCEPT ![t] = NoSend]
          /\ UNCHANGED recv
  /\ UNCHANGED <<msgVars, bufVars>>

-----------------------------------------------------------------------------
Environment ==
  /\ \/ Tick
     \/ TickNext
     \/ \E t \in Threads, inf \in BOOLEAN : ThreadWakeup(t, inf)
  /\ UNCHANGED <<msgVars, bufVars, recv, send>>

Next ==
  \/ \E max \in Capacities, o \in Options : MsgQueueCreate(max, o)
  \/ \E t \in Threads, m \in Messages, timeout \in Timeouts : MsgQueueSend(t, m, timeout)
  \/ \E t \in Threads : Resend(t) \/ MsgQueueReturn(t)
  \/ \E t \in Threads, size \in BufferSizes, noError \in BOOLEAN, timeout \in Timeouts :
       MsgQueueReceive(t, size, noError, timeout)
  \/ \E m \in Messages : MsgQueueSendIsr(m) \/ MsgQueueBroadcast(m)
  \/ MsgQueueTryReceive
  \/ MsgQueueClearAll
  \/ \E q \in Events : MsgQueueFlush(q)
  \/ MsgQueueDelete
  \/ EventHigh
  \/ SectionNext
  \/ Environment

Spec == Init /\ [][Next]_vars

-----------------------------------------------------------------------------
(* Properties.                                                               *)

(* The nodes linked into the lists, by priority and place.                   *)
Linked == UNION {{p} \X (1 .. Len(mono[p])) : p \in 0 .. PrioLow}

(* The counter by which sends and receives decide, the priority map by which *)
(* a receive finds its list, and the free list a send takes a node from agree*)
(* with the lists, whatever mix of sends, receives and clears ran.           *)
BufferConsistent ==
  ucType = "MSGQUEUE" =>
    /\ ulCounter = Cardinality(Linked)
    /\ free = ulMaxCounter - Cardinality(Linked)
    /\ uiMap = {p \in 0 .. PrioLow : mono[p] # <<>>}

(* No receiver waits while a message lies in the buffer: no send would wake  *)
(* him for that one.                                                         *)
NoMessageWithReceiver ==
  ucType = "MSGQUEUE" /\ ulCounter > 0 => wq[Q_R] = <<>>

(* What a receive that has waited is about to return: a message with success,*)
(* or a length of zero after a flush, and nothing with any error, so that a  *)
(* message is never taken by a receive that reports a timeout.               *)
HonestReceive ==
  \A t \in Threads :
    call[t].pc = "pend" /\ call[t].ev = Q_R /\ IsReady(t) =>
      LET ok   == PendResult(ucWaitTimeout[t], ucIsEventDelete[t]) = "ERROR_NONE"
          tooBig == recv[t].len = 0 /\ recv[t].stMaxByteSize = 0 /\ ~recv[t].noError
      IN  /\ recv[t].msg # None <=> ok /\ ~tooBig /\ call[t].got # "flush"
          /\ recv[t].msg # None /\ ~recv[t].noError => recv[t].len = Bytes[recv[t].msg]

(* The queue is the channel of Channel: a message that a hand-over gives to a*)
(* receiver overtakes none in the buffer, none is lost or given out twice.   *)
Pending == [p \in 0 .. PrioLow |-> IF ucType = "MSGQUEUE" THEN mono[p] ELSE <<>>]

C == INSTANCE Channel WITH
       Prios <- 0 .. PrioLow, Receivers <- Threads, Limits <- Capacities,
       pending <- Pending, limit <- ulMaxCounter,
       inbox <- [t \in Threads |-> recv[t].msg]

IsChannel == C!Spec

(* A sender waits only for a receiver and a receiver only for a sender: with *)
(* no send about to be retried, they do not wait at the same time.           *)
NobodyStuck ==
  /\ ucType = "MSGQUEUE" /\ nest = 0
  /\ \A t \in Threads : IsReady(t) => call[t].pc = "run" /\ send[t] = NoSend
  => wq[Q_R] = <<>> \/ wq[Q_S] = <<>>

=============================================================================
