---------------------------- MODULE EventProofs -----------------------------
(***************************************************************************)
(* What every object built on Event inherits: the invariant of the wait     *)
(* machinery, and for each partial action of Event the proof that it keeps  *)
(* it, whatever the object does with its own variables in the same step.    *)
(***************************************************************************)
EXTENDS Event, QueueLemmas

-----------------------------------------------------------------------------
(* The invariant.                                                          *)

(* A thread waits on an event exactly while its status says so; its call    *)
(* and its flags are as the pend left them.                                 *)
WaitOK(t) ==
  /\ waitOn[t] # Null <=> "SEM" \in usStatus[t]
  /\ DELAY \in usStatus[t] => "SEM" \in usStatus[t] /\ ~InLimbo(t)
  /\ SUSPEND \in usStatus[t] => ulSuspendNesting[t] > 0
  /\ ulSuspendNesting[t] > 0 => SUSPEND \in usStatus[t]
  /\ "SEM" \in usStatus[t] =>
       /\ call[t].pc = "pend" /\ call[t].ret = "NONE"
       /\ ucWaitTimeout[t] = "CLEAR" /\ ucIsEventDelete[t] = "EXIST"
       /\ ~InLimbo(t) => call[t].got = "no"

EvWait == \A t \in Threads : WaitOK(t)

(* The sections that are inside the kernel: the waiter each has in hand     *)
(* still waits, and is in nobody else's hand.                               *)
FrameOK(f) ==
  f.tcb # Null => /\ "SEM" \in usStatus[f.tcb]
                  /\ f.op # "tick"
                  /\ call[f.tcb].got = GotOf(f.op)

EvFrames ==
  /\ \A i \in 1..nest : FrameOK(frames[i])
  /\ \A i, j \in 1..nest :
       frames[i].tcb = frames[j].tcb /\ frames[i].tcb # Null => i = j

(* In a ready ring once while ready, otherwise not.                         *)
RingOnce == \A t \in Threads : inRing[t] = (IF IsReady(t) THEN 1 ELSE 0)

(* The queues, WQ_usNum and TCB_peventPtr agree.                            *)
QueuesAgree ==
  /\ \A e \in Events : wqNum[e] = Len(wq[e]) /\ IsInjective(wq[e])
  /\ \A e \in Events, t \in Threads :
       Contains(wq[e], t) <=> waitOn[t] = e /\ ~InLimbo(t)

EvInv == EventType /\ EvWait /\ EvFrames /\ RingOnce /\ QueuesAgree

-----------------------------------------------------------------------------
(* Who is in limbo after a frame is put on top of the stack, changed or     *)
(* taken off.                                                              *)

AtTop(d) == d = nest + 1 \/ (d = nest /\ frames[nest].tcb = Null)

(* A frame put on top, or changed, adds its waiter to those in limbo.       *)
LEMMA LimboSet ==
  ASSUME KernType, NEW f \in Frame, NEW d \in 1..MaxNest, AtTop(d), SetFrame(d, f)
  PROVE  \A u \in Threads : InLimbo(u)' <=> InLimbo(u) \/ u = f.tcb
<1> SUFFICES ASSUME NEW u \in Threads PROVE InLimbo(u)' <=> InLimbo(u) \/ u = f.tcb
  OBVIOUS
<1>0. /\ frames' = [frames EXCEPT ![d] = f] /\ nest' = d /\ u # Null
      /\ frames \in [1..MaxNest -> Frame] /\ nest \in 0..MaxNest /\ MaxNest \in Nat
  BY EventAssumption DEF SetFrame, KernType
<1>1. frames'[d].tcb = f.tcb /\ d \in 1..nest'
  BY <1>0
<1>2. \A i \in 1..nest : frames[i].tcb = u => i \in 1..nest' /\ frames'[i].tcb = u
  BY <1>0 DEF AtTop
<1>3. \A i \in 1..nest' : frames'[i].tcb = u /\ i # d => i \in 1..nest /\ frames[i].tcb = u
  BY <1>0 DEF AtTop
<1> QED BY <1>1, <1>2, <1>3 DEF InLimbo

(* A frame with no waiter in hand leaves the same threads in limbo.         *)
LEMMA LimboEnd ==
  ASSUME KernType, NEW d \in 1..MaxNest, AtTop(d), EndFrame(d)
  PROVE  \A u \in Threads : InLimbo(u)' <=> InLimbo(u)
<1> SUFFICES ASSUME NEW u \in Threads PROVE InLimbo(u)' <=> InLimbo(u)
  OBVIOUS
<1>0. /\ frames' = [frames EXCEPT ![d] = NoFrame] /\ nest' = d - 1 /\ u # Null
      /\ frames \in [1..MaxNest -> Frame] /\ nest \in 0..MaxNest /\ MaxNest \in Nat
  BY EventAssumption DEF EndFrame, KernType
<1>2. \A i \in 1..nest : frames[i].tcb = u => i \in 1..nest' /\ frames'[i].tcb = u
  BY <1>0 DEF AtTop
<1>3. \A i \in 1..nest' : frames'[i].tcb = u => i \in 1..nest /\ frames[i].tcb = u
  BY <1>0 DEF AtTop
<1> QED BY <1>2, <1>3 DEF InLimbo

(* So does a step that does not touch the stack.                            *)
LEMMA LimboSame ==
  ASSUME UNCHANGED kernVars
  PROVE  \A u : InLimbo(u)' <=> InLimbo(u)
  BY DEF kernVars, InLimbo

(* A first waiter exists, is a thread that waits on e and is in nobody's    *)
(* hand.                                                                    *)
LEMMA FirstWaiterFacts ==
  ASSUME EvInv, NEW e \in Events, EventWaitNum(e) > 0
  PROVE  /\ FirstWaiter(e) \in Threads
         /\ waitOn[FirstWaiter(e)] = e
         /\ ~InLimbo(FirstWaiter(e))
         /\ "SEM" \in usStatus[FirstWaiter(e)]
         /\ wq[e] # <<>>
<1>1. wq[e] \in Seq(Threads) /\ Len(wq[e]) > 0 /\ IsInjective(wq[e])
  BY DEF EvInv, EventType, QueueType, QueuesAgree, EventWaitNum
<1>2. FirstWaiter(e) \in Threads /\ Contains(wq[e], FirstWaiter(e))
  BY <1>1, TailKeeps DEF FirstWaiter
<1>3. waitOn[FirstWaiter(e)] = e /\ ~InLimbo(FirstWaiter(e))
  BY <1>2 DEF EvInv, QueuesAgree
<1>4. wq[e] # <<>>
  BY <1>1
<1> QED BY <1>2, <1>3, <1>4, EventAssumption DEF EvInv, EvWait, WaitOK

(* Nobody is in the queue when WQ_usNum is zero.                            *)
LEMMA NoWaiterFacts ==
  ASSUME EvInv, NEW e \in Events
  PROVE  EventWaitNum(e) = 0 <=> wq[e] = <<>>
  BY EmptySeq DEF EventWaitNum, EvInv, EventType, QueueType, QueuesAgree

-----------------------------------------------------------------------------
(* The frames of the stack after a step.                                    *)

OldFrame(i) == i \in 1..nest /\ frames'[i] = frames[i]
NoTcb(i) == frames'[i].tcb = Null

(* The sections stay as EvFrames says if each is an old one whose waiter    *)
(* still waits, or has nobody in hand.                                      *)
LEMMA FramesKept ==
  ASSUME EvFrames,
         \A i \in 1..nest' : OldFrame(i) \/ NoTcb(i),
         \A i \in 1..nest' : OldFrame(i) /\ frames[i].tcb # Null =>
            /\ "SEM" \in usStatus'[frames[i].tcb]
            /\ call'[frames[i].tcb].got = call[frames[i].tcb].got
  PROVE  EvFrames'
<1>1. ASSUME NEW i \in 1..nest', NEW g, g = frames'[i] PROVE FrameOK(g)'
  <2>1. CASE OldFrame(i)
    <3>1. FrameOK(g)
      BY <1>1, <2>1 DEF EvFrames, OldFrame
    <3>2. g.tcb # Null => "SEM" \in usStatus'[g.tcb] /\ call'[g.tcb].got = call[g.tcb].got
      BY <1>1, <2>1 DEF OldFrame
    <3> QED BY <3>1, <3>2 DEF FrameOK
  <2>2. CASE NoTcb(i)
    BY <1>1, <2>2 DEF NoTcb, FrameOK
  <2> QED BY <2>1, <2>2
<1>2. (\A i \in 1..nest : FrameOK(frames[i]))'
  BY <1>1 DEF FrameOK
<1>3. \A i, j \in 1..nest' :
        frames'[i].tcb = frames'[j].tcb /\ frames'[i].tcb # Null => i = j
  BY DEF EvFrames, OldFrame, NoTcb
<1> QED BY <1>2, <1>3 DEF EvFrames

(* The frames after each way the stack is changed.                          *)
LEMMA FramesAfter ==
  ASSUME KernType
  PROVE  /\ UNCHANGED kernVars => KernType' /\ \A i \in 1..nest' : OldFrame(i)
         /\ \A d \in 1..MaxNest, f \in Frame : d \in {nest, nest + 1} /\ SetFrame(d, f) =>
              KernType' /\ frames'[d] = f /\ \A i \in 1..nest' : i = d \/ OldFrame(i)
         /\ \A d \in 1..MaxNest : d \in {nest, nest + 1} /\ EndFrame(d) =>
              KernType' /\ \A i \in 1..nest' : OldFrame(i)
<1>0. /\ frames \in [1..MaxNest -> Frame] /\ nest \in 0..MaxNest /\ MaxNest \in Nat
      /\ NoFrame \in Frame
  BY EventAssumption DEF KernType, NoFrame, Frame, Ops
<1>1. UNCHANGED kernVars => KernType' /\ \A i \in 1..nest' : OldFrame(i)
  BY <1>0 DEF KernType, kernVars, OldFrame
<1>2. ASSUME NEW d \in 1..MaxNest, NEW f \in Frame, d \in {nest, nest + 1}, SetFrame(d, f)
      PROVE  KernType' /\ frames'[d] = f /\ \A i \in 1..nest' : i = d \/ OldFrame(i)
  BY <1>0, <1>2 DEF KernType, SetFrame, OldFrame
<1>3. ASSUME NEW d \in 1..MaxNest, d \in {nest, nest + 1}, EndFrame(d)
      PROVE  KernType' /\ \A i \in 1..nest' : OldFrame(i)
  BY <1>0, <1>3 DEF KernType, EndFrame, OldFrame
<1> QED BY <1>1, <1>2, <1>3

(* No frame and nobody in limbo changes when the stack is left alone.        *)
LEMMA KernSame ==
  ASSUME EvInv, UNCHANGED kernVars
  PROVE  /\ KernType'
         /\ \A i \in 1..nest' : OldFrame(i) \/ NoTcb(i)
         /\ \A u \in Threads : InLimbo(u)' <=> InLimbo(u)
  BY FramesAfter, LimboSame DEF EvInv, EventType

(* The stack after a section without a waiter in hand goes on or ends.       *)
LEMMA TopQuiet ==
  ASSUME EvInv, NEW d \in 1..MaxNest, AtTop(d),
         EndFrame(d) \/ \E f \in Frame : f.tcb = Null /\ SetFrame(d, f)
  PROVE  /\ KernType'
         /\ \A i \in 1..nest' : OldFrame(i) \/ NoTcb(i)
         /\ \A u \in Threads : InLimbo(u)' <=> InLimbo(u)
<1>0. d \in {nest, nest + 1} /\ KernType
  BY DEF AtTop, EvInv, EventType
<1>1. CASE EndFrame(d)
  <2>1. KernType' /\ \A i \in 1..nest' : OldFrame(i)
    BY <1>0, <1>1, FramesAfter
  <2>2. \A u \in Threads : InLimbo(u)' <=> InLimbo(u)
    BY <1>0, <1>1, LimboEnd
  <2> QED BY <2>1, <2>2
<1>2. CASE \E f \in Frame : f.tcb = Null /\ SetFrame(d, f)
  <2>0. PICK f \in Frame : f.tcb = Null /\ SetFrame(d, f)
    BY <1>2
  <2>1. KernType' /\ frames'[d] = f /\ \A i \in 1..nest' : i = d \/ OldFrame(i)
    BY <1>0, <2>0, FramesAfter
  <2>2. NoTcb(d)
    BY <2>0, <2>1 DEF NoTcb
  <2>3. \A u \in Threads : InLimbo(u)' <=> InLimbo(u)
    BY <1>0, <2>0, LimboSet, EventAssumption
  <2> QED BY <2>1, <2>2, <2>3
<1> QED BY <1>1, <1>2

-----------------------------------------------------------------------------
(* The first piece of a call that readies a waiter: it takes the waiter off  *)
(* the queue and leaves the section in its window.                           *)
LEMMA TakeFirstKeeps ==
  ASSUME EvInv, NEW op \in Ops \ {"tick"}, NEW e \in Events, NEW n \in Nat,
         NEW d \in 1..MaxNest, AtTop(d), TakeFirst(op, e, n, d)
  PROVE  EvInv'
<1> DEFINE t == FirstWaiter(e)
           f == [op |-> op, ev |-> e, tcb |-> t, n |-> n]
<1>1. t \in Threads /\ waitOn[t] = e /\ ~InLimbo(t) /\ "SEM" \in usStatus[t]
  BY FirstWaiterFacts DEF TakeFirst
<1>2. f \in Frame
  BY <1>1 DEF Frame
<1>3. \A u \in Threads : InLimbo(u)' <=> InLimbo(u) \/ u = t
  BY <1>2, LimboSet DEF TakeFirst, EvInv, EventType
<1>q. /\ wq[e] \in Seq(Threads) /\ Len(wq[e]) > 0 /\ IsInjective(wq[e])
      /\ wqNum[e] = Len(wq[e])
  BY DEF EvInv, EventType, QueueType, QueuesAgree, EventWaitNum, TakeFirst
<1>t. /\ Tail(wq[e]) \in Seq(Threads) /\ Len(Tail(wq[e])) = Len(wq[e]) - 1
      /\ IsInjective(Tail(wq[e]))
      /\ \A y : Contains(Tail(wq[e]), y) <=> Contains(wq[e], y) /\ y # t
  BY <1>q, TailKeeps DEF FirstWaiter
<1>p1. wq' = [wq EXCEPT ![e] = Tail(wq[e])] /\ wqNum' = [wqNum EXCEPT ![e] = wqNum[e] - 1]
  BY DEF TakeFirst, EventReadyLowLevel
<1>p2. usStatus' = [usStatus EXCEPT ![t] = usStatus[t] \ {DELAY}]
  BY DEF TakeFirst, EventReadyLowLevel
<1>p3. call' = [call EXCEPT ![t].got = GotOf(op)]
  BY DEF TakeFirst
<1>p4. frames' = [frames EXCEPT ![d] = f] /\ nest' = d
  BY DEF TakeFirst, SetFrame
<1>p5. UNCHANGED <<inRing, waitOn, ucWaitTimeout, ring, ucPriority, ucIsEventDelete,
                   ulSuspendNesting, sig>>
  BY DEF TakeFirst
<1> HIDE DEF t
<1> USE DEF EvInv, EventType
<1>c. CallType'
  <2>1. call[t] \in Call /\ GotOf(op) \in Got
    BY <1>1 DEF CallType, GotOf, Got
  <2>2. [call[t] EXCEPT !.got = GotOf(op)] \in Call
    BY <2>1 DEF Call
  <2> QED BY <1>1, <1>p3, <2>2 DEF CallType
<1>f. KernType'
  BY <1>2, <1>p4, EventAssumption DEF KernType
<1>s. QueueType'
  BY <1>t, <1>p1 DEF QueueType
<1>4. EventType'
  <2>1. StatusType'
    BY <1>1, <1>p2 DEF StatusType
  <2>2. RingType' /\ WaitType' /\ FlagType' /\ PrioType' /\ NestType' /\ SigType'
    BY <1>p5 DEF RingType, WaitType, FlagType, PrioType, NestType, SigType
  <2> QED BY <1>c, <1>f, <1>s, <2>1, <2>2
<1>5. EvWait'
  BY <1>1, <1>3, <1>p2, <1>p3, <1>p5 DEF CallType, StatusType, EvWait, WaitOK, DELAY, SUSPEND, Call
<1>6. EvFrames'
  <2>1. \A i \in 1..nest' : i = d \/ (i \in 1..nest /\ frames'[i] = frames[i] /\ frames[i].tcb # t)
    BY <1>1, <1>p4, EventAssumption DEF KernType, AtTop, InLimbo
  <2>2. frames'[d] = f /\ t # Null
    BY <1>1, <1>p4, EventAssumption DEF KernType
  <2>3. ASSUME NEW g, g = f PROVE FrameOK(g)'
    <3>1. "SEM" \in usStatus'[t] /\ call'[t].got = GotOf(op)
      BY <1>1, <1>p2, <1>p3 DEF StatusType, CallType, DELAY, Call
    <3> QED BY <2>2, <2>3, <3>1 DEF FrameOK, Ops
  <2>4. ASSUME NEW i \in 1..nest, NEW g, g = frames[i], g.tcb # t PROVE FrameOK(g)'
    <3>1. FrameOK(g) /\ g \in Frame
      BY <2>4, EventAssumption DEF EvFrames, KernType
    <3>2. g.tcb # Null => usStatus'[g.tcb] = usStatus[g.tcb] /\ call'[g.tcb] = call[g.tcb]
      BY <1>1, <1>p2, <1>p3, <2>4, <3>1 DEF StatusType, CallType, Frame
    <3> QED BY <3>1, <3>2 DEF FrameOK
  <2>5. \A i \in 1..nest' : \A g : g = frames'[i] => FrameOK(g)'
    BY <2>1, <2>2, <2>3, <2>4
  <2>6. (\A i \in 1..nest : FrameOK(frames[i]))'
    BY <2>5 DEF FrameOK
  <2>7. \A i, j \in 1..nest' :
          frames'[i].tcb = frames'[j].tcb /\ frames'[i].tcb # Null => i = j
    BY <2>1, <2>2 DEF EvFrames
  <2> QED BY <2>6, <2>7 DEF EvFrames
<1>7. RingOnce'
  BY <1>1, <1>p2, <1>p5 DEF StatusType, RingOnce, IsReady, DELAY
<1>8. QueuesAgree'
  BY <1>1, <1>3, <1>q, <1>t, <1>p1, <1>p5 DEF QueueType, QueuesAgree
<1> QED BY <1>4, <1>5, <1>6, <1>7, <1>8

(* What an object's proof needs to know of that piece.                       *)
LEMMA TakeFirstFacts ==
  ASSUME EvInv, NEW op \in Ops \ {"tick"}, NEW e \in Events, NEW n \in Nat,
         NEW d \in 1..MaxNest, AtTop(d), TakeFirst(op, e, n, d)
  PROVE  \E t \in Threads :
         /\ t = FirstWaiter(e) /\ waitOn[t] = e /\ "SEM" \in usStatus[t]
         /\ call[t].got = "no" /\ call[t].pc = "pend"
         /\ call'[t].pc = "pend" /\ call'[t].ev = call[t].ev /\ call'[t].ret = call[t].ret
         /\ call'[t].got = GotOf(op)
         /\ \A u \in Threads : u # t => call'[u] = call[u]
         /\ wq' = [wq EXCEPT ![e] = Tail(wq[e])]
         /\ nest' = d /\ frames'[d].op = op /\ frames'[d].ev = e /\ frames'[d].tcb = t
         /\ frames'[d].n = n
         /\ \A i \in 1..nest' : i # d => OldFrame(i) /\ frames[i].tcb # t
         /\ usStatus' = [usStatus EXCEPT ![t] = usStatus[t] \ {DELAY}]
         /\ UNCHANGED <<inRing, waitOn, ucWaitTimeout, ring, ucPriority, ucIsEventDelete,
                        ulSuspendNesting, sig>>
<1> DEFINE t == FirstWaiter(e)
<1>1. t \in Threads /\ waitOn[t] = e /\ ~InLimbo(t) /\ "SEM" \in usStatus[t]
  BY FirstWaiterFacts DEF TakeFirst
<1>2. call[t].got = "no" /\ call[t].pc = "pend"
  BY <1>1 DEF EvInv, EvWait, WaitOK
<1>3. /\ call' = [call EXCEPT ![t] = [call[t] EXCEPT !.got = GotOf(op)]]
      /\ wq' = [wq EXCEPT ![e] = Tail(wq[e])]
      /\ usStatus' = [usStatus EXCEPT ![t] = usStatus[t] \ {DELAY}]
      /\ UNCHANGED <<inRing, waitOn, ucWaitTimeout, ring, ucPriority, ucIsEventDelete,
                     ulSuspendNesting, sig>>
  BY DEF TakeFirst, EventReadyLowLevel
<1>4. nest' = d /\ frames' = [frames EXCEPT ![d] = [op |-> op, ev |-> e, tcb |-> t, n |-> n]]
  BY DEF TakeFirst, SetFrame
<1>5. frames \in [1..MaxNest -> Frame] /\ nest \in 0..MaxNest /\ MaxNest \in Nat
  BY EventAssumption DEF EvInv, EventType, KernType
<1>6. \A i \in 1..nest' : i # d => i \in 1..nest
  BY <1>4, <1>5 DEF AtTop
<1>7. \A i \in 1..nest' : i # d => OldFrame(i) /\ frames[i].tcb # t
  BY <1>1, <1>4, <1>5, <1>6 DEF OldFrame, InLimbo
<1>8. /\ frames'[d].op = op /\ frames'[d].ev = e /\ frames'[d].tcb = t
      /\ frames'[d].n = n
  BY <1>4, <1>5
<1>c. /\ call'[t].pc = "pend" /\ call'[t].ev = call[t].ev /\ call'[t].ret = call[t].ret
      /\ call'[t].got = GotOf(op)
      /\ \A u \in Threads : u # t => call'[u] = call[u]
  BY <1>1, <1>2, <1>3 DEF EvInv, EventType, CallType, Call
<1> HIDE DEF t
<1>9. t = FirstWaiter(e)
  BY DEF t
<1> QED BY <1>9, <1>1, <1>2, <1>3, <1>4, <1>7, <1>8, <1>c

-----------------------------------------------------------------------------
(* The wait of a thread is aborted.                                          *)

(* What AbortWait does to a waiter that is in nobody's hand.                 *)
LEMMA AbortFacts ==
  ASSUME EvInv, NEW t \in Threads, NEW o \in {"CLEAR", "OUT"}, ~IsReady(t), ~InLimbo(t),
         AbortWait(t, o)
  PROVE  /\ StatusType' /\ RingType' /\ WaitType' /\ QueueType'
         /\ ucWaitTimeout' \in [Threads -> {"CLEAR", "OUT"}]
         /\ \A u \in Threads : u # t => ucWaitTimeout'[u] = ucWaitTimeout[u]
         /\ ucWaitTimeout'[t] = IF "SEM" \in usStatus[t] THEN "OUT" ELSE o
         /\ usStatus' = [usStatus EXCEPT ![t] = usStatus[t] \ {DELAY, "SEM"}]
         /\ waitOn' = [waitOn EXCEPT ![t] = Null]
         /\ RingOnce'
         /\ \A e \in Events : wqNum'[e] = Len(wq'[e]) /\ IsInjective(wq'[e])
         /\ \A e \in Events, u \in Threads :
              Contains(wq'[e], u) <=> waitOn'[u] = e /\ ~InLimbo(u)
         /\ \A e \in Events : Shrinks(wq'[e], wq[e])
<1> USE DEF EvInv, EventType
<1>w. /\ waitOn[t] # Null <=> "SEM" \in usStatus[t]
      /\ waitOn[t] \in Events \cup {Null} /\ Null \notin Threads /\ Null \notin Events
  BY EventAssumption DEF EvWait, WaitOK, WaitType
<1>1. usStatus' = [usStatus EXCEPT ![t] = usStatus[t] \ {DELAY, "SEM"}]
  BY DEF AbortWait, PendAny
<1>2. /\ ucWaitTimeout' \in [Threads -> {"CLEAR", "OUT"}]
      /\ \A u \in Threads : u # t => ucWaitTimeout'[u] = ucWaitTimeout[u]
      /\ ucWaitTimeout'[t] = IF "SEM" \in usStatus[t] THEN "OUT" ELSE o
  BY DEF AbortWait, FlagType, PendAny
<1>3. StatusType'
  BY <1>1 DEF StatusType
<1>4. inRing' = [inRing EXCEPT ![t] =
         IF usStatus[t] \ {DELAY, "SEM"} = {} THEN inRing[t] + 1 ELSE inRing[t]]
  BY DEF AbortWait, PendAny
<1>5. RingType' /\ RingOnce'
  BY <1>1, <1>4 DEF RingType, StatusType, RingOnce, IsReady
<1>6. CASE waitOn[t] = Null
  <2>1. UNCHANGED <<wq, wqNum, waitOn>>
    BY <1>6, <1>w DEF AbortWait, PendAny, queueVars
  <2>2. waitOn' = [waitOn EXCEPT ![t] = Null]
    BY <2>1, <1>6 DEF WaitType
  <2>3. \A e \in Events : Shrinks(wq'[e], wq[e])
    BY <2>1, ShrinksSelf DEF QueueType
  <2> QED BY <1>1, <1>2, <1>3, <1>5, <2>1, <2>2, <2>3 DEF WaitType, QueueType, QueuesAgree
<1>7. CASE waitOn[t] # Null
  <2> DEFINE e == waitOn[t]
  <2>0. e \in Events /\ wq[e] \in Seq(Threads) /\ wqNum[e] = Len(wq[e])
        /\ IsInjective(wq[e]) /\ Contains(wq[e], t)
    BY <1>7, <1>w DEF QueueType, QueuesAgree
  <2>1. /\ wq' = [wq EXCEPT ![e] = RemoveFirst(wq[e], t)]
        /\ wqNum' = [wqNum EXCEPT ![e] = wqNum[e] - 1]
        /\ waitOn' = [waitOn EXCEPT ![t] = Null]
    BY <1>7, <1>w DEF AbortWait, PendAny, EventUnQueue
  <2>2. /\ RemoveFirst(wq[e], t) \in Seq(Threads)
        /\ Len(RemoveFirst(wq[e], t)) = Len(wq[e]) - 1
        /\ IsInjective(RemoveFirst(wq[e], t))
        /\ \A y : Contains(RemoveFirst(wq[e], t), y) <=> Contains(wq[e], y) /\ y # t
        /\ Shrinks(RemoveFirst(wq[e], t), wq[e])
    BY <2>0, RemoveFirstProps, RemoveFirstShrinks
  <2> HIDE DEF e
  <2>3. WaitType'
    BY <2>1 DEF WaitType
  <2>4. QueueType'
    BY <2>0, <2>1, <2>2 DEF QueueType
  <2>5. \A x \in Events : wqNum'[x] = Len(wq'[x]) /\ IsInjective(wq'[x])
    BY <2>0, <2>1, <2>2 DEF QueueType, QueuesAgree
  <2>6. \A x \in Events, u \in Threads :
              Contains(wq'[x], u) <=> waitOn'[u] = x /\ ~InLimbo(u)
    <3>1. e = waitOn[t]
      BY DEF e
    <3> QED BY <1>w, <2>0, <2>1, <2>2, <3>1 DEF QueueType, WaitType, QueuesAgree
  <2>7. \A x \in Events : Shrinks(wq'[x], wq[x])
    <3>1. ASSUME NEW x \in Events PROVE Shrinks(wq'[x], wq[x])
      <4>1. CASE x = e
        BY <2>0, <2>1, <2>2, <4>1 DEF QueueType
      <4>2. CASE x # e
        <5>1. wq'[x] = wq[x] /\ wq[x] \in Seq(Threads)
          BY <2>1, <4>2 DEF QueueType
        <5> QED BY <5>1, ShrinksSelf
      <4> QED BY <4>1, <4>2
    <3> QED BY <3>1
  <2> QED BY <1>1, <1>2, <1>3, <1>5, <2>1, <2>3, <2>4, <2>5, <2>6, <2>7
<1> QED BY <1>6, <1>7

(* Nobody else's call changes but for the ticks it has left.                 *)
SameCall(u) == /\ call'[u].pc = call[u].pc /\ call'[u].ev = call[u].ev
               /\ call'[u].ret = call[u].ret /\ call'[u].got = call[u].got

(* The same without the event: all that the wait machinery reads.            *)
SameWait(u) == /\ call'[u].pc = call[u].pc
               /\ call'[u].ret = call[u].ret /\ call'[u].got = call[u].got

(* The wait of t is aborted, by a tick, a wakeup or a signal.                *)
LEMMA AbortKeeps ==
  ASSUME EvInv, NEW t \in Threads, NEW o \in {"CLEAR", "OUT"}, ~IsReady(t), ~InLimbo(t),
         AbortWait(t, o),
         UNCHANGED <<ring, ucPriority, ucIsEventDelete, ulSuspendNesting>>,
         CallType', SigType',
         \A u \in Threads : u # t => SameCall(u),
         \/ UNCHANGED kernVars
         \/ nest < MaxNest /\ SetFrame(nest + 1, TickFrame)
  PROVE  EvInv'
<1>a. /\ StatusType' /\ RingType' /\ WaitType' /\ QueueType'
      /\ ucWaitTimeout' \in [Threads -> {"CLEAR", "OUT"}]
      /\ RingOnce'
  BY AbortFacts
<1>b. \A u \in Threads : u # t => ucWaitTimeout'[u] = ucWaitTimeout[u]
  BY AbortFacts
<1>c. /\ usStatus' = [usStatus EXCEPT ![t] = usStatus[t] \ {DELAY, "SEM"}]
      /\ waitOn' = [waitOn EXCEPT ![t] = Null]
  BY AbortFacts
<1>d. /\ \A e \in Events : wqNum'[e] = Len(wq'[e]) /\ IsInjective(wq'[e])
      /\ \A e \in Events, u \in Threads :
              Contains(wq'[e], u) <=> waitOn'[u] = e /\ ~InLimbo(u)
  BY AbortFacts
<1> USE DEF EvInv, EventType
<1>f. TickFrame \in Frame /\ TickFrame.tcb = Null
  BY DEF TickFrame, Frame, Ops
<1>g. nest \in 0..MaxNest /\ MaxNest \in Nat
  BY EventAssumption DEF KernType
<1>k. /\ KernType'
      /\ \A i \in 1..nest' : OldFrame(i) \/ NoTcb(i)
      /\ \A u \in Threads : InLimbo(u)' <=> InLimbo(u)
  <2>1. CASE UNCHANGED kernVars
    BY <2>1, KernSame
  <2>2. CASE nest < MaxNest /\ SetFrame(nest + 1, TickFrame)
    <3>1. nest + 1 \in 1..MaxNest /\ AtTop(nest + 1)
      BY <1>g, <2>2 DEF AtTop
    <3> QED BY <1>f, <3>1, <2>2, TopQuiet
  <2> QED BY <2>1, <2>2
<1>1. EventType'
  <2>1. FlagType' /\ PrioType' /\ NestType'
    BY <1>a DEF FlagType, PrioType, NestType
  <2> QED BY <1>a, <1>k, <2>1
<1>2. EvWait'
  <2> SUFFICES ASSUME NEW u \in Threads PROVE WaitOK(u)'
    BY DEF EvWait
  <2>0. WaitOK(u)
    BY DEF EvWait
  <2>1. CASE u = t
    BY <1>c, <2>0, <2>1 DEF WaitOK, StatusType, WaitType, DELAY, SUSPEND
  <2>2. CASE u # t
    <3>1. usStatus'[u] = usStatus[u] /\ waitOn'[u] = waitOn[u] /\ ucWaitTimeout'[u] = ucWaitTimeout[u]
      BY <1>b, <1>c, <2>2 DEF StatusType, WaitType
    <3> QED BY <1>k, <2>0, <2>2, <3>1 DEF WaitOK, SameCall
  <2> QED BY <2>1, <2>2
<1>3. EvFrames'
  <2>2. \A i \in 1..nest' : OldFrame(i) /\ frames[i].tcb # Null =>
            /\ "SEM" \in usStatus'[frames[i].tcb]
            /\ call'[frames[i].tcb].got = call[frames[i].tcb].got
    <3> SUFFICES ASSUME NEW i \in 1..nest, NEW u, u = frames[i].tcb, u # Null
                 PROVE "SEM" \in usStatus'[u] /\ call'[u].got = call[u].got
      BY DEF OldFrame
    <3>1. frames[i] \in Frame /\ u \in Threads
      BY <1>g DEF KernType, Frame
    <3>2. "SEM" \in usStatus[u] /\ u # t
      BY DEF EvFrames, FrameOK, InLimbo
    <3> QED BY <1>c, <3>1, <3>2 DEF StatusType, SameCall
  <2> QED BY <1>k, <2>2, FramesKept
<1>4. QueuesAgree'
  BY <1>d, <1>k DEF QueuesAgree
<1> QED BY <1>a, <1>1, <1>2, <1>3, <1>4

(* A step that moves no thread between the ready rings and the wait queues   *)
(* and takes nothing from a call that waits.                                 *)
LEMMA QuietKeeps ==
  ASSUME EvInv, UNCHANGED <<wq, wqNum, usStatus, inRing, waitOn, ulSuspendNesting>>,
         KernType', CallType', SigType', FlagType', PrioType',
         \A u \in Threads : "SEM" \in usStatus[u] =>
            /\ SameWait(u)
            /\ ucWaitTimeout'[u] = ucWaitTimeout[u]
            /\ ucIsEventDelete'[u] = ucIsEventDelete[u],
         \A i \in 1..nest' : OldFrame(i) \/ NoTcb(i),
         \A u \in Threads : InLimbo(u)' <=> InLimbo(u)
  PROVE  EvInv'
<1> USE DEF EvInv, EventType
<1>1. EventType'
  BY DEF QueueType, StatusType, RingType, WaitType, NestType
<1>2. EvWait'
  BY DEF EvWait, WaitOK, SameWait
<1>3. EvFrames'
  <2>2. \A i \in 1..nest' : OldFrame(i) /\ frames[i].tcb # Null =>
            /\ "SEM" \in usStatus'[frames[i].tcb]
            /\ call'[frames[i].tcb].got = call[frames[i].tcb].got
    <3> SUFFICES ASSUME NEW i \in 1..nest, NEW u, u = frames[i].tcb, u # Null
                 PROVE "SEM" \in usStatus[u] /\ call'[u].got = call[u].got
      BY DEF OldFrame
    <3>1. frames[i] \in Frame /\ u \in Threads
      BY EventAssumption DEF KernType, Frame
    <3>2. "SEM" \in usStatus[u]
      BY DEF EvFrames, FrameOK
    <3> QED BY <3>1, <3>2 DEF SameWait
  <2> QED BY <2>2, FramesKept
<1>4. RingOnce'
  BY DEF RingOnce, IsReady
<1>5. QueuesAgree'
  BY DEF QueuesAgree
<1> QED BY <1>1, <1>2, <1>3, <1>4, <1>5

(* A step of the kernel that leaves every thread and every queue alone.      *)
LEMMA NotKernKeeps ==
  ASSUME EvInv, UNCHANGED notKern, KernType',
         \A i \in 1..nest' : OldFrame(i) \/ NoTcb(i),
         \A u \in Threads : InLimbo(u)' <=> InLimbo(u)
  PROVE  EvInv'
<1>1. /\ UNCHANGED <<wq, wqNum, usStatus, inRing, waitOn, ucWaitTimeout, ring, ucPriority,
                     ucIsEventDelete, ulSuspendNesting, call, sig>>
  BY DEF notKern, queueVars, waitVars
<1>2. CallType' /\ SigType' /\ FlagType' /\ PrioType'
  BY <1>1 DEF EvInv, EventType, CallType, SigType, FlagType, PrioType
<1>3. \A u \in Threads : SameWait(u)
  BY <1>1 DEF SameWait
<1> QED BY <1>1, <1>2, <1>3, QuietKeeps

(* A step that changes no variable of Event.                                 *)
LEMMA EventSameKeeps ==
  ASSUME EvInv, UNCHANGED eventVars
  PROVE  EvInv'
<1>1. UNCHANGED notKern /\ UNCHANGED kernVars
  BY DEF eventVars, notKern
<1> QED BY <1>1, KernSame, NotKernKeeps

-----------------------------------------------------------------------------
(* The steps that end or disturb a wait.                                    *)

(* A tick changes nothing of a call but the time left.                      *)
LEMMA OneTickLessCall ==
  ASSUME NEW c \in Call
  PROVE  /\ OneTickLess(c) \in Call
         /\ OneTickLess(c).pc = c.pc /\ OneTickLess(c).ev = c.ev
         /\ OneTickLess(c).ret = c.ret /\ OneTickLess(c).got = c.got
<1>1. c.left \in Timeouts
  BY DEF Call
<1>2. (IF c.left > 0 THEN c.left - 1 ELSE c.left) \in Timeouts
  BY <1>1, EventAssumption DEF Timeouts, Infinite
<1> QED BY <1>2 DEF OneTickLess, Call

(* Two signal contexts that differ in the time left of their calls only.     *)
SameCtx(x, y) == /\ x.call.pc = y.call.pc /\ x.call.ev = y.call.ev
                 /\ x.call.ret = y.call.ret /\ x.call.got = y.call.got
                 /\ x.iSchedRet = y.iSchedRet /\ x.ucWaitTimeout = y.ucWaitTimeout
                 /\ x.ucIsEventDelete = y.ucIsEventDelete

SameSigs(u) == /\ Len(sig'[u]) = Len(sig[u])
               /\ \A k \in 1..Len(sig[u]) : SameCtx(sig'[u][k], sig[u][k])

(* A tick leaves the shape of every call and of every signal context.        *)
LEMMA TickCalls ==
  ASSUME EventType,
         call' = [t \in Threads |-> OneTickLess(call[t])],
         sig' = [t \in Threads |-> [k \in DOMAIN sig[t] |->
                   [sig[t][k] EXCEPT !.call = OneTickLess(@)]]]
  PROVE  /\ CallType' /\ SigType'
         /\ \A u \in Threads : SameCall(u) /\ SameSigs(u)
<1> USE DEF EventType
<1>1. \A u \in Threads : call'[u] \in Call /\ SameCall(u)
  BY OneTickLessCall DEF CallType, SameCall
<1>2. CallType'
  BY <1>1 DEF CallType
<1>4. ASSUME NEW u \in Threads
      PROVE  sig'[u] \in Seq(SigCtx) /\ SameSigs(u)
  <2>1. sig[u] \in Seq(SigCtx) /\ DOMAIN sig[u] = 1..Len(sig[u]) /\ Len(sig[u]) \in Nat
    BY DEF SigType
  <2> DEFINE g(k) == [sig[u][k] EXCEPT !.call = OneTickLess(sig[u][k].call)]
  <2>2. ASSUME NEW k \in 1..Len(sig[u])
        PROVE  g(k) \in SigCtx /\ SameCtx(g(k), sig[u][k])
    <3>0. sig[u][k] \in SigCtx
      BY <2>1, ElementOfSeq
    <3>1. sig[u][k] \in SigCtx /\ sig[u][k].call \in Call
      BY <3>0 DEF SigCtx
    <3>2. OneTickLess(sig[u][k].call) \in Call
      BY <3>1, OneTickLessCall
    <3>3. /\ g(k).call = OneTickLess(sig[u][k].call) /\ g(k) \in SigCtx
          /\ g(k).iSchedRet = sig[u][k].iSchedRet
          /\ g(k).ucWaitTimeout = sig[u][k].ucWaitTimeout
          /\ g(k).ucIsEventDelete = sig[u][k].ucIsEventDelete
      BY <3>1, <3>2 DEF SigCtx
    <3> QED BY <3>1, <3>3, OneTickLessCall DEF SameCtx
  <2>3. sig'[u] = [k \in 1..Len(sig[u]) |-> g(k)]
    BY <2>1
  <2> HIDE DEF g
  <2>4. sig'[u] \in Seq(SigCtx) /\ Len(sig'[u]) = Len(sig[u])
    <3>1. sig'[u] \in [1..Len(sig[u]) -> SigCtx]
      BY <2>2, <2>3
    <3> QED BY <2>1, <3>1, FunctionIsSeq
  <2> QED BY <2>2, <2>3, <2>4 DEF SameSigs
<1>5. SigType'
  BY <1>4 DEF SigType
<1> QED BY <1>1, <1>2, <1>4, <1>5

(* Calls and signal contexts that are left alone.                            *)
LEMMA CallsSame ==
  ASSUME EventType, UNCHANGED <<call, sig>>
  PROVE  CallType' /\ SigType' /\ \A u \in Threads : SameCall(u) /\ SameSigs(u)
  BY DEF EventType, CallType, SigType, SameCall, SameSigs, SameCtx

(* What Tick and TickNext do: a thread that is due is woken, or nobody is.   *)
LEMMA TickCases ==
  ASSUME EvInv, Tick \/ TickNext
  PROVE  /\ CallType' /\ SigType' /\ \A u \in Threads : SameCall(u) /\ SameSigs(u)
         /\ UNCHANGED <<ring, ucPriority, ucIsEventDelete, ulSuspendNesting>>
         /\ \/ /\ \E t \in Threads : /\ ~IsReady(t) /\ ~InLimbo(t) /\ "SEM" \in usStatus[t]
                                   /\ AbortWait(t, "CLEAR")
               /\ UNCHANGED kernVars \/ (nest < MaxNest /\ SetFrame(nest + 1, TickFrame))
            \/ /\ UNCHANGED <<wq, wqNum, usStatus, inRing, waitOn, ucWaitTimeout>>
               /\ \/ UNCHANGED kernVars
                  \/ /\ nest \in 1..MaxNest /\ frames[nest].op = "tick" /\ AtTop(nest)
                     /\ EndFrame(nest)
<1>d. \A t \in Threads : DELAY \in usStatus[t] => ~IsReady(t) /\ ~InLimbo(t) /\ "SEM" \in usStatus[t]
  BY DEF EvInv, EvWait, WaitOK, IsReady
<1>1. CASE Tick
  <2>1. CallType' /\ SigType' /\ \A u \in Threads : SameCall(u) /\ SameSigs(u)
    <3>1. /\ call' = [t \in Threads |-> OneTickLess(call[t])]
          /\ sig' = [t \in Threads |-> [k \in DOMAIN sig[t] |->
                      [sig[t][k] EXCEPT !.call = OneTickLess(@)]]]
      BY <1>1 DEF Tick
    <3> QED BY <3>1, TickCalls DEF EvInv
  <2>2. UNCHANGED <<ring, ucPriority, ucIsEventDelete, ulSuspendNesting>> /\ nest < MaxNest
    BY <1>1 DEF Tick, IsrEnter
  <2>3. CASE \E t \in Threads : Due(call', t) /\ AbortWait(t, "CLEAR") /\ SetFrame(nest + 1, TickFrame)
    BY <1>d, <2>1, <2>2, <2>3 DEF Due
  <2>4. CASE UNCHANGED <<kernVars, queueVars, waitVars>>
    BY <2>1, <2>2, <2>4 DEF queueVars, waitVars
  <2> QED BY <1>1, <2>3, <2>4 DEF Tick
<1>2. CASE TickNext
  <2>1. UNCHANGED <<ring, ucPriority, ucIsEventDelete, ulSuspendNesting, call, sig>>
    BY <1>2 DEF TickNext
  <2>2. CallType' /\ SigType' /\ \A u \in Threads : SameCall(u) /\ SameSigs(u)
    BY <2>1, CallsSame DEF EvInv
  <2>3. CASE \E t \in Threads : Due(call, t) /\ AbortWait(t, "CLEAR") /\ UNCHANGED kernVars
    BY <1>d, <2>1, <2>2, <2>3 DEF Due
  <2>4. CASE EndFrame(nest) /\ UNCHANGED <<queueVars, waitVars>>
    <3>1. nest \in 1..MaxNest /\ frames[nest].op = "tick" /\ nest \in 1..nest
      BY <1>2, EventAssumption DEF TickNext, EvInv, EventType, KernType
    <3>2. AtTop(nest)
      BY <3>1 DEF AtTop, EvInv, EvFrames, FrameOK
    <3> QED BY <2>1, <2>2, <2>4, <3>1, <3>2 DEF queueVars, waitVars
  <2> QED BY <1>2, <2>3, <2>4 DEF TickNext
<1> QED BY <1>1, <1>2

(* The tick interrupt preserves the invariant, in each of its windows.      *)
LEMMA TickKeeps ==
  ASSUME EvInv, Tick \/ TickNext
  PROVE  EvInv'
<1>0. /\ CallType' /\ SigType' /\ \A u \in Threads : SameCall(u)
      /\ UNCHANGED <<ring, ucPriority, ucIsEventDelete, ulSuspendNesting>>
  BY TickCases
<1>1. CASE /\ \E t \in Threads : ~IsReady(t) /\ ~InLimbo(t) /\ AbortWait(t, "CLEAR")
           /\ UNCHANGED kernVars \/ (nest < MaxNest /\ SetFrame(nest + 1, TickFrame))
  BY <1>0, <1>1, AbortKeeps
<1>2. CASE /\ UNCHANGED <<wq, wqNum, usStatus, inRing, waitOn, ucWaitTimeout>>
           /\ \/ UNCHANGED kernVars
              \/ nest \in 1..MaxNest /\ AtTop(nest) /\ EndFrame(nest)
  <2>1. FlagType' /\ PrioType'
    BY <1>0, <1>2 DEF EvInv, EventType, FlagType, PrioType
  <2>2. \A u \in Threads : SameWait(u)
    BY <1>0 DEF SameCall, SameWait
  <2>3. /\ KernType'
        /\ \A i \in 1..nest' : OldFrame(i) \/ NoTcb(i)
        /\ \A u \in Threads : InLimbo(u)' <=> InLimbo(u)
    BY <1>2, KernSame, TopQuiet
  <2> QED BY <1>0, <1>2, <2>1, <2>2, <2>3, QuietKeeps
<1> QED BY <1>1, <1>2, TickCases

(* API_ThreadWakeupEx never finds a waiter in somebody's hand if no          *)
(* interrupt handler asks for threads that wait for ever; this is where the  *)
(* assumption is needed.                                                    *)
LEMMA ThreadWakeupCases ==
  ASSUME EvInv, IsrWakesPended = FALSE, NEW t \in Threads, NEW inf \in BOOLEAN,
         ThreadWakeup(t, inf)
  PROVE  /\ UNCHANGED kernVars
         /\ UNCHANGED <<ring, ucPriority, ucIsEventDelete, ulSuspendNesting, call, sig>>
         /\ ~IsReady(t) /\ ~InLimbo(t) /\ AbortWait(t, ucWaitTimeout[t])
         /\ ucWaitTimeout[t] \in {"CLEAR", "OUT"}
<1>1. /\ UNCHANGED kernVars
      /\ UNCHANGED <<ring, ucPriority, ucIsEventDelete, ulSuspendNesting, call, sig>>
      /\ ~IsReady(t) /\ AbortWait(t, ucWaitTimeout[t]) /\ ucWaitTimeout[t] \in {"CLEAR", "OUT"}
  BY DEF ThreadWakeup, EvInv, EventType, FlagType
<1>2. ~InLimbo(t)
  <2>1. CASE nest = 0
    BY <2>1 DEF InLimbo
  <2>2. CASE nest # 0
    <3>1. DELAY \in usStatus[t]
      BY <2>2 DEF ThreadWakeup, ThreadEnter
    <3> QED BY <3>1 DEF EvInv, EvWait, WaitOK
  <2> QED BY <2>1, <2>2
<1> QED BY <1>1, <1>2

(* API_ThreadWakeupEx preserves the invariant.                              *)
LEMMA ThreadWakeupKeeps ==
  ASSUME EvInv, IsrWakesPended = FALSE, NEW t \in Threads, NEW inf \in BOOLEAN,
         ThreadWakeup(t, inf)
  PROVE  EvInv'
<1>1. /\ UNCHANGED kernVars
      /\ UNCHANGED <<ring, ucPriority, ucIsEventDelete, ulSuspendNesting, call, sig>>
      /\ ~IsReady(t) /\ ~InLimbo(t) /\ AbortWait(t, ucWaitTimeout[t])
      /\ ucWaitTimeout[t] \in {"CLEAR", "OUT"}
  BY ThreadWakeupCases
<1>2. CallType' /\ SigType' /\ \A u \in Threads : SameCall(u)
  BY <1>1, CallsSame DEF EvInv
<1> QED BY <1>1, <1>2, AbortKeeps

(* The value of call for a thread in no blocking call is a call.            *)
LEMMA RunningCall ==
  Running \in Call /\ Running.pc = "run" /\ Running.ev = Null /\ Running.got = "no"
  BY EventAssumption DEF Running, Call, Timeouts, NotWait, Infinite, SchedRets, Got

(* The context __sigCtlCreate puts on the stack of t.                        *)
Context(t, saType) ==
  [call            |-> call[t],
   iSchedRet       |-> IF usStatus[t] \cap ({DELAY} \cup PendAny) # {} THEN saType ELSE "NONE",
   ucWaitTimeout   |-> ucWaitTimeout'[t],
   ucIsEventDelete |-> ucIsEventDelete[t]]

(* What a signal does to the contexts and the call of its thread.            *)
LEMMA SignalCases ==
  ASSUME EvInv, NEW t \in Threads, NEW saType \in {"EINTR", "RESTART"}, Signal(t, saType)
  PROVE  /\ nest = 0 /\ UNCHANGED kernVars
         /\ UNCHANGED <<ring, ucPriority, ucIsEventDelete, ulSuspendNesting>>
         /\ ~InLimbo(t) /\ call[t].pc # "run"
         /\ IF IsReady(t) THEN UNCHANGED <<wq, wqNum, usStatus, inRing, waitOn, ucWaitTimeout>>
                          ELSE AbortWait(t, "CLEAR")
         /\ CallType' /\ SigType'
         /\ \A u \in Threads : u # t => call'[u] = call[u] /\ sig'[u] = sig[u]
         /\ call'[t] = Running
         /\ Context(t, saType) \in SigCtx
         /\ Len(sig[t]) \in Nat /\ Len(sig'[t]) = Len(sig[t]) + 1
         /\ sig'[t][Len(sig[t]) + 1] = Context(t, saType)
         /\ \A k \in 1..Len(sig[t]) : sig'[t][k] = sig[t][k]
<1> DEFINE ctx == Context(t, saType)
<1>d. /\ UNCHANGED kernVars /\ nest = 0 /\ call[t].pc # "run"
      /\ UNCHANGED <<ring, ucPriority, ucIsEventDelete, ulSuspendNesting>>
      /\ IF IsReady(t) THEN UNCHANGED <<wq, wqNum, usStatus, inRing, waitOn, ucWaitTimeout>>
                       ELSE AbortWait(t, "CLEAR")
  BY DEF Signal, ThreadEnter, waitVars, queueVars
<1>e. sig' = [sig EXCEPT ![t] = Append(sig[t], ctx)] /\ call' = [call EXCEPT ![t] = Running]
  BY DEF Signal, Context
<1>n. ~InLimbo(t)
  BY <1>d DEF InLimbo
<1> USE DEF EvInv, EventType
<1>w. ucWaitTimeout'[t] \in {"CLEAR", "OUT"}
  <2>1. CASE IsReady(t)
    BY <1>d, <2>1 DEF FlagType
  <2>2. CASE ~IsReady(t)
    <3>1. AbortWait(t, "CLEAR")
      BY <1>d, <2>2
    <3> QED BY <1>n, <2>2, <3>1, AbortFacts
  <2> QED BY <2>1, <2>2
<1>x. ctx \in SigCtx
  <2>1. call[t] \in Call /\ ucIsEventDelete[t] \in {"EXIST", "DELETE"}
    BY DEF CallType, FlagType
  <2> QED BY <1>w, <2>1 DEF SigCtx, SchedRets, Context
<1> HIDE DEF ctx
<1>r. Running \in Call
  BY RunningCall
<1>1. CallType' /\ call'[t] = Running
  BY <1>e, <1>r DEF CallType
<1>2. SigType'
  BY <1>e, <1>x DEF SigType
<1>3. \A u \in Threads : u # t => call'[u] = call[u] /\ sig'[u] = sig[u]
  BY <1>e DEF CallType, SigType
<1>4. sig[t] \in Seq(SigCtx) /\ sig'[t] = Append(sig[t], ctx)
  BY <1>e DEF SigType
<1>5. /\ Len(sig[t]) \in Nat /\ Len(sig'[t]) = Len(sig[t]) + 1
      /\ sig'[t][Len(sig[t]) + 1] = ctx
      /\ \A k \in 1..Len(sig[t]) : sig'[t][k] = sig[t][k]
  BY <1>4, <1>x, AppendProperties
<1> QED BY <1>d, <1>n, <1>x, <1>1, <1>2, <1>3, <1>5 DEF ctx

(* _doSignal preserves the invariant.                                       *)
LEMMA SignalKeeps ==
  ASSUME EvInv, NEW t \in Threads, NEW saType \in {"EINTR", "RESTART"}, Signal(t, saType)
  PROVE  EvInv'
<1>1. /\ UNCHANGED kernVars /\ ~InLimbo(t)
      /\ UNCHANGED <<ring, ucPriority, ucIsEventDelete, ulSuspendNesting>>
      /\ IF IsReady(t) THEN UNCHANGED <<wq, wqNum, usStatus, inRing, waitOn, ucWaitTimeout>>
                       ELSE AbortWait(t, "CLEAR")
      /\ CallType' /\ SigType'
  BY SignalCases
<1>2. \A u \in Threads : u # t => call'[u] = call[u]
  BY SignalCases
<1>3. CASE ~IsReady(t)
  <2>1. \A u \in Threads : u # t => SameCall(u)
    BY <1>2 DEF SameCall
  <2> QED BY <1>1, <1>3, <2>1, AbortKeeps
<1>4. CASE IsReady(t)
  <2>1. FlagType' /\ PrioType'
    BY <1>1, <1>4 DEF EvInv, EventType, FlagType, PrioType
  <2>2. \A u \in Threads : "SEM" \in usStatus[u] => SameWait(u)
    BY <1>2, <1>4 DEF SameWait, IsReady
  <2> QED BY <1>1, <1>4, <2>1, <2>2, KernSame, QuietKeeps
<1> QED BY <1>3, <1>4

(* What __sigReturn does to the contexts and the call of its thread.         *)
LEMMA SigReturnCases ==
  ASSUME EvInv, NEW t \in Threads, SigReturn(t), NEW x, x = sig[t][Len(sig[t])]
  PROVE  /\ UNCHANGED kernVars /\ IsReady(t) /\ call[t].pc = "run"
         /\ UNCHANGED <<wq, wqNum, usStatus, inRing, waitOn, ring, ucPriority, ulSuspendNesting>>
         /\ CallType' /\ SigType' /\ FlagType'
         /\ Len(sig[t]) \in Nat \ {0} /\ Len(sig'[t]) = Len(sig[t]) - 1
         /\ \A k \in 1..Len(sig'[t]) : sig'[t][k] = sig[t][k]
         /\ x \in SigCtx
         /\ call'[t].pc = x.call.pc /\ call'[t].ev = x.call.ev /\ call'[t].got = x.call.got
         /\ call'[t].ret = IF x.iSchedRet = "NONE" THEN x.call.ret ELSE x.iSchedRet
         /\ ucWaitTimeout'[t] = x.ucWaitTimeout /\ ucIsEventDelete'[t] = x.ucIsEventDelete
         /\ \A u \in Threads : u # t =>
              /\ call'[u] = call[u] /\ sig'[u] = sig[u]
              /\ ucWaitTimeout'[u] = ucWaitTimeout[u]
              /\ ucIsEventDelete'[u] = ucIsEventDelete[u]
<1> DEFINE c == [x.call EXCEPT !.ret = IF x.iSchedRet = "NONE" THEN x.call.ret
                                       ELSE x.iSchedRet]
<1>d. /\ UNCHANGED kernVars /\ IsReady(t) /\ call[t].pc = "run" /\ sig[t] # <<>>
      /\ UNCHANGED <<wq, wqNum, usStatus, inRing, waitOn, ring, ucPriority, ulSuspendNesting>>
  BY DEF SigReturn, queueVars
<1>e. /\ call' = [call EXCEPT ![t] = c]
      /\ ucWaitTimeout' = [ucWaitTimeout EXCEPT ![t] = x.ucWaitTimeout]
      /\ ucIsEventDelete' = [ucIsEventDelete EXCEPT ![t] = x.ucIsEventDelete]
      /\ sig' = [sig EXCEPT ![t] = Front(sig[t])]
  BY DEF SigReturn
<1> USE DEF EvInv, EventType
<1>g. sig[t] \in Seq(SigCtx) /\ Len(sig[t]) \in Nat \ {0}
  BY <1>d, EmptySeq DEF SigType
<1>x. x \in SigCtx
  <2>1. Len(sig[t]) \in 1..Len(sig[t])
    BY <1>g
  <2> QED BY <1>g, <2>1, ElementOfSeq
<1>c. /\ c \in Call
      /\ c.pc = x.call.pc /\ c.ev = x.call.ev /\ c.got = x.call.got
      /\ c.ret = IF x.iSchedRet = "NONE" THEN x.call.ret ELSE x.iSchedRet
  <2>1. x.call \in Call /\ x.iSchedRet \in SchedRets
    BY <1>x DEF SigCtx
  <2> QED BY <2>1 DEF Call
<1> HIDE DEF c
<1>1. CallType' /\ call'[t] = c /\ \A u \in Threads : u # t => call'[u] = call[u]
  BY <1>c, <1>e DEF CallType
<1>2. FlagType'
  BY <1>e, <1>x DEF FlagType, SigCtx
<1>3. /\ Front(sig[t]) \in Seq(SigCtx) /\ Len(Front(sig[t])) = Len(sig[t]) - 1
      /\ \A k \in 1..Len(sig[t])-1 : Front(sig[t])[k] = sig[t][k]
  BY <1>g DEF Front
<1>4. SigType' /\ sig'[t] = Front(sig[t]) /\ \A u \in Threads : u # t => sig'[u] = sig[u]
  BY <1>e, <1>3 DEF SigType
<1>5. /\ ucWaitTimeout'[t] = x.ucWaitTimeout /\ ucIsEventDelete'[t] = x.ucIsEventDelete
      /\ \A u \in Threads : u # t => ucWaitTimeout'[u] = ucWaitTimeout[u]
                                  /\ ucIsEventDelete'[u] = ucIsEventDelete[u]
  BY <1>e DEF FlagType
<1> HIDE DEF EvInv, EventType
<1> QED BY <1>c, <1>d, <1>g, <1>x, <1>1, <1>2, <1>3, <1>4, <1>5

(* __sigReturn preserves the invariant.                                     *)
LEMMA SigReturnKeeps ==
  ASSUME EvInv, NEW t \in Threads, SigReturn(t)
  PROVE  EvInv'
<1>1. /\ UNCHANGED kernVars /\ IsReady(t)
      /\ UNCHANGED <<wq, wqNum, usStatus, inRing, waitOn, ring, ucPriority, ulSuspendNesting>>
      /\ CallType' /\ SigType' /\ FlagType'
      /\ \A u \in Threads : u # t =>
           /\ call'[u] = call[u]
           /\ ucWaitTimeout'[u] = ucWaitTimeout[u]
           /\ ucIsEventDelete'[u] = ucIsEventDelete[u]
  BY SigReturnCases
<1>2. PrioType'
  BY <1>1 DEF EvInv, EventType, PrioType
<1>3. \A u \in Threads : "SEM" \in usStatus[u] =>
         /\ SameWait(u)
         /\ ucWaitTimeout'[u] = ucWaitTimeout[u] /\ ucIsEventDelete'[u] = ucIsEventDelete[u]
  BY <1>1 DEF SameWait, IsReady
<1> QED BY <1>1, <1>2, <1>3, KernSame, QuietKeeps

(* Only the suspend bit of t and its ready ring link change.                 *)
LEMMA SuspendBitKeeps ==
  ASSUME EvInv, NEW t \in Threads, NEW n \in 0..MaxSuspend, NEW st \in SUBSET StatusBits,
         usStatus' = [usStatus EXCEPT ![t] = st],
         ulSuspendNesting' = [ulSuspendNesting EXCEPT ![t] = n],
         st \ {SUSPEND} = usStatus[t] \ {SUSPEND},
         SUSPEND \in st <=> n > 0,
         RingType', RingOnce',
         UNCHANGED <<kernVars, queueVars, waitOn, ring, ucPriority, ucWaitTimeout,
                     ucIsEventDelete, call, sig>>
  PROVE  EvInv'
<1>k. /\ KernType'
      /\ \A i \in 1..nest' : OldFrame(i) \/ NoTcb(i)
      /\ \A u \in Threads : InLimbo(u)' <=> InLimbo(u)
  BY KernSame
<1> USE DEF EvInv, EventType
<1>s. \A u \in Threads : /\ "SEM" \in usStatus'[u] <=> "SEM" \in usStatus[u]
                         /\ DELAY \in usStatus'[u] <=> DELAY \in usStatus[u]
  BY DEF StatusType, DELAY, SUSPEND
<1>1. EventType'
  <2>1. StatusType' /\ NestType'
    BY DEF StatusType, NestType
  <2>2. /\ QueueType' /\ WaitType' /\ FlagType' /\ PrioType' /\ CallType' /\ SigType'
    BY DEF queueVars, QueueType, WaitType, FlagType, PrioType, CallType, SigType
  <2> QED BY <1>k, <2>1, <2>2
<1>2. EvWait'
  <2>1. \A u \in Threads : /\ SUSPEND \in usStatus'[u] => ulSuspendNesting'[u] > 0
                           /\ ulSuspendNesting'[u] > 0 => SUSPEND \in usStatus'[u]
    BY DEF StatusType, NestType, EvWait, WaitOK
  <2> QED BY <1>k, <1>s, <2>1 DEF EvWait, WaitOK
<1>3. EvFrames'
  <2>2. \A i \in 1..nest' : OldFrame(i) /\ frames[i].tcb # Null =>
            /\ "SEM" \in usStatus'[frames[i].tcb]
            /\ call'[frames[i].tcb].got = call[frames[i].tcb].got
    <3> SUFFICES ASSUME NEW i \in 1..nest, NEW u, u = frames[i].tcb, u # Null
                 PROVE "SEM" \in usStatus'[u]
      BY DEF OldFrame
    <3>1. frames[i] \in Frame /\ u \in Threads
      BY EventAssumption DEF KernType, Frame
    <3>2. "SEM" \in usStatus[u]
      BY DEF EvFrames, FrameOK
    <3> QED BY <1>s, <3>1, <3>2
  <2> QED BY <1>k, <2>2, FramesKept
<1>4. QueuesAgree'
  BY <1>k DEF QueuesAgree, queueVars
<1> QED BY <1>1, <1>2, <1>3, <1>4

(* API_ThreadSuspend preserves the invariant.                               *)
LEMMA ThreadSuspendKeeps ==
  ASSUME EvInv, NEW t \in Threads, ThreadSuspend(t)
  PROVE  EvInv'
<1> DEFINE st == usStatus[t] \cup {SUSPEND}
           n  == ulSuspendNesting[t] + 1
<1>1. /\ usStatus' = [usStatus EXCEPT ![t] = st]
      /\ ulSuspendNesting' = [ulSuspendNesting EXCEPT ![t] = n]
      /\ inRing' = [inRing EXCEPT ![t] = IF IsReady(t) THEN inRing[t] - 1 ELSE inRing[t]]
      /\ UNCHANGED <<kernVars, queueVars, waitOn, ring, ucPriority, ucWaitTimeout,
                     ucIsEventDelete, call, sig>>
  BY DEF ThreadSuspend
<1>2. st \in SUBSET StatusBits /\ st \ {SUSPEND} = usStatus[t] \ {SUSPEND} /\ SUSPEND \in st
  BY DEF EvInv, EventType, StatusType, StatusBits
<1>3. n \in 0..MaxSuspend /\ n > 0
  BY EventAssumption DEF ThreadSuspend, EvInv, EventType, NestType
<1>4. RingType' /\ RingOnce'
  BY <1>1 DEF EvInv, EventType, RingType, StatusType, RingOnce, IsReady
<1> HIDE DEF st, n
<1> QED BY <1>1, <1>2, <1>3, <1>4, SuspendBitKeeps

(* API_ThreadResume and API_ThreadForceResume preserve the invariant.       *)
LEMMA ThreadResumeKeeps ==
  ASSUME EvInv, NEW t \in Threads, NEW levels \in {1, ulSuspendNesting[t]},
         ThreadResume(t, levels)
  PROVE  EvInv'
<1> DEFINE n  == ulSuspendNesting[t] - levels
           st == IF n = 0 THEN usStatus[t] \ {SUSPEND} ELSE usStatus[t]
<1>1. /\ usStatus' = [usStatus EXCEPT ![t] = st]
      /\ ulSuspendNesting' = [ulSuspendNesting EXCEPT ![t] = n]
      /\ inRing' = [inRing EXCEPT ![t] = IF st = {} THEN inRing[t] + 1 ELSE inRing[t]]
      /\ UNCHANGED <<kernVars, queueVars, waitOn, ring, ucPriority, ucWaitTimeout,
                     ucIsEventDelete, call, sig>>
  BY DEF ThreadResume
<1>2. n \in 0..MaxSuspend /\ ulSuspendNesting[t] > 0
  BY EventAssumption DEF ThreadResume, EvInv, EventType, NestType
<1>3. SUSPEND \in usStatus[t]
  BY <1>2 DEF EvInv, EvWait, WaitOK
<1>4. /\ st \in SUBSET StatusBits /\ st \ {SUSPEND} = usStatus[t] \ {SUSPEND}
      /\ SUSPEND \in st <=> n > 0
  BY <1>2, <1>3 DEF EvInv, EventType, StatusType
<1> HIDE DEF st, n
<1>5. RingType' /\ RingOnce'
  BY <1>1, <1>3 DEF EvInv, EventType, RingType, StatusType, RingOnce, IsReady
<1> QED BY <1>1, <1>2, <1>4, <1>5, SuspendBitKeeps

(* API_ThreadSetPriority preserves the invariant.                           *)
LEMMA ThreadSetPriorityKeeps ==
  ASSUME EvInv, NEW t \in Threads, NEW p \in Priorities, ThreadSetPriority(t, p)
  PROVE  EvInv'
<1>1. /\ UNCHANGED kernVars
      /\ UNCHANGED <<wq, wqNum, usStatus, inRing, waitOn, ucWaitTimeout, ring,
                     ucIsEventDelete, ulSuspendNesting, call, sig>>
      /\ ucPriority' = [ucPriority EXCEPT ![t] = p]
  BY DEF ThreadSetPriority, queueVars, waitVars
<1>2. FlagType' /\ PrioType'
  BY <1>1 DEF EvInv, EventType, FlagType, PrioType
<1>3. CallType' /\ SigType' /\ \A u \in Threads : SameWait(u)
  BY <1>1, CallsSame DEF EvInv, SameWait
<1> QED BY <1>1, <1>2, <1>3, KernSame, QuietKeeps

-----------------------------------------------------------------------------
(* The tail of every blocking call, after a wait.                           *)

GoesOn(t) == \/ call[t].ret = "NONE"
             \/ call[t].ret = "EINTR" /\ call[t].inter
             \/ call[t].left = NotWait

(* The call is over, or goes back to __wait_again.                           *)
LEMMA PendReturnCases ==
  ASSUME EvInv, NEW t \in Threads, PendReturn(t)
  PROVE  /\ UNCHANGED kernVars /\ IsReady(t) /\ call[t].pc = "pend"
         /\ UNCHANGED <<wq, wqNum, usStatus, inRing, waitOn, ucWaitTimeout, ring, ucPriority,
                        ucIsEventDelete, ulSuspendNesting, sig>>
         /\ CallType' /\ \A u \in Threads : u # t => call'[u] = call[u]
         /\ GoesOn(t) => call'[t] = Running
         /\ ~GoesOn(t) => /\ call'[t].pc = "again" /\ call'[t].ev = call[t].ev
                          /\ call'[t].ret = call[t].ret /\ call'[t].got = call[t].got
                          /\ call[t].ret # "NONE"
<1>1. /\ UNCHANGED kernVars /\ IsReady(t) /\ call[t].pc = "pend"
      /\ UNCHANGED <<wq, wqNum, usStatus, inRing, waitOn, ucWaitTimeout, ring, ucPriority,
                     ucIsEventDelete, ulSuspendNesting, sig>>
  BY DEF PendReturn, queueVars, waitVars
<1>2. call' = [call EXCEPT ![t] = IF GoesOn(t) THEN Running ELSE [call[t] EXCEPT !.pc = "again"]]
  BY DEF PendReturn, GoesOn
<1>3. call \in [Threads -> Call] /\ call[t] \in Call
  BY DEF EvInv, EventType, CallType
<1>4. CASE GoesOn(t)
  <2>1. call' = [call EXCEPT ![t] = Running]
    BY <1>2, <1>4
  <2> QED BY <1>1, <1>3, <1>4, <2>1, RunningCall DEF CallType
<1>5. CASE ~GoesOn(t)
  <2> DEFINE c == [call[t] EXCEPT !.pc = "again"]
  <2>1. call' = [call EXCEPT ![t] = c]
    BY <1>2, <1>5
  <2>2. c \in Call /\ c.pc = "again" /\ c.ev = call[t].ev /\ c.ret = call[t].ret /\ c.got = call[t].got
    BY <1>3 DEF Call
  <2>3. call[t].ret # "NONE"
    BY <1>5 DEF GoesOn
  <2> HIDE DEF c
  <2> QED BY <1>1, <1>3, <1>5, <2>1, <2>2, <2>3 DEF CallType
<1> QED BY <1>4, <1>5

(* The end of a blocking call preserves the invariant.                      *)
LEMMA PendReturnKeeps ==
  ASSUME EvInv, NEW t \in Threads, PendReturn(t)
  PROVE  EvInv'
<1>1. /\ UNCHANGED kernVars /\ IsReady(t)
      /\ UNCHANGED <<wq, wqNum, usStatus, inRing, waitOn, ucWaitTimeout, ring, ucPriority,
                     ucIsEventDelete, ulSuspendNesting, sig>>
      /\ CallType' /\ \A u \in Threads : u # t => call'[u] = call[u]
  BY PendReturnCases
<1>2. SigType' /\ FlagType' /\ PrioType'
  BY <1>1 DEF EvInv, EventType, SigType, FlagType, PrioType
<1>3. \A u \in Threads : "SEM" \in usStatus[u] => SameWait(u)
  BY <1>1 DEF SameWait, IsReady
<1> QED BY <1>1, <1>2, <1>3, KernSame, QuietKeeps

-----------------------------------------------------------------------------
(* A thread goes to sleep.                                                   *)

(* A larger bucket number is a larger priority number.                       *)
LEMMA IndexMonotone ==
  \A p, q \in Nat : p < q => EventIndexQ(p) =< EventIndexQ(q)
<1> SUFFICES ASSUME NEW p \in Nat, NEW q \in Nat, p < q
             PROVE  (p \div EventQWidth) =< (q \div EventQWidth)
  BY DEF EventIndexQ
<1> DEFINE a == p \div EventQWidth
           b == q \div EventQWidth
           w == EventQWidth
<1>1. /\ a \in Nat /\ b \in Nat /\ w \in Nat /\ w > 0
      /\ a * w =< p /\ q < (b + 1) * w
  BY EventAssumption
<1>2. SUFFICES ASSUME b + 1 =< a PROVE FALSE
  BY <1>1
<1> HIDE DEF a, b, w
<1>3. (b + 1) * w =< a * w
  BY <1>1, <1>2
<1> QED BY <1>1, <1>3

(* The place _AddTCBToEventPriority looks for exists.                        *)
LEMMA PriorityPlaceFacts ==
  ASSUME NEW q \in Seq(Threads), NEW t, NEW prio
  PROVE  /\ PriorityPlace(q, t, prio) \in 1..Len(q) + 1
         /\ \A j \in 1 .. PriorityPlace(q, t, prio) - 1 : StaysAhead(q[j], t, prio)
         /\ PriorityPlace(q, t, prio) =< Len(q) => ~StaysAhead(q[PriorityPlace(q, t, prio)], t, prio)
<1> DEFINE T == {i \in 1..Len(q) : ~StaysAhead(q[i], t, prio)}
<1>0. Len(q) \in Nat
  OBVIOUS
<1>1. \E i \in 1..Len(q)+1 : (\A j \in 1..i-1 : j \notin T) /\ (i =< Len(q) => i \in T)
  <2>1. T \in SUBSET (1..Len(q))
    OBVIOUS
  <2> HIDE DEF T
  <2> QED BY <1>0, <2>1, FirstPlace
<1>2. \E i \in 1..Len(q)+1 : /\ \A j \in 1 .. i - 1 : StaysAhead(q[j], t, prio)
                             /\ i =< Len(q) => ~StaysAhead(q[i], t, prio)
  BY <1>0, <1>1
<1> QED BY <1>2 DEF PriorityPlace

(* The queue after a thread that was not in it has been added.               *)
LEMMA QueueAdd ==
  ASSUME EvInv, NEW e \in Events, NEW t \in Threads, ~Contains(wq[e], t),
         NEW prio, NEW s, s \in {AddTCBToEventPriority(wq[e], t, prio), AddTCBToEventFifo(wq[e], t)}
  PROVE  /\ s \in Seq(Threads) /\ Len(s) = Len(wq[e]) + 1 /\ IsInjective(s)
         /\ \A y : Contains(s, y) <=> Contains(wq[e], y) \/ y = t
<1>1. wq[e] \in Seq(Threads) /\ IsInjective(wq[e]) /\ Len(wq[e]) \in Nat
  BY DEF EvInv, EventType, QueueType, QueuesAgree
<1>2. CASE s = AddTCBToEventFifo(wq[e], t)
  BY <1>1, <1>2, AppendKeeps DEF AddTCBToEventFifo
<1>3. CASE s = AddTCBToEventPriority(wq[e], t, prio)
  <2> DEFINE q == wq[e]
             k == PriorityPlace(q, t, prio)
  <2>3. k \in 1..Len(q)+1
    BY <1>1, PriorityPlaceFacts
  <2> HIDE DEF k
  <2>4. s = InsertAt(q, k, t)
    BY <1>3 DEF AddTCBToEventPriority, k
  <2> QED BY <1>1, <2>3, <2>4, InsertAtProps, InsertKeeps
<1> QED BY <1>2, <1>3

(* The call of a thread that has just gone to sleep on e.                    *)
Waiting(c, e) == /\ c \in Call /\ c.pc = "pend" /\ c.ret = "NONE" /\ c.got = "no"
                 /\ c.ev = e

(* A ready thread goes to sleep.                                             *)
LEMMA EventWaitKeeps ==
  ASSUME EvInv, NEW t \in Threads, NEW e \in Events, NEW byPrio, NEW timed \in BOOLEAN,
         NEW c, Waiting(c, e),
         NEW prio \in [Threads -> Priorities],
         IsReady(t), ThreadEnter, EventWait(e, t, byPrio, timed, prio),
         call' = [call EXCEPT ![t] = c], ucPriority' \in [Threads -> Priorities],
         UNCHANGED <<kernVars, ulSuspendNesting, sig>>
  PROVE  EvInv'
<1> DEFINE s == IF byPrio THEN AddTCBToEventPriority(wq[e], t, prio)
                          ELSE AddTCBToEventFifo(wq[e], t)
           st == usStatus[t] \cup {"SEM"} \cup (IF timed THEN {DELAY} ELSE {})
<1>p1. wq' = [wq EXCEPT ![e] = s] /\ wqNum' = [wqNum EXCEPT ![e] = wqNum[e] + 1]
  BY DEF EventWait
<1>p2. usStatus' = [usStatus EXCEPT ![t] = st] /\ inRing' = [inRing EXCEPT ![t] = inRing[t] - 1]
  BY DEF EventWait
<1>p3. waitOn' = [waitOn EXCEPT ![t] = e]
  BY DEF EventWait
<1>p4. /\ ucWaitTimeout' = [ucWaitTimeout EXCEPT ![t] = "CLEAR"]
       /\ ucIsEventDelete' = [ucIsEventDelete EXCEPT ![t] = "EXIST"]
  BY DEF EventWait
<1>p6. ring' = [ring EXCEPT ![t] = IF byPrio THEN EventIndexQ(prio[t]) ELSE ring[t]]
  BY DEF EventWait
<1>n. nest = 0 /\ nest' = 0 /\ \A u \in Threads : ~InLimbo(u) /\ ~InLimbo(u)'
  BY DEF ThreadEnter, kernVars, InLimbo
<1>k. KernType'
  BY KernSame
<1> USE DEF EvInv, EventType
<1>s1. usStatus[t] = {} /\ waitOn[t] = Null
  BY DEF IsReady, EvWait, WaitOK
<1>s2. ~Contains(wq[e], t)
  BY <1>s1, EventAssumption DEF QueuesAgree
<1>s3. /\ s \in Seq(Threads) /\ Len(s) = Len(wq[e]) + 1 /\ IsInjective(s)
       /\ \A y : Contains(s, y) <=> Contains(wq[e], y) \/ y = t
  BY <1>s2, QueueAdd
<1>s4. st \in SUBSET StatusBits /\ "SEM" \in st /\ SUSPEND \notin st
  BY <1>s1 DEF StatusBits, PendAny, DELAY, SUSPEND
<1>s5. c \in Call /\ c.pc = "pend" /\ c.ret = "NONE" /\ c.got = "no"
  BY DEF Waiting
<1> HIDE DEF s, st
<1>1. EventType'
  <2>1. QueueType'
    BY <1>p1, <1>s3 DEF QueueType
  <2>2. StatusType' /\ RingType' /\ WaitType'
    BY <1>p2, <1>p3, <1>s4 DEF StatusType, RingType, WaitType
  <2>3. FlagType'
    BY <1>p4 DEF FlagType
  <2>4. PrioType'
    <3>1. EventIndexQ(prio[t]) \in Nat
      <4>1. prio[t] \in Nat /\ EventQWidth \in Nat \ {0}
        BY EventAssumption DEF PrioType
      <4>2. \A a \in Nat, b \in Nat \ {0} : a \div b \in Nat
        OBVIOUS
      <4> QED BY <4>1, <4>2 DEF EventIndexQ
    <3> QED BY <1>p6, <3>1 DEF PrioType
  <2>5. CallType'
    BY <1>s5 DEF CallType
  <2>6. NestType' /\ SigType'
    BY DEF NestType, SigType
  <2> QED BY <1>k, <2>1, <2>2, <2>3, <2>4, <2>5, <2>6
<1>2. EvWait'
  <2> SUFFICES ASSUME NEW u \in Threads PROVE WaitOK(u)'
    BY DEF EvWait
  <2>0. WaitOK(u)
    BY DEF EvWait
  <2>1. CASE u = t
    <3>1. /\ waitOn'[u] = e /\ usStatus'[u] = st /\ call'[u] = c
          /\ ucWaitTimeout'[u] = "CLEAR" /\ ucIsEventDelete'[u] = "EXIST"
      BY <1>p2, <1>p3, <1>p4, <2>1 DEF StatusType, WaitType, CallType, FlagType
    <3>2. ~(ulSuspendNesting'[u] > 0) /\ e # Null
      BY <1>s1, <2>0, <2>1, EventAssumption DEF WaitOK
    <3> QED BY <1>n, <1>s4, <1>s5, <3>1, <3>2 DEF WaitOK
  <2>2. CASE u # t
    <3>1. /\ waitOn'[u] = waitOn[u] /\ usStatus'[u] = usStatus[u] /\ call'[u] = call[u]
          /\ ucWaitTimeout'[u] = ucWaitTimeout[u] /\ ucIsEventDelete'[u] = ucIsEventDelete[u]
      BY <1>p2, <1>p3, <1>p4, <2>2 DEF StatusType, WaitType, CallType, FlagType
    <3> QED BY <1>n, <2>0, <3>1 DEF WaitOK
  <2> QED BY <2>1, <2>2
<1>3. EvFrames'
  BY <1>n DEF EvFrames
<1>4. RingOnce'
  BY <1>p2, <1>s1, <1>s4 DEF RingOnce, IsReady, StatusType, RingType
<1>5. QueuesAgree'
  <2>1. \A x \in Events : wqNum'[x] = Len(wq'[x]) /\ IsInjective(wq'[x])
    BY <1>p1, <1>s3 DEF QueuesAgree, QueueType
  <2>2. \A x \in Events, u \in Threads : Contains(wq'[x], u) <=> waitOn'[u] = x
    <3> SUFFICES ASSUME NEW x \in Events, NEW u \in Threads
                 PROVE  Contains(wq'[x], u) <=> waitOn'[u] = x
      OBVIOUS
    <3>1. Contains(wq[x], u) <=> waitOn[u] = x
      BY <1>n DEF QueuesAgree
    <3>2. waitOn[t] \notin Events
      BY <1>s1, EventAssumption
    <3>3. wq'[x] = IF x = e THEN s ELSE wq[x]
      BY <1>p1 DEF QueueType
    <3>4. waitOn'[u] = IF u = t THEN e ELSE waitOn[u]
      BY <1>p3 DEF WaitType
    <3> QED BY <1>s3, <3>1, <3>2, <3>3, <3>4
  <2> QED BY <1>n, <2>1, <2>2 DEF QueuesAgree
<1> QED BY <1>1, <1>2, <1>3, <1>4, <1>5

-----------------------------------------------------------------------------
(* Out of a window with a waiter in hand.                                    *)

(* The stack after the step: the waiter t is in nobody's hand any more.      *)
LEMMA HighFrames ==
  ASSUME EvInv, nest > 0, NEW t, t = frames[nest].tcb, t # Null,
         EndFrame(nest) \/ \E g \in Frame : g.tcb = Null /\ SetFrame(nest, g)
  PROVE  /\ KernType'
         /\ \A i \in 1..nest' : (OldFrame(i) /\ frames[i].tcb # t /\ i # nest)
                                \/ (i = nest /\ NoTcb(i))
         /\ \A u \in Threads : InLimbo(u)' <=> InLimbo(u) /\ u # t
<1>0. /\ nest \in 1..MaxNest /\ nest \in 1..nest /\ MaxNest \in Nat
      /\ frames \in [1..MaxNest -> Frame] /\ KernType
  BY EventAssumption DEF EvInv, EventType, KernType
<1>2. \A i \in 1..nest : frames[i].tcb = t => i = nest
  BY <1>0 DEF EvInv, EvFrames
<1>3. CASE EndFrame(nest)
  <2>2. KernType' /\ \A i \in 1..nest' : OldFrame(i)
    BY <1>0, <1>3, FramesAfter
  <2>3. nest' = nest - 1 /\ \A i \in 1..nest' : i \in 1..nest /\ i # nest
    BY <1>0, <1>3 DEF EndFrame
  <2>4. \A i \in 1..nest' : frames[i].tcb # t
    BY <1>2, <2>3
  <2>5. \A u \in Threads : InLimbo(u)' <=> InLimbo(u) /\ u # t
    <3> SUFFICES ASSUME NEW u \in Threads PROVE InLimbo(u)' <=> InLimbo(u) /\ u # t
      OBVIOUS
    <3>1. ASSUME NEW i \in 1..nest', frames'[i].tcb = u PROVE InLimbo(u) /\ u # t
      BY <2>2, <2>3, <2>4, <3>1 DEF OldFrame, InLimbo
    <3>2. ASSUME NEW i \in 1..nest, frames[i].tcb = u, u # t PROVE InLimbo(u)'
      <4>1. i \in 1..nest'
        BY <1>0, <2>3, <3>2
      <4> QED BY <2>2, <3>2, <4>1 DEF OldFrame, InLimbo
    <3> QED BY <3>1, <3>2 DEF InLimbo
  <2> QED BY <2>2, <2>3, <2>4, <2>5
<1>4. CASE \E g \in Frame : g.tcb = Null /\ SetFrame(nest, g)
  <2>1. PICK g \in Frame : g.tcb = Null /\ SetFrame(nest, g)
    BY <1>4
  <2>3. KernType' /\ frames'[nest] = g /\ \A i \in 1..nest' : i = nest \/ OldFrame(i)
    BY <1>0, <2>1, FramesAfter
  <2>4. nest' = nest
    BY <2>1 DEF SetFrame
  <2>7. NoTcb(nest)
    BY <2>1, <2>3 DEF NoTcb
  <2>8. \A i \in 1..nest' : i = nest \/ frames[i].tcb # t
    BY <1>2, <2>4
  <2>9. \A u \in Threads : InLimbo(u)' <=> InLimbo(u) /\ u # t
    <3> SUFFICES ASSUME NEW u \in Threads PROVE InLimbo(u)' <=> InLimbo(u) /\ u # t
      OBVIOUS
    <3>0. u # Null
      BY EventAssumption
    <3>1. ASSUME NEW i \in 1..nest', frames'[i].tcb = u PROVE InLimbo(u) /\ u # t
      <4>1. i # nest
        BY <2>1, <2>3, <3>0, <3>1
      <4> QED BY <2>3, <2>4, <2>8, <3>1, <4>1 DEF OldFrame, InLimbo
    <3>2. ASSUME NEW i \in 1..nest, frames[i].tcb = u, u # t PROVE InLimbo(u)'
      <4>1. i # nest /\ i \in 1..nest'
        BY <2>4, <3>2
      <4> QED BY <2>3, <3>2, <4>1 DEF OldFrame, InLimbo
    <3> QED BY <3>1, <3>2 DEF InLimbo
  <2> QED BY <2>3, <2>7, <2>8, <2>9
<1> QED BY <1>3, <1>4

(* What _EventReadyHighLevel does for the waiter in hand.                    *)
LEMMA HighFacts ==
  ASSUME EvInv, nest > 0, NEW t, t = frames[nest].tcb, t # Null, EventReadyHighLevel(t)
  PROVE  /\ nest \in 1..MaxNest /\ nest \in 1..nest /\ frames[nest] \in Frame
         /\ t \in Threads /\ "SEM" \in usStatus[t] /\ InLimbo(t) /\ waitOn[t] \in Events
         /\ ucWaitTimeout[t] = "CLEAR" /\ ucIsEventDelete[t] = "EXIST"
         /\ call[t].pc = "pend" /\ call[t].ret = "NONE"
         /\ call[t].got = GotOf(frames[nest].op) /\ frames[nest].op # "tick"
         /\ DELAY \notin usStatus[t]
         /\ waitOn' = [waitOn EXCEPT ![t] = Null]
         /\ ucWaitTimeout' = [ucWaitTimeout EXCEPT ![t] = "CLEAR"]
         /\ usStatus' = [usStatus EXCEPT ![t] = usStatus[t] \ {"SEM"}]
         /\ inRing' = [inRing EXCEPT ![t] = IF usStatus[t] \ {"SEM"} = {} THEN inRing[t] + 1
                                                                        ELSE inRing[t]]
<1>1. nest \in 1..MaxNest /\ nest \in 1..nest /\ frames[nest] \in Frame
  BY EventAssumption DEF EvInv, EventType, KernType
<1>2. t \in Threads /\ InLimbo(t)
  BY <1>1 DEF Frame, InLimbo
<1>3. /\ "SEM" \in usStatus[t] /\ call[t].got = GotOf(frames[nest].op)
      /\ frames[nest].op # "tick"
  BY <1>1 DEF EvInv, EvFrames, FrameOK
<1>4. /\ ucWaitTimeout[t] = "CLEAR" /\ ucIsEventDelete[t] = "EXIST"
      /\ call[t].pc = "pend" /\ call[t].ret = "NONE" /\ DELAY \notin usStatus[t]
      /\ waitOn[t] # Null
  BY <1>2, <1>3 DEF EvInv, EvWait, WaitOK
<1>5. waitOn[t] \in Events
  BY <1>2, <1>4 DEF EvInv, EventType, WaitType
<1>6. /\ waitOn' = [waitOn EXCEPT ![t] = Null]
      /\ ucWaitTimeout' = [ucWaitTimeout EXCEPT ![t] = "CLEAR"]
      /\ usStatus' = [usStatus EXCEPT ![t] = usStatus[t] \ {"SEM"}]
      /\ inRing' = [inRing EXCEPT ![t] = IF usStatus[t] \ {"SEM"} = {} THEN inRing[t] + 1
                                                                       ELSE inRing[t]]
  BY <1>4 DEF EventReadyHighLevel
<1> QED BY <1>1, <1>2, <1>3, <1>4, <1>5, <1>6

(* The step preserves the invariant, whatever it does to the priorities.     *)
LEMMA HighKeeps ==
  ASSUME EvInv, nest > 0, NEW t, t = frames[nest].tcb, t # Null, EventReadyHighLevel(t),
         ucIsEventDelete' \in {[ucIsEventDelete EXCEPT ![t] = "DELETE"], ucIsEventDelete},
         EndFrame(nest) \/ \E g \in Frame : g.tcb = Null /\ SetFrame(nest, g),
         UNCHANGED <<queueVars, ring, ulSuspendNesting, call, sig>>,
         ucPriority' \in [Threads -> Priorities]
  PROVE  EvInv'
<1> DEFINE st == usStatus[t] \ {"SEM"}
<1>0. /\ KernType'
      /\ \A i \in 1..nest' : (OldFrame(i) /\ frames[i].tcb # t /\ i # nest)
                             \/ (i = nest /\ NoTcb(i))
      /\ \A u \in Threads : InLimbo(u)' <=> InLimbo(u) /\ u # t
  BY HighFrames
<1>1. t \in Threads /\ "SEM" \in usStatus[t] /\ InLimbo(t) /\ DELAY \notin usStatus[t]
  BY HighFacts
<1>3. /\ waitOn' = [waitOn EXCEPT ![t] = Null]
      /\ ucWaitTimeout' = [ucWaitTimeout EXCEPT ![t] = "CLEAR"]
      /\ usStatus' = [usStatus EXCEPT ![t] = st]
      /\ inRing' = [inRing EXCEPT ![t] = IF st = {} THEN inRing[t] + 1 ELSE inRing[t]]
  BY HighFacts
<1>5. UNCHANGED <<wq, wqNum, ring, ulSuspendNesting, call, sig>>
  BY DEF queueVars
<1> USE DEF EvInv, EventType
<1>6. EventType'
  <2>1. StatusType' /\ RingType' /\ WaitType'
    BY <1>1, <1>3 DEF StatusType, RingType, WaitType
  <2>2. FlagType'
    BY <1>1, <1>3 DEF FlagType
  <2>3. QueueType' /\ PrioType' /\ NestType' /\ CallType' /\ SigType'
    BY <1>5 DEF QueueType, PrioType, NestType, CallType, SigType
  <2> QED BY <1>0, <2>1, <2>2, <2>3
<1>7. EvWait'
  <2> SUFFICES ASSUME NEW u \in Threads PROVE WaitOK(u)'
    BY DEF EvWait
  <2>0. WaitOK(u)
    BY DEF EvWait
  <2>1. CASE u = t
    <3>1. waitOn'[u] = Null /\ usStatus'[u] = st
      BY <1>1, <1>3, <2>1 DEF WaitType, StatusType
    <3> QED BY <1>1, <1>5, <2>0, <2>1, <3>1 DEF WaitOK, SUSPEND
  <2>2. CASE u # t
    <3>1. /\ waitOn'[u] = waitOn[u] /\ usStatus'[u] = usStatus[u]
          /\ ucWaitTimeout'[u] = ucWaitTimeout[u] /\ ucIsEventDelete'[u] = ucIsEventDelete[u]
      BY <1>3, <2>2 DEF WaitType, StatusType, FlagType
    <3> QED BY <1>0, <1>5, <2>0, <2>2, <3>1 DEF WaitOK
  <2> QED BY <2>1, <2>2
<1>8. EvFrames'
  <2>1. \A i \in 1..nest' : OldFrame(i) \/ NoTcb(i)
    BY <1>0
  <2>2. \A i \in 1..nest' : OldFrame(i) /\ frames[i].tcb # Null =>
            /\ "SEM" \in usStatus'[frames[i].tcb]
            /\ call'[frames[i].tcb].got = call[frames[i].tcb].got
    <3> SUFFICES ASSUME NEW i \in 1..nest', OldFrame(i), NEW u, u = frames[i].tcb, u # Null
                 PROVE "SEM" \in usStatus'[u]
      BY <1>5
    <3>1. i \in 1..nest /\ frames'[i] = frames[i]
      BY DEF OldFrame
    <3>2. frames[i] \in Frame /\ u \in Threads
      BY <3>1, EventAssumption DEF KernType, Frame
    <3>3. "SEM" \in usStatus[u]
      BY <3>1 DEF EvFrames, FrameOK
    <3>4. u # t
      BY <1>0, <3>1 DEF NoTcb
    <3> QED BY <1>3, <3>2, <3>3, <3>4 DEF StatusType
  <2> QED BY <2>1, <2>2, FramesKept
<1>9. RingOnce'
  BY <1>1, <1>3 DEF RingOnce, IsReady, StatusType, RingType
<1>10. QueuesAgree'
  <2>1. \A e \in Events : ~Contains(wq[e], t)
    BY <1>1 DEF QueuesAgree
  <2> QED BY <1>0, <1>1, <1>3, <1>5, <2>1, EventAssumption DEF QueuesAgree, WaitType
<1> QED BY <1>6, <1>7, <1>8, <1>9, <1>10

-----------------------------------------------------------------------------
(* All threads run, no event is in use: the invariant holds.                 *)
LEMMA EvInit == EventInit => EvInv
<1> SUFFICES ASSUME EventInit PROVE EvInv
  OBVIOUS
<1> USE DEF EventInit
<1>1. KernType
  <2>1. NoFrame \in Frame
    BY DEF NoFrame, Frame, Ops
  <2> QED BY <2>1, EventAssumption DEF KernType
<1>2. QueueType /\ SigType
  BY DEF QueueType, SigType
<1>3. StatusType /\ RingType /\ WaitType /\ FlagType
  BY DEF StatusType, RingType, WaitType, FlagType
<1>4. PrioType /\ NestType
  BY EventAssumption DEF PrioType, NestType
<1>5. CallType
  BY RunningCall DEF CallType
<1>7. EvWait
  BY RunningCall DEF EvWait, WaitOK
<1>8. EvFrames
  BY DEF EvFrames
<1>9. RingOnce
  BY DEF RingOnce, IsReady
<1>10. QueuesAgree
  BY EventAssumption DEF QueuesAgree, IsInjective, Contains
<1> QED BY <1>1, <1>2, <1>3, <1>4, <1>5, <1>7, <1>8, <1>9, <1>10 DEF EvInv, EventType

-----------------------------------------------------------------------------
(* What an object has to know of the steps that disturb waits.               *)

(* Threads only leave the queues, in order; sections of ticks come and go.   *)
OnlyLeaves ==
  /\ \A e \in Events : Shrinks(wq'[e], wq[e])
  /\ \A t \in Threads : waitOn'[t] \in {waitOn[t], Null}
  /\ \A i \in 1..nest' : OldFrame(i) \/ frames'[i] = TickFrame
  /\ \A i \in 1..nest : frames[i].op # "tick" => i \in 1..nest' /\ OldFrame(i)

(* A stack that is left alone.                                               *)
LEMMA KernLeaves ==
  ASSUME UNCHANGED kernVars
  PROVE  /\ \A i \in 1..nest' : OldFrame(i) \/ frames'[i] = TickFrame
         /\ \A i \in 1..nest : frames[i].op # "tick" => i \in 1..nest' /\ OldFrame(i)
  BY DEF kernVars, OldFrame

(* A wait is aborted, with or without a tick coming in.                      *)
LEMMA AbortLeaves ==
  ASSUME EvInv, NEW t \in Threads, NEW o \in {"CLEAR", "OUT"}, ~IsReady(t), ~InLimbo(t),
         AbortWait(t, o),
         \/ UNCHANGED kernVars
         \/ nest < MaxNest /\ SetFrame(nest + 1, TickFrame)
  PROVE  OnlyLeaves
<1>1. \A e \in Events : Shrinks(wq'[e], wq[e])
  BY AbortFacts
<1>2. \A u \in Threads : waitOn'[u] \in {waitOn[u], Null}
  <2>1. waitOn' = [waitOn EXCEPT ![t] = Null]
    BY AbortFacts
  <2> QED BY <2>1 DEF EvInv, EventType, WaitType
<1>3. /\ \A i \in 1..nest' : OldFrame(i) \/ frames'[i] = TickFrame
      /\ \A i \in 1..nest : frames[i].op # "tick" => i \in 1..nest' /\ OldFrame(i)
  <2>1. CASE UNCHANGED kernVars
    BY <2>1, KernLeaves
  <2>2. CASE nest < MaxNest /\ SetFrame(nest + 1, TickFrame)
    <3>1. nest \in Nat /\ MaxNest \in Nat /\ frames \in [1..MaxNest -> Frame]
      BY EventAssumption DEF EvInv, EventType, KernType
    <3> QED BY <2>2, <3>1 DEF SetFrame, OldFrame
  <2> QED BY <2>1, <2>2
<1> QED BY <1>1, <1>2, <1>3 DEF OnlyLeaves

(* The queues and the stack are left alone.                                  *)
LEMMA QuietLeaves ==
  ASSUME EvInv, UNCHANGED <<wq, waitOn>>, UNCHANGED kernVars
  PROVE  OnlyLeaves
  BY KernLeaves, ShrinksSelf DEF OnlyLeaves, EvInv, EventType, QueueType, WaitType

(* The tick.                                                                 *)
LEMMA TickLeaves ==
  ASSUME EvInv, Tick \/ TickNext
  PROVE  OnlyLeaves
<1>1. CASE /\ \E t \in Threads : ~IsReady(t) /\ ~InLimbo(t) /\ AbortWait(t, "CLEAR")
           /\ UNCHANGED kernVars \/ (nest < MaxNest /\ SetFrame(nest + 1, TickFrame))
  BY <1>1, AbortLeaves
<1>2. CASE UNCHANGED <<wq, waitOn>> /\ UNCHANGED kernVars
  BY <1>2, QuietLeaves
<1>3. CASE /\ UNCHANGED <<wq, waitOn>>
           /\ nest \in 1..MaxNest /\ frames[nest].op = "tick" /\ EndFrame(nest)
  <2>1. nest \in Nat /\ MaxNest \in Nat /\ frames \in [1..MaxNest -> Frame]
    BY EventAssumption DEF EvInv, EventType, KernType
  <2>2. /\ \A i \in 1..nest' : OldFrame(i)
        /\ \A i \in 1..nest : frames[i].op # "tick" => i \in 1..nest' /\ OldFrame(i)
    BY <1>3, <2>1 DEF EndFrame, OldFrame
  <2> QED BY <1>3, <2>2, ShrinksSelf DEF OnlyLeaves, EvInv, EventType, QueueType, WaitType
<1> QED BY <1>1, <1>2, <1>3, TickCases

(* API_ThreadWakeupEx.                                                       *)
LEMMA ThreadWakeupLeaves ==
  ASSUME EvInv, IsrWakesPended = FALSE, NEW t \in Threads, NEW inf \in BOOLEAN,
         ThreadWakeup(t, inf)
  PROVE  OnlyLeaves
  BY ThreadWakeupCases, AbortLeaves

(* A signal.                                                                 *)
LEMMA SignalLeaves ==
  ASSUME EvInv, NEW t \in Threads, NEW saType \in {"EINTR", "RESTART"}, Signal(t, saType)
  PROVE  OnlyLeaves
<1>1. /\ UNCHANGED kernVars /\ ~InLimbo(t)
      /\ IF IsReady(t) THEN UNCHANGED <<wq, waitOn>> ELSE AbortWait(t, "CLEAR")
  BY SignalCases
<1> QED BY <1>1, AbortLeaves, QuietLeaves

(* The return from a signal handler.                                         *)
LEMMA SigReturnLeaves ==
  ASSUME EvInv, NEW t \in Threads, SigReturn(t)
  PROVE  OnlyLeaves
  BY SigReturnCases, QuietLeaves

(* The end of a blocking call.                                               *)
LEMMA PendReturnLeaves ==
  ASSUME EvInv, NEW t \in Threads, PendReturn(t)
  PROVE  OnlyLeaves
  BY PendReturnCases, QuietLeaves

-----------------------------------------------------------------------------
(* What the calls of the threads know, and what they will return.            *)

(* A call that waits, has waited or waits again has its event.  An object    *)
(* with tok = FALSE forgets the event of a call that has its token already.  *)
HasEvent(c, tok) == c.pc # "run" /\ (tok \/ c.got # "token") => c.ev \in Events

EvCalls(tok) ==
  \A t \in Threads :
    /\ HasEvent(call[t], tok)
    /\ "SEM" \in usStatus[t] => call[t].ev = waitOn[t]
    /\ \A k \in 1..Len(sig[t]) : HasEvent(sig[t][k].call, tok)

(* The flags a call finds after its wait say what was done for it.           *)
Honest(c, ret, wt, del) ==
  IF ret = "NONE"
  THEN \/ wt = "OUT" /\ c.got = "no"
       \/ wt = "CLEAR" /\ del = "EXIST" /\ c.got \in {"token", "flush"}
       \/ wt = "CLEAR" /\ del = "DELETE" /\ c.got = "deleted"
  ELSE c.got = "no"

CtxRet(x) == IF x.iSchedRet = "NONE" THEN x.call.ret ELSE x.iSchedRet

HonestCall(t) ==
  /\ call[t].pc = "pend" /\ "SEM" \notin usStatus[t] =>
       Honest(call[t], call[t].ret, ucWaitTimeout[t], ucIsEventDelete[t])
  /\ call[t].pc = "again" => call[t].got = "no"

HonestCtx(x) ==
  /\ x.call.pc = "pend" => Honest(x.call, CtxRet(x), x.ucWaitTimeout, x.ucIsEventDelete)
  /\ x.call.pc = "again" => x.call.got = "no"

EvHonest ==
  \A t \in Threads : HonestCall(t) /\ \A k \in 1..Len(sig[t]) : HonestCtx(sig[t][k])

(* Two contexts that differ in what honesty does not look at.                *)
SameEnd(x, y) == /\ x.call.pc = y.call.pc /\ x.call.ret = y.call.ret /\ x.call.got = y.call.got
                 /\ x.iSchedRet = y.iSchedRet /\ x.ucWaitTimeout = y.ucWaitTimeout
                 /\ x.ucIsEventDelete = y.ucIsEventDelete

SameEnds(u) == /\ Len(sig'[u]) = Len(sig[u])
               /\ \A k \in 1..Len(sig[u]) : SameEnd(sig'[u][k], sig[u][k])

(* Signal contexts that are left alone, but for time and events.             *)
LEMMA CtxKept ==
  ASSUME NEW u \in Threads, NEW tok \in BOOLEAN
  PROVE  /\ SameEnds(u) /\ (\A k \in 1..Len(sig[u]) : HonestCtx(sig[u][k])) =>
              \A k \in 1..Len(sig'[u]) : HonestCtx(sig'[u][k])
         /\ SameSigs(u) =>
              /\ SameEnds(u)
              /\ (\A k \in 1..Len(sig[u]) : HasEvent(sig[u][k].call, tok)) =>
                   (\A k \in 1..Len(sig'[u]) : HasEvent(sig'[u][k].call, tok))
         /\ sig'[u] = sig[u] => SameSigs(u)
<1>1. ASSUME NEW x, NEW y, SameEnd(x, y), HonestCtx(y) PROVE HonestCtx(x)
  BY <1>1 DEF SameEnd, HonestCtx, Honest, CtxRet
<1>2. ASSUME SameEnds(u), \A k \in 1..Len(sig[u]) : HonestCtx(sig[u][k])
      PROVE  \A k \in 1..Len(sig'[u]) : HonestCtx(sig'[u][k])
  BY <1>1, <1>2 DEF SameEnds
<1>3. SameSigs(u) => SameEnds(u)
  BY DEF SameSigs, SameEnds, SameCtx, SameEnd
<1>4. ASSUME SameSigs(u), \A k \in 1..Len(sig[u]) : HasEvent(sig[u][k].call, tok)
      PROVE  \A k \in 1..Len(sig'[u]) : HasEvent(sig'[u][k].call, tok)
  BY <1>4 DEF SameSigs, SameCtx, HasEvent
<1>5. sig'[u] = sig[u] => SameSigs(u)
  BY DEF SameSigs, SameCtx
<1> QED BY <1>2, <1>3, <1>4, <1>5

(* A thread whose call, wait and flags stay as they are.                     *)
Stays(u) ==
  /\ SameCall(u)
  /\ "SEM" \in usStatus'[u] <=> "SEM" \in usStatus[u]
  /\ waitOn'[u] = waitOn[u]
  /\ ucWaitTimeout'[u] = ucWaitTimeout[u] /\ ucIsEventDelete'[u] = ucIsEventDelete[u]

CallKept(u, tok) ==
  /\ HasEvent(call[u], tok) /\ ("SEM" \in usStatus[u] => call[u].ev = waitOn[u]) =>
       HasEvent(call'[u], tok) /\ ("SEM" \in usStatus'[u] => call'[u].ev = waitOn'[u])
  /\ HonestCall(u) => HonestCall(u)'

(* Such a thread's call is kept.                                             *)
LEMMA StaysKept ==
  ASSUME NEW u \in Threads, NEW tok \in BOOLEAN, Stays(u)
  PROVE  CallKept(u, tok)
<1>1. HonestCall(u) => HonestCall(u)'
  BY DEF Stays, SameCall, HonestCall, Honest
<1> QED BY <1>1 DEF CallKept, Stays, SameCall, HasEvent

(* Every call is kept and the contexts are left alone.                       *)
LEMMA AllKept ==
  ASSUME NEW tok \in BOOLEAN, EvCalls(tok),
         \A u \in Threads : CallKept(u, tok), \A u \in Threads : SameSigs(u)
  PROVE  EvCalls(tok)' /\ (EvHonest => EvHonest')
<1>1. EvCalls(tok)'
  <2> SUFFICES ASSUME NEW u \in Threads
               PROVE  /\ HasEvent(call'[u], tok)
                      /\ "SEM" \in usStatus'[u] => call'[u].ev = waitOn'[u]
                      /\ \A k \in 1..Len(sig'[u]) : HasEvent(sig'[u][k].call, tok)
    BY DEF EvCalls, HasEvent
  <2> QED BY CtxKept DEF EvCalls, CallKept
<1>2. ASSUME EvHonest PROVE EvHonest'
  <2> SUFFICES ASSUME NEW u \in Threads
               PROVE  HonestCall(u)' /\ \A k \in 1..Len(sig'[u]) : HonestCtx(sig'[u][k])
    BY DEF EvHonest, HonestCtx, Honest, CtxRet
  <2> QED BY <1>2, CtxKept DEF EvHonest, CallKept
<1> QED BY <1>1, <1>2

(* A step that takes nothing from any thread.                                *)
LEMMA StaysCalls ==
  ASSUME NEW tok \in BOOLEAN, EvCalls(tok),
         \A u \in Threads : Stays(u) /\ SameSigs(u)
  PROVE  EvCalls(tok)' /\ (EvHonest => EvHonest')
  BY StaysKept, AllKept

(* The threads are left alone altogether.                                    *)
LEMMA NotKernCalls ==
  ASSUME NEW tok \in BOOLEAN, EvCalls(tok),
         UNCHANGED <<usStatus, waitOn, ucWaitTimeout, ucIsEventDelete, call, sig>>
  PROVE  EvCalls(tok)' /\ (EvHonest => EvHonest')
<1>1. \A u \in Threads : Stays(u) /\ SameSigs(u)
  BY DEF Stays, SameCall, SameSigs, SameCtx
<1> QED BY <1>1, StaysCalls

(* A wait is aborted.                                                        *)
LEMMA AbortCalls ==
  ASSUME EvInv, NEW tok \in BOOLEAN, EvCalls(tok),
         NEW t \in Threads, NEW o \in {"CLEAR", "OUT"}, ~IsReady(t), ~InLimbo(t),
         AbortWait(t, o), "SEM" \notin usStatus[t] => o = ucWaitTimeout[t],
         UNCHANGED ucIsEventDelete,
         \A u \in Threads : SameCall(u) /\ SameSigs(u)
  PROVE  EvCalls(tok)' /\ (EvHonest => EvHonest')
<1>1. /\ usStatus' = [usStatus EXCEPT ![t] = usStatus[t] \ {DELAY, "SEM"}]
      /\ waitOn' = [waitOn EXCEPT ![t] = Null]
      /\ \A u \in Threads : u # t => ucWaitTimeout'[u] = ucWaitTimeout[u]
      /\ ucWaitTimeout'[t] = IF "SEM" \in usStatus[t] THEN "OUT" ELSE o
  BY AbortFacts
<1>2. ASSUME NEW u \in Threads, u # t PROVE CallKept(u, tok)
  <2>1. Stays(u)
    BY <1>1, <1>2 DEF Stays, EvInv, EventType, StatusType, WaitType
  <2> QED BY <2>1, StaysKept
<1>3. CallKept(t, tok)
  <2>1. "SEM" \notin usStatus'[t]
    BY <1>1 DEF EvInv, EventType, StatusType
  <2>2. CASE "SEM" \in usStatus[t]
    <3>1. call[t].pc = "pend" /\ call[t].ret = "NONE" /\ call[t].got = "no"
      BY <2>2 DEF EvInv, EvWait, WaitOK
    <3>2. ucWaitTimeout'[t] = "OUT"
      BY <1>1, <2>2
    <3> QED BY <2>1, <3>1, <3>2 DEF CallKept, SameCall, HasEvent, HonestCall, Honest
  <2>3. CASE "SEM" \notin usStatus[t]
    <3>1. ucWaitTimeout'[t] = ucWaitTimeout[t]
      BY <1>1, <2>3
    <3>2. HonestCall(t) => HonestCall(t)'
      BY <2>3, <3>1 DEF SameCall, HonestCall, Honest
    <3> QED BY <2>1, <3>2 DEF CallKept, SameCall, HasEvent
  <2> QED BY <2>2, <2>3
<1> QED BY <1>2, <1>3, AllKept

(* The tick.                                                                 *)
LEMMA TickCallsKept ==
  ASSUME EvInv, NEW tok \in BOOLEAN, EvCalls(tok), Tick \/ TickNext
  PROVE  EvCalls(tok)' /\ (EvHonest => EvHonest')
<1>0. UNCHANGED ucIsEventDelete /\ \A u \in Threads : SameCall(u) /\ SameSigs(u)
  BY TickCases
<1>1. CASE \E t \in Threads : /\ ~IsReady(t) /\ ~InLimbo(t) /\ "SEM" \in usStatus[t]
                              /\ AbortWait(t, "CLEAR")
  BY <1>0, <1>1, AbortCalls
<1>2. CASE UNCHANGED <<usStatus, waitOn, ucWaitTimeout>>
  <2>1. \A u \in Threads : Stays(u)
    BY <1>0, <1>2 DEF Stays
  <2> QED BY <1>0, <2>1, StaysCalls
<1> QED BY <1>1, <1>2, TickCases

(* API_ThreadWakeupEx.                                                       *)
LEMMA ThreadWakeupCalls ==
  ASSUME EvInv, IsrWakesPended = FALSE, NEW tok \in BOOLEAN, EvCalls(tok),
         NEW t \in Threads, NEW inf \in BOOLEAN, ThreadWakeup(t, inf)
  PROVE  EvCalls(tok)' /\ (EvHonest => EvHonest')
<1>1. /\ UNCHANGED <<ucIsEventDelete, call, sig>>
      /\ ~IsReady(t) /\ ~InLimbo(t) /\ AbortWait(t, ucWaitTimeout[t])
      /\ ucWaitTimeout[t] \in {"CLEAR", "OUT"}
  BY ThreadWakeupCases
<1>2. \A u \in Threads : SameCall(u) /\ SameSigs(u)
  BY <1>1 DEF SameCall, SameSigs, SameCtx
<1> QED BY <1>1, <1>2, AbortCalls

(* A call that is over.                                                      *)
LEMMA RunningKept ==
  ASSUME NEW u \in Threads, NEW tok \in BOOLEAN, call'[u] = Running, "SEM" \notin usStatus'[u]
  PROVE  CallKept(u, tok)
  BY RunningCall DEF CallKept, HasEvent, HonestCall

(* A step in which a ready thread returns from its call, and nothing else.   *)
LEMMA RunningCalls ==
  ASSUME EvInv, NEW tok \in BOOLEAN, EvCalls(tok), NEW t \in Threads, IsReady(t),
         call' = [call EXCEPT ![t] = Running],
         UNCHANGED <<usStatus, waitOn, ucWaitTimeout, ucIsEventDelete, sig>>
  PROVE  EvCalls(tok)' /\ (EvHonest => EvHonest')
<1>1. ASSUME NEW u \in Threads PROVE CallKept(u, tok) /\ SameSigs(u)
  <2>1. SameSigs(u)
    BY CtxKept
  <2>2. CASE u = t
    BY <2>1, <2>2, RunningKept DEF IsReady, EvInv, EventType, CallType
  <2>3. CASE u # t
    <3>1. Stays(u)
      BY <2>3 DEF Stays, SameCall, EvInv, EventType, CallType
    <3> QED BY <2>1, <3>1, StaysKept
  <2> QED BY <2>2, <2>3
<1> QED BY <1>1, AllKept

(* A signal.  A thread that is suspended after its wait would lose its       *)
(* timeout flag, so honesty needs that signals and suspension do not meet.   *)
LEMMA SignalCalls ==
  ASSUME EvInv, NEW tok \in BOOLEAN, EvCalls(tok),
         NEW t \in Threads, NEW saType \in {"EINTR", "RESTART"}, Signal(t, saType)
  PROVE  EvCalls(tok)' /\ (EvHonest /\ (MaxSig = 0 \/ MaxSuspend = 0) => EvHonest')
<1> DEFINE x == Context(t, saType)
<1>1. /\ UNCHANGED ucIsEventDelete
      /\ ~InLimbo(t) /\ call[t].pc # "run"
      /\ IF IsReady(t) THEN UNCHANGED <<usStatus, waitOn, ucWaitTimeout>>
                       ELSE AbortWait(t, "CLEAR")
      /\ \A u \in Threads : u # t => call'[u] = call[u] /\ sig'[u] = sig[u]
      /\ call'[t] = Running
  BY SignalCases
<1>2. /\ Len(sig[t]) \in Nat /\ Len(sig'[t]) = Len(sig[t]) + 1
      /\ sig'[t][Len(sig[t]) + 1] = x
      /\ \A k \in 1..Len(sig[t]) : sig'[t][k] = sig[t][k]
  BY SignalCases
<1>3. /\ \A u \in Threads : u # t => /\ usStatus'[u] = usStatus[u] /\ waitOn'[u] = waitOn[u]
                                     /\ ucWaitTimeout'[u] = ucWaitTimeout[u]
      /\ "SEM" \notin usStatus'[t]
      /\ "SEM" \in usStatus[t] => ucWaitTimeout'[t] = "OUT"
  <2>1. CASE IsReady(t)
    BY <1>1, <2>1 DEF IsReady
  <2>2. CASE ~IsReady(t)
    <3>1. AbortWait(t, "CLEAR")
      BY <1>1, <2>2
    <3>2. /\ usStatus' = [usStatus EXCEPT ![t] = usStatus[t] \ {DELAY, "SEM"}]
          /\ waitOn' = [waitOn EXCEPT ![t] = Null]
          /\ \A u \in Threads : u # t => ucWaitTimeout'[u] = ucWaitTimeout[u]
          /\ ucWaitTimeout'[t] = IF "SEM" \in usStatus[t] THEN "OUT" ELSE "CLEAR"
      BY <1>1, <2>2, <3>1, AbortFacts
    <3> QED BY <3>2 DEF EvInv, EventType, StatusType, WaitType
  <2> QED BY <2>1, <2>2
<1>4. \A u \in Threads : CallKept(u, tok)
  <2>1. ASSUME NEW u \in Threads, u # t PROVE Stays(u)
    BY <1>1, <1>3, <2>1 DEF Stays, SameCall
  <2> QED BY <1>1, <1>3, <2>1, StaysKept, RunningKept
<1>5. x.call = call[t] /\ x.ucWaitTimeout = ucWaitTimeout'[t] /\ x.ucIsEventDelete = ucIsEventDelete[t]
      /\ x.iSchedRet = IF usStatus[t] \cap ({DELAY} \cup PendAny) # {} THEN saType ELSE "NONE"
  BY DEF Context
<1> HIDE DEF x
<1>6. EvCalls(tok)'
  <2> SUFFICES ASSUME NEW u \in Threads
               PROVE  /\ HasEvent(call'[u], tok)
                      /\ "SEM" \in usStatus'[u] => call'[u].ev = waitOn'[u]
                      /\ \A k \in 1..Len(sig'[u]) : HasEvent(sig'[u][k].call, tok)
    BY DEF EvCalls, HasEvent
  <2>1. HasEvent(call'[u], tok) /\ ("SEM" \in usStatus'[u] => call'[u].ev = waitOn'[u])
    BY <1>4 DEF EvCalls, CallKept
  <2>2. HasEvent(x.call, tok)
    BY <1>5 DEF EvCalls
  <2>3. \A k \in 1..Len(sig'[u]) : HasEvent(sig'[u][k].call, tok)
    <3>1. CASE u = t
      <4> SUFFICES ASSUME NEW k \in 1..Len(sig'[t]) PROVE HasEvent(sig'[t][k].call, tok)
        BY <3>1
      <4>1. k = Len(sig[t]) + 1 \/ k \in 1..Len(sig[t])
        BY <1>2
      <4> QED BY <1>2, <2>2, <4>1 DEF EvCalls
    <3>2. CASE u # t
      BY <1>1, <3>2 DEF EvCalls
    <3> QED BY <3>1, <3>2
  <2> QED BY <2>1, <2>3
<1>7. ASSUME EvHonest, MaxSig = 0 \/ MaxSuspend = 0 PROVE EvHonest'
  <2>1. HonestCtx(x)
    <3>0. HonestCall(t)
      BY <1>7 DEF EvHonest
    <3>1. CASE "SEM" \in usStatus[t]
      <4>1. x.iSchedRet # "NONE"
        BY <1>5, <3>1 DEF PendAny
      <4>2. call[t].got = "no"
        BY <1>1, <3>1 DEF EvInv, EvWait, WaitOK
      <4> QED BY <1>5, <4>1, <4>2 DEF HonestCtx, Honest, CtxRet
    <3>2. CASE "SEM" \notin usStatus[t]
      <4>1. DELAY \notin usStatus[t]
        BY <3>2 DEF EvInv, EvWait, WaitOK
      <4>2. SUSPEND \notin usStatus[t]
        <5>1. Len(sig[t]) < MaxSig /\ MaxSig \in Nat
          BY EventAssumption DEF Signal
        <5>2. MaxSig # 0
          BY <1>2, <5>1
        <5>3. ulSuspendNesting[t] \in 0..0
          BY <1>7, <5>2 DEF EvInv, EventType, NestType
        <5>4. WaitOK(t)
          BY DEF EvInv, EvWait
        <5> QED BY <5>3, <5>4 DEF WaitOK
      <4>3. IsReady(t)
        BY <3>2, <4>1, <4>2 DEF EvInv, EventType, StatusType, StatusBits, PendAny, IsReady
      <4>4. ucWaitTimeout'[t] = ucWaitTimeout[t]
        BY <1>1, <4>3
      <4>5. x.iSchedRet = "NONE"
        BY <1>5, <4>3 DEF IsReady
      <4> QED BY <1>5, <3>0, <3>2, <4>4, <4>5 DEF HonestCall, HonestCtx, CtxRet
    <3> QED BY <3>1, <3>2
  <2> SUFFICES ASSUME NEW u \in Threads
               PROVE  HonestCall(u)' /\ \A k \in 1..Len(sig'[u]) : HonestCtx(sig'[u][k])
    BY DEF EvHonest, HonestCtx, Honest, CtxRet
  <2>2. HonestCall(u)'
    BY <1>4, <1>7 DEF EvHonest, CallKept
  <2>3. CASE u = t
    <3> SUFFICES ASSUME NEW k \in 1..Len(sig'[t]) PROVE HonestCtx(sig'[t][k])
      BY <2>2, <2>3
    <3>1. k = Len(sig[t]) + 1 \/ k \in 1..Len(sig[t])
      BY <1>2
    <3> QED BY <1>2, <1>7, <2>1, <3>1 DEF EvHonest
  <2>4. CASE u # t
    BY <1>1, <1>7, <2>2, <2>4 DEF EvHonest
  <2> QED BY <2>3, <2>4
<1> QED BY <1>6, <1>7

(* The return from a signal handler.                                         *)
LEMMA SigReturnCalls ==
  ASSUME EvInv, NEW tok \in BOOLEAN, EvCalls(tok), NEW t \in Threads, SigReturn(t)
  PROVE  EvCalls(tok)' /\ (EvHonest => EvHonest')
<1> DEFINE x == sig[t][Len(sig[t])]
<1>1. /\ IsReady(t) /\ UNCHANGED <<usStatus, waitOn>>
      /\ Len(sig[t]) \in Nat \ {0} /\ Len(sig'[t]) = Len(sig[t]) - 1
      /\ \A k \in 1..Len(sig'[t]) : sig'[t][k] = sig[t][k]
      /\ \A u \in Threads : u # t =>
              /\ call'[u] = call[u] /\ sig'[u] = sig[u]
              /\ ucWaitTimeout'[u] = ucWaitTimeout[u]
              /\ ucIsEventDelete'[u] = ucIsEventDelete[u]
  BY SigReturnCases
<1>2. /\ call'[t].pc = x.call.pc /\ call'[t].ev = x.call.ev /\ call'[t].got = x.call.got
      /\ call'[t].ret = CtxRet(x)
      /\ ucWaitTimeout'[t] = x.ucWaitTimeout /\ ucIsEventDelete'[t] = x.ucIsEventDelete
  BY SigReturnCases DEF CtxRet
<1>3. Len(sig[t]) \in 1..Len(sig[t]) /\ "SEM" \notin usStatus'[t]
      /\ \A k \in 1..Len(sig'[t]) : k \in 1..Len(sig[t])
  BY <1>1 DEF IsReady
<1>4. HasEvent(x.call, tok)
  BY <1>3 DEF EvCalls
<1>5. EvHonest => HonestCtx(x)
  BY <1>3 DEF EvHonest
<1> HIDE DEF x
<1>6. \A u \in Threads : CallKept(u, tok)  \/ u = t
  <2>1. ASSUME NEW u \in Threads, u # t PROVE Stays(u)
    BY <1>1, <2>1 DEF Stays, SameCall
  <2> QED BY <2>1, StaysKept
<1>7. EvCalls(tok)'
  <2> SUFFICES ASSUME NEW u \in Threads
               PROVE  /\ HasEvent(call'[u], tok)
                      /\ "SEM" \in usStatus'[u] => call'[u].ev = waitOn'[u]
                      /\ \A k \in 1..Len(sig'[u]) : HasEvent(sig'[u][k].call, tok)
    BY DEF EvCalls, HasEvent
  <2>1. CASE u = t
    <3>1. HasEvent(call'[t], tok)
      BY <1>2, <1>4 DEF HasEvent
    <3> QED BY <1>1, <1>3, <2>1, <3>1 DEF EvCalls
  <2>2. CASE u # t
    BY <1>1, <1>6, <2>2 DEF EvCalls, CallKept
  <2> QED BY <2>1, <2>2
<1>8. ASSUME EvHonest PROVE EvHonest'
  <2> SUFFICES ASSUME NEW u \in Threads
               PROVE  HonestCall(u)' /\ \A k \in 1..Len(sig'[u]) : HonestCtx(sig'[u][k])
    BY DEF EvHonest, HonestCtx, Honest, CtxRet
  <2>1. CASE u = t
    <3>1. HonestCall(t)'
      BY <1>2, <1>5, <1>8 DEF HonestCall, HonestCtx, Honest
    <3> QED BY <1>1, <1>3, <1>8, <2>1, <3>1 DEF EvHonest
  <2>2. CASE u # t
    BY <1>1, <1>6, <1>8, <2>2 DEF EvHonest, CallKept
  <2> QED BY <2>1, <2>2
<1> QED BY <1>7, <1>8

(* The end of a blocking call.  One that waits again was handed nothing.     *)
LEMMA PendReturnCalls ==
  ASSUME EvInv, NEW tok \in BOOLEAN, EvCalls(tok), NEW t \in Threads, PendReturn(t)
  PROVE  EvCalls(tok)' /\ (EvHonest => EvHonest')
<1>1. /\ IsReady(t) /\ call[t].pc = "pend"
      /\ UNCHANGED <<usStatus, waitOn, ucWaitTimeout, ucIsEventDelete, sig>>
      /\ \A u \in Threads : u # t => call'[u] = call[u]
      /\ GoesOn(t) => call'[t] = Running
      /\ ~GoesOn(t) => /\ call'[t].pc = "again" /\ call'[t].ev = call[t].ev
                       /\ call'[t].got = call[t].got /\ call[t].ret # "NONE"
  BY PendReturnCases
<1>2. "SEM" \notin usStatus[t] /\ "SEM" \notin usStatus'[t]
  BY <1>1 DEF IsReady
<1>3. CallKept(t, tok)
  <2>1. CASE GoesOn(t)
    BY <1>1, <1>2, <2>1, RunningKept
  <2>2. CASE ~GoesOn(t)
    BY <1>1, <1>2, <2>2 DEF CallKept, HasEvent, HonestCall, Honest
  <2> QED BY <2>1, <2>2
<1>4. ASSUME NEW u \in Threads, u # t PROVE CallKept(u, tok)
  <2>1. Stays(u)
    BY <1>1, <1>4 DEF Stays, SameCall
  <2> QED BY <2>1, StaysKept
<1>5. \A u \in Threads : SameSigs(u)
  BY <1>1 DEF SameSigs, SameCtx
<1> QED BY <1>3, <1>4, <1>5, AllKept

(* A thread goes to sleep.                                                   *)
LEMMA EventWaitCalls ==
  ASSUME EvInv, NEW tok \in BOOLEAN, EvCalls(tok),
         NEW t \in Threads, NEW e \in Events, NEW byPrio, NEW timed,
         NEW c, Waiting(c, e), NEW prio, EventWait(e, t, byPrio, timed, prio),
         call' = [call EXCEPT ![t] = c], UNCHANGED sig
  PROVE  EvCalls(tok)' /\ (EvHonest => EvHonest')
<1> USE DEF EvInv, EventType
<1>1. CallKept(t, tok)
  <2>1. call'[t] = c /\ waitOn'[t] = e /\ "SEM" \in usStatus'[t]
    BY DEF EventWait, CallType, WaitType, StatusType
  <2> QED BY <2>1 DEF CallKept, HasEvent, Waiting, HonestCall
<1>2. ASSUME NEW u \in Threads, u # t PROVE CallKept(u, tok)
  <2>1. Stays(u)
    BY <1>2 DEF EventWait, CallType, WaitType, StatusType, FlagType, Stays, SameCall
  <2> QED BY <2>1, StaysKept
<1>3. \A u \in Threads : SameSigs(u)
  BY DEF SameSigs, SameCtx
<1> QED BY <1>1, <1>2, <1>3, AllKept

(* A waiter is taken off its queue.                                          *)
LEMMA TakeFirstCalls ==
  ASSUME EvInv, NEW tok \in BOOLEAN, EvCalls(tok),
         NEW op \in Ops \ {"tick"}, NEW e \in Events, NEW n \in Nat,
         NEW d \in 1..MaxNest, AtTop(d), TakeFirst(op, e, n, d)
  PROVE  EvCalls(tok)' /\ (EvHonest => EvHonest')
<1>1. PICK t \in Threads :
         /\ t = FirstWaiter(e) /\ "SEM" \in usStatus[t]
         /\ call[t].got = "no" /\ call[t].pc = "pend"
         /\ call'[t].pc = "pend" /\ call'[t].ev = call[t].ev
         /\ \A u \in Threads : u # t => call'[u] = call[u]
         /\ usStatus' = [usStatus EXCEPT ![t] = usStatus[t] \ {DELAY}]
         /\ UNCHANGED <<waitOn, ucWaitTimeout, ucIsEventDelete, sig>>
  BY TakeFirstFacts
<1> USE DEF EvInv, EventType
<1>2. /\ call'[t].pc = "pend" /\ call'[t].ev = call[t].ev /\ "SEM" \in usStatus'[t]
      /\ \A u \in Threads : u # t => call'[u] = call[u] /\ usStatus'[u] = usStatus[u]
  BY <1>1 DEF CallType, StatusType, DELAY, Call
<1>3. CallKept(t, tok)
  BY <1>1, <1>2 DEF CallKept, HasEvent, HonestCall
<1>4. ASSUME NEW u \in Threads, u # t PROVE CallKept(u, tok)
  <2>1. Stays(u)
    BY <1>1, <1>2, <1>4 DEF Stays, SameCall
  <2> QED BY <2>1, StaysKept
<1>5. \A u \in Threads : SameSigs(u)
  BY <1>1 DEF SameSigs, SameCtx
<1> QED BY <1>3, <1>4, <1>5, AllKept

(* The waiter in hand is made ready, and told of a deletion.                 *)
LEMMA HighCalls ==
  ASSUME EvInv, NEW tok \in BOOLEAN, EvCalls(tok),
         nest > 0, NEW t, t = frames[nest].tcb, t # Null, EventReadyHighLevel(t),
         ucIsEventDelete' = IF frames[nest].op = "delete"
                            THEN [ucIsEventDelete EXCEPT ![t] = "DELETE"]
                            ELSE ucIsEventDelete,
         UNCHANGED <<call, sig>>
  PROVE  EvCalls(tok)' /\ (EvHonest => EvHonest')
<1>1. /\ t \in Threads /\ "SEM" \in usStatus[t]
      /\ ucIsEventDelete[t] = "EXIST"
      /\ call[t].pc = "pend" /\ call[t].ret = "NONE"
      /\ call[t].got = GotOf(frames[nest].op)
      /\ waitOn' = [waitOn EXCEPT ![t] = Null]
      /\ ucWaitTimeout' = [ucWaitTimeout EXCEPT ![t] = "CLEAR"]
      /\ usStatus' = [usStatus EXCEPT ![t] = usStatus[t] \ {"SEM"}]
  BY HighFacts
<1> USE DEF EvInv, EventType
<1>2. /\ "SEM" \notin usStatus'[t] /\ ucWaitTimeout'[t] = "CLEAR"
      /\ ucIsEventDelete'[t] = IF frames[nest].op = "delete" THEN "DELETE" ELSE "EXIST"
      /\ \A u \in Threads : u # t =>
           /\ usStatus'[u] = usStatus[u] /\ waitOn'[u] = waitOn[u]
           /\ ucWaitTimeout'[u] = ucWaitTimeout[u] /\ ucIsEventDelete'[u] = ucIsEventDelete[u]
  BY <1>1 DEF StatusType, WaitType, FlagType
<1>3. CallKept(t, tok)
  <2>1. Honest(call'[t], call'[t].ret, ucWaitTimeout'[t], ucIsEventDelete'[t])
    BY <1>1, <1>2 DEF Honest, GotOf
  <2> QED BY <1>1, <1>2, <2>1 DEF CallKept, HasEvent, HonestCall
<1>4. ASSUME NEW u \in Threads, u # t PROVE CallKept(u, tok)
  <2>1. Stays(u)
    BY <1>2, <1>4 DEF Stays, SameCall
  <2> QED BY <2>1, StaysKept
<1>5. \A u \in Threads : SameSigs(u)
  BY DEF SameSigs, SameCtx
<1> QED BY <1>3, <1>4, <1>5, AllKept

(* In the beginning nobody is in a call.                                     *)
LEMMA CallsInit ==
  ASSUME NEW tok \in BOOLEAN, EventInit
  PROVE  EvCalls(tok) /\ EvHonest
  BY RunningCall DEF EventInit, EvCalls, EvHonest, HasEvent, HonestCall

=============================================================================
