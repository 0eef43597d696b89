-------------------------- MODULE SemaphoreMProofs ---------------------------
(***************************************************************************)
(* Proofs about SemaphoreM for every number of threads, of mutexes and of    *)
(* signal handlers stacked on a thread.  The wait machinery's part of the    *)
(* invariant is in EventProofs.                                              *)
(***************************************************************************)
EXTENDS SemaphoreM, EventProofs, FiniteSetTheorems

-----------------------------------------------------------------------------
(* The inductive invariant.                                                *)

MutexType ==
  /\ ucType \in [Events -> {"UNUSED", "MUTEX"}]
  /\ freeEvents \subseteq Events
  /\ ulCounter \in [Events -> BOOLEAN]
  /\ ulMaxCounter \in [Events -> Priorities \cup {Lowest}]
  /\ pvTcbOwn \in [Events -> Threads \cup {Null}]
  /\ pvPtr \in [Events -> 0..MaxRecursion]
  /\ ucCeilingPriority \in [Events -> Ceilings]
  /\ ulOption \in [Events -> Options]

HeldType == held \in [Threads -> [Events -> Nat]]

(* The open section of MPost or MDelete is at the bottom of the stack: the   *)
(* calls are made by threads.                                                *)
Sections ==
  /\ \A i \in 1..nest : i > 1 => frames[i].op = "tick"
  /\ nest > 0 => /\ frames[1].op \in {"tick", "post", "delete"}
                 /\ frames[1].op # "tick" => frames[1].ev \in Events

Posting(e)  == nest > 0 /\ frames[1].op = "post" /\ frames[1].ev = e
Deleting(e) == nest > 0 /\ frames[1].op = "delete" /\ frames[1].ev = e

(* What EVENT_ulCounter, EVENT_pvTcbOwn, the queue and the sections say of   *)
(* a mutex.                                                                  *)
OwnerOK(e) ==
  /\ ucType[e] = "MUTEX" =>
       /\ ulCounter[e] <=> pvTcbOwn[e] = Null
       /\ ulCounter[e] => wq[e] = <<>> /\ pvPtr[e] = 0
  /\ pvTcbOwn[e] # Null => ulMaxCounter[e] \in Priorities
  /\ ucType[e] = "UNUSED" /\ ~Deleting(e) => pvTcbOwn[e] = Null /\ wq[e] = <<>>
  /\ e \in freeEvents => ucType[e] = "UNUSED" /\ ~Deleting(e)
  /\ Posting(e) => /\ ucType[e] = "MUTEX" /\ pvTcbOwn[e] # Null /\ pvPtr[e] = 0
                   /\ frames[1].tcb # Null
  /\ Deleting(e) => ucType[e] = "UNUSED"

(* Who has the mutex, and how often.                                         *)
Has(e) == IF Posting(e) THEN frames[1].tcb ELSE pvTcbOwn[e]

Counts(e) == \A t \in Threads : Claims(t, e) = IF t = Has(e) THEN pvPtr[e] + 1 ELSE 0

EventOK(e) == OwnerOK(e) /\ Counts(e)

(* Nobody flushes a mutex.                                                   *)
NoFlush(t) == /\ call[t].got # "flush"
              /\ \A k \in 1..Len(sig[t]) : sig[t][k].call.got # "flush"

MutexInv == /\ MutexType /\ HeldType /\ basePrio \in [Threads -> Priorities] /\ Sections
            /\ \A t \in Threads : NoFlush(t)
            /\ \A e \in Events : EventOK(e)

IInv == EvInv /\ EvCalls(FALSE) /\ EvHonest /\ MutexInv

-----------------------------------------------------------------------------
(* Claims.                                                                   *)

Tok(c, e) == IF HandedOver(c, e) THEN 1 ELSE 0

(* The signal contexts of t that hold e.                                     *)
Ctx(t, e) == {k \in DOMAIN sig[t] : HandedOver(sig[t][k].call, e)}

(* The contexts are finitely many, and counted by Claims.                    *)
LEMMA ClaimsAre ==
  ASSUME NEW t \in Threads, NEW e \in Events, SigType
  PROVE  /\ Claims(t, e) = held[t][e] + Tok(call[t], e) + Cardinality(Ctx(t, e))
         /\ IsFiniteSet(Ctx(t, e)) /\ Cardinality(Ctx(t, e)) \in Nat
         /\ Tok(call[t], e) \in Nat
         /\ \A k : k \in Ctx(t, e) <=> k \in 1..Len(sig[t]) /\ HandedOver(sig[t][k].call, e)
<1>1. sig[t] \in Seq(SigCtx) /\ Len(sig[t]) \in Nat /\ DOMAIN sig[t] = 1..Len(sig[t])
  BY DEF SigType
<1>2. IsFiniteSet(1..Len(sig[t]))
  BY <1>1, FS_Interval
<1>3. Ctx(t, e) \subseteq 1..Len(sig[t])
  BY <1>1 DEF Ctx
<1>4. IsFiniteSet(Ctx(t, e)) /\ Cardinality(Ctx(t, e)) \in Nat
  BY <1>2, <1>3, FS_Subset, FS_CardinalityType
<1>5. Claims(t, e) = held[t][e] + Tok(call[t], e) + Cardinality(Ctx(t, e))
  BY DEF Claims, Tok, Ctx
<1> QED BY <1>1, <1>4, <1>5 DEF Ctx, Tok

(* Contexts that are left alone hold what they held.                         *)
LEMMA CtxSame ==
  ASSUME NEW u \in Threads, NEW e \in Events, SigType, SigType', SameSigs(u)
  PROVE  Ctx(u, e)' = Ctx(u, e)
<1>1. /\ Len(sig[u]) \in Nat /\ DOMAIN sig[u] = 1..Len(sig[u])
      /\ DOMAIN sig'[u] = 1..Len(sig'[u]) /\ Len(sig'[u]) = Len(sig[u])
  BY DEF SigType, SameSigs
<1>2. \A k \in 1..Len(sig[u]) :
        HandedOver(sig'[u][k].call, e) <=> HandedOver(sig[u][k].call, e)
  BY DEF SameSigs, SameCtx, HandedOver
<1> QED BY <1>1, <1>2 DEF Ctx, HandedOver

(* A step that leaves the contexts alone changes the rest of a claim only.   *)
LEMMA ClaimStep ==
  ASSUME NEW u \in Threads, NEW e \in Events, SigType, SigType', SameSigs(u)
  PROVE  \E c \in Nat : /\ Claims(u, e) = held[u][e] + Tok(call[u], e) + c
                        /\ Claims(u, e)' = held'[u][e] + Tok(call'[u], e) + c
<1>1. /\ Claims(u, e) = held[u][e] + Tok(call[u], e) + Cardinality(Ctx(u, e))
      /\ Cardinality(Ctx(u, e)) \in Nat
  BY ClaimsAre
<1>2. Claims(u, e)' = held'[u][e] + Tok(call'[u], e) + Cardinality(Ctx(u, e)')
  BY DEF Claims, Tok, Ctx, HandedOver
<1> QED BY <1>1, <1>2, CtxSame

SameClaims(e) == \A u \in Threads : Claims(u, e)' = Claims(u, e)

(* Calls, contexts and holds that are left alone.                            *)
LEMMA ClaimSame ==
  ASSUME NEW u \in Threads, NEW e \in Events, SigType, SigType', SameSigs(u), SameCall(u),
         held'[u][e] = held[u][e]
  PROVE  Claims(u, e)' = Claims(u, e)
<1>1. Tok(call'[u], e) = Tok(call[u], e)
  BY DEF SameCall, Tok, HandedOver
<1> QED BY <1>1, ClaimStep

(* A signal stacks the call: what it was given is counted in the context.    *)
LEMMA SignalClaims ==
  ASSUME EvInv, HeldType, NEW t \in Threads, NEW saType \in {"EINTR", "RESTART"},
         Signal(t, saType), UNCHANGED held, NEW e \in Events
  PROVE  SameClaims(e)
<1>1. /\ SigType /\ SigType' /\ Len(sig[t]) \in Nat /\ Len(sig'[t]) = Len(sig[t]) + 1
      /\ sig'[t][Len(sig[t]) + 1] = Context(t, saType)
      /\ \A k \in 1..Len(sig[t]) : sig'[t][k] = sig[t][k]
      /\ \A u \in Threads : u # t => call'[u] = call[u] /\ sig'[u] = sig[u]
      /\ call'[t] = Running
  BY SignalCases DEF EvInv, EventType
<1>2. \A u \in Threads : u # t => Claims(u, e)' = Claims(u, e)
  BY <1>1, ClaimSame DEF SameSigs, SameCtx, SameCall
<1>3. Claims(t, e)' = Claims(t, e)
  <2> DEFINE n == Len(sig[t]) + 1
  <2>1. sig'[t][n].call = call[t]
    BY <1>1 DEF Context
  <2>2. DOMAIN sig'[t] = 1..n /\ DOMAIN sig[t] = 1..Len(sig[t])
    BY <1>1 DEF SigType
  <2>3. Ctx(t, e)' = Ctx(t, e) \cup (IF HandedOver(call[t], e) THEN {n} ELSE {})
    <3>1. \A k : k \in Ctx(t, e)' <=> k \in 1..n /\ HandedOver(sig'[t][k].call, e)
      BY <2>2 DEF Ctx, HandedOver
    <3>2. \A k : k \in Ctx(t, e) <=> k \in 1..Len(sig[t]) /\ HandedOver(sig[t][k].call, e)
      BY <2>2 DEF Ctx
    <3>3. \A k : k \in 1..n <=> k \in 1..Len(sig[t]) \/ k = n
      BY <1>1
    <3>4. n \notin 1..Len(sig[t])
      BY <1>1
    <3> HIDE DEF n
    <3> QED BY <1>1, <2>1, <3>1, <3>2, <3>3, <3>4
  <2>4. n \notin Ctx(t, e)
    BY <1>1 DEF Ctx, SigType
  <2>5. /\ Claims(t, e) = held[t][e] + Tok(call[t], e) + Cardinality(Ctx(t, e))
        /\ IsFiniteSet(Ctx(t, e)) /\ Cardinality(Ctx(t, e)) \in Nat
    BY <1>1, ClaimsAre
  <2>6. Claims(t, e)' = held[t][e] + Tok(Running, e) + Cardinality(Ctx(t, e)')
    BY <1>1 DEF Claims, Tok, Ctx, HandedOver
  <2>7. Tok(Running, e) = 0 /\ held[t][e] \in Nat
    BY DEF Tok, HandedOver, Running, HeldType
  <2> HIDE DEF n
  <2>8. Cardinality(Ctx(t, e)') = Cardinality(Ctx(t, e)) + Tok(call[t], e)
    <3>1. CASE HandedOver(call[t], e)
      BY <2>3, <2>4, <2>5, <3>1, FS_AddElement DEF Tok
    <3>2. CASE ~HandedOver(call[t], e)
      BY <2>3, <2>5, <3>2 DEF Tok
    <3> QED BY <3>1, <3>2
  <2>9. Tok(call[t], e) \in Nat
    BY DEF Tok
  <2> QED BY <2>5, <2>6, <2>7, <2>8, <2>9
<1> QED BY <1>2, <1>3 DEF SameClaims

(* The return from the handler takes the context off again.                  *)
LEMMA SigReturnClaims ==
  ASSUME EvInv, HeldType, NEW t \in Threads, SigReturn(t), UNCHANGED held, NEW e \in Events
  PROVE  SameClaims(e)
<1>0. PICK x : x = sig[t][Len(sig[t])]
  OBVIOUS
<1>1. /\ SigType /\ SigType' /\ call[t].pc = "run"
      /\ Len(sig[t]) \in Nat \ {0} /\ Len(sig'[t]) = Len(sig[t]) - 1
      /\ \A k \in 1..Len(sig'[t]) : sig'[t][k] = sig[t][k]
      /\ call'[t].pc = x.call.pc /\ call'[t].ev = x.call.ev /\ call'[t].got = x.call.got
      /\ \A u \in Threads : u # t => call'[u] = call[u] /\ sig'[u] = sig[u]
  BY <1>0, SigReturnCases DEF EvInv, EventType
<1>2. \A u \in Threads : u # t => Claims(u, e)' = Claims(u, e)
  BY <1>1, ClaimSame DEF SameSigs, SameCtx, SameCall
<1>3. Claims(t, e)' = Claims(t, e)
  <2> DEFINE n == Len(sig[t])
  <2>2. DOMAIN sig'[t] = 1..Len(sig'[t]) /\ DOMAIN sig[t] = 1..n
    BY <1>1 DEF SigType
  <2>3. Ctx(t, e)' = Ctx(t, e) \ {n}
    <3>1. \A k : k \in Ctx(t, e)' <=> k \in 1..Len(sig'[t]) /\ HandedOver(sig'[t][k].call, e)
      BY <2>2 DEF Ctx, HandedOver
    <3>2. \A k : k \in Ctx(t, e) <=> k \in 1..n /\ HandedOver(sig[t][k].call, e)
      BY <2>2 DEF Ctx
    <3>3. \A k : k \in 1..Len(sig'[t]) <=> k \in 1..n /\ k # n
      BY <1>1
    <3> HIDE DEF n
    <3> QED BY <1>1, <3>1, <3>2, <3>3
  <2>4. n \in Ctx(t, e) <=> HandedOver(x.call, e)
    BY <1>0, <1>1, <2>2 DEF Ctx
  <2>5. /\ Claims(t, e) = held[t][e] + Tok(call[t], e) + Cardinality(Ctx(t, e))
        /\ IsFiniteSet(Ctx(t, e)) /\ Cardinality(Ctx(t, e)) \in Nat
    BY <1>1, ClaimsAre
  <2>6. Claims(t, e)' = held[t][e] + Tok(call'[t], e) + Cardinality(Ctx(t, e)')
    BY DEF Claims, Tok, Ctx, HandedOver
  <2>7. Tok(call[t], e) = 0 /\ held[t][e] \in Nat
    BY <1>1 DEF Tok, HandedOver, HeldType
  <2>9. Tok(call'[t], e) = IF n \in Ctx(t, e) THEN 1 ELSE 0
    BY <1>1, <2>4 DEF Tok, HandedOver
  <2> HIDE DEF n
  <2>8. Cardinality(Ctx(t, e)') = Cardinality(Ctx(t, e)) - IF n \in Ctx(t, e) THEN 1 ELSE 0
    <3>1. CASE n \in Ctx(t, e)
      BY <2>3, <2>5, <3>1, FS_RemoveElement
    <3>2. CASE n \notin Ctx(t, e)
      <4>1. Ctx(t, e)' = Ctx(t, e)
        BY <2>3, <3>2
      <4> QED BY <2>5, <3>2, <4>1
    <3> QED BY <3>1, <3>2
  <2> QED BY <2>5, <2>6, <2>7, <2>8, <2>9
<1> QED BY <1>2, <1>3 DEF SameClaims

-----------------------------------------------------------------------------
(* The sections.                                                             *)

(* The sections of e are as they were.                                       *)
SameSection(e) == /\ Posting(e)' <=> Posting(e)
                  /\ Deleting(e)' <=> Deleting(e)
                  /\ Posting(e) => frames'[1].tcb = frames[1].tcb

(* Who has a mutex, said with HandTo and with Has.                           *)
LEMMA HolderIs ==
  ASSUME IInv, NEW e \in Events
  PROVE  Holder(e) = Has(e)
<1>0. nest \in 0..MaxNest /\ Sections
  BY DEF IInv, MutexInv, EvInv, EventType, KernType
<1>1. CASE Posting(e)
  <2>1. {j \in 1..nest : frames[j].op = "post" /\ frames[j].ev = e} = {1}
    BY <1>0, <1>1 DEF Posting, Sections
  <2>2. HandTo(e) = {frames[1].tcb}
    BY <2>1 DEF HandTo
  <2> QED BY <1>1, <2>2 DEF Holder, Has
<1>2. CASE ~Posting(e)
  <2>1. {j \in 1..nest : frames[j].op = "post" /\ frames[j].ev = e} = {}
    BY <1>0, <1>2 DEF Posting, Sections
  <2>2. HandTo(e) = {}
    BY <2>1 DEF HandTo
  <2> QED BY <1>2, <2>2 DEF Holder, Has
<1> QED BY <1>1, <1>2

(* The section that a step of MPost or MDelete finds open.                   *)
LEMMA SectionOpen ==
  ASSUME IInv, nest > 0, frames[nest].op # "tick"
  PROVE  /\ nest = 1 /\ 1 \in 1..MaxNest /\ 1 \in 1..nest /\ frames[1] \in Frame
         /\ frames[1].ev \in Events /\ frames[1].op \in {"post", "delete"}
<1>0. nest \in 0..MaxNest /\ Sections /\ nest \in 1..nest
  BY DEF IInv, MutexInv, EvInv, EventType, KernType
<1>1. nest = 1
  BY <1>0 DEF Sections
<1>2. frames[1] \in Frame
  BY <1>0, <1>1 DEF IInv, EvInv, EventType, KernType
<1> QED BY <1>0, <1>1, <1>2 DEF Sections

(* The sections after a step of the kernel.                                  *)
LEMMA SectionAfter ==
  ASSUME IInv
  PROVE  /\ UNCHANGED kernVars => Sections' /\ \A e : SameSection(e)
         /\ EvInv' /\ OnlyLeaves => Sections' /\ \A e : SameSection(e)
         /\ nest \in {0, 1} /\ EndFrame(1) => Sections' /\ \A e : ~Posting(e)' /\ ~Deleting(e)'
         /\ \A f : nest \in {0, 1} /\ SetFrame(1, f) /\ f.op \in {"post", "delete"}
                     /\ f.ev \in Events =>
              /\ Sections' /\ frames'[1] = f
              /\ \A e : Posting(e)' <=> f.op = "post" /\ f.ev = e
              /\ \A e : Deleting(e)' <=> f.op = "delete" /\ f.ev = e
<1>0. nest \in 0..MaxNest /\ frames \in [1..MaxNest -> Frame] /\ MaxNest \in Nat \ {0}
  BY EventAssumption DEF IInv, EvInv, EventType, KernType
<1>1. Sections
  BY DEF IInv, MutexInv
<1>2. ASSUME UNCHANGED kernVars PROVE Sections' /\ \A e : SameSection(e)
  BY <1>1, <1>2 DEF kernVars, SameSection, Posting, Deleting, Sections
<1>3. ASSUME EvInv', OnlyLeaves PROVE Sections' /\ \A e : SameSection(e)
  <2>1. /\ \A i \in 1..nest' : OldFrame(i) \/ frames'[i].op = "tick"
        /\ \A i \in 1..nest : frames[i].op # "tick" => i \in 1..nest' /\ OldFrame(i)
    BY <1>3 DEF OnlyLeaves, TickFrame
  <2>0. nest' \in 0..MaxNest
    BY <1>3 DEF EvInv, EventType, KernType
  <2>3. CASE nest > 0 /\ frames[1].op # "tick"
    <3>1. 1 \in 1..nest
      BY <1>0, <2>3
    <3>2. 1 \in 1..nest' /\ frames'[1] = frames[1]
      BY <2>1, <2>3, <3>1 DEF OldFrame
    <3>3. nest' > 0
      BY <2>0, <3>2
    <3>4. \A i \in 1..nest' : i > 1 => frames'[i].op = "tick"
      BY <1>1, <2>1 DEF OldFrame, Sections
    <3>5. \A e : SameSection(e)
      BY <2>3, <3>2, <3>3 DEF SameSection, Posting, Deleting
    <3>6. Sections'
      BY <1>1, <2>3, <3>2, <3>3, <3>4 DEF Sections
    <3> QED BY <3>5, <3>6
  <2>4. CASE ~(nest > 0 /\ frames[1].op # "tick")
    <3>1. \A i \in 1..nest : frames[i].op = "tick"
      BY <1>0, <1>1, <2>4 DEF Sections
    <3>2. \A i \in 1..nest' : frames'[i].op = "tick"
      BY <2>1, <3>1 DEF OldFrame
    <3>3. nest' > 0 => frames'[1].op = "tick"
      BY <2>0, <3>2
    <3>4. Sections'
      BY <3>2, <3>3 DEF Sections
    <3>5. \A e : SameSection(e)
      BY <2>4, <3>3 DEF SameSection, Posting, Deleting
    <3> QED BY <3>4, <3>5
  <2> QED BY <2>3, <2>4
<1>4. ASSUME nest \in {0, 1}, EndFrame(1)
      PROVE  Sections' /\ \A e : ~Posting(e)' /\ ~Deleting(e)'
  <2>1. nest' = 0
    BY <1>4 DEF EndFrame
  <2> QED BY <2>1 DEF Posting, Deleting, Sections
<1>5. ASSUME NEW f, nest \in {0, 1}, SetFrame(1, f), f.op \in {"post", "delete"}, f.ev \in Events
      PROVE  /\ Sections' /\ frames'[1] = f
             /\ \A e : Posting(e)' <=> f.op = "post" /\ f.ev = e
             /\ \A e : Deleting(e)' <=> f.op = "delete" /\ f.ev = e
  <2>1. nest' = 1 /\ frames'[1] = f
    BY <1>0, <1>5 DEF SetFrame
  <2> QED BY <1>5, <2>1 DEF Posting, Deleting, Sections
<1> QED BY <1>2, <1>3, <1>4, <1>5

-----------------------------------------------------------------------------
(* Steps that leave a mutex alone.                                           *)

(* A mutex nobody touches stays as it was.                                   *)
LEMMA EventSame ==
  ASSUME NEW e \in Events, EventOK(e), SameSection(e), SameClaims(e),
         ucType'[e] = ucType[e], ulCounter'[e] = ulCounter[e],
         ulMaxCounter'[e] = ulMaxCounter[e], pvTcbOwn'[e] = pvTcbOwn[e], pvPtr'[e] = pvPtr[e],
         e \in freeEvents' <=> e \in freeEvents,
         wq[e] = <<>> => wq'[e] = <<>>
  PROVE  EventOK(e)'
<1>1. OwnerOK(e)'
  BY DEF EventOK, OwnerOK, SameSection
<1>2. Has(e)' = Has(e)
  BY DEF Has, SameSection
<1>3. Counts(e)'
  BY <1>2 DEF EventOK, Counts, SameClaims
<1> QED BY <1>1, <1>3 DEF EventOK

(* Claims when calls, contexts and holds are left alone.                     *)
LEMMA AllClaimsSame ==
  ASSUME IInv, EvInv', UNCHANGED held, \A u \in Threads : SameCall(u) /\ SameSigs(u)
  PROVE  \A e \in Events : SameClaims(e)
<1>1. SigType /\ SigType'
  BY DEF IInv, EvInv, EventType
<1> QED BY <1>1, ClaimSame DEF SameClaims

(* Nor is anybody flushed then.                                              *)
LEMMA NoFlushSame ==
  ASSUME NEW u \in Threads, NoFlush(u), SameCall(u), SameSigs(u)
  PROVE  NoFlush(u)'
  BY DEF NoFlush, SameCall, SameSigs, SameCtx

(* A step after which everybody has what he had.                             *)
LEMMA QuietStep ==
  ASSUME IInv, EvInv', EvCalls(FALSE)', EvHonest', OnlyLeaves, UNCHANGED mutexVars,
         HeldType', basePrio' \in [Threads -> Priorities],
         \A u \in Threads : NoFlush(u)', \A e \in Events : SameClaims(e)
  PROVE  IInv'
<1>0. /\ UNCHANGED <<ucType, freeEvents, ulCounter, ulMaxCounter, pvTcbOwn, pvPtr>>
      /\ MutexType'
  BY DEF IInv, MutexInv, MutexType, mutexVars
<1>1. Sections' /\ \A e : SameSection(e)
  BY SectionAfter
<1>2. ASSUME NEW e \in Events PROVE EventOK(e)'
  <2>1. wq[e] = <<>> => wq'[e] = <<>>
    <3>1. wq'[e] \in Seq(Threads) /\ Shrinks(wq'[e], wq[e])
      BY DEF OnlyLeaves, EvInv, EventType, QueueType
    <3> QED BY <3>1, ShrinksEmpty
  <2>2. EventOK(e)
    BY DEF IInv, MutexInv
  <2> QED BY <1>0, <1>1, <2>1, <2>2, EventSame
<1> QED BY <1>0, <1>1, <1>2 DEF IInv, MutexInv

(* A thread's holds of one mutex change.                                     *)
LEMMA HeldChanges ==
  ASSUME HeldType, NEW t \in Threads, NEW e \in Events, NEW n \in Nat,
         held' = [held EXCEPT ![t][e] = n]
  PROVE  /\ HeldType' /\ held'[t][e] = n
         /\ \A d \in Events : d # e => held'[t][d] = held[t][d]
         /\ \A u \in Threads : u # t => held'[u] = held[u]
<1>1. held[t] \in [Events -> Nat]
  BY DEF HeldType
<1>2. [held[t] EXCEPT ![e] = n] \in [Events -> Nat]
  BY <1>1
<1>3. held' = [held EXCEPT ![t] = [held[t] EXCEPT ![e] = n]]
  OBVIOUS
<1>4. HeldType'
  BY <1>2, <1>3 DEF HeldType
<1>5. held'[t] = [held[t] EXCEPT ![e] = n] /\ \A u \in Threads : u # t => held'[u] = held[u]
  BY <1>3 DEF HeldType
<1> QED BY <1>1, <1>4, <1>5

(* Ticks, wakeups, signals, suspends and resumes.                            *)
LEMMA EnvironmentKeeps ==
  ASSUME IInv, IsrWakesPended = FALSE, MaxSig = 0 \/ MaxSuspend = 0, Environment
  PROVE  IInv'
<1>0. /\ UNCHANGED mutexVars /\ UNCHANGED held /\ UNCHANGED basePrio /\ FALSE \in BOOLEAN
      /\ EvInv /\ EvCalls(FALSE) /\ EvHonest /\ HeldType /\ HeldType'
      /\ basePrio' \in [Threads -> Priorities] /\ \A u \in Threads : NoFlush(u)
  BY DEF Environment, IInv, MutexInv, HeldType
<1>1. ASSUME EvInv', EvCalls(FALSE)', EvHonest', OnlyLeaves,
             \A u \in Threads : SameCall(u) /\ SameSigs(u)
      PROVE  IInv'
  BY <1>0, <1>1, AllClaimsSame, NoFlushSame, QuietStep
<1>2. CASE Tick \/ TickNext
  <2>1. \A u \in Threads : SameCall(u) /\ SameSigs(u)
    BY <1>0, <1>2, TickCases
  <2> QED BY <1>0, <1>1, <1>2, <2>1, TickKeeps, TickCallsKept, TickLeaves
<1>3. ASSUME NEW t \in Threads, NEW inf \in BOOLEAN, ThreadWakeup(t, inf) PROVE IInv'
  <2>1. \A u \in Threads : SameCall(u) /\ SameSigs(u)
    BY <1>0, <1>3, ThreadWakeupCases, CtxKept DEF SameCall
  <2> QED BY <1>0, <1>1, <1>3, <2>1, ThreadWakeupKeeps, ThreadWakeupCalls, ThreadWakeupLeaves
<1>4. ASSUME NEW t \in Threads, NEW s \in {"EINTR", "RESTART"}, Signal(t, s) PROVE IInv'
  <2>1. EvInv' /\ EvCalls(FALSE)' /\ EvHonest' /\ OnlyLeaves
    BY <1>0, <1>4, SignalKeeps, SignalCalls, SignalLeaves
  <2>2. \A e \in Events : SameClaims(e)
    BY <1>0, <1>4, SignalClaims
  <2>3. \A u \in Threads : NoFlush(u)'
    <3>1. /\ Len(sig[t]) \in Nat /\ Len(sig'[t]) = Len(sig[t]) + 1
          /\ sig'[t][Len(sig[t]) + 1] = Context(t, s)
          /\ \A k \in 1..Len(sig[t]) : sig'[t][k] = sig[t][k]
          /\ \A u \in Threads : u # t => call'[u] = call[u] /\ sig'[u] = sig[u]
          /\ call'[t] = Running
      BY <1>0, <1>4, SignalCases
    <3>2. Context(t, s).call = call[t]
      BY DEF Context
    <3>3. call'[t].got = "no"
      BY <3>1, RunningCall
    <3>4. ASSUME NEW k \in 1..Len(sig'[t]) PROVE sig'[t][k].call.got # "flush"
      <4>1. k \in 1..Len(sig[t]) \/ k = Len(sig[t]) + 1
        BY <3>1
      <4> QED BY <1>0, <3>1, <3>2, <4>1 DEF NoFlush
    <3>5. NoFlush(t)'
      BY <3>3, <3>4 DEF NoFlush
    <3> QED BY <1>0, <3>1, <3>5 DEF NoFlush
  <2> QED BY <1>0, <2>1, <2>2, <2>3, QuietStep
<1>5. ASSUME NEW t \in Threads, SigReturn(t) PROVE IInv'
  <2>1. EvInv' /\ EvCalls(FALSE)' /\ EvHonest' /\ OnlyLeaves
    BY <1>0, <1>5, SigReturnKeeps, SigReturnCalls, SigReturnLeaves
  <2>2. \A e \in Events : SameClaims(e)
    BY <1>0, <1>5, SigReturnClaims
  <2>3. \A u \in Threads : NoFlush(u)'
    <3>0. PICK x : x = sig[t][Len(sig[t])]
      OBVIOUS
    <3>1. /\ Len(sig[t]) \in Nat \ {0} /\ Len(sig'[t]) = Len(sig[t]) - 1
          /\ \A k \in 1..Len(sig'[t]) : sig'[t][k] = sig[t][k]
          /\ call'[t].got = x.call.got
          /\ \A u \in Threads : u # t => call'[u] = call[u] /\ sig'[u] = sig[u]
      BY <1>0, <1>5, <3>0, SigReturnCases
    <3>2. Len(sig[t]) \in 1..Len(sig[t]) /\ \A k \in 1..Len(sig'[t]) : k \in 1..Len(sig[t])
      BY <3>1
    <3>3. NoFlush(t)'
      BY <1>0, <3>0, <3>1, <3>2 DEF NoFlush
    <3> QED BY <1>0, <3>1, <3>3 DEF NoFlush
  <2> QED BY <1>0, <2>1, <2>2, <2>3, QuietStep
<1>b. ASSUME NEW t \in Threads, NEW st, usStatus' = [usStatus EXCEPT ![t] = st],
             "SEM" \in st <=> "SEM" \in usStatus[t],
             UNCHANGED <<kernVars, queueVars, waitOn, ring, ucPriority, ucWaitTimeout,
                         ucIsEventDelete, call, sig>>, EvInv'
      PROVE  IInv'
  <2>1. \A u \in Threads : Stays(u) /\ SameSigs(u)
    BY <1>0, <1>b, CtxKept DEF Stays, SameCall, EvInv, EventType, StatusType
  <2>2. UNCHANGED <<wq, waitOn>> /\ UNCHANGED kernVars
    BY <1>b DEF queueVars
  <2>3. EvCalls(FALSE)' /\ EvHonest' /\ OnlyLeaves
    BY <1>0, <2>1, <2>2, StaysCalls, QuietLeaves
  <2> QED BY <1>1, <1>b, <2>1, <2>3 DEF Stays
<1>6. ASSUME NEW t \in Threads, ThreadSuspend(t) PROVE IInv'
  BY <1>0, <1>b, <1>6, ThreadSuspendKeeps DEF ThreadSuspend, SUSPEND
<1>7. ASSUME NEW t \in Threads, NEW levels \in {1, ulSuspendNesting[t]}, ThreadResume(t, levels)
      PROVE  IInv'
  BY <1>0, <1>b, <1>7, ThreadResumeKeeps DEF ThreadResume, SUSPEND
<1> QED BY <1>2, <1>3, <1>4, <1>5, <1>6, <1>7 DEF Environment

(* API_ThreadSetPriority.                                                    *)
LEMMA SetPriorityKeeps ==
  ASSUME IInv, NEW t \in Threads, NEW p \in Priorities, SetPriority(t, p)
  PROVE  IInv'
<1>0. /\ UNCHANGED mutexVars /\ UNCHANGED held /\ FALSE \in BOOLEAN
      /\ EvInv /\ EvCalls(FALSE) /\ EvHonest /\ HeldType' /\ ThreadSetPriority(t, p)
      /\ basePrio' \in [Threads -> Priorities] /\ \A u \in Threads : NoFlush(u)
  BY DEF SetPriority, IInv, MutexInv, HeldType
<1>1. /\ UNCHANGED kernVars /\ UNCHANGED <<wq, waitOn>>
      /\ UNCHANGED <<usStatus, waitOn, ucWaitTimeout, ucIsEventDelete, call, sig>>
  BY <1>0 DEF ThreadSetPriority, queueVars, waitVars
<1>2. EvInv' /\ EvCalls(FALSE)' /\ EvHonest' /\ OnlyLeaves
  BY <1>0, <1>1, ThreadSetPriorityKeeps, NotKernCalls, QuietLeaves
<1>3. \A u \in Threads : SameCall(u) /\ SameSigs(u)
  BY <1>0, <1>1, CtxKept DEF SameCall
<1> QED BY <1>0, <1>2, <1>3, AllClaimsSame, NoFlushSame, QuietStep

(* The end of a pend: what MPost handed over is counted as held.             *)
LEMMA PendReturnHolds ==
  ASSUME IInv, NEW t \in Threads, SemaphoreMPendReturn(t)
  PROVE  IInv'
<1>0. /\ FALSE \in BOOLEAN /\ PendReturn(t) /\ UNCHANGED mutexVars /\ UNCHANGED basePrio
      /\ EvInv /\ EvCalls(FALSE) /\ EvHonest /\ HeldType /\ \A u \in Threads : NoFlush(u)
      /\ basePrio' \in [Threads -> Priorities]
  BY DEF SemaphoreMPendReturn, IInv, MutexInv
<1>1. EvInv' /\ EvCalls(FALSE)' /\ EvHonest' /\ OnlyLeaves
  BY <1>0, PendReturnKeeps, PendReturnCalls, PendReturnLeaves
<1>2. /\ call[t] \in Call /\ SigType /\ SigType'
  BY <1>0, <1>1 DEF EvInv, EventType, CallType
<1>3. /\ UNCHANGED sig /\ call[t].pc = "pend" /\ "SEM" \notin usStatus[t]
      /\ \A u \in Threads : u # t => call'[u] = call[u]
      /\ call[t].ret = "NONE" => call'[t] = Running
      /\ call'[t].pc # "pend" /\ call'[t].got \in {"no", call[t].got}
  <2>1. /\ UNCHANGED sig /\ call[t].pc = "pend" /\ "SEM" \notin usStatus[t]
        /\ \A u \in Threads : u # t => call'[u] = call[u]
    BY <1>0, PendReturnCases DEF IsReady
  <2>2. /\ GoesOn(t) => call'[t] = Running
        /\ ~GoesOn(t) => call'[t].pc = "again" /\ call'[t].got = call[t].got
    BY <1>0, PendReturnCases
  <2> QED BY <2>1, <2>2, RunningCall DEF GoesOn
<1>4. Honest(call[t], call[t].ret, ucWaitTimeout[t], ucIsEventDelete[t])
  BY <1>0, <1>3 DEF EvHonest, HonestCall
<1>5. call[t].got = "token" <=>
        call[t].ret = "NONE" /\ PendResult(ucWaitTimeout[t], ucIsEventDelete[t]) = "ERROR_NONE"
  BY <1>0, <1>4 DEF Honest, PendResult, NoFlush
<1>6. \A u \in Threads : SameSigs(u)
  BY <1>0, <1>3, CtxKept
<1>7. HeldType' /\ \A e \in Events : SameClaims(e)
  <2>1. CASE call[t].got = "token" /\ call[t].ev # Null
    <3>1. PICK d \in Events : d = call[t].ev
      BY <1>2, <2>1 DEF Call
    <3>2. PICK n \in Nat : n = held[t][d] + 1
      BY <1>0 DEF HeldType
    <3>3. held' = [held EXCEPT ![t][d] = n]
      BY <1>5, <2>1, <3>1, <3>2 DEF SemaphoreMPendReturn, Acquired
    <3>4. /\ HeldType' /\ held'[t][d] = n
          /\ \A e \in Events : e # d => held'[t][e] = held[t][e]
          /\ \A u \in Threads : u # t => held'[u] = held[u]
      BY <1>0, <3>3, HeldChanges
    <3>5. ASSUME NEW e \in Events, NEW u \in Threads PROVE Claims(u, e)' = Claims(u, e)
      <4>1. CASE u # t
        BY <1>2, <1>3, <1>6, <3>4, <4>1, ClaimSame DEF SameCall
      <4>2. CASE u = t
        <5>1. PICK c \in Nat : /\ Claims(t, e) = held[t][e] + Tok(call[t], e) + c
                               /\ Claims(t, e)' = held'[t][e] + Tok(call'[t], e) + c
          BY <1>2, <1>6, ClaimStep
        <5>2. Tok(call'[t], e) = 0 /\ Tok(call[t], e) = IF e = d THEN 1 ELSE 0
          BY <1>3, <2>1, <3>1 DEF Tok, HandedOver
        <5>3. held[t][e] \in Nat /\ held'[t][e] = IF e = d THEN held[t][e] + 1 ELSE held[t][e]
          BY <1>0, <3>2, <3>4 DEF HeldType
        <5> QED BY <4>2, <5>1, <5>2, <5>3
      <4> QED BY <4>1, <4>2
    <3> QED BY <3>4, <3>5 DEF SameClaims
  <2>2. CASE ~(call[t].got = "token" /\ call[t].ev # Null)
    <3>1. UNCHANGED held
      BY <1>5, <2>2 DEF SemaphoreMPendReturn
    <3>2. HeldType'
      BY <1>0, <3>1 DEF HeldType
    <3>3. ASSUME NEW e \in Events, NEW u \in Threads PROVE Claims(u, e)' = Claims(u, e)
      <4>1. CASE u # t
        BY <1>2, <1>3, <1>6, <3>1, <4>1, ClaimSame DEF SameCall
      <4>2. CASE u = t
        <5>1. PICK c \in Nat : /\ Claims(t, e) = held[t][e] + Tok(call[t], e) + c
                               /\ Claims(t, e)' = held'[t][e] + Tok(call'[t], e) + c
          BY <1>2, <1>6, ClaimStep
        <5>2. Tok(call'[t], e) = 0 /\ Tok(call[t], e) = 0
          BY <1>3, <2>2, EventAssumption DEF Tok, HandedOver
        <5> QED BY <3>1, <4>2, <5>1, <5>2
      <4> QED BY <4>1, <4>2
    <3> QED BY <3>2, <3>3 DEF SameClaims
  <2> QED BY <2>1, <2>2
<1>8. \A u \in Threads : NoFlush(u)'
  BY <1>0, <1>3 DEF NoFlush
<1> QED BY <1>0, <1>1, <1>7, <1>8, QuietStep

-----------------------------------------------------------------------------
(* Calls that change one mutex.                                              *)

FieldsSame(e) ==
  /\ ucType'[e] = ucType[e] /\ ulCounter'[e] = ulCounter[e]
  /\ ulMaxCounter'[e] = ulMaxCounter[e] /\ pvTcbOwn'[e] = pvTcbOwn[e] /\ pvPtr'[e] = pvPtr[e]
  /\ e \in freeEvents' <=> e \in freeEvents
  /\ wq'[e] = wq[e]

(* The other mutexes stay as they were.                                      *)
LEMMA OneMutex ==
  ASSUME IInv, EvInv', EvCalls(FALSE)', EvHonest', MutexType', HeldType',
         basePrio' \in [Threads -> Priorities], Sections', \A u \in Threads : NoFlush(u)',
         NEW d \in Events, EventOK(d)',
         \A e \in Events : e # d => FieldsSame(e) /\ SameSection(e) /\ SameClaims(e)
  PROVE  IInv'
<1>1. ASSUME NEW e \in Events, e # d PROVE EventOK(e)'
  <2>1. EventOK(e)
    BY DEF IInv, MutexInv
  <2> QED BY <1>1, <2>1, EventSame DEF FieldsSame
<1> QED BY <1>1 DEF IInv, MutexInv

(* What a thread finds when it comes into the kernel.                        *)
LEMMA ThreadSees ==
  ASSUME IInv, ThreadEnter, NEW e \in Events
  PROVE  /\ ~Posting(e) /\ ~Deleting(e) /\ Has(e) = pvTcbOwn[e]
         /\ ucType[e] \in {"UNUSED", "MUTEX"} /\ ulCounter[e] \in BOOLEAN
         /\ pvTcbOwn[e] \in Threads \cup {Null} /\ pvPtr[e] \in 0..MaxRecursion
         /\ OwnerOK(e) /\ Counts(e) /\ Null \notin Threads /\ MaxRecursion \in Nat
         /\ EvInv /\ EvCalls(FALSE) /\ EvHonest /\ MutexType /\ HeldType
         /\ basePrio \in [Threads -> Priorities] /\ SigType
<1>1. ~Posting(e) /\ ~Deleting(e)
  BY DEF Posting, Deleting, ThreadEnter
<1>2. /\ EvInv /\ EvCalls(FALSE) /\ EvHonest /\ MutexType /\ HeldType /\ EventOK(e)
      /\ basePrio \in [Threads -> Priorities]
  BY DEF IInv, MutexInv
<1>3. SigType
  BY <1>2 DEF EvInv, EventType
<1>4. ulCounter[e] \in BOOLEAN
  BY <1>2 DEF MutexType
<1>5. /\ ucType[e] \in {"UNUSED", "MUTEX"} /\ pvTcbOwn[e] \in Threads \cup {Null}
      /\ pvPtr[e] \in 0..MaxRecursion
  BY <1>2 DEF MutexType
<1>6. Null \notin Threads /\ MaxRecursion \in Nat
  BY EventAssumption, SemaphoreMAssumption
<1> QED BY <1>1, <1>2, <1>3, <1>4, <1>5, <1>6 DEF EventOK, Has

(* API_SemaphoreMCreate.                                                     *)
LEMMA SemaphoreMCreateKeeps ==
  ASSUME IInv, NEW e \in Events, NEW ceiling \in Ceilings, NEW option \in Options,
         SemaphoreMCreate(e, ceiling, option)
  PROVE  IInv'
<1>0. /\ ThreadEnter /\ e \in freeEvents /\ FALSE \in BOOLEAN
      /\ UNCHANGED held /\ UNCHANGED basePrio
  BY DEF SemaphoreMCreate
<1>1. /\ OwnerOK(e) /\ Counts(e) /\ ~Posting(e) /\ ~Deleting(e) /\ EvInv /\ MutexType
  BY <1>0, ThreadSees
<1>2. ucType[e] = "UNUSED" /\ pvTcbOwn[e] = Null /\ wq[e] = <<>>
  BY <1>0, <1>1 DEF OwnerOK
<1>3. wqNum[e] = 0 /\ wq \in [Events -> Seq(Threads)] /\ wqNum \in [Events -> Int]
  BY <1>1, <1>2 DEF EvInv, QueuesAgree, EventType, QueueType
<1>4. wq' = wq /\ wqNum' = wqNum
  BY <1>2, <1>3 DEF SemaphoreMCreate
<1>5. UNCHANGED eventVars
  BY <1>4 DEF SemaphoreMCreate, eventVars, queueVars
<1>6. /\ UNCHANGED <<usStatus, waitOn, ucWaitTimeout, ucIsEventDelete, call, sig>>
      /\ UNCHANGED kernVars
  BY <1>5 DEF eventVars, waitVars
<1>7. EvInv' /\ EvCalls(FALSE)' /\ EvHonest'
  BY <1>0, <1>5, <1>6, EventSameKeeps, NotKernCalls DEF IInv
<1>8. Sections' /\ \A d : SameSection(d)
  BY <1>6, SectionAfter
<1>9. \A u \in Threads : SameCall(u) /\ SameSigs(u)
  BY <1>0, <1>6, CtxKept DEF SameCall
<1>10. \A d \in Events : SameClaims(d)
  BY <1>0, <1>7, <1>9, AllClaimsSame
<1>11. \A u \in Threads : NoFlush(u)'
  BY <1>9, NoFlushSame DEF IInv, MutexInv
<1>12. HeldType' /\ basePrio' \in [Threads -> Priorities]
  BY <1>0 DEF IInv, MutexInv, HeldType
<1>13. MutexType'
  BY <1>1, SemaphoreMAssumption DEF MutexType, SemaphoreMCreate
<1>14. /\ ucType'[e] = "MUTEX" /\ ulCounter'[e] /\ pvTcbOwn'[e] = Null /\ pvPtr'[e] = 0
       /\ e \notin freeEvents'
       /\ \A d \in Events : d # e => FieldsSame(d)
  BY <1>1, <1>4 DEF MutexType, SemaphoreMCreate, FieldsSame
<1>15. EventOK(e)'
  <2>1. OwnerOK(e)'
    BY <1>1, <1>2, <1>4, <1>8, <1>14 DEF OwnerOK, SameSection
  <2>2. Has(e)' = Null /\ Has(e) = Null
    BY <1>1, <1>2, <1>8, <1>14 DEF Has, SameSection
  <2>3. Counts(e)'
    BY <1>1, <1>10, <2>2, EventAssumption DEF Counts, SameClaims
  <2> QED BY <2>1, <2>3 DEF EventOK
<1> QED BY <1>7, <1>8, <1>10, <1>11, <1>12, <1>13, <1>14, <1>15, OneMutex

(* A thread is back from its call without waiting.                           *)
LEMMA RunningStep ==
  ASSUME IInv, NEW t \in Threads, IsReady(t), call[t].pc # "pend",
         call' = [call EXCEPT ![t] = Running],
         UNCHANGED <<queueVars, waitVars, ring, ucPriority, ucIsEventDelete>>,
         UNCHANGED <<kernVars, ulSuspendNesting, sig>>, HeldType'
  PROVE  /\ EvInv' /\ EvCalls(FALSE)' /\ EvHonest' /\ OnlyLeaves
         /\ UNCHANGED kernVars /\ UNCHANGED wq
         /\ \A u \in Threads : NoFlush(u)'
         /\ \A u \in Threads, e \in Events : \E c \in Nat :
              Claims(u, e) = held[u][e] + c /\ Claims(u, e)' = held'[u][e] + c
<1>0. /\ FALSE \in BOOLEAN /\ EvInv /\ EvCalls(FALSE) /\ EvHonest
      /\ \A u \in Threads : NoFlush(u)
      /\ UNCHANGED kernVars /\ UNCHANGED <<wq, wqNum, usStatus, inRing, waitOn, ulSuspendNesting>>
      /\ UNCHANGED <<usStatus, waitOn, ucWaitTimeout, ucIsEventDelete, sig>>
      /\ UNCHANGED <<wq, waitOn>> /\ UNCHANGED sig /\ UNCHANGED wq
  BY DEF IInv, MutexInv, queueVars, waitVars
<1>1. /\ call'[t] = Running /\ \A u \in Threads : u # t => call'[u] = call[u]
      /\ CallType' /\ SigType /\ SigType' /\ FlagType' /\ PrioType'
  BY <1>0, RunningCall DEF EvInv, EventType, CallType, SigType, FlagType, PrioType, waitVars
<1>2. \A u \in Threads : "SEM" \in usStatus[u] =>
             /\ SameWait(u)
             /\ ucWaitTimeout'[u] = ucWaitTimeout[u]
             /\ ucIsEventDelete'[u] = ucIsEventDelete[u]
  BY <1>0, <1>1 DEF SameWait, IsReady
<1>3. /\ KernType'
      /\ \A i \in 1..nest' : OldFrame(i) \/ NoTcb(i)
      /\ \A u \in Threads : InLimbo(u)' <=> InLimbo(u)
  BY <1>0, KernSame
<1>4. EvInv'
  BY <1>0, <1>1, <1>2, <1>3, QuietKeeps
<1>5. EvCalls(FALSE)' /\ EvHonest' /\ OnlyLeaves
  BY <1>0, RunningCalls, QuietLeaves
<1>6. \A u \in Threads : NoFlush(u)'
  BY <1>0, <1>1, RunningCall DEF NoFlush
<1>7. ASSUME NEW u \in Threads, NEW e \in Events
      PROVE  \E c \in Nat : Claims(u, e) = held[u][e] + c /\ Claims(u, e)' = held'[u][e] + c
  <2>1. SameSigs(u)
    BY <1>0, CtxKept
  <2>2. PICK c \in Nat : /\ Claims(u, e) = held[u][e] + Tok(call[u], e) + c
                         /\ Claims(u, e)' = held'[u][e] + Tok(call'[u], e) + c
    BY <1>1, <2>1, ClaimStep
  <2>3. Tok(call'[u], e) = Tok(call[u], e) /\ Tok(call[u], e) \in {0, 1}
    BY <1>1, RunningCall DEF Tok, HandedOver
  <2>4. held[u][e] \in Nat /\ held'[u][e] \in Nat
    BY DEF IInv, MutexInv, HeldType
  <2>5. PICK z \in Nat : z = Tok(call[u], e) + c
    BY <2>3
  <2>6. Claims(u, e) = held[u][e] + z /\ Claims(u, e)' = held'[u][e] + z
    BY <2>2, <2>3, <2>4, <2>5
  <2> QED BY <2>6
<1> QED BY <1>0, <1>4, <1>5, <1>6, <1>7

-----------------------------------------------------------------------------
(* API_SemaphoreMPend.                                                       *)

(* A pend that fails.                                                        *)
LEMMA PendFailsKeeps ==
  ASSUME IInv, NEW t \in Threads, NEW e \in Events, NEW timeout,
         IsReady(t), call[t].pc # "pend", PendFails(t, e, timeout),
         UNCHANGED <<kernVars, ulSuspendNesting, sig, basePrio>>
  PROVE  IInv'
<1>0. /\ UNCHANGED mutexVars /\ UNCHANGED held /\ call' = [call EXCEPT ![t] = Running]
      /\ UNCHANGED <<queueVars, waitVars, ring, ucPriority, ucIsEventDelete>>
      /\ UNCHANGED <<kernVars, ulSuspendNesting, sig>>
  BY DEF PendFails
<1>1. HeldType' /\ basePrio' \in [Threads -> Priorities]
  BY <1>0 DEF IInv, MutexInv, HeldType
<1>2. /\ EvInv' /\ EvCalls(FALSE)' /\ EvHonest' /\ OnlyLeaves /\ \A u \in Threads : NoFlush(u)'
      /\ \A u \in Threads, d \in Events : \E c \in Nat :
           Claims(u, d) = held[u][d] + c /\ Claims(u, d)' = held'[u][d] + c
  BY <1>0, <1>1, RunningStep
<1>3. \A d \in Events : SameClaims(d)
  BY <1>0, <1>2 DEF SameClaims
<1> QED BY <1>0, <1>1, <1>2, <1>3, QuietStep

(* A pend that gets the mutex: t is counted once more.                       *)
LEMMA AcquiredStep ==
  ASSUME IInv, NEW t \in Threads, NEW e \in Events, IsReady(t), call[t].pc # "pend",
         call' = [call EXCEPT ![t] = Running], Acquired(t, e),
         UNCHANGED <<queueVars, waitVars, ring, ucPriority, ucIsEventDelete>>,
         UNCHANGED <<kernVars, ulSuspendNesting, sig>>
  PROVE  /\ EvInv' /\ EvCalls(FALSE)' /\ EvHonest' /\ HeldType'
         /\ UNCHANGED kernVars /\ UNCHANGED wq
         /\ \A u \in Threads : NoFlush(u)'
         /\ Claims(t, e)' = Claims(t, e) + 1
         /\ \A u \in Threads : u # t => Claims(u, e)' = Claims(u, e)
         /\ \A d \in Events : d # e => SameClaims(d)
<1>1. HeldType
  BY DEF IInv, MutexInv
<1>2. PICK n \in Nat : n = held[t][e] + 1
  BY <1>1 DEF HeldType
<1>3. held' = [held EXCEPT ![t][e] = n]
  BY <1>2 DEF Acquired
<1>4. /\ HeldType' /\ held'[t][e] = n
      /\ \A d \in Events : d # e => held'[t][d] = held[t][d]
      /\ \A u \in Threads : u # t => held'[u] = held[u]
  BY <1>1, <1>3, HeldChanges
<1>5. /\ EvInv' /\ EvCalls(FALSE)' /\ EvHonest' /\ UNCHANGED kernVars /\ UNCHANGED wq
      /\ \A u \in Threads : NoFlush(u)'
      /\ \A u \in Threads, d \in Events : \E c \in Nat :
           Claims(u, d) = held[u][d] + c /\ Claims(u, d)' = held'[u][d] + c
  BY <1>4, RunningStep
<1>6. Claims(t, e)' = Claims(t, e) + 1
  <2>1. PICK c \in Nat : Claims(t, e) = held[t][e] + c /\ Claims(t, e)' = held'[t][e] + c
    BY <1>5
  <2>2. held[t][e] \in Nat
    BY <1>1 DEF HeldType
  <2> QED BY <1>2, <1>4, <2>1, <2>2
<1>7. \A u \in Threads : u # t => Claims(u, e)' = Claims(u, e)
  BY <1>4, <1>5
<1>8. \A d \in Events : d # e => SameClaims(d)
  BY <1>4, <1>5 DEF SameClaims
<1> QED BY <1>4, <1>5, <1>6, <1>7, <1>8

(* A pend that finds the mutex free.                                         *)
LEMMA PendTakesKeeps ==
  ASSUME IInv, NEW t \in Threads, NEW e \in Events, ThreadEnter, IsReady(t), call[t].pc # "pend",
         PendTakes(t, e), UNCHANGED <<kernVars, ulSuspendNesting, sig, basePrio>>
  PROVE  IInv'
<1>0. /\ UNCHANGED <<queueVars, waitVars, ring, ucPriority, ucIsEventDelete>>
      /\ UNCHANGED <<kernVars, ulSuspendNesting, sig>> /\ UNCHANGED basePrio
      /\ call' = [call EXCEPT ![t] = Running] /\ Acquired(t, e)
      /\ ucType[e] = "MUTEX" /\ ulCounter[e]
  BY DEF PendTakes
<1>1. /\ ~Posting(e) /\ ~Deleting(e) /\ Has(e) = pvTcbOwn[e] /\ OwnerOK(e) /\ Counts(e)
      /\ pvPtr[e] \in 0..MaxRecursion /\ MutexType /\ Null \notin Threads /\ EvInv
      /\ basePrio \in [Threads -> Priorities]
  BY ThreadSees
<1>2. /\ EvInv' /\ EvCalls(FALSE)' /\ EvHonest' /\ HeldType'
      /\ UNCHANGED kernVars /\ UNCHANGED wq
      /\ \A u \in Threads : NoFlush(u)'
      /\ Claims(t, e)' = Claims(t, e) + 1
      /\ \A u \in Threads : u # t => Claims(u, e)' = Claims(u, e)
      /\ \A d \in Events : d # e => SameClaims(d)
  BY <1>0, AcquiredStep
<1>3. Sections' /\ \A d : SameSection(d)
  BY <1>2, SectionAfter
<1>4. ucPriority[t] \in Priorities
  BY <1>1 DEF EvInv, EventType, PrioType
<1>5. MutexType'
  BY <1>1, <1>4 DEF MutexType, PendTakes
<1>6. /\ ucType'[e] = "MUTEX" /\ ~ulCounter'[e] /\ pvTcbOwn'[e] = t /\ pvPtr'[e] = pvPtr[e]
      /\ ulMaxCounter'[e] \in Priorities /\ freeEvents' = freeEvents
      /\ \A d \in Events : d # e => FieldsSame(d)
  BY <1>0, <1>1, <1>2, <1>4 DEF MutexType, PendTakes, FieldsSame
<1>7. EventOK(e)'
  <2>1. OwnerOK(e)'
    BY <1>0, <1>1, <1>3, <1>6 DEF OwnerOK, SameSection
  <2>2. pvTcbOwn[e] = Null /\ pvPtr[e] = 0
    BY <1>0, <1>1 DEF OwnerOK
  <2>3. \A u \in Threads : Claims(u, e) = 0
    BY <1>1, <2>2 DEF Counts
  <2>4. Has(e)' = t
    BY <1>1, <1>3, <1>6 DEF Has, SameSection
  <2>5. Counts(e)'
    BY <1>2, <1>6, <2>2, <2>3, <2>4 DEF Counts
  <2> QED BY <2>1, <2>5 DEF EventOK
<1> QED BY <1>0, <1>1, <1>2, <1>3, <1>5, <1>6, <1>7, OneMutex

(* The owner pends once more.                                                *)
LEMMA PendRecursesKeeps ==
  ASSUME IInv, NEW t \in Threads, NEW e \in Events, ThreadEnter, IsReady(t), call[t].pc # "pend",
         PendRecurses(t, e), UNCHANGED <<kernVars, ulSuspendNesting, sig, basePrio>>
  PROVE  IInv'
<1>0. /\ UNCHANGED <<queueVars, waitVars, ring, ucPriority, ucIsEventDelete>>
      /\ UNCHANGED <<kernVars, ulSuspendNesting, sig>> /\ UNCHANGED basePrio
      /\ call' = [call EXCEPT ![t] = Running] /\ Acquired(t, e)
      /\ ucType[e] = "MUTEX" /\ ~ulCounter[e] /\ pvTcbOwn[e] = t /\ pvPtr[e] < MaxRecursion
      /\ UNCHANGED <<ucType, freeEvents, ulCounter, ulMaxCounter, pvTcbOwn>>
  BY DEF PendRecurses
<1>1. /\ ~Posting(e) /\ ~Deleting(e) /\ Has(e) = pvTcbOwn[e] /\ OwnerOK(e) /\ Counts(e)
      /\ pvPtr[e] \in 0..MaxRecursion /\ MaxRecursion \in Nat /\ MutexType
      /\ basePrio \in [Threads -> Priorities]
  BY ThreadSees
<1>2. /\ EvInv' /\ EvCalls(FALSE)' /\ EvHonest' /\ HeldType'
      /\ UNCHANGED kernVars /\ UNCHANGED wq
      /\ \A u \in Threads : NoFlush(u)'
      /\ Claims(t, e)' = Claims(t, e) + 1
      /\ \A u \in Threads : u # t => Claims(u, e)' = Claims(u, e)
      /\ \A d \in Events : d # e => SameClaims(d)
  BY <1>0, AcquiredStep
<1>3. Sections' /\ \A d : SameSection(d)
  BY <1>2, SectionAfter
<1>4. PICK n \in 0..MaxRecursion : n = pvPtr[e] + 1
  BY <1>0, <1>1
<1>5. pvPtr' = [pvPtr EXCEPT ![e] = n]
  BY <1>4 DEF PendRecurses
<1>6. MutexType'
  BY <1>0, <1>1, <1>5 DEF MutexType, PendRecurses
<1>7. pvPtr'[e] = n /\ \A d \in Events : d # e => FieldsSame(d)
  BY <1>0, <1>1, <1>2, <1>5 DEF MutexType, FieldsSame
<1>8. EventOK(e)'
  <2>1. OwnerOK(e)'
    BY <1>0, <1>1, <1>2, <1>3 DEF OwnerOK, SameSection
  <2>2. Has(e)' = t /\ Has(e) = t
    BY <1>0, <1>1, <1>3 DEF Has, SameSection
  <2>3. Counts(e)'
    BY <1>1, <1>2, <1>4, <1>7, <2>2 DEF Counts
  <2> QED BY <2>1, <2>3 DEF EventOK
<1> QED BY <1>0, <1>1, <1>2, <1>3, <1>6, <1>7, <1>8, OneMutex

(* A pend that waits, after the owner was boosted.                           *)
LEMMA PendWaitsKeeps ==
  ASSUME IInv, NEW t \in Threads, NEW e \in Events, NEW timeout \in Timeouts,
         ThreadEnter, IsReady(t), call[t].pc # "pend",
         PendWaits(t, e, timeout), UNCHANGED <<kernVars, ulSuspendNesting, sig, basePrio>>
  PROVE  IInv'
<1> DEFINE c == [pc |-> "pend", ev |-> e, left |-> timeout,
                 inter |-> ulOption[e].inter, ret |-> "NONE", got |-> "no"]
<1>0. /\ UNCHANGED mutexVars /\ UNCHANGED held /\ FALSE \in BOOLEAN /\ UNCHANGED sig
      /\ UNCHANGED <<kernVars, ulSuspendNesting, sig>> /\ UNCHANGED basePrio /\ UNCHANGED kernVars
      /\ ucType[e] = "MUTEX" /\ ~ulCounter[e] /\ EventPrioTryBoost(e, t)
      /\ UNCHANGED <<ucType, freeEvents, ulCounter, ulMaxCounter, pvTcbOwn, pvPtr>>
  BY DEF PendWaits, mutexVars
<1>1. /\ ~Posting(e) /\ ~Deleting(e) /\ OwnerOK(e) /\ Counts(e) /\ pvTcbOwn[e] \in Threads \cup {Null}
      /\ EvInv /\ EvCalls(FALSE) /\ EvHonest /\ MutexType /\ HeldType /\ SigType
      /\ basePrio \in [Threads -> Priorities]
  BY ThreadSees
<1>2. ulOption[e] \in [prio : BOOLEAN, inter : BOOLEAN, inherit : BOOLEAN, kind : Kinds]
  BY <1>1, SemaphoreMAssumption DEF MutexType
<1>3. Waiting(c, e)
  <2>1. ulOption[e].inter \in BOOLEAN
    BY <1>2
  <2> QED BY <2>1 DEF Waiting, Call, SchedRets, Got
<1>4. call' = [call EXCEPT ![t] = c] /\ EventWait(e, t, ulOption[e].prio, timeout # Infinite, ucPriority')
  BY DEF PendWaits
<1>5. c.pc = "pend" /\ c.ev = e /\ c.got = "no"
  OBVIOUS
<1> HIDE DEF c
<1>6. (timeout # Infinite) \in BOOLEAN
  OBVIOUS
<1>7. ucPriority' \in [Threads -> Priorities]
  <2>1. pvTcbOwn[e] \in Threads
    BY <1>0, <1>1 DEF OwnerOK
  <2>2. ucPriority \in [Threads -> Priorities] /\ ucCeilingPriority[e] \in Priorities
    BY <1>1, SemaphoreMAssumption DEF EvInv, EventType, PrioType, MutexType
  <2>3. PICK new \in Priorities :
          new = IF ulOption[e].inherit THEN ucPriority[t] ELSE ucCeilingPriority[e]
    BY <2>2
  <2>4. ucPriority' \in {ucPriority, [ucPriority EXCEPT ![pvTcbOwn[e]] = new]}
    BY <1>0, <2>3 DEF EventPrioTryBoost
  <2> QED BY <2>1, <2>2, <2>4
<1>8. EvInv'
  BY <1>0, <1>1, <1>3, <1>4, <1>6, <1>7, EventWaitKeeps
<1>9. EvCalls(FALSE)' /\ EvHonest'
  BY <1>0, <1>1, <1>3, <1>4, EventWaitCalls
<1>10. call'[t] = c /\ \A u \in Threads : u # t => call'[u] = call[u]
  BY <1>1, <1>4 DEF EvInv, EventType, CallType
<1>11. \A d \in Events : d # e => wq'[d] = wq[d]
  BY <1>1, <1>4 DEF EventWait, EvInv, EventType, QueueType
<1>12. ASSUME NEW d \in Events, NEW u \in Threads PROVE Claims(u, d)' = Claims(u, d)
  <2>1. SameSigs(u) /\ SigType'
    BY <1>0, <1>8, CtxKept DEF EvInv, EventType
  <2>2. CASE u # t
    BY <1>0, <1>1, <1>10, <2>1, <2>2, ClaimSame DEF SameCall
  <2>3. CASE u = t
    <3>1. Tok(call[t], d) = 0 /\ Tok(call'[t], d) = 0
      BY <1>5, <1>10 DEF Tok, HandedOver
    <3> QED BY <1>0, <1>1, <2>1, <2>3, <3>1, ClaimStep
  <2> QED BY <2>2, <2>3
<1>13. \A d \in Events : SameClaims(d)
  BY <1>12 DEF SameClaims
<1>14. Sections' /\ \A d : SameSection(d)
  BY <1>0, SectionAfter
<1>15. \A u \in Threads : NoFlush(u)'
  BY <1>0, <1>5, <1>10 DEF NoFlush, IInv, MutexInv
<1>16. MutexType' /\ HeldType' /\ \A d \in Events : d # e => FieldsSame(d)
  BY <1>0, <1>1, <1>11 DEF MutexType, HeldType, mutexVars, FieldsSame
<1>17. EventOK(e)'
  <2>1. OwnerOK(e)'
    BY <1>0, <1>1, <1>14 DEF OwnerOK, SameSection
  <2>2. Counts(e)'
    BY <1>0, <1>1, <1>13, <1>14 DEF Counts, Has, SameSection, SameClaims
  <2> QED BY <2>1, <2>2 DEF EventOK
<1> QED BY <1>0, <1>1, <1>8, <1>9, <1>13, <1>14, <1>15, <1>16, <1>17, OneMutex

(* API_SemaphoreMPend, the first time and again after a signal.              *)
LEMMA SemaphoreMPendKeeps ==
  ASSUME IInv, NEW t \in Threads,
         \/ \E e \in Events, timeout \in Timeouts : SemaphoreMPend(t, e, timeout)
         \/ SemaphoreMPendAgain(t)
  PROVE  IInv'
<1>1. ASSUME NEW e \in Events, NEW timeout \in Timeouts, IsReady(t), call[t].pc # "pend",
             PendSection(t, e, timeout)
      PROVE  IInv'
  <2>1. ThreadEnter /\ UNCHANGED <<kernVars, ulSuspendNesting, sig, basePrio>>
    BY <1>1 DEF PendSection
  <2> QED BY <1>1, <2>1, PendFailsKeeps, PendTakesKeeps, PendRecursesKeeps, PendWaitsKeeps
          DEF PendSection
<1>2. CASE \E e \in Events, timeout \in Timeouts : SemaphoreMPend(t, e, timeout)
  BY <1>1, <1>2 DEF SemaphoreMPend
<1>3. CASE SemaphoreMPendAgain(t)
  <2>1. call[t].pc = "again" /\ call[t].got = "no" /\ call[t] \in Call
    BY <1>3 DEF SemaphoreMPendAgain, IInv, EvHonest, HonestCall, EvInv, EventType, CallType
  <2>2. call[t].ev \in Events /\ call[t].left \in Timeouts
    BY <2>1 DEF IInv, EvCalls, HasEvent, Call
  <2> QED BY <1>1, <1>3, <2>1, <2>2 DEF SemaphoreMPendAgain
<1> QED BY <1>2, <1>3

-----------------------------------------------------------------------------
(* API_SemaphoreMPost.                                                       *)

(* A thread gives one hold up, and nothing else of it changes.               *)
LEMMA ReleasedStep ==
  ASSUME IInv, NEW t \in Threads, NEW e \in Events, held[t][e] > 0, Released(t, e)
  PROVE  /\ HeldType' /\ held'[t][e] = held[t][e] - 1 /\ held[t][e] \in Nat \ {0}
         /\ \A d \in Events : d # e => held'[t][d] = held[t][d]
         /\ \A u \in Threads : u # t => held'[u] = held[u]
<1>1. HeldType
  BY DEF IInv, MutexInv
<1>2. held[t][e] \in Nat \ {0}
  BY <1>1 DEF HeldType
<1>3. PICK n \in Nat : n = held[t][e] - 1
  BY <1>2
<1>4. held' = [held EXCEPT ![t][e] = n]
  BY <1>3 DEF Released
<1>5. /\ HeldType' /\ held'[t][e] = n
      /\ \A d \in Events : d # e => held'[t][d] = held[t][d]
      /\ \A u \in Threads : u # t => held'[u] = held[u]
  BY <1>1, <1>4, HeldChanges
<1> QED BY <1>2, <1>3, <1>5

(* A post that wakes nobody.                                                 *)
LEMMA GivesUp ==
  ASSUME IInv, NEW t \in Threads, NEW e \in Events, held[t][e] > 0, Released(t, e),
         UNCHANGED eventVars
  PROVE  /\ EvInv' /\ EvCalls(FALSE)' /\ EvHonest' /\ HeldType'
         /\ Sections' /\ (\A d : SameSection(d)) /\ UNCHANGED wq
         /\ \A u \in Threads : NoFlush(u)'
         /\ Claims(t, e)' = Claims(t, e) - 1 /\ Claims(t, e) \in Nat
         /\ \A u \in Threads : u # t => Claims(u, e)' = Claims(u, e)
         /\ \A d \in Events : d # e => SameClaims(d)
<1>1. /\ HeldType' /\ held'[t][e] = held[t][e] - 1 /\ held[t][e] \in Nat \ {0}
      /\ \A d \in Events : d # e => held'[t][d] = held[t][d]
      /\ \A u \in Threads : u # t => held'[u] = held[u]
  BY ReleasedStep
<1>2. /\ UNCHANGED <<usStatus, waitOn, ucWaitTimeout, ucIsEventDelete, call, sig>>
      /\ UNCHANGED kernVars /\ UNCHANGED wq /\ FALSE \in BOOLEAN
  BY DEF eventVars, waitVars, queueVars
<1>3. EvInv' /\ EvCalls(FALSE)' /\ EvHonest'
  BY <1>2, EventSameKeeps, NotKernCalls DEF IInv
<1>4. Sections' /\ \A d : SameSection(d)
  BY <1>2, SectionAfter
<1>5. \A u \in Threads : SameCall(u) /\ SameSigs(u)
  BY <1>2, CtxKept DEF SameCall
<1>6. SigType /\ SigType' /\ \A u \in Threads : NoFlush(u)'
  BY <1>3, <1>5, NoFlushSame DEF IInv, EvInv, EventType, MutexInv
<1>7. \A d \in Events, u \in Threads : u # t \/ d # e => Claims(u, d)' = Claims(u, d)
  BY <1>1, <1>5, <1>6, ClaimSame
<1>8. Claims(t, e)' = Claims(t, e) - 1 /\ Claims(t, e) \in Nat
  <2>1. PICK c \in Nat : /\ Claims(t, e) = held[t][e] + Tok(call[t], e) + c
                         /\ Claims(t, e)' = held'[t][e] + Tok(call'[t], e) + c
    BY <1>5, <1>6, ClaimStep
  <2>2. Tok(call'[t], e) = Tok(call[t], e) /\ Tok(call[t], e) \in Nat
    BY <1>2 DEF Tok
  <2> QED BY <1>1, <2>1, <2>2
<1> QED BY <1>1, <1>2, <1>3, <1>4, <1>6, <1>7, <1>8 DEF SameClaims

(* The owner posts one of several pends.                                     *)
LEMMA PostRecursedKeeps ==
  ASSUME IInv, NEW t \in Threads, NEW e \in Events, ThreadEnter, ucType[e] = "MUTEX",
         pvTcbOwn[e] = t, held[t][e] > 0, PostRecursed(e), Released(t, e), UNCHANGED basePrio
  PROVE  IInv'
<1>0. /\ UNCHANGED eventVars /\ pvPtr[e] > 0
      /\ UNCHANGED <<ucType, freeEvents, ulCounter, ulMaxCounter, pvTcbOwn>>
  BY DEF PostRecursed, Recursed
<1>1. /\ ~Posting(e) /\ ~Deleting(e) /\ Has(e) = pvTcbOwn[e] /\ OwnerOK(e) /\ Counts(e)
      /\ pvPtr[e] \in 0..MaxRecursion /\ MaxRecursion \in Nat /\ MutexType /\ Null \notin Threads
      /\ basePrio \in [Threads -> Priorities] /\ ulCounter[e] \in BOOLEAN
  BY ThreadSees
<1>2. /\ EvInv' /\ EvCalls(FALSE)' /\ EvHonest' /\ HeldType'
      /\ Sections' /\ (\A d : SameSection(d)) /\ UNCHANGED wq
      /\ \A u \in Threads : NoFlush(u)'
      /\ Claims(t, e)' = Claims(t, e) - 1
      /\ \A u \in Threads : u # t => Claims(u, e)' = Claims(u, e)
      /\ \A d \in Events : d # e => SameClaims(d)
  BY <1>0, GivesUp
<1>4. PICK n \in 0..MaxRecursion : n = pvPtr[e] - 1
  BY <1>0, <1>1
<1>5. pvPtr' = [pvPtr EXCEPT ![e] = n]
  BY <1>4 DEF PostRecursed
<1>6. MutexType'
  BY <1>0, <1>1, <1>5 DEF MutexType, PostRecursed
<1>7. pvPtr'[e] = n /\ \A d \in Events : d # e => FieldsSame(d)
  BY <1>0, <1>1, <1>2, <1>5 DEF MutexType, FieldsSame
<1>8. EventOK(e)'
  <2>0. ~ulCounter[e]
    BY <1>1 DEF OwnerOK
  <2>1. OwnerOK(e)'
    BY <1>0, <1>1, <1>2, <2>0 DEF OwnerOK, SameSection
  <2>2. Has(e)' = t /\ Has(e) = t
    BY <1>0, <1>1, <1>2 DEF Has, SameSection
  <2>3. Claims(t, e) = pvPtr[e] + 1 /\ \A u \in Threads : u # t => Claims(u, e) = 0
    BY <1>1, <2>2 DEF Counts
  <2>4. Claims(t, e)' = n + 1
    BY <1>1, <1>2, <1>4, <2>3
  <2>5. Counts(e)'
    BY <1>2, <1>7, <2>2, <2>3, <2>4 DEF Counts
  <2> QED BY <2>1, <2>5 DEF EventOK
<1> QED BY <1>1, <1>2, <1>6, <1>7, <1>8, OneMutex

(* The owner posts and nobody waits.                                         *)
LEMMA PostFreesKeeps ==
  ASSUME IInv, NEW t \in Threads, NEW e \in Events, ThreadEnter, ucType[e] = "MUTEX",
         pvTcbOwn[e] = t, held[t][e] > 0, PostFrees(e), Released(t, e), UNCHANGED basePrio
  PROVE  IInv'
<1>0. /\ UNCHANGED eventVars /\ ~(pvPtr[e] > 0) /\ EventWaitNum(e) = 0
      /\ UNCHANGED <<ucType, freeEvents, pvPtr>>
  BY DEF PostFrees, Recursed
<1>1. /\ ~Posting(e) /\ ~Deleting(e) /\ Has(e) = pvTcbOwn[e] /\ OwnerOK(e) /\ Counts(e)
      /\ pvPtr[e] \in 0..MaxRecursion /\ MaxRecursion \in Nat /\ MutexType /\ Null \notin Threads
      /\ basePrio \in [Threads -> Priorities] /\ EvInv
  BY ThreadSees
<1>2. /\ EvInv' /\ EvCalls(FALSE)' /\ EvHonest' /\ HeldType'
      /\ Sections' /\ (\A d : SameSection(d)) /\ UNCHANGED wq
      /\ \A u \in Threads : NoFlush(u)'
      /\ Claims(t, e)' = Claims(t, e) - 1
      /\ \A u \in Threads : u # t => Claims(u, e)' = Claims(u, e)
      /\ \A d \in Events : d # e => SameClaims(d)
  BY <1>0, GivesUp
<1>3. pvPtr[e] = 0 /\ wq[e] = <<>>
  BY <1>0, <1>1, NoWaiterFacts
<1>6. MutexType'
  BY <1>0, <1>1 DEF MutexType, PostFrees
<1>7. /\ ulCounter'[e] /\ pvTcbOwn'[e] = Null
      /\ \A d \in Events : d # e => FieldsSame(d)
  BY <1>0, <1>1, <1>2 DEF MutexType, FieldsSame, PostFrees
<1>8. EventOK(e)'
  <2>1. OwnerOK(e)'
    BY <1>0, <1>1, <1>2, <1>3, <1>7 DEF OwnerOK, SameSection
  <2>2. Has(e)' = Null /\ Has(e) = t
    BY <1>1, <1>2, <1>7 DEF Has, SameSection
  <2>3. Claims(t, e) = 1 /\ \A u \in Threads : u # t => Claims(u, e) = 0
    BY <1>1, <1>3, <2>2 DEF Counts
  <2>4. Claims(t, e)' = 0
    BY <1>2, <2>3
  <2>5. Counts(e)'
    BY <1>1, <1>2, <2>2, <2>3, <2>4 DEF Counts
  <2> QED BY <2>1, <2>5 DEF EventOK
<1> QED BY <1>1, <1>2, <1>6, <1>7, <1>8, OneMutex

(* The first waiter of e leaves its queue, to own the mutex or because it is *)
(* deleted.                                                                  *)
LEMMA TakeStep ==
  ASSUME IInv, NEW op \in {"post", "delete"}, NEW e \in Events, AtTop(1), nest \in {0, 1},
         TakeFirst(op, e, 0, 1), HeldType'
  PROVE  /\ EvInv' /\ EvCalls(FALSE)' /\ EvHonest' /\ Sections'
         /\ \A d : Posting(d)' <=> op = "post" /\ d = e
         /\ \A d : Deleting(d)' <=> op = "delete" /\ d = e
         /\ \A u \in Threads : NoFlush(u)'
         /\ \A d \in Events : d # e => wq'[d] = wq[d]
         /\ wq[e] # <<>>
         /\ \E w \in Threads :
              /\ ~IsReady(w) /\ frames'[1].tcb = w
              /\ \A u \in Threads, d \in Events : \E c \in Nat :
                   /\ Claims(u, d) = held[u][d] + c
                   /\ Claims(u, d)' = held'[u][d] + c
                                        + (IF op = "post" /\ d = e /\ u = w THEN 1 ELSE 0)
<1>a. op \in Ops \ {"tick"}
  BY DEF Ops
<1>b. 0 \in Nat /\ 1 \in 1..MaxNest
  BY EventAssumption
<1>0. /\ FALSE \in BOOLEAN /\ EvInv /\ EvCalls(FALSE) /\ EvHonest /\ op \in Ops \ {"tick"}
      /\ 0 \in Nat /\ 1 \in 1..MaxNest /\ HeldType /\ \A u \in Threads : NoFlush(u)
  BY <1>a, <1>b DEF IInv, MutexInv
<1>1. EvInv' /\ EvCalls(FALSE)' /\ EvHonest'
  BY <1>0, TakeFirstKeeps, TakeFirstCalls
<1>2. PICK w \in Threads :
        /\ waitOn[w] = e /\ "SEM" \in usStatus[w] /\ call[w].got = "no" /\ call[w].pc = "pend"
        /\ call'[w].pc = "pend" /\ call'[w].ev = call[w].ev /\ call'[w].got = GotOf(op)
        /\ \A u \in Threads : u # w => call'[u] = call[u]
        /\ wq' = [wq EXCEPT ![e] = Tail(wq[e])]
        /\ nest' = 1 /\ frames'[1].op = op /\ frames'[1].ev = e /\ frames'[1].tcb = w
        /\ UNCHANGED sig
  BY <1>0, TakeFirstFacts
<1>3. wq[e] # <<>>
  BY <1>0, FirstWaiterFacts DEF TakeFirst
<1>4. /\ Sections' /\ \A d : Posting(d)' <=> op = "post" /\ d = e
      /\ \A d : Deleting(d)' <=> op = "delete" /\ d = e
  BY <1>2 DEF Sections, Posting, Deleting
<1>5. \A d \in Events : d # e => wq'[d] = wq[d]
  BY <1>0, <1>2 DEF EvInv, EventType, QueueType
<1>6. GotOf(op) = IF op = "post" THEN "token" ELSE "deleted"
  BY DEF GotOf
<1>7. \A u \in Threads : NoFlush(u)'
  BY <1>0, <1>2, <1>6 DEF NoFlush
<1>8. ~IsReady(w)
  BY <1>2 DEF IsReady
<1>9. call[w].ev = e
  BY <1>0, <1>2 DEF EvCalls
<1>10. SigType /\ SigType'
  BY <1>0, <1>1 DEF EvInv, EventType
<1>11. ASSUME NEW u \in Threads, NEW d \in Events
       PROVE  \E c \in Nat :
                   /\ Claims(u, d) = held[u][d] + c
                   /\ Claims(u, d)' = held'[u][d] + c
                                        + (IF op = "post" /\ d = e /\ u = w THEN 1 ELSE 0)
  <2>1. SameSigs(u)
    BY <1>0, <1>2, CtxKept
  <2>2. PICK c \in Nat : /\ Claims(u, d) = held[u][d] + Tok(call[u], d) + c
                         /\ Claims(u, d)' = held'[u][d] + Tok(call'[u], d) + c
    BY <1>10, <2>1, ClaimStep
  <2>3. /\ Tok(call[u], d) \in {0, 1}
        /\ Tok(call'[u], d) = Tok(call[u], d) + (IF op = "post" /\ d = e /\ u = w THEN 1 ELSE 0)
    <3>1. CASE u # w
      BY <1>2, <3>1 DEF Tok
    <3>2. CASE u = w
      BY <1>2, <1>6, <1>9, <3>2 DEF Tok, HandedOver
    <3> QED BY <3>1, <3>2
  <2>4. held[u][d] \in Nat /\ held'[u][d] \in Nat
    BY <1>0 DEF HeldType
  <2>5. PICK z \in Nat : z = Tok(call[u], d) + c
    BY <2>3
  <2>6. /\ Claims(u, d) = held[u][d] + z
        /\ Claims(u, d)' = held'[u][d] + z + (IF op = "post" /\ d = e /\ u = w THEN 1 ELSE 0)
    BY <2>2, <2>3, <2>4, <2>5
  <2> QED BY <2>6
<1> QED BY <1>1, <1>2, <1>3, <1>4, <1>5, <1>7, <1>8, <1>11

(* The owner posts and hands the mutex to the first waiter.                  *)
LEMMA PostHandsOverKeeps ==
  ASSUME IInv, NEW t \in Threads, NEW e \in Events, ThreadEnter, IsReady(t),
         ucType[e] = "MUTEX", pvTcbOwn[e] = t, held[t][e] > 0, PostHandsOver(e), Released(t, e),
         UNCHANGED basePrio
  PROVE  IInv'
<1>0. /\ ~(pvPtr[e] > 0) /\ UNCHANGED mutexVars
      /\ UNCHANGED <<ucType, freeEvents, ulCounter, ulMaxCounter, pvTcbOwn, pvPtr>>
      /\ nest = 0 /\ AtTop(1) /\ nest \in {0, 1}
  BY DEF PostHandsOver, Recursed, mutexVars, ThreadEnter, AtTop
<1>1. TakeFirst("post", e, 0, 1)
  <2>1. nest + 1 = 1
    BY <1>0
  <2> QED BY <2>1 DEF PostHandsOver
<1>2. /\ Has(e) = pvTcbOwn[e] /\ OwnerOK(e) /\ Counts(e)
      /\ pvPtr[e] \in 0..MaxRecursion /\ MaxRecursion \in Nat /\ MutexType /\ Null \notin Threads
      /\ basePrio \in [Threads -> Priorities] /\ EvInv /\ ~Posting(e) /\ ~Deleting(e)
  BY ThreadSees
<1>3. /\ HeldType' /\ held'[t][e] = held[t][e] - 1 /\ held[t][e] \in Nat \ {0}
      /\ \A d \in Events : d # e => held'[t][d] = held[t][d]
      /\ \A u \in Threads : u # t => held'[u] = held[u]
  BY ReleasedStep
<1>4. /\ EvInv' /\ EvCalls(FALSE)' /\ EvHonest' /\ Sections'
      /\ \A d : Posting(d)' <=> d = e
      /\ \A d : ~Deleting(d)'
      /\ \A u \in Threads : NoFlush(u)'
      /\ \A d \in Events : d # e => wq'[d] = wq[d]
      /\ wq[e] # <<>>
  BY <1>0, <1>1, <1>3, TakeStep
<1>p. PICK op \in {"post", "delete"} : op = "post"
  OBVIOUS
<1>5. PICK w \in Threads :
              /\ ~IsReady(w) /\ frames'[1].tcb = w
              /\ \A u \in Threads, d \in Events : \E c \in Nat :
                   /\ Claims(u, d) = held[u][d] + c
                   /\ Claims(u, d)' = held'[u][d] + c
                                        + (IF op = "post" /\ d = e /\ u = w THEN 1 ELSE 0)
  <2>1. TakeFirst(op, e, 0, 1)
    BY <1>1, <1>p
  <2> QED BY <1>0, <1>3, <2>1, TakeStep
<1>6. w # t
  BY <1>5
<1>7. pvPtr[e] = 0
  BY <1>0, <1>2
<1>8. \A d \in Events : d # e => SameClaims(d)
  <2> SUFFICES ASSUME NEW d \in Events, d # e, NEW u \in Threads PROVE Claims(u, d)' = Claims(u, d)
    BY DEF SameClaims
  <2>1. PICK c \in Nat : Claims(u, d) = held[u][d] + c /\ Claims(u, d)' = held'[u][d] + c + 0
    BY <1>5, <1>p
  <2>2. held'[u][d] = held[u][d] /\ held'[u][d] \in Nat
    BY <1>3 DEF HeldType
  <2> QED BY <2>1, <2>2
<1>9. Claims(w, e)' = 1 /\ \A u \in Threads : u # w => Claims(u, e)' = 0
  <2>1. Claims(t, e) = 1 /\ \A u \in Threads : u # t => Claims(u, e) = 0
    BY <1>2, <1>7 DEF Counts
  <2>2. Claims(w, e)' = 1
    <3>1. PICK c \in Nat : Claims(w, e) = held[w][e] + c /\ Claims(w, e)' = held'[w][e] + c + 1
      BY <1>5, <1>p
    <3>2. held'[w][e] = held[w][e] /\ held'[w][e] \in Nat
      BY <1>3, <1>6 DEF HeldType
    <3> QED BY <1>6, <2>1, <3>1, <3>2
  <2>3. ASSUME NEW u \in Threads, u # w PROVE Claims(u, e)' = 0
    <3>1. PICK c \in Nat : Claims(u, e) = held[u][e] + c /\ Claims(u, e)' = held'[u][e] + c + 0
      BY <1>5, <1>p, <2>3
    <3>2. CASE u = t
      BY <1>3, <2>1, <3>1, <3>2
    <3>3. CASE u # t
      <4>1. held'[u][e] = held[u][e] /\ held'[u][e] \in Nat
        BY <1>3, <3>3 DEF HeldType
      <4> QED BY <2>1, <3>1, <3>3, <4>1
    <3> QED BY <3>2, <3>3
  <2> QED BY <2>2, <2>3
<1>10. MutexType' /\ \A d \in Events : d # e => FieldsSame(d)
  BY <1>0, <1>2, <1>4 DEF MutexType, mutexVars, FieldsSame
<1>11. ASSUME NEW d \in Events, d # e PROVE SameSection(d)
  BY <1>0, <1>4, <1>11 DEF SameSection, Posting, Deleting
<1>12. EventOK(e)'
  <2>1. ~ulCounter[e]
    BY <1>2 DEF OwnerOK
  <2>2. OwnerOK(e)'
    BY <1>0, <1>2, <1>4, <1>5, <1>7, <2>1 DEF OwnerOK
  <2>3. Has(e)' = w
    BY <1>4, <1>5 DEF Has
  <2>4. Counts(e)'
    BY <1>0, <1>7, <1>9, <2>3 DEF Counts
  <2> QED BY <2>2, <2>4 DEF EventOK
<1> QED BY <1>2, <1>3, <1>4, <1>8, <1>10, <1>11, <1>12, OneMutex

(* API_SemaphoreMPost by the owner.                                          *)
LEMMA SemaphoreMPostKeeps ==
  ASSUME IInv, NEW t \in Threads, NEW e \in Events, SemaphoreMPost(t, e)
  PROVE  IInv'
<1>1. /\ ThreadEnter /\ IsReady(t) /\ ucType[e] = "MUTEX" /\ pvTcbOwn[e] = t /\ held[t][e] > 0
      /\ Released(t, e) /\ UNCHANGED basePrio
      /\ PostRecursed(e) \/ PostHandsOver(e) \/ PostFrees(e)
  BY DEF SemaphoreMPost
<1> QED BY <1>1, PostRecursedKeeps, PostHandsOverKeeps, PostFreesKeeps

-----------------------------------------------------------------------------
(* Out of the window of API_SemaphoreMPost.                                  *)

(* The waiter becomes the owner and is made ready.                           *)
LEMMA PostHighKeeps ==
  ASSUME IInv, PostHigh
  PROVE  IInv'
<1>0. PICK t : t = frames[nest].tcb
  OBVIOUS
<1>1. PICK e : e = frames[nest].ev
  OBVIOUS
<1>2. /\ nest > 0 /\ frames[nest].op = "post" /\ t # Null /\ EventReadyHighLevel(t)
      /\ ucPriority' = [ucPriority EXCEPT ![pvTcbOwn[e]] = ulMaxCounter[e]]
      /\ ulMaxCounter' = [ulMaxCounter EXCEPT ![e] = ucPriority'[t]]
      /\ pvTcbOwn' = [pvTcbOwn EXCEPT ![e] = t]
      /\ EndFrame(nest)
      /\ UNCHANGED <<queueVars, ring, ucIsEventDelete, ulSuspendNesting, call, sig, ucType,
                     freeEvents, ulCounter, pvPtr, ucCeilingPriority, ulOption, held, basePrio>>
  BY <1>0, <1>1 DEF PostHigh
<1>3. nest = 1 /\ e \in Events /\ frames[1].ev = e /\ frames[1].op = "post" /\ frames[1].tcb = t
  BY <1>0, <1>1, <1>2, SectionOpen
<1>4. Posting(e) /\ EventOK(e)
  BY <1>3 DEF Posting, IInv, MutexInv
<1>5. /\ t \in Threads /\ FALSE \in BOOLEAN
  BY <1>0, <1>2, HighFacts DEF IInv
<1>6. /\ ulMaxCounter[e] \in Priorities /\ pvTcbOwn[e] \in Threads /\ pvPtr[e] = 0
      /\ ucType[e] = "MUTEX" /\ e \notin freeEvents
  BY <1>3, <1>4 DEF EventOK, OwnerOK, IInv, MutexInv, MutexType
<1>7. ucPriority' \in [Threads -> Priorities]
  BY <1>2, <1>6 DEF IInv, EvInv, EventType, PrioType
<1>8. EvInv'
  BY <1>0, <1>2, <1>7, HighKeeps DEF IInv
<1>9. EvCalls(FALSE)' /\ EvHonest'
  BY <1>0, <1>2, <1>5, HighCalls DEF IInv
<1>10. \A u \in Threads : SameCall(u) /\ SameSigs(u)
  BY <1>2, <1>5, CtxKept DEF SameCall
<1>11. \A d \in Events : SameClaims(d)
  BY <1>2, <1>8, <1>10, AllClaimsSame
<1>12. \A u \in Threads : NoFlush(u)'
  BY <1>10, NoFlushSame DEF IInv, MutexInv
<1>13. Sections' /\ \A d : ~Posting(d)' /\ ~Deleting(d)'
  BY <1>2, <1>3, SectionAfter
<1>14. \A d \in Events : d # e => SameSection(d)
  BY <1>3, <1>13 DEF SameSection, Posting, Deleting
<1>15. MutexType /\ HeldType' /\ basePrio' \in [Threads -> Priorities] /\ UNCHANGED wq
  BY <1>2 DEF IInv, MutexInv, HeldType, queueVars
<1>16. MutexType'
  BY <1>2, <1>3, <1>5, <1>7, <1>15 DEF MutexType
<1>17. /\ pvTcbOwn'[e] = t /\ ulMaxCounter'[e] \in Priorities
       /\ \A d \in Events : d # e => FieldsSame(d)
  BY <1>2, <1>3, <1>5, <1>7, <1>15 DEF MutexType, FieldsSame
<1>18. EventOK(e)'
  <2>1. ~ulCounter[e]
    BY <1>4, <1>6, EventAssumption DEF EventOK, OwnerOK
  <2>2. OwnerOK(e)'
    BY <1>2, <1>5, <1>6, <1>13, <1>17, <2>1, EventAssumption DEF OwnerOK
  <2>3. Has(e)' = t /\ Has(e) = t
    BY <1>3, <1>4, <1>13, <1>17 DEF Has
  <2>4. Counts(e)'
    BY <1>2, <1>3, <1>4, <1>11, <2>3 DEF Counts, SameClaims, EventOK
  <2> QED BY <2>2, <2>4 DEF EventOK
<1> QED BY <1>3, <1>8, <1>9, <1>11, <1>12, <1>13, <1>14, <1>15, <1>16, <1>17, <1>18, OneMutex

-----------------------------------------------------------------------------
(* API_SemaphoreMDelete.                                                     *)

(* A waiter is told of the deletion and made ready.                          *)
LEMMA DeleteHighKeeps ==
  ASSUME IInv, DeleteHigh
  PROVE  IInv'
<1>0. PICK t : t = frames[nest].tcb
  OBVIOUS
<1>1. PICK f : f = frames[nest]
  OBVIOUS
<1>2. /\ nest > 0 /\ f.op = "delete" /\ t # Null /\ f.tcb = t /\ EventReadyHighLevel(t)
      /\ ucIsEventDelete' = [ucIsEventDelete EXCEPT ![t] = "DELETE"]
      /\ SetFrame(nest, [f EXCEPT !.tcb = Null])
      /\ UNCHANGED <<queueVars, ring, ucPriority, ulSuspendNesting, call, sig, mutexVars,
                     held, basePrio>>
  BY <1>0, <1>1 DEF DeleteHigh
<1>3. nest = 1 /\ f.ev \in Events /\ f = frames[1] /\ f \in Frame
  BY <1>1, <1>2, SectionOpen
<1>4. t \in Threads /\ FALSE \in BOOLEAN
  BY <1>0, <1>2, HighFacts DEF IInv
<1>5. \E g \in Frame : g.tcb = Null /\ g.op = "delete" /\ g.ev = f.ev /\ SetFrame(nest, g)
  <2> DEFINE g == [f EXCEPT !.tcb = Null]
  <2>1. g \in Frame /\ g.tcb = Null /\ g.op = f.op /\ g.ev = f.ev
    BY <1>3 DEF Frame
  <2> HIDE DEF g
  <2>2. SetFrame(nest, g)
    BY <1>2 DEF g
  <2> QED BY <1>2, <2>1, <2>2
<1>6. /\ UNCHANGED <<queueVars, ring, ulSuspendNesting, call, sig>> /\ UNCHANGED <<call, sig>>
      /\ UNCHANGED mutexVars /\ UNCHANGED held /\ UNCHANGED basePrio /\ UNCHANGED wq
      /\ UNCHANGED <<ucType, freeEvents, ulCounter, ulMaxCounter, pvTcbOwn, pvPtr>>
      /\ ucPriority' \in [Threads -> Priorities]
  BY <1>2 DEF mutexVars, queueVars, IInv, EvInv, EventType, PrioType
<1>7. EvInv'
  BY <1>0, <1>2, <1>5, <1>6, HighKeeps DEF IInv
<1>8. EvCalls(FALSE)' /\ EvHonest'
  BY <1>0, <1>1, <1>2, <1>4, <1>6, HighCalls DEF IInv
<1>9. \A u \in Threads : SameCall(u) /\ SameSigs(u)
  BY <1>4, <1>6, CtxKept DEF SameCall
<1>10. \A d \in Events : SameClaims(d)
  BY <1>6, <1>7, <1>9, AllClaimsSame
<1>11. \A u \in Threads : NoFlush(u)'
  BY <1>9, NoFlushSame DEF IInv, MutexInv
<1>12. Sections' /\ \A d : SameSection(d)
  <2>1. PICK g \in Frame : g.op = "delete" /\ g.ev = f.ev /\ SetFrame(1, g)
    BY <1>3, <1>5
  <2>2. Sections' /\ (\A d : ~Posting(d)') /\ \A d : Deleting(d)' <=> g.ev = d
    BY <1>3, <2>1, SectionAfter
  <2> QED BY <1>2, <1>3, <2>1, <2>2 DEF SameSection, Posting, Deleting
<1>13. MutexType' /\ HeldType' /\ basePrio' \in [Threads -> Priorities]
  BY <1>6 DEF IInv, MutexInv, MutexType, HeldType, mutexVars
<1>14. ASSUME NEW d \in Events PROVE EventOK(d)'
  <2>1. EventOK(d)
    BY DEF IInv, MutexInv
  <2> QED BY <1>6, <1>10, <1>12, <2>1, EventSame
<1> QED BY <1>7, <1>8, <1>11, <1>12, <1>13, <1>14 DEF IInv, MutexInv

(* What is left of a call when e is forgotten.                               *)
LostEvent(b, c, e) ==
  /\ b.pc = c.pc /\ b.ret = c.ret /\ b.got = c.got
  /\ b.ev = IF c.ev = e /\ c.got = "token" THEN Null ELSE c.ev

(* Forget takes the event of a call that has its token.                      *)
LEMMA ForgetCall ==
  ASSUME NEW c \in Call, NEW e \in Events
  PROVE  Forget(c, e) \in Call /\ LostEvent(Forget(c, e), c, e)
<1>1. [c EXCEPT !.ev = Null] \in Call
  BY DEF Call
<1> QED BY <1>1 DEF Forget, Call, LostEvent

LostCtx(x, y, e) == /\ LostEvent(x.call, y.call, e)
                    /\ x.iSchedRet = y.iSchedRet /\ x.ucWaitTimeout = y.ucWaitTimeout
                    /\ x.ucIsEventDelete = y.ucIsEventDelete

(* The calls and the contexts after the last step of MDelete.                *)
LEMMA ForgetCalls ==
  ASSUME EventType, NEW e \in Events,
         call' = [t \in Threads |-> Forget(call[t], e)],
         sig' = [t \in Threads |-> [k \in DOMAIN sig[t] |->
                   [sig[t][k] EXCEPT !.call = Forget(@, e)]]]
  PROVE  /\ CallType' /\ SigType'
         /\ \A u \in Threads : /\ LostEvent(call'[u], call[u], e)
                               /\ Len(sig'[u]) = Len(sig[u])
                               /\ \A k \in 1..Len(sig[u]) : LostCtx(sig'[u][k], sig[u][k], e)
<1> USE DEF EventType
<1>1. \A u \in Threads : call'[u] \in Call /\ LostEvent(call'[u], call[u], e)
  BY ForgetCall DEF CallType
<1>2. CallType'
  BY <1>1 DEF CallType
<1>4. ASSUME NEW u \in Threads
      PROVE  /\ sig'[u] \in Seq(SigCtx) /\ Len(sig'[u]) = Len(sig[u])
             /\ \A k \in 1..Len(sig[u]) : LostCtx(sig'[u][k], sig[u][k], e)
  <2>1. sig[u] \in Seq(SigCtx) /\ DOMAIN sig[u] = 1..Len(sig[u]) /\ Len(sig[u]) \in Nat
    BY DEF SigType
  <2> DEFINE g(k) == [sig[u][k] EXCEPT !.call = Forget(sig[u][k].call, e)]
  <2>2. ASSUME NEW k \in 1..Len(sig[u])
        PROVE  g(k) \in SigCtx /\ LostCtx(g(k), sig[u][k], e)
    <3>0. sig[u][k] \in SigCtx
      BY <2>1, ElementOfSeq
    <3>1. sig[u][k] \in SigCtx /\ sig[u][k].call \in Call
      BY <3>0 DEF SigCtx
    <3>2. Forget(sig[u][k].call, e) \in Call /\ LostEvent(Forget(sig[u][k].call, e), sig[u][k].call, e)
      BY <3>1, ForgetCall
    <3>3. /\ g(k).call = Forget(sig[u][k].call, e) /\ g(k) \in SigCtx
          /\ g(k).iSchedRet = sig[u][k].iSchedRet
          /\ g(k).ucWaitTimeout = sig[u][k].ucWaitTimeout
          /\ g(k).ucIsEventDelete = sig[u][k].ucIsEventDelete
      BY <3>1, <3>2 DEF SigCtx
    <3> QED BY <3>2, <3>3 DEF LostCtx
  <2>3. sig'[u] = [k \in 1..Len(sig[u]) |-> g(k)]
    BY <2>1
  <2> HIDE DEF g
  <2>4. sig'[u] \in Seq(SigCtx) /\ Len(sig'[u]) = Len(sig[u])
    <3>1. sig'[u] \in [1..Len(sig[u]) -> SigCtx]
      BY <2>2, <2>3
    <3> QED BY <2>1, <3>1, FunctionIsSeq
  <2> QED BY <2>2, <2>3, <2>4
<1>5. SigType'
  BY <1>4 DEF SigType
<1> QED BY <1>1, <1>2, <1>4, <1>5

(* The last step of API_SemaphoreMDelete: nobody has the mutex any more, and *)
(* nobody else notices.                                                      *)
LEMMA ForgetKeeps ==
  ASSUME IInv, AtTop(1), nest \in {0, 1}, EndFrame(1), NEW e \in Events,
         ucPriority' \in [Threads -> Priorities],
         held' = [t \in Threads |-> [held[t] EXCEPT ![e] = 0]],
         call' = [t \in Threads |-> Forget(call[t], e)],
         sig' = [t \in Threads |-> [k \in DOMAIN sig[t] |->
                   [sig[t][k] EXCEPT !.call = Forget(@, e)]]],
         UNCHANGED <<queueVars, waitVars, ring, ucIsEventDelete, ulSuspendNesting>>
  PROVE  /\ EvInv' /\ EvCalls(FALSE)' /\ EvHonest' /\ HeldType' /\ UNCHANGED wq
         /\ \A u \in Threads : NoFlush(u)'
         /\ \A u \in Threads : Claims(u, e)' = 0
         /\ \A d \in Events : d # e => SameClaims(d)
<1>a. 1 \in 1..MaxNest /\ Null \notin Events
  BY EventAssumption
<1>0. /\ 1 \in 1..MaxNest /\ FALSE \in BOOLEAN /\ EvInv /\ EvCalls(FALSE) /\ EvHonest /\ HeldType
      /\ UNCHANGED <<wq, wqNum, usStatus, inRing, waitOn, ucWaitTimeout, ring,
                     ucIsEventDelete, ulSuspendNesting>> /\ UNCHANGED wq /\ Null \notin Events
      /\ SigType /\ EventType
  BY <1>a DEF queueVars, waitVars, IInv, MutexInv, EvInv, EventType
<1>1. /\ KernType'
      /\ \A i \in 1..nest' : OldFrame(i) \/ NoTcb(i)
      /\ \A u \in Threads : InLimbo(u)' <=> InLimbo(u)
  BY <1>0, TopQuiet
<1>2. /\ CallType' /\ SigType'
      /\ \A u \in Threads : /\ LostEvent(call'[u], call[u], e)
                            /\ Len(sig'[u]) = Len(sig[u])
                            /\ \A k \in 1..Len(sig[u]) : LostCtx(sig'[u][k], sig[u][k], e)
  BY <1>0, ForgetCalls
<1>3. FlagType' /\ PrioType'
  BY <1>0 DEF EventType, FlagType, PrioType
<1>4. \A u \in Threads : ~InLimbo(u)
  BY EventAssumption DEF AtTop, InLimbo, IInv, EvInv, EventType, KernType
<1>5. \A u \in Threads : "SEM" \in usStatus[u] => SameCall(u)
  BY <1>0, <1>2, <1>4 DEF EvInv, EvWait, WaitOK, LostEvent, SameCall
<1>6. EvInv'
  <2>1. \A u \in Threads : "SEM" \in usStatus[u] =>
            /\ SameWait(u)
            /\ ucWaitTimeout'[u] = ucWaitTimeout[u]
            /\ ucIsEventDelete'[u] = ucIsEventDelete[u]
    BY <1>0, <1>5 DEF SameWait, SameCall
  <2> QED BY <1>0, <1>1, <1>2, <1>3, <2>1, QuietKeeps
<1>7. ASSUME NEW b, NEW c, LostEvent(b, c, e)
      PROVE  /\ HasEvent(c, FALSE) => HasEvent(b, FALSE)
             /\ ~HandedOver(b, e)
             /\ \A d \in Events : d # e => (HandedOver(b, d) <=> HandedOver(c, d))
  BY <1>0, <1>7 DEF LostEvent, HasEvent, HandedOver
<1>8. EvCalls(FALSE)'
  <2> SUFFICES ASSUME NEW u \in Threads
               PROVE  /\ HasEvent(call'[u], FALSE)
                      /\ "SEM" \in usStatus'[u] => call'[u].ev = waitOn'[u]
                      /\ \A k \in 1..Len(sig'[u]) : HasEvent(sig'[u][k].call, FALSE)
    BY DEF EvCalls, HasEvent
  <2>1. HasEvent(call'[u], FALSE)
    BY <1>0, <1>2, <1>7 DEF EvCalls
  <2>2. "SEM" \in usStatus'[u] => call'[u].ev = waitOn'[u]
    BY <1>0, <1>5 DEF EvCalls, SameCall
  <2>3. \A k \in 1..Len(sig'[u]) : HasEvent(sig'[u][k].call, FALSE)
    <3> SUFFICES ASSUME NEW k \in 1..Len(sig'[u]) PROVE HasEvent(sig'[u][k].call, FALSE)
      OBVIOUS
    <3>1. k \in 1..Len(sig[u]) /\ HasEvent(sig[u][k].call, FALSE)
      BY <1>0, <1>2 DEF EvCalls
    <3>2. LostEvent(sig'[u][k].call, sig[u][k].call, e)
      BY <1>2, <3>1 DEF LostCtx
    <3> QED BY <1>7, <3>1, <3>2
  <2> QED BY <2>1, <2>2, <2>3
<1>9. EvHonest'
  <2> SUFFICES ASSUME NEW u \in Threads
               PROVE  HonestCall(u)' /\ \A k \in 1..Len(sig'[u]) : HonestCtx(sig'[u][k])
    BY DEF EvHonest, HonestCtx, Honest, CtxRet
  <2>1. HonestCall(u)'
    BY <1>0, <1>2 DEF EvHonest, HonestCall, Honest, LostEvent
  <2>2. SameEnds(u)
    BY <1>2 DEF SameEnds, SameEnd, LostCtx, LostEvent
  <2> QED BY <1>0, <2>1, <2>2, CtxKept DEF EvHonest
<1>10. \A u \in Threads : NoFlush(u)'
  <2> SUFFICES ASSUME NEW u \in Threads PROVE NoFlush(u)'
    OBVIOUS
  <2>1. NoFlush(u)
    BY DEF IInv, MutexInv
  <2>2. call'[u].got # "flush"
    BY <1>2, <2>1 DEF NoFlush, LostEvent
  <2>3. ASSUME NEW k \in 1..Len(sig'[u]) PROVE sig'[u][k].call.got # "flush"
    <3>1. k \in 1..Len(sig[u])
      BY <1>2
    <3>2. LostEvent(sig'[u][k].call, sig[u][k].call, e)
      BY <1>2, <3>1 DEF LostCtx
    <3> QED BY <2>1, <3>1, <3>2 DEF NoFlush, LostEvent
  <2> QED BY <2>2, <2>3 DEF NoFlush
<1>11. /\ HeldType'
       /\ \A u \in Threads : held'[u][e] = 0 /\ \A d \in Events : d # e => held'[u][d] = held[u][d]
  <2>1. ASSUME NEW u \in Threads
        PROVE  /\ held'[u] \in [Events -> Nat] /\ held'[u][e] = 0
               /\ \A d \in Events : d # e => held'[u][d] = held[u][d]
    <3>1. held[u] \in [Events -> Nat] /\ held'[u] = [held[u] EXCEPT ![e] = 0]
      BY <1>0 DEF HeldType
    <3> QED BY <3>1
  <2>2. held' \in [Threads -> [Events -> Nat]]
    BY <2>1
  <2> QED BY <2>1, <2>2 DEF HeldType
<1>12. ASSUME NEW u \in Threads PROVE Claims(u, e)' = 0
  <2>1. Ctx(u, e)' = {}
    <3>1. DOMAIN sig'[u] = 1..Len(sig[u])
      BY <1>2 DEF SigType
    <3> QED BY <1>2, <1>7, <3>1 DEF Ctx, LostCtx, HandedOver
  <2>2. Tok(call'[u], e) = 0
    BY <1>2, <1>7 DEF Tok
  <2>3. Claims(u, e)' = held'[u][e] + Tok(call'[u], e) + Cardinality(Ctx(u, e)')
    BY DEF Claims, Tok, Ctx, HandedOver
  <2>4. Cardinality({}) = 0
    BY FS_EmptySet
  <2> QED BY <1>11, <2>1, <2>2, <2>3, <2>4
<1>13. ASSUME NEW u \in Threads, NEW d \in Events, d # e PROVE Claims(u, d)' = Claims(u, d)
  <2>1. Ctx(u, d)' = Ctx(u, d)
    <3>1. DOMAIN sig'[u] = 1..Len(sig[u]) /\ DOMAIN sig[u] = 1..Len(sig[u])
      BY <1>0, <1>2 DEF SigType
    <3>2. \A k \in 1..Len(sig[u]) : HandedOver(sig'[u][k].call, d) <=> HandedOver(sig[u][k].call, d)
      <4> SUFFICES ASSUME NEW k \in 1..Len(sig[u])
                   PROVE  HandedOver(sig'[u][k].call, d) <=> HandedOver(sig[u][k].call, d)
        OBVIOUS
      <4>1. LostEvent(sig'[u][k].call, sig[u][k].call, e)
        BY <1>2 DEF LostCtx
      <4> QED BY <1>7, <1>13, <4>1
    <3> QED BY <3>1, <3>2 DEF Ctx, HandedOver
  <2>2. Tok(call'[u], d) = Tok(call[u], d)
    BY <1>2, <1>7, <1>13 DEF Tok
  <2>3. Claims(u, d)' = held'[u][d] + Tok(call'[u], d) + Cardinality(Ctx(u, d)')
    BY DEF Claims, Tok, Ctx, HandedOver
  <2>4. Claims(u, d) = held[u][d] + Tok(call[u], d) + Cardinality(Ctx(u, d))
    BY DEF Claims, Tok, Ctx
  <2> QED BY <1>11, <1>13, <2>1, <2>2, <2>3, <2>4
<1> QED BY <1>0, <1>6, <1>8, <1>9, <1>10, <1>11, <1>12, <1>13 DEF SameClaims

(* A waiter leaves the queue of a mutex that is deleted, with nothing.       *)
LEMMA DeleteTakes ==
  ASSUME IInv, AtTop(1), nest \in {0, 1}, NEW e \in Events, TakeFirst("delete", e, 0, 1),
         UNCHANGED held
  PROVE  /\ EvInv' /\ EvCalls(FALSE)' /\ EvHonest' /\ Sections' /\ HeldType'
         /\ \A d : ~Posting(d)' /\ (Deleting(d)' <=> d = e)
         /\ \A u \in Threads : NoFlush(u)'
         /\ \A d \in Events : d # e => wq'[d] = wq[d]
         /\ \A d \in Events : SameClaims(d)
<1>0. HeldType /\ HeldType'
  BY DEF IInv, MutexInv, HeldType
<1>p. PICK op \in {"post", "delete"} : op = "delete"
  OBVIOUS
<1>1. TakeFirst(op, e, 0, 1)
  BY <1>p
<1>2. /\ EvInv' /\ EvCalls(FALSE)' /\ EvHonest' /\ Sections'
      /\ \A d : Posting(d)' <=> op = "post" /\ d = e
      /\ \A d : Deleting(d)' <=> op = "delete" /\ d = e
      /\ \A u \in Threads : NoFlush(u)'
      /\ \A d \in Events : d # e => wq'[d] = wq[d]
  BY <1>0, <1>1, TakeStep
<1>w. PICK w \in Threads :
            /\ ~IsReady(w) /\ frames'[1].tcb = w
            /\ \A u \in Threads, d \in Events : \E c \in Nat :
                 /\ Claims(u, d) = held[u][d] + c
                 /\ Claims(u, d)' = held'[u][d] + c
                                      + (IF op = "post" /\ d = e /\ u = w THEN 1 ELSE 0)
  BY <1>0, <1>1, TakeStep
<1>3. \A d : ~Posting(d)' /\ (Deleting(d)' <=> d = e)
  BY <1>p, <1>2
<1>4. ASSUME NEW u \in Threads, NEW d \in Events PROVE Claims(u, d)' = Claims(u, d)
  <2>1. PICK c \in Nat : Claims(u, d) = held[u][d] + c /\ Claims(u, d)' = held'[u][d] + c + 0
    BY <1>p, <1>w
  <2>2. held'[u][d] = held[u][d] /\ held[u][d] \in Nat
    BY <1>0 DEF HeldType
  <2> QED BY <2>1, <2>2
<1> QED BY <1>0, <1>2, <1>3, <1>4 DEF SameClaims

(* A round of the loop of API_SemaphoreMDelete, or its end.                  *)
LEMMA DeleteLoopKeeps ==
  ASSUME IInv, AtTop(1), nest \in {0, 1}, NEW e \in Events,
         (nest = 0 /\ ucType[e] = "MUTEX") \/ Deleting(e),
         ucType' = [ucType EXCEPT ![e] = "UNUSED"], DeleteLoop(e, 1),
         UNCHANGED <<ulCounter, ulMaxCounter, pvPtr, ucCeilingPriority, ulOption, basePrio>>
  PROVE  IInv'
<1>0. /\ EventOK(e) /\ EvInv /\ MutexType /\ HeldType /\ basePrio' \in [Threads -> Priorities]
      /\ Null \notin Threads
      /\ UNCHANGED <<ulCounter, ulMaxCounter, pvPtr>>
  BY EventAssumption DEF IInv, MutexInv
<1>1. /\ ~Posting(e) /\ e \notin freeEvents /\ Has(e) = pvTcbOwn[e]
      /\ \A d \in Events : d # e => ~Posting(d) /\ ~Deleting(d)
  BY <1>0 DEF Posting, Deleting, EventOK, OwnerOK, Has
<1>2. ucType'[e] = "UNUSED" /\ \A d \in Events : d # e => ucType'[d] = ucType[d]
  BY <1>0 DEF MutexType
<1>3. CASE TakeFirst("delete", e, 0, 1) /\ UNCHANGED <<freeEvents, pvTcbOwn, held>>
  <2>0. HeldType' /\ UNCHANGED <<freeEvents, pvTcbOwn>>
    BY <1>0, <1>3 DEF HeldType
  <2>2. /\ EvInv' /\ EvCalls(FALSE)' /\ EvHonest' /\ Sections'
        /\ \A d : ~Posting(d)' /\ (Deleting(d)' <=> d = e)
        /\ \A u \in Threads : NoFlush(u)'
        /\ \A d \in Events : d # e => wq'[d] = wq[d]
        /\ \A d \in Events : SameClaims(d)
    BY <1>3, DeleteTakes
  <2>6. \A d \in Events : d # e => FieldsSame(d) /\ SameSection(d)
    BY <1>0, <1>1, <1>2, <2>0, <2>2 DEF FieldsSame, SameSection
  <2>7. MutexType'
    BY <1>0, <2>0 DEF MutexType
  <2>8. OwnerOK(e)'
    BY <1>0, <1>1, <1>2, <2>0, <2>2 DEF OwnerOK, EventOK
  <2>9. Has(e)' = Has(e)
    BY <1>1, <2>0, <2>2 DEF Has
  <2>10. Counts(e)'
    BY <1>0, <2>2, <2>9 DEF Counts, SameClaims, EventOK
  <2>11. EventOK(e)'
    BY <2>8, <2>10 DEF EventOK
  <2> QED BY <1>0, <2>0, <2>2, <2>6, <2>7, <2>11, OneMutex
<1>4. CASE /\ EventWaitNum(e) = 0
           /\ ucPriority' = IF pvTcbOwn[e] = Null THEN ucPriority
                            ELSE [ucPriority EXCEPT ![pvTcbOwn[e]] = ulMaxCounter[e]]
           /\ pvTcbOwn' = [pvTcbOwn EXCEPT ![e] = Null]
           /\ freeEvents' = freeEvents \cup {e}
           /\ held' = [t \in Threads |-> [held[t] EXCEPT ![e] = 0]]
           /\ call' = [t \in Threads |-> Forget(call[t], e)]
           /\ sig' = [t \in Threads |-> [k \in DOMAIN sig[t] |->
                       [sig[t][k] EXCEPT !.call = Forget(@, e)]]]
           /\ EndFrame(1)
           /\ UNCHANGED <<queueVars, waitVars, ring, ucIsEventDelete, ulSuspendNesting>>
  <2>1. wq[e] = <<>>
    BY <1>0, <1>4, NoWaiterFacts
  <2>2. ucPriority' \in [Threads -> Priorities]
    <3>1. ucPriority \in [Threads -> Priorities]
      BY <1>0 DEF EvInv, EventType, PrioType
    <3>2. pvTcbOwn[e] # Null => pvTcbOwn[e] \in Threads /\ ulMaxCounter[e] \in Priorities
      BY <1>0 DEF EventOK, OwnerOK, MutexType
    <3> QED BY <1>4, <3>1, <3>2
  <2>3. /\ EvInv' /\ EvCalls(FALSE)' /\ EvHonest' /\ HeldType' /\ UNCHANGED wq
        /\ \A u \in Threads : NoFlush(u)'
        /\ \A u \in Threads : Claims(u, e)' = 0
        /\ \A d \in Events : d # e => SameClaims(d)
    BY <1>4, <2>2, ForgetKeeps
  <2>4. Sections' /\ \A d : ~Posting(d)' /\ ~Deleting(d)'
    BY <1>4, SectionAfter
  <2>5. pvTcbOwn'[e] = Null /\ \A d \in Events : d # e => pvTcbOwn'[d] = pvTcbOwn[d]
    BY <1>0, <1>4 DEF MutexType
  <2>6. \A d \in Events : d # e => FieldsSame(d) /\ SameSection(d)
    BY <1>0, <1>1, <1>2, <1>4, <2>3, <2>4, <2>5 DEF FieldsSame, SameSection
  <2>7. MutexType'
    BY <1>0, <1>4 DEF MutexType
  <2>8. OwnerOK(e)'
    BY <1>0, <1>2, <2>1, <2>3, <2>4, <2>5 DEF OwnerOK
  <2>9. Has(e)' = Null
    BY <2>4, <2>5 DEF Has
  <2>10. Counts(e)'
    BY <1>0, <2>3, <2>9 DEF Counts
  <2>11. EventOK(e)'
    BY <2>8, <2>10 DEF EventOK
  <2> QED BY <1>0, <2>3, <2>4, <2>6, <2>7, <2>11, OneMutex
<1> QED BY <1>3, <1>4 DEF DeleteLoop, DeleteEnds

(* API_SemaphoreMDelete up to its first window, and a later round.           *)
LEMMA SemaphoreMDeleteKeeps ==
  ASSUME IInv, DeleteNext \/ \E e \in Events : SemaphoreMDelete(e)
  PROVE  IInv'
<1>1. ASSUME NEW e \in Events, SemaphoreMDelete(e) PROVE IInv'
  <2>1. nest = 0 /\ AtTop(1) /\ nest + 1 = 1 /\ nest \in {0, 1}
    BY <1>1 DEF SemaphoreMDelete, ThreadEnter, AtTop
  <2>2. DeleteLoop(e, 1)
    BY <1>1, <2>1 DEF SemaphoreMDelete
  <2> QED BY <1>1, <2>1, <2>2, DeleteLoopKeeps DEF SemaphoreMDelete
<1>2. CASE DeleteNext
  <2>1. /\ nest = 1 /\ frames[1].ev \in Events /\ frames[1].op = "delete" /\ frames[1].tcb = Null
    BY <1>2, SectionOpen DEF DeleteNext
  <2>2. PICK e \in Events : e = frames[1].ev
    BY <2>1
  <2>3. AtTop(1) /\ nest \in {0, 1} /\ Deleting(e) /\ DeleteLoop(e, 1)
    BY <1>2, <2>1, <2>2 DEF AtTop, Deleting, DeleteNext
  <2>4. ucType[e] = "UNUSED" /\ ucType \in [Events -> {"UNUSED", "MUTEX"}]
    BY <2>3 DEF IInv, MutexInv, MutexType, EventOK, OwnerOK
  <2>5. ucType' = [ucType EXCEPT ![e] = "UNUSED"]
    BY <1>2, <2>4 DEF DeleteNext
  <2>6. UNCHANGED <<ulCounter, ulMaxCounter, pvPtr, ucCeilingPriority, ulOption, basePrio>>
    BY <1>2 DEF DeleteNext
  <2> QED BY <2>3, <2>5, <2>6, DeleteLoopKeeps
<1> QED BY <1>1, <1>2

-----------------------------------------------------------------------------
(* The invariant always holds.                                               *)

(* No mutex is in use at the start.                                          *)
LEMMA InitIInv == Init => IInv
<1> SUFFICES ASSUME Init PROVE IInv
  OBVIOUS
<1>0. EventInit /\ FALSE \in BOOLEAN
  BY DEF Init
<1>1. EvInv /\ EvCalls(FALSE) /\ EvHonest
  BY <1>0, EvInit, CallsInit
<1>2. MutexType
  BY SemaphoreMAssumption DEF Init, MutexType
<1>3. HeldType /\ basePrio \in [Threads -> Priorities]
  BY DEF Init, EventInit, HeldType
<1>4. Sections /\ \A e : ~Posting(e) /\ ~Deleting(e)
  BY <1>0 DEF EventInit, Sections, Posting, Deleting
<1>5. \A t \in Threads : call[t] = Running /\ sig[t] = <<>> /\ \A e \in Events : held[t][e] = 0
  BY <1>0 DEF Init, EventInit
<1>6. \A t \in Threads : NoFlush(t)
  BY <1>5, RunningCall DEF NoFlush
<1>7. ASSUME NEW e \in Events PROVE EventOK(e)
  <2>1. OwnerOK(e)
    BY <1>4 DEF Init, EventInit, OwnerOK
  <2>2. ASSUME NEW t \in Threads PROVE Claims(t, e) = 0
    <3>1. Ctx(t, e) = {}
      BY <1>5 DEF Ctx
    <3>2. Tok(call[t], e) = 0
      BY <1>5, RunningCall DEF Tok, HandedOver
    <3>3. Claims(t, e) = held[t][e] + Tok(call[t], e) + Cardinality(Ctx(t, e))
      BY DEF Claims, Tok, Ctx
    <3>4. Cardinality({}) = 0
      BY FS_EmptySet
    <3> QED BY <1>5, <3>1, <3>2, <3>3, <3>4
  <2>3. Has(e) = Null
    BY <1>4 DEF Has, Init
  <2>4. Counts(e)
    BY <2>2, <2>3, EventAssumption DEF Counts
  <2> QED BY <2>1, <2>4 DEF EventOK
<1> QED BY <1>1, <1>2, <1>3, <1>4, <1>6, <1>7 DEF IInv, MutexInv

(* A step that changes nothing.                                              *)
LEMMA SameKeeps ==
  ASSUME IInv, UNCHANGED vars
  PROVE  IInv'
<1>0. /\ UNCHANGED eventVars /\ UNCHANGED mutexVars /\ UNCHANGED held /\ UNCHANGED basePrio
      /\ UNCHANGED kernVars /\ UNCHANGED <<wq, waitOn>> /\ FALSE \in BOOLEAN
      /\ UNCHANGED <<usStatus, waitOn, ucWaitTimeout, ucIsEventDelete, call, sig>>
  BY DEF vars, eventVars, waitVars, queueVars
<1>1. EvInv' /\ EvCalls(FALSE)' /\ EvHonest' /\ OnlyLeaves
  BY <1>0, EventSameKeeps, NotKernCalls, QuietLeaves DEF IInv
<1>2. \A u \in Threads : SameCall(u) /\ SameSigs(u)
  BY <1>0, CtxKept DEF SameCall
<1>3. HeldType' /\ basePrio' \in [Threads -> Priorities] /\ \A u \in Threads : NoFlush(u)'
  BY <1>0, <1>2, NoFlushSame DEF IInv, MutexInv, HeldType
<1> QED BY <1>0, <1>1, <1>2, <1>3, AllClaimsSame, QuietStep

(* Every step keeps the invariant.                                           *)
LEMMA NextIInv ==
  ASSUME IInv, IsrWakesPended = FALSE, MaxSig = 0 \/ MaxSuspend = 0, [Next]_vars
  PROVE  IInv'
<1>1. ASSUME NEW e \in Events, NEW c \in Ceilings, NEW o \in Options, SemaphoreMCreate(e, c, o)
      PROVE  IInv'
  BY <1>1, SemaphoreMCreateKeeps
<1>2. ASSUME NEW e \in Events, NEW t \in Threads, NEW timeout \in Timeouts,
             SemaphoreMPend(t, e, timeout)
      PROVE  IInv'
  BY <1>2, SemaphoreMPendKeeps
<1>3. ASSUME NEW e \in Events, NEW t \in Threads, SemaphoreMPost(t, e) PROVE IInv'
  BY <1>3, SemaphoreMPostKeeps
<1>4. ASSUME NEW e \in Events, SemaphoreMDelete(e) PROVE IInv'
  BY <1>4, SemaphoreMDeleteKeeps
<1>5. ASSUME NEW t \in Threads, SemaphoreMPendAgain(t) \/ SemaphoreMPendReturn(t) PROVE IInv'
  BY <1>5, SemaphoreMPendKeeps, PendReturnHolds
<1>6. ASSUME NEW t \in Threads, NEW p \in Priorities, SetPriority(t, p) PROVE IInv'
  BY <1>6, SetPriorityKeeps
<1>7. CASE PostHigh \/ DeleteHigh \/ DeleteNext \/ Environment
  BY <1>7, PostHighKeeps, DeleteHighKeeps, SemaphoreMDeleteKeeps, EnvironmentKeeps
<1>8. CASE UNCHANGED vars
  BY <1>8, SameKeeps
<1> QED BY <1>1, <1>2, <1>3, <1>4, <1>5, <1>6, <1>7, <1>8 DEF Next

(* The inductive invariant of the mutex holds always, for threads that are   *)
(* not both suspended and signalled and interrupt handlers that do not wake  *)
(* threads which wait without a timeout.                                     *)
THEOREM InductiveInvariant ==
  ASSUME IsrWakesPended = FALSE, MaxSig = 0 \/ MaxSuspend = 0 PROVE Spec => []IInv
<1>1. Init => IInv
  BY InitIInv
<1>2. IInv /\ [Next]_vars => IInv'
  BY NextIInv
<1> QED BY <1>1, <1>2, PTL DEF Spec

(* Every variable of the mutex keeps its type; nobody has more holds than    *)
(* EVENT_pvPtr can count.                                                    *)
THEOREM TypeCorrect ==
  ASSUME IsrWakesPended = FALSE, MaxSig = 0 \/ MaxSuspend = 0 PROVE Spec => []TypeOK
<1>1. IInv => TypeOK
  <2> SUFFICES ASSUME IInv PROVE TypeOK
    OBVIOUS
  <2>1. EventType /\ MutexType /\ HeldType /\ basePrio \in [Threads -> Priorities] /\ SigType
    BY DEF IInv, EvInv, MutexInv, EventType
  <2>2. ASSUME NEW t \in Threads, NEW e \in Events PROVE held[t][e] \in 0..MaxRecursion + 1
    <3>1. /\ Claims(t, e) = held[t][e] + Tok(call[t], e) + Cardinality(Ctx(t, e))
          /\ Cardinality(Ctx(t, e)) \in Nat /\ Tok(call[t], e) \in Nat
      BY <2>1, ClaimsAre
    <3>2. held[t][e] \in Nat /\ pvPtr[e] \in 0..MaxRecursion /\ MaxRecursion \in Nat
      BY <2>1, SemaphoreMAssumption DEF HeldType, MutexType
    <3>3. Claims(t, e) \in {0, pvPtr[e] + 1}
      BY DEF IInv, MutexInv, EventOK, Counts
    <3> QED BY <3>1, <3>2, <3>3
  <2>3. held \in [Threads -> [Events -> 0..MaxRecursion + 1]]
    <3>1. \A t \in Threads : held[t] \in [Events -> 0..MaxRecursion + 1]
      BY <2>1, <2>2 DEF HeldType
    <3> QED BY <2>1, <3>1 DEF HeldType
  <2> QED BY <2>1, <2>3 DEF TypeOK, MutexType
<1> QED BY <1>1, InductiveInvariant, PTL

(* Mutual exclusion (OneHolder): at any moment one thread at most has claims *)
(* on a mutex, and as many as EVENT_pvPtr says, through hand-over in the      *)
(* window of MPost, timeouts, signals, recursion and deletion.               *)
THEOREM OneHolderCorrect ==
  ASSUME IsrWakesPended = FALSE, MaxSig = 0 \/ MaxSuspend = 0 PROVE Spec => []OneHolder
<1>1. IInv => OneHolder
  <2> SUFFICES ASSUME IInv, NEW e \in Events, NEW t \in Threads
               PROVE  Claims(t, e) = IF t = Holder(e) THEN pvPtr[e] + 1 ELSE 0
    BY DEF OneHolder
  <2>1. Holder(e) = Has(e)
    BY HolderIs
  <2>2. Counts(e)
    BY DEF IInv, MutexInv, EventOK
  <2> QED BY <2>1, <2>2 DEF Counts
<1> QED BY <1>1, InductiveInvariant, PTL

(* A mutex that is free has no owner and nobody waits for it                 *)
(* (FreeMutexIdle): no pend passes a waiter and no waiter is left behind.  *)
THEOREM NobodyLeftBehind ==
  ASSUME IsrWakesPended = FALSE, MaxSig = 0 \/ MaxSuspend = 0 PROVE Spec => []FreeMutexIdle
<1>1. IInv => FreeMutexIdle
  BY DEF IInv, MutexInv, EventOK, OwnerOK, FreeMutexIdle
<1> QED BY <1>1, InductiveInvariant, PTL

-----------------------------------------------------------------------------
(* Priority inheritance.  A thread that owns a mutex neither owns nor waits  *)
(* for another one: _EventPrioTryResume gives back the priority saved for    *)
(* one mutex, whatever the owner inherits through others.                    *)
OneAtATime ==
  \A t \in Threads, e, f \in Events :
    pvTcbOwn[e] = t /\ e # f => pvTcbOwn[f] # t /\ waitOn[t] # f

(* The order of a queue by priority.  The owner may be in it as well, when   *)
(* it waits for a mutex that does not recurse, and is boosted where it is.   *)
Before(e, u, v) ==
  \/ ring[u] < ring[v]
  \/ ring[u] = ring[v] /\ (v = pvTcbOwn[e] \/ ucPriority[u] =< ucPriority[v])

(* The same after a step.                                                    *)
AfterStep(e, u, v) ==
  \/ ring'[u] < ring'[v]
  \/ ring'[u] = ring'[v] /\ (v = pvTcbOwn'[e] \/ ucPriority'[u] =< ucPriority'[v])

InPlace(e) ==
  \A i, j \in 1..Len(wq[e]) :
    /\ wq[e][i] # pvTcbOwn[e] => ring[wq[e][i]] = EventIndexQ(ucPriority[wq[e][i]])
    /\ i =< j => Before(e, wq[e][i], wq[e][j])

Ordered(e) == ulOption[e].prio => InPlace(e)

(* InheritBound for one mutex.                                               *)
Urgent(e) ==
  ucType[e] = "MUTEX" /\ ulOption[e].inherit =>
    \A i \in 1..Len(wq[e]) : ucPriority[Has(e)] =< ucPriority[wq[e][i]]

(* The thread that is inside API_SemaphoreMPost waits for nothing.           *)
PosterAwake(e) == Posting(e) => waitOn[pvTcbOwn[e]] = Null

PrioInv == \A e \in Events : Ordered(e) /\ Urgent(e) /\ PosterAwake(e)

(* A thread in a queue.                                                      *)
LEMMA WaiterAt ==
  ASSUME EvInv, NEW e \in Events, NEW i \in 1..Len(wq[e])
  PROVE  /\ wq[e][i] \in Threads /\ waitOn[wq[e][i]] = e /\ ~InLimbo(wq[e][i])
         /\ ucPriority[wq[e][i]] \in Nat /\ ring[wq[e][i]] \in Nat
<1>1. wq[e] \in Seq(Threads)
  BY DEF EvInv, EventType, QueueType
<1>2. wq[e][i] \in Threads /\ Contains(wq[e], wq[e][i])
  BY <1>1 DEF Contains
<1>3. waitOn[wq[e][i]] = e /\ ~InLimbo(wq[e][i])
  BY <1>2 DEF EvInv, QueuesAgree
<1>4. ring \in [Threads -> Nat] /\ ucPriority \in [Threads -> Priorities] /\ Priorities \subseteq Nat
  BY EventAssumption DEF EvInv, EventType, PrioType
<1>5. ring[wq[e][i]] \in Nat /\ ucPriority[wq[e][i]] \in Nat
  BY <1>2, <1>4
<1> QED BY <1>2, <1>3, <1>5

(* The queue of e grows no longer, and those in it keep their priorities.    *)
WaitersKeep(e) ==
  /\ Shrinks(wq'[e], wq[e])
  /\ \A i \in 1..Len(wq[e]) : /\ ucPriority'[wq[e][i]] = ucPriority[wq[e][i]]
                              /\ ring'[wq[e][i]] = ring[wq[e][i]]

(* A part of a queue in order is in order.                                   *)
LEMMA ShrinksOrdered ==
  ASSUME NEW e \in Events, Ordered(e), WaitersKeep(e), ulOption'[e] = ulOption[e],
         pvTcbOwn'[e] = pvTcbOwn[e]
  PROVE  Ordered(e)'
<1> SUFFICES ASSUME ulOption[e].prio, NEW i \in 1..Len(wq'[e]), NEW j \in 1..Len(wq'[e])
             PROVE  /\ wq'[e][i] # pvTcbOwn[e] =>
                         ring'[wq'[e][i]] = EventIndexQ(ucPriority'[wq'[e][i]])
                    /\ i =< j => AfterStep(e, wq'[e][i], wq'[e][j])
  BY DEF Ordered, InPlace, Before, AfterStep, EventIndexQ
<1>0. InPlace(e) /\ i =< i
  BY DEF Ordered
<1>1. PICK a \in 1..Len(wq[e]) : wq'[e][i] = wq[e][a]
  BY <1>0 DEF WaitersKeep, Shrinks
<1>2. wq'[e][i] # pvTcbOwn[e] => ring'[wq'[e][i]] = EventIndexQ(ucPriority'[wq'[e][i]])
  BY <1>0, <1>1 DEF WaitersKeep, InPlace
<1>3. ASSUME i =< j PROVE AfterStep(e, wq'[e][i], wq'[e][j])
  <2>1. PICK c, d \in 1..Len(wq[e]) : c =< d /\ wq'[e][i] = wq[e][c] /\ wq'[e][j] = wq[e][d]
    BY <1>3 DEF WaitersKeep, Shrinks
  <2>2. Before(e, wq[e][c], wq[e][d])
    BY <1>0, <2>1 DEF InPlace
  <2>3. /\ ucPriority'[wq[e][c]] = ucPriority[wq[e][c]] /\ ring'[wq[e][c]] = ring[wq[e][c]]
        /\ ucPriority'[wq[e][d]] = ucPriority[wq[e][d]] /\ ring'[wq[e][d]] = ring[wq[e][d]]
    BY DEF WaitersKeep
  <2> QED BY <2>1, <2>2, <2>3 DEF Before, AfterStep
<1> QED BY <1>2, <1>3

(* So does the holder stay at least as urgent as those who are left.         *)
LEMMA ShrinksUrgent ==
  ASSUME IInv, IInv', NEW e \in Events, Urgent(e), WaitersKeep(e), ulOption'[e] = ulOption[e],
         ucType'[e] = "MUTEX" => ucType[e] = "MUTEX",
         Has(e)' = Has(e), Has(e) = Null \/ ucPriority'[Has(e)] = ucPriority[Has(e)]
  PROVE  Urgent(e)'
<1> SUFFICES ASSUME ucType[e] = "MUTEX", ulOption[e].inherit, NEW i \in 1..Len(wq'[e])
             PROVE  ucPriority'[Has(e)] =< ucPriority'[wq'[e][i]]
  BY DEF Urgent
<1>1. PICK a \in 1..Len(wq[e]) : wq'[e][i] = wq[e][a]
  <2>1. i =< i
    OBVIOUS
  <2> QED BY <2>1 DEF WaitersKeep, Shrinks
<1>2. ucPriority[Has(e)] =< ucPriority[wq[e][a]] /\ ucPriority'[wq[e][a]] = ucPriority[wq[e][a]]
  BY DEF Urgent, WaitersKeep
<1>3. Has(e) # Null
  <2>1. OwnerOK(e)
    BY DEF IInv, MutexInv, EventOK
  <2>2. wq[e] # <<>>
    <3>1. Len(<<>>) = 0
      OBVIOUS
    <3> QED BY <3>1
  <2>3. pvTcbOwn[e] # Null
    BY <2>1, <2>2 DEF OwnerOK
  <2> QED BY <2>1, <2>3 DEF Has, OwnerOK
<1> QED BY <1>1, <1>2, <1>3

(* An empty queue is in order.                                               *)
LEMMA EmptyPrio ==
  ASSUME NEW e \in Events, wq'[e] = <<>>
  PROVE  Ordered(e)' /\ Urgent(e)'
<1>1. 1..Len(wq'[e]) = {}
  OBVIOUS
<1> QED BY <1>1 DEF Ordered, InPlace, Urgent

(* What a step that hands nothing over has to show of a mutex.               *)
PrioKeeps(e) ==
  \/ wq'[e] = <<>>
  \/ /\ WaitersKeep(e) /\ ulOption'[e] = ulOption[e] /\ pvTcbOwn'[e] = pvTcbOwn[e]
     /\ ucType'[e] = "MUTEX" => ucType[e] = "MUTEX"
     /\ Has(e)' = Has(e) /\ (Has(e) = Null \/ ucPriority'[Has(e)] = ucPriority[Has(e)])

AwakeKeeps(e) ==
  Posting(e)' => /\ Posting(e) /\ pvTcbOwn'[e] = pvTcbOwn[e]
                 /\ waitOn'[pvTcbOwn[e]] \in {waitOn[pvTcbOwn[e]], Null}

(* Then the mutex is as it has to be.                                        *)
LEMMA PrioKept ==
  ASSUME IInv, IInv', PrioInv, NEW e \in Events
  PROVE  /\ PrioKeeps(e) => Ordered(e)' /\ Urgent(e)'
         /\ AwakeKeeps(e) => PosterAwake(e)'
<1>0. Ordered(e) /\ Urgent(e) /\ PosterAwake(e)
  BY DEF PrioInv
<1>1. PrioKeeps(e) => Ordered(e)' /\ Urgent(e)'
  BY <1>0, EmptyPrio, ShrinksOrdered, ShrinksUrgent DEF PrioKeeps
<1>2. AwakeKeeps(e) => PosterAwake(e)'
  BY <1>0 DEF AwakeKeeps, PosterAwake
<1> QED BY <1>1, <1>2

(* A step that changes no owner and no priority, and lets threads only leave.*)
LEMMA QuietPrio ==
  ASSUME IInv, IInv', PrioInv, UNCHANGED <<pvTcbOwn, ucPriority, ring, ulOption>>,
         \A e \in Events : ucType'[e] = "MUTEX" => ucType[e] = "MUTEX",
         \A e \in Events : Shrinks(wq'[e], wq[e]),
         \A u \in Threads : waitOn'[u] \in {waitOn[u], Null},
         \A e \in Events : Posting(e)' <=> Posting(e),
         \A e \in Events : Posting(e) => frames'[1].tcb = frames[1].tcb
  PROVE  PrioInv'
<1> SUFFICES ASSUME NEW e \in Events PROVE Ordered(e)' /\ Urgent(e)' /\ PosterAwake(e)'
  BY DEF PrioInv
<1>1. Has(e)' = Has(e)
  BY DEF Has
<1>2. WaitersKeep(e)
  BY DEF WaitersKeep
<1>3. PrioKeeps(e)
  BY <1>1, <1>2 DEF PrioKeeps
<1>4. AwakeKeeps(e)
  <2>1. Posting(e) => pvTcbOwn[e] \in Threads
    BY DEF IInv, MutexInv, EventOK, OwnerOK, MutexType
  <2> QED BY <2>1 DEF AwakeKeeps
<1> QED BY <1>3, <1>4, PrioKept

-----------------------------------------------------------------------------
(* The pend of a thread that has to wait: the owner is boosted, then the     *)
(* thread takes its place.                                                   *)

(* What _EventPrioTryBoost does to the priorities.                           *)
Boosted(e) ==
  /\ pvTcbOwn[e] \in Threads /\ ucPriority' \in [Threads -> Priorities]
  /\ ucPriority'[pvTcbOwn[e]] =< ucPriority[pvTcbOwn[e]]
  /\ \A u \in Threads : u # pvTcbOwn[e] => ucPriority'[u] = ucPriority[u]

(* The owner is at least as urgent as the thread that is about to wait.      *)
LEMMA BoostFacts ==
  ASSUME IInv, NEW t \in Threads, NEW e \in Events, pvTcbOwn[e] \in Threads,
         EventPrioTryBoost(e, t)
  PROVE  /\ Boosted(e) /\ ucPriority'[t] = ucPriority[t]
         /\ ulOption[e].inherit => ucPriority'[pvTcbOwn[e]] =< ucPriority'[t]
<1>1. /\ ucPriority \in [Threads -> Priorities] /\ ucCeilingPriority[e] \in Priorities
      /\ Priorities \subseteq Nat
  BY EventAssumption, SemaphoreMAssumption
     DEF IInv, EvInv, EventType, PrioType, MutexInv, MutexType
<1>2. PICK own \in Threads : own = pvTcbOwn[e]
  OBVIOUS
<1>3. PICK new \in Priorities :
        new = IF ulOption[e].inherit THEN ucPriority[t] ELSE ucCeilingPriority[e]
  BY <1>1
<1>4. ucPriority' = IF IsHigh(ucPriority[t], ucPriority[own]) /\ IsHigh(new, ucPriority[own])
                    THEN [ucPriority EXCEPT ![own] = new] ELSE ucPriority
  BY <1>2, <1>3 DEF EventPrioTryBoost
<1>5. ucPriority[t] \in Nat /\ ucPriority[own] \in Nat /\ new \in Nat
  BY <1>1
<1>6. CASE ucPriority[t] < ucPriority[own] /\ new < ucPriority[own]
  <2>1. ucPriority' = [ucPriority EXCEPT ![own] = new] /\ own # t
    BY <1>4, <1>5, <1>6 DEF IsHigh
  <2>2. /\ ucPriority' \in [Threads -> Priorities] /\ ucPriority'[own] = new
        /\ \A u \in Threads : u # own => ucPriority'[u] = ucPriority[u]
    BY <1>1, <2>1
  <2>3. new =< ucPriority[own] /\ (ulOption[e].inherit => new =< ucPriority[t])
    BY <1>3, <1>5, <1>6
  <2> QED BY <1>2, <2>1, <2>2, <2>3 DEF Boosted
<1>7. CASE ~(ucPriority[t] < ucPriority[own] /\ new < ucPriority[own])
  <2>1. ucPriority' = ucPriority
    BY <1>4, <1>7 DEF IsHigh
  <2>2. ucPriority[own] =< ucPriority[own] /\ (ulOption[e].inherit => ucPriority[own] =< ucPriority[t])
    BY <1>3, <1>5, <1>7
  <2> QED BY <1>1, <1>2, <2>1, <2>2 DEF Boosted
<1> QED BY <1>6, <1>7

(* The place by priority keeps the queue in order.                           *)
LEMMA InsertOrdered ==
  ASSUME IInv, NEW t \in Threads, NEW e \in Events, ulOption[e].prio, InPlace(e), Boosted(e),
         ~Contains(wq[e], t),
         wq'[e] = AddTCBToEventPriority(wq[e], t, ucPriority'),
         ring' = [ring EXCEPT ![t] = EventIndexQ(ucPriority'[t])],
         ulOption'[e] = ulOption[e], pvTcbOwn'[e] = pvTcbOwn[e]
  PROVE  Ordered(e)'
<1> DEFINE s == wq[e]
           k == PriorityPlace(s, t, ucPriority')
<1>1. /\ s \in Seq(Threads) /\ Len(s) \in Nat /\ k \in 1..Len(s) + 1
      /\ \A j \in 1..k-1 : StaysAhead(s[j], t, ucPriority')
      /\ k =< Len(s) => ~StaysAhead(s[k], t, ucPriority')
  BY PriorityPlaceFacts DEF IInv, EvInv, EventType, QueueType
<1>2. wq'[e] = InsertAt(s, k, t)
  BY DEF AddTCBToEventPriority
<1>3. \A i \in 1..Len(s) : s[i] \in Threads /\ s[i] # t
  BY <1>1 DEF Contains
<1>4. \A i, j \in 1..Len(s) :
        /\ s[i] # pvTcbOwn[e] => ring[s[i]] = EventIndexQ(ucPriority[s[i]])
        /\ i =< j => Before(e, s[i], s[j])
  BY DEF InPlace
<1>5. PICK place \in 1..Len(s) + 1 : place = k
  BY <1>1
<1> HIDE DEF s, k
<1>6. /\ Len(wq'[e]) = Len(s) + 1 /\ wq'[e][place] = t
      /\ \A j \in 1..Len(s) : j < place => wq'[e][j] = s[j]
      /\ \A j \in 2..Len(s)+1 : place < j => wq'[e][j] = s[j-1]
  <2>1. wq'[e] = InsertAt(s, place, t)
    BY <1>2, <1>5
  <2> QED BY <1>1, <2>1, InsertedAt
<1>7. /\ \A u \in Threads : ucPriority[u] \in Nat /\ ucPriority'[u] \in Nat /\ ring[u] \in Nat
      /\ ring \in [Threads -> Nat] /\ EventIndexQ(ucPriority'[t]) \in Int
  <2>1. /\ ucPriority \in [Threads -> Priorities] /\ ucPriority' \in [Threads -> Priorities]
        /\ Priorities \subseteq Nat /\ ring \in [Threads -> Nat]
    BY EventAssumption DEF IInv, EvInv, EventType, PrioType, Boosted
  <2>2. \A u \in Threads : ucPriority[u] \in Nat /\ ucPriority'[u] \in Nat /\ ring[u] \in Nat
    BY <2>1
  <2>3. EventIndexQ(ucPriority'[t]) \in Int
    BY <2>2, EventAssumption DEF EventIndexQ
  <2> QED BY <2>1, <2>2, <2>3
<1>8. ring'[t] = EventIndexQ(ucPriority'[t]) /\ \A u \in Threads : u # t => ring'[u] = ring[u]
  BY <1>7
(* Those who were there stay in order.                                       *)
<1>9. ASSUME NEW u \in Threads, NEW v \in Threads, u # t, v # t, Before(e, u, v)
      PROVE  AfterStep(e, u, v)
  <2>1. ring'[u] = ring[u] /\ ring'[v] = ring[v]
    BY <1>8, <1>9
  <2>2. ucPriority'[u] =< ucPriority[u]
    <3>1. u # pvTcbOwn[e] => ucPriority'[u] =< ucPriority[u]
      BY <1>7 DEF Boosted
    <3> QED BY <3>1 DEF Boosted
  <2>3. v # pvTcbOwn[e] => ucPriority'[v] = ucPriority[v]
    BY DEF Boosted
  <2>4. ucPriority[u] \in Nat /\ ucPriority'[u] \in Nat /\ ucPriority[v] \in Nat
    BY <1>7
  <2> QED BY <1>9, <2>1, <2>2, <2>3, <2>4 DEF Before, AfterStep
<1>10. ASSUME NEW u \in Threads, u # t, StaysAhead(u, t, ucPriority') PROVE AfterStep(e, u, t)
  <2>1. ring'[u] = ring[u] /\ ring'[t] = EventIndexQ(ucPriority'[t])
    BY <1>8, <1>10
  <2> QED BY <1>10, <2>1 DEF StaysAhead, AfterStep
<1>11. ASSUME NEW u \in Threads, NEW v \in Threads, u # t, v # t, AfterStep(e, u, v),
              ~StaysAhead(u, t, ucPriority')
       PROVE  AfterStep(e, t, v)
  <2>1. ring'[u] = ring[u] /\ ring'[v] = ring[v] /\ ring'[t] = EventIndexQ(ucPriority'[t])
    BY <1>8, <1>11
  <2>2. /\ ring[u] \in Nat /\ ring[v] \in Nat /\ EventIndexQ(ucPriority'[t]) \in Int
        /\ ucPriority'[u] \in Nat /\ ucPriority'[v] \in Nat /\ ucPriority'[t] \in Nat
    BY <1>7
  <2> QED BY <1>11, <2>1, <2>2 DEF StaysAhead, AfterStep
<1>12. ring'[t] \in Int /\ ucPriority'[t] =< ucPriority'[t]
  BY <1>7, <1>8
<1>13. ASSUME NEW i \in 1..Len(s) + 1, NEW j \in 1..Len(s) + 1, i =< j
       PROVE  AfterStep(e, wq'[e][i], wq'[e][j])
  <2>1. CASE i # place /\ j # place
    <3>1. PICK a, b \in 1..Len(s) : a =< b /\ wq'[e][i] = s[a] /\ wq'[e][j] = s[b]
      <4>1. CASE j < place
        <5>1. i \in 1..Len(s) /\ j \in 1..Len(s) /\ i < place
          BY <1>1, <1>5, <1>13, <4>1
        <5> QED BY <1>6, <1>13, <4>1, <5>1
      <4>2. CASE i < place /\ j > place
        <5>1. i \in 1..Len(s) /\ j \in 2..Len(s)+1 /\ place < j /\ j - 1 \in 1..Len(s) /\ i =< j - 1
          BY <1>1, <1>5, <1>13, <4>2
        <5>2. wq'[e][i] = s[i] /\ wq'[e][j] = s[j-1]
          BY <1>6, <4>2, <5>1
        <5> QED BY <5>1, <5>2
      <4>3. CASE i > place
        <5>1. /\ i - 1 \in 1..Len(s) /\ j - 1 \in 1..Len(s) /\ i - 1 =< j - 1
              /\ i \in 2..Len(s)+1 /\ j \in 2..Len(s)+1 /\ place < i /\ place < j
          BY <1>1, <1>5, <1>13, <4>3
        <5>2. wq'[e][i] = s[i-1] /\ wq'[e][j] = s[j-1]
          BY <1>6, <5>1
        <5> QED BY <5>1, <5>2
      <4> QED BY <1>1, <1>5, <1>13, <2>1, <4>1, <4>2, <4>3
    <3> QED BY <1>3, <1>4, <1>9, <3>1
  <2>2. CASE i < place /\ j = place
    <3>0. i \in 1..Len(s) /\ i \in 1..place-1
      BY <1>1, <1>5, <2>2
    <3>1. i \in 1..Len(s) /\ i \in 1..place-1 /\ wq'[e][i] = s[i] /\ wq'[e][j] = t
      BY <1>6, <2>2, <3>0
    <3> QED BY <1>1, <1>3, <1>5, <1>10, <3>1
  <2>3. CASE i = place /\ j > place
    <3>0. /\ place \in 1..Len(s) /\ j - 1 \in 1..Len(s) /\ place =< j - 1 /\ place =< Len(s)
          /\ j \in 2..Len(s)+1
      BY <1>1, <1>5, <2>3
    <3>1. /\ place \in 1..Len(s) /\ j - 1 \in 1..Len(s) /\ place =< j - 1 /\ place =< Len(s)
          /\ wq'[e][i] = t /\ wq'[e][j] = s[j-1]
      BY <1>6, <2>3, <3>0
    <3>2. PICK b \in 1..Len(s) : b = j - 1
      BY <3>1
    <3>3. AfterStep(e, s[place], s[b])
      BY <1>3, <1>4, <1>9, <3>1, <3>2
    <3>4. ~StaysAhead(s[place], t, ucPriority')
      BY <1>1, <1>5, <3>1
    <3> QED BY <1>3, <1>11, <3>1, <3>2, <3>3, <3>4
  <2>4. CASE i = place /\ j = place
    <3>1. wq'[e][i] = t /\ wq'[e][j] = t
      BY <1>6, <2>4
    <3> QED BY <1>12, <3>1 DEF AfterStep
  <2> QED BY <1>13, <2>1, <2>2, <2>3, <2>4
<1>14. ASSUME NEW i \in 1..Len(s) + 1, wq'[e][i] # pvTcbOwn[e]
       PROVE  ring'[wq'[e][i]] = EventIndexQ(ucPriority'[wq'[e][i]])
  <2>1. CASE i = place
    BY <1>6, <1>8, <2>1
  <2>2. CASE i # place
    <3>1. PICK a \in 1..Len(s) : wq'[e][i] = s[a]
      <4>1. CASE i < place
        <5>1. i \in 1..Len(s)
          BY <1>1, <1>5, <4>1
        <5> QED BY <1>6, <4>1, <5>1
      <4>2. CASE place < i
        <5>1. i \in 2..Len(s)+1 /\ i - 1 \in 1..Len(s)
          BY <1>1, <1>5, <4>2
        <5> QED BY <1>6, <4>2, <5>1
      <4> QED BY <1>1, <1>5, <2>2, <4>1, <4>2
    <3>2. ring[s[a]] = EventIndexQ(ucPriority[s[a]])
      BY <1>4, <1>14, <3>1
    <3>3. ring'[s[a]] = ring[s[a]] /\ ucPriority'[s[a]] = ucPriority[s[a]]
      BY <1>3, <1>8, <1>14, <3>1 DEF Boosted
    <3> QED BY <3>1, <3>2, <3>3
  <2> QED BY <2>1, <2>2
<1> QED BY <1>6, <1>13, <1>14 DEF Ordered, InPlace, Before, AfterStep, EventIndexQ

(* A thread waits.                                                           *)
LEMMA PendWaitsPrio ==
  ASSUME IInv, IInv', PrioInv, OneAtATime, \A o \in Options : o.inherit => o.prio,
         NEW t \in Threads, NEW e \in Events, NEW timeout \in Timeouts,
         ThreadEnter, IsReady(t), PendWaits(t, e, timeout), UNCHANGED kernVars
  PROVE  PrioInv'
<1>0. /\ UNCHANGED <<ucType, pvTcbOwn, ulOption>> /\ EventPrioTryBoost(e, t)
      /\ ucType[e] = "MUTEX" /\ ~ulCounter[e]
      /\ EventWait(e, t, ulOption[e].prio, timeout # Infinite, ucPriority')
  BY DEF PendWaits, mutexVars
<1>1. /\ EvInv /\ MutexType /\ OwnerOK(e) /\ ulOption[e] \in Options
      /\ ulOption[e].prio \in BOOLEAN /\ wq \in [Events -> Seq(Threads)]
      /\ ring \in [Threads -> Nat] /\ Null \notin Events
  BY SemaphoreMAssumption, EventAssumption
     DEF IInv, MutexInv, MutexType, EventOK, EvInv, EventType, QueueType, PrioType
<1>2. pvTcbOwn[e] \in Threads
  BY <1>0, <1>1 DEF OwnerOK, MutexType
<1>3. /\ Boosted(e) /\ ucPriority'[t] = ucPriority[t]
      /\ ulOption[e].inherit => ucPriority'[pvTcbOwn[e]] =< ucPriority'[t]
  BY <1>0, <1>2, BoostFacts
<1>4. waitOn[t] = Null
  BY <1>1, EventAssumption DEF EvInv, EvWait, WaitOK, IsReady
<1>5. \A f \in Events : /\ ~Posting(f) /\ ~Posting(f)' /\ Has(f) = pvTcbOwn[f]
                       /\ Has(f)' = pvTcbOwn[f] /\ ~Contains(wq[f], t)
  <2>1. nest = 0 /\ nest' = 0
    BY DEF ThreadEnter, kernVars
  <2>2. \A f \in Events : ~Contains(wq[f], t)
    BY <1>1, <1>4 DEF EvInv, QueuesAgree
  <2> QED BY <1>0, <2>1, <2>2 DEF Posting, Has
<1>6. \A f \in Events : f # e => wq'[f] = wq[f]
  BY <1>0, <1>1 DEF EventWait
<1>7. ring' = [ring EXCEPT ![t] = IF ulOption[e].prio THEN EventIndexQ(ucPriority'[t]) ELSE ring[t]]
  BY <1>0 DEF EventWait
<1>8. ASSUME NEW f \in Events, f # e PROVE Ordered(f)' /\ Urgent(f)'
  <2>1. Shrinks(wq'[f], wq[f])
    BY <1>1, <1>6, <1>8, ShrinksSelf
  <2>2. \A i \in 1..Len(wq[f]) : wq[f][i] \in Threads /\ waitOn[wq[f][i]] = f
    BY <1>1, WaiterAt
  <2>3. \A i \in 1..Len(wq[f]) : wq[f][i] # t /\ wq[f][i] # pvTcbOwn[e]
    BY <1>1, <1>2, <1>4, <1>8, <2>2 DEF OneAtATime
  <2>4. WaitersKeep(f)
    BY <1>1, <1>3, <1>7, <2>1, <2>2, <2>3 DEF WaitersKeep, Boosted
  <2>5. Has(f) = Null \/ ucPriority'[Has(f)] = ucPriority[Has(f)]
    <3>1. pvTcbOwn[f] # pvTcbOwn[e] /\ pvTcbOwn[f] \in Threads \cup {Null}
      BY <1>1, <1>2, <1>8 DEF OneAtATime, MutexType
    <3> QED BY <1>3, <1>5, <3>1 DEF Boosted
  <2>6. PrioKeeps(f)
    BY <1>0, <1>5, <2>4, <2>5 DEF PrioKeeps
  <2> QED BY <2>6, PrioKept
<1>9. Ordered(e)'
  <2>1. CASE ulOption[e].prio
    <3>1. /\ wq'[e] = AddTCBToEventPriority(wq[e], t, ucPriority')
          /\ ring' = [ring EXCEPT ![t] = EventIndexQ(ucPriority'[t])]
      BY <1>0, <1>1, <1>7, <2>1 DEF EventWait
    <3>2. InPlace(e)
      BY <2>1 DEF PrioInv, Ordered
    <3> QED BY <1>0, <1>3, <1>5, <2>1, <3>1, <3>2, InsertOrdered
  <2>2. CASE ~ulOption[e].prio
    BY <1>0, <2>2 DEF Ordered
  <2> QED BY <2>1, <2>2
<1>10. Urgent(e)'
  <2> SUFFICES ASSUME ulOption[e].inherit, NEW i \in 1..Len(wq'[e])
               PROVE  ucPriority'[pvTcbOwn[e]] =< ucPriority'[wq'[e][i]]
    BY <1>0, <1>5 DEF Urgent
  <2>1. wq'[e][i] = t \/ \E a \in 1..Len(wq[e]) : wq'[e][i] = wq[e][a]
    <3>1. ulOption[e].prio /\ wq[e] \in Seq(Threads) /\ Len(wq[e]) \in Nat
      BY <1>1
    <3>2. wq'[e] = InsertAt(wq[e], PriorityPlace(wq[e], t, ucPriority'), t)
      BY <1>0, <1>1, <3>1 DEF EventWait, AddTCBToEventPriority
    <3>3. PICK k \in 1..Len(wq[e]) + 1 : k = PriorityPlace(wq[e], t, ucPriority')
      BY <3>1, PriorityPlaceFacts
    <3>4. wq'[e] = InsertAt(wq[e], k, t)
      BY <3>2, <3>3
    <3> QED BY <3>1, <3>4, InsertAdds
  <2>2. CASE wq'[e][i] = t
    BY <1>3, <2>2
  <2>3. ASSUME NEW a \in 1..Len(wq[e]), wq'[e][i] = wq[e][a]
        PROVE  ucPriority'[pvTcbOwn[e]] =< ucPriority'[wq'[e][i]]
    <3>1. wq[e][a] \in Threads
      BY <1>1, WaiterAt
    <3>2. ucPriority[pvTcbOwn[e]] =< ucPriority[wq[e][a]]
      BY <1>0, <1>5 DEF PrioInv, Urgent
    <3>3. /\ ucPriority[pvTcbOwn[e]] \in Nat /\ ucPriority'[pvTcbOwn[e]] \in Nat
          /\ ucPriority[wq[e][a]] \in Nat
      <4>1. /\ ucPriority \in [Threads -> Priorities] /\ ucPriority' \in [Threads -> Priorities]
            /\ Priorities \subseteq Nat
        BY <1>1, <1>3, EventAssumption DEF EvInv, EventType, PrioType, Boosted
      <4> QED BY <1>2, <3>1, <4>1
    <3>4. CASE wq[e][a] = pvTcbOwn[e]
      <4>1. wq'[e][i] = pvTcbOwn[e]
        BY <2>3, <3>4
      <4>2. ucPriority'[pvTcbOwn[e]] =< ucPriority'[pvTcbOwn[e]]
        BY <3>3
      <4> QED BY <4>1, <4>2
    <3>5. CASE wq[e][a] # pvTcbOwn[e]
      <4>1. ucPriority'[wq[e][a]] = ucPriority[wq[e][a]]
        BY <1>3, <3>1, <3>5 DEF Boosted
      <4>2. ucPriority'[pvTcbOwn[e]] =< ucPriority[pvTcbOwn[e]]
        BY <1>3 DEF Boosted
      <4> QED BY <2>3, <3>2, <3>3, <4>1, <4>2
    <3> QED BY <3>4, <3>5
  <2> QED BY <2>1, <2>2, <2>3
<1>11. \A f \in Events : PosterAwake(f)'
  BY <1>5 DEF PosterAwake
<1> QED BY <1>8, <1>9, <1>10, <1>11 DEF PrioInv

-----------------------------------------------------------------------------
(* The post.                                                                 *)

(* The waiter at the head of a queue by priority is the most urgent.         *)
LEMMA HeadMostUrgent ==
  ASSUME IInv, NEW e \in Events, InPlace(e), waitOn[pvTcbOwn[e]] = Null,
         NEW i \in 1..Len(wq[e])
  PROVE  ucPriority[wq[e][1]] =< ucPriority[wq[e][i]]
<1>1. /\ wq[e] \in Seq(Threads) /\ Len(wq[e]) \in Nat /\ EvInv /\ Null \notin Events
  BY EventAssumption DEF IInv, EvInv, EventType, QueueType
<1>2. 1 \in 1..Len(wq[e]) /\ 1 =< i
  BY <1>1
<1>3. /\ waitOn[wq[e][1]] = e /\ ucPriority[wq[e][1]] \in Nat
      /\ waitOn[wq[e][i]] = e /\ ucPriority[wq[e][i]] \in Nat
  BY <1>1, <1>2, WaiterAt
<1>4. wq[e][1] # pvTcbOwn[e] /\ wq[e][i] # pvTcbOwn[e]
  BY <1>1, <1>3
<1>5. PICK p, q \in Nat : p = ucPriority[wq[e][1]] /\ q = ucPriority[wq[e][i]]
  BY <1>3
<1>6. /\ ring[wq[e][1]] = EventIndexQ(p) /\ ring[wq[e][i]] = EventIndexQ(q)
      /\ Before(e, wq[e][1], wq[e][i])
  BY <1>2, <1>4, <1>5 DEF InPlace
<1>7. EventIndexQ(p) < EventIndexQ(q) \/ p =< q
  BY <1>4, <1>5, <1>6 DEF Before
<1>8. EventIndexQ(p) \in Int /\ EventIndexQ(q) \in Int
  BY EventAssumption DEF EventIndexQ
<1>9. q < p => EventIndexQ(q) =< EventIndexQ(p)
  BY IndexMonotone
<1>10. p =< q
  BY <1>7, <1>8, <1>9
<1> QED BY <1>5, <1>10

(* Taking the first waiter off a queue.                                      *)
LEMMA TakePrio ==
  ASSUME IInv, NEW op \in {"post", "delete"}, NEW e \in Events, AtTop(1), nest \in {0, 1},
         TakeFirst(op, e, 0, 1)
  PROVE  /\ UNCHANGED <<ucPriority, ring, waitOn>>
         /\ wq[e] \in Seq(Threads) /\ Len(wq[e]) \in Nat /\ Len(wq[e]) > 0
         /\ wq'[e] = Tail(wq[e])
         /\ \A f \in Events : Shrinks(wq'[f], wq[f])
         /\ nest' = 1 /\ frames'[1].op = op /\ frames'[1].ev = e
         /\ frames'[1].tcb = wq[e][1]
<1>1. /\ EvInv /\ wq \in [Events -> Seq(Threads)] /\ nest \in 0..MaxNest
      /\ frames \in [1..MaxNest -> Frame] /\ 1 \in 1..MaxNest
  BY EventAssumption DEF IInv, EvInv, EventType, QueueType, KernType
<1>2. /\ UNCHANGED <<ucPriority, ring, waitOn>> /\ wq' = [wq EXCEPT ![e] = Tail(wq[e])]
      /\ frames' = [frames EXCEPT ![1] = [op |-> op, ev |-> e, tcb |-> FirstWaiter(e), n |-> 0]]
      /\ nest' = 1
  BY DEF TakeFirst, EventReadyLowLevel, SetFrame
<1>3. wq[e] # <<>>
  BY <1>1, FirstWaiterFacts DEF TakeFirst
<1>4. wq[e] \in Seq(Threads) /\ Len(wq[e]) \in Nat /\ Len(wq[e]) > 0
  BY <1>1, <1>3
<1>5. FirstWaiter(e) = wq[e][1]
  BY <1>3, <1>4 DEF FirstWaiter
<1>6. wq'[e] = Tail(wq[e]) /\ \A f \in Events : f # e => wq'[f] = wq[f]
  BY <1>1, <1>2
<1>7. Shrinks(wq'[e], wq[e])
  BY <1>4, <1>6, TailShrinks
<1>8. ASSUME NEW f \in Events, f # e PROVE Shrinks(wq'[f], wq[f])
  <2>1. wq[f] \in Seq(Threads) /\ wq'[f] = wq[f]
    BY <1>1, <1>6, <1>8
  <2> QED BY <2>1, ShrinksSelf
<1>9. frames'[1] = [op |-> op, ev |-> e, tcb |-> FirstWaiter(e), n |-> 0]
  BY <1>1, <1>2
<1> QED BY <1>2, <1>4, <1>5, <1>6, <1>7, <1>8, <1>9

(* The owner hands the mutex to the head of the queue.                       *)
LEMMA PostHandsOverPrio ==
  ASSUME IInv, IInv', PrioInv, \A o \in Options : o.inherit => o.prio,
         NEW t \in Threads, NEW e \in Events, ThreadEnter, IsReady(t), pvTcbOwn[e] = t,
         PostHandsOver(e)
  PROVE  PrioInv'
<1>0. /\ nest = 0 /\ AtTop(1) /\ nest \in {0, 1} /\ UNCHANGED <<ucType, pvTcbOwn, ulOption>>
      /\ nest + 1 = 1
  BY DEF PostHandsOver, mutexVars, ThreadEnter, AtTop
<1>p. PICK op \in {"post", "delete"} : op = "post"
  OBVIOUS
<1>1. TakeFirst(op, e, 0, 1)
  BY <1>0, <1>p DEF PostHandsOver
<1>2. /\ UNCHANGED <<ucPriority, ring, waitOn>>
      /\ wq[e] \in Seq(Threads) /\ Len(wq[e]) \in Nat /\ Len(wq[e]) > 0
      /\ wq'[e] = Tail(wq[e])
      /\ \A f \in Events : Shrinks(wq'[f], wq[f])
      /\ nest' = 1 /\ frames'[1].op = op /\ frames'[1].ev = e
      /\ frames'[1].tcb = wq[e][1]
  BY <1>0, <1>1, TakePrio
<1>3. \A f \in Events : ~Posting(f) /\ (Posting(f)' <=> f = e)
  BY <1>0, <1>2, <1>p DEF Posting
<1>4. waitOn[t] = Null
  BY EventAssumption DEF IInv, EvInv, EvWait, WaitOK, IsReady
<1>5. \A f \in Events : PosterAwake(f)'
  BY <1>0, <1>2, <1>3, <1>4 DEF PosterAwake
<1>6. \A f \in Events : WaitersKeep(f)
  BY <1>2 DEF WaitersKeep
<1>7. \A f \in Events : Ordered(f)'
  BY <1>0, <1>6, ShrinksOrdered DEF PrioInv
<1>8. ASSUME NEW f \in Events, f # e PROVE Urgent(f)'
  <2>1. Has(f)' = Has(f)
    BY <1>0, <1>3, <1>8 DEF Has
  <2> QED BY <1>0, <1>2, <1>6, <2>1, ShrinksUrgent DEF PrioInv
<1>9. Urgent(e)'
  <2> SUFFICES ASSUME ulOption[e].inherit, NEW i \in 1..Len(wq'[e])
               PROVE  ucPriority'[Has(e)'] =< ucPriority'[wq'[e][i]]
    BY <1>0 DEF Urgent
  <2>1. Has(e)' = wq[e][1]
    BY <1>2, <1>3 DEF Has
  <2>2. i + 1 \in 1..Len(wq[e]) /\ wq'[e][i] = wq[e][i+1]
    <3>1. /\ Len(Tail(wq[e])) = Len(wq[e]) - 1
          /\ \A j \in 1..Len(wq[e])-1 : Tail(wq[e])[j] = wq[e][j+1]
      BY <1>2, HeadTailProperties
    <3> QED BY <1>2, <3>1
  <2>3. InPlace(e)
    BY DEF IInv, MutexInv, MutexType, PrioInv, Ordered
  <2>4. PICK a \in 1..Len(wq[e]) : a = i + 1
    BY <2>2
  <2>5. ucPriority[wq[e][1]] =< ucPriority[wq[e][a]]
    BY <1>4, <2>3, HeadMostUrgent
  <2> QED BY <1>2, <2>1, <2>2, <2>4, <2>5
<1> QED BY <1>5, <1>7, <1>8, <1>9 DEF PrioInv

(* The priorities when the owner has left the window: nobody waits for a     *)
(* mutex of the thread that got its old priority back.                       *)
LEMMA PostHighPrio ==
  ASSUME IInv, IInv', PrioInv, OneAtATime, PostHigh
  PROVE  PrioInv'
<1>0. PICK t : t = frames[nest].tcb
  OBVIOUS
<1>1. PICK e : e = frames[nest].ev
  OBVIOUS
<1>2. /\ nest > 0 /\ frames[nest].op = "post" /\ t # Null /\ EndFrame(nest)
      /\ ucPriority' = [ucPriority EXCEPT ![pvTcbOwn[e]] = ulMaxCounter[e]]
      /\ pvTcbOwn' = [pvTcbOwn EXCEPT ![e] = t]
      /\ UNCHANGED <<wq, ring, ucType, ulOption>>
  BY <1>0, <1>1 DEF PostHigh, queueVars
<1>3. /\ nest = 1 /\ e \in Events /\ frames[1].ev = e /\ frames[1].op = "post"
      /\ frames[1].tcb = t /\ frames[1] \in Frame /\ 1 \in 1..nest
  BY <1>0, <1>1, <1>2, SectionOpen
<1>4. /\ EvInv /\ MutexType /\ pvTcbOwn \in [Events -> Threads \cup {Null}]
      /\ ucPriority \in [Threads -> Priorities] /\ wq \in [Events -> Seq(Threads)]
      /\ Null \notin Threads /\ Null \notin Events
  BY EventAssumption DEF IInv, MutexInv, MutexType, EvInv, EventType, PrioType, QueueType
<1>5. t \in Threads /\ InLimbo(t) /\ waitOn[t] # Null
  <2>1. t \in Threads /\ InLimbo(t)
    BY <1>2, <1>3 DEF Frame, InLimbo
  <2>2. FrameOK(frames[1])
    BY <1>3, <1>4 DEF EvInv, EvFrames
  <2> QED BY <1>2, <1>3, <1>4, <2>1, <2>2 DEF FrameOK, EvInv, EvWait, WaitOK
<1>6. /\ Posting(e) /\ \A f \in Events : f # e => ~Posting(f)
      /\ \A f \in Events : ~Posting(f)'
  <2>1. nest' = 0
    BY <1>2, <1>3 DEF EndFrame
  <2> QED BY <1>3, <2>1 DEF Posting
<1>7. PICK old \in Threads : old = pvTcbOwn[e]
  BY <1>3, <1>4, <1>6 DEF IInv, MutexInv, EventOK, OwnerOK
<1>8. waitOn[old] = Null /\ old # t
  BY <1>3, <1>5, <1>6, <1>7 DEF PrioInv, PosterAwake
<1>9. \A u \in Threads : u # old => ucPriority'[u] = ucPriority[u]
  BY <1>2, <1>4, <1>7
<1>10. pvTcbOwn'[e] = t /\ \A f \in Events : f # e => pvTcbOwn'[f] = pvTcbOwn[f]
  BY <1>2, <1>3, <1>4
<1>11. ASSUME NEW f \in Events PROVE WaitersKeep(f)
  <2>1. \A i \in 1..Len(wq[f]) : wq[f][i] \in Threads /\ wq[f][i] # old
    BY <1>4, <1>8, WaiterAt
  <2>2. Shrinks(wq'[f], wq[f])
    BY <1>2, <1>4, ShrinksSelf
  <2> QED BY <1>2, <1>9, <2>1, <2>2 DEF WaitersKeep
<1>12. Has(e) = t /\ Has(e)' = t
  BY <1>3, <1>6, <1>10 DEF Has
<1>13. ASSUME NEW f \in Events, f # e PROVE Ordered(f)' /\ Urgent(f)'
  <2>1. Has(f) = pvTcbOwn[f] /\ Has(f)' = pvTcbOwn[f]
    BY <1>6, <1>10, <1>13 DEF Has
  <2>2. pvTcbOwn[f] # old /\ pvTcbOwn[f] \in Threads \cup {Null}
    BY <1>3, <1>4, <1>7, <1>13 DEF OneAtATime
  <2>3. PrioKeeps(f)
    BY <1>2, <1>9, <1>10, <1>11, <1>13, <2>1, <2>2 DEF PrioKeeps
  <2> QED BY <2>3, PrioKept
<1>14. Urgent(e)'
  <2>1. ucPriority'[Has(e)] = ucPriority[Has(e)]
    BY <1>5, <1>8, <1>9, <1>12
  <2> QED BY <1>2, <1>3, <1>11, <1>12, <2>1, ShrinksUrgent DEF PrioInv
<1>15. Ordered(e)'
  <2>1. \A i \in 1..Len(wq[e]) : wq[e][i] # old /\ wq[e][i] # t
    BY <1>3, <1>4, <1>5, <1>8, WaiterAt
  <2> SUFFICES ASSUME ulOption[e].prio, NEW i \in 1..Len(wq[e]), NEW j \in 1..Len(wq[e])
               PROVE  /\ ring[wq[e][i]] = EventIndexQ(ucPriority'[wq[e][i]])
                      /\ i =< j => \/ ring[wq[e][i]] < ring[wq[e][j]]
                                   \/ /\ ring[wq[e][i]] = ring[wq[e][j]]
                                      /\ ucPriority'[wq[e][i]] =< ucPriority'[wq[e][j]]
    BY <1>2 DEF Ordered, InPlace, Before, EventIndexQ
  <2>2. InPlace(e)
    BY <1>3 DEF PrioInv, Ordered
  <2>3. /\ ucPriority'[wq[e][i]] = ucPriority[wq[e][i]]
        /\ ucPriority'[wq[e][j]] = ucPriority[wq[e][j]]
    BY <1>3, <1>11 DEF WaitersKeep
  <2> QED BY <1>7, <2>1, <2>2, <2>3 DEF InPlace, Before
<1>16. \A f \in Events : PosterAwake(f)'
  BY <1>6 DEF PosterAwake
<1> QED BY <1>13, <1>14, <1>15, <1>16 DEF PrioInv

-----------------------------------------------------------------------------
(* The steps that move no owner and boost nobody.                            *)

(* Threads only leave the queues, and no mutex changes hands.                *)
LEMMA LeavesPrio ==
  ASSUME IInv, IInv', PrioInv, OnlyLeaves, UNCHANGED <<ucType, pvTcbOwn, ucPriority, ring, ulOption>>
  PROVE  PrioInv'
<1>1. \A e : SameSection(e)
  BY SectionAfter DEF IInv
<1> QED BY <1>1, QuietPrio DEF OnlyLeaves, SameSection

(* Ticks, wakeups, signals, suspends and resumes.                            *)
LEMMA EnvironmentPrio ==
  ASSUME IInv, IInv', PrioInv, IsrWakesPended = FALSE, Environment
  PROVE  PrioInv'
<1>0. UNCHANGED <<ucType, pvTcbOwn, ulOption>> /\ EvInv
  BY DEF Environment, mutexVars, IInv
<1>1. UNCHANGED <<ucPriority, ring>>
  BY DEF Environment, Tick, TickNext, ThreadWakeup, Signal, SigReturn, ThreadSuspend, ThreadResume
<1>2. OnlyLeaves
  <2>1. CASE Tick \/ TickNext
    BY <1>0, <2>1, TickLeaves
  <2>2. ASSUME NEW t \in Threads, NEW inf \in BOOLEAN, ThreadWakeup(t, inf) PROVE OnlyLeaves
    BY <1>0, <2>2, ThreadWakeupLeaves
  <2>3. ASSUME NEW t \in Threads, NEW s \in {"EINTR", "RESTART"}, Signal(t, s) PROVE OnlyLeaves
    BY <1>0, <2>3, SignalLeaves
  <2>4. ASSUME NEW t \in Threads, SigReturn(t) PROVE OnlyLeaves
    BY <1>0, <2>4, SigReturnLeaves
  <2>5. ASSUME NEW t \in Threads,
               ThreadSuspend(t) \/ \E levels \in {1, ulSuspendNesting[t]} : ThreadResume(t, levels)
        PROVE  OnlyLeaves
    <3>1. UNCHANGED <<wq, waitOn>> /\ UNCHANGED kernVars
      BY <2>5 DEF ThreadSuspend, ThreadResume, queueVars
    <3> QED BY <1>0, <3>1, QuietLeaves
  <2> QED BY <2>1, <2>2, <2>3, <2>4, <2>5 DEF Environment
<1> QED BY <1>0, <1>1, <1>2, LeavesPrio

(* Steps that touch neither queues nor owners.                               *)
LEMMA StillPrio ==
  ASSUME IInv, IInv', PrioInv, UNCHANGED kernVars,
         UNCHANGED <<wq, waitOn, ucPriority, ring, ucType, pvTcbOwn, ulOption>>
  PROVE  PrioInv'
<1>1. OnlyLeaves
  BY QuietLeaves DEF IInv
<1> QED BY <1>1, LeavesPrio

(* A mutex nobody waits for is created, taken or given up.                   *)
LEMMA FreePrio ==
  ASSUME IInv, IInv', PrioInv, UNCHANGED kernVars, ThreadEnter,
         UNCHANGED <<ucPriority, ring>>, NEW e \in Events, wq'[e] = <<>>,
         \A f \in Events : f # e => /\ wq'[f] = wq[f] /\ ucType'[f] = ucType[f]
                                   /\ pvTcbOwn'[f] = pvTcbOwn[f] /\ ulOption'[f] = ulOption[f]
  PROVE  PrioInv'
<1>1. \A f \in Events : ~Posting(f) /\ ~Posting(f)'
  BY DEF ThreadEnter, kernVars, Posting
<1>2. ASSUME NEW f \in Events, f # e PROVE PrioKeeps(f)
  <2>1. wq[f] \in Seq(Threads)
    BY DEF IInv, EvInv, EventType, QueueType
  <2>2. Shrinks(wq'[f], wq[f])
    BY <1>2, <2>1, ShrinksSelf
  <2>3. Has(f)' = Has(f)
    BY <1>1, <1>2 DEF Has
  <2> QED BY <1>2, <2>2, <2>3 DEF PrioKeeps, WaitersKeep
<1>3. PrioKeeps(e)
  BY DEF PrioKeeps
<1>4. \A f \in Events : AwakeKeeps(f)
  BY <1>1 DEF AwakeKeeps
<1> QED BY <1>2, <1>3, <1>4, PrioKept DEF PrioInv

(* API_SemaphoreMCreate.                                                     *)
LEMMA CreatePrio ==
  ASSUME IInv, IInv', PrioInv, NEW e \in Events, NEW c \in Ceilings, NEW o \in Options,
         SemaphoreMCreate(e, c, o)
  PROVE  PrioInv'
<1>1. /\ MutexType /\ wq \in [Events -> Seq(Threads)]
  BY DEF IInv, MutexInv, EvInv, EventType, QueueType
<1>2. /\ wq'[e] = <<>> /\ UNCHANGED kernVars /\ UNCHANGED <<ucPriority, ring>> /\ ThreadEnter
      /\ \A f \in Events : f # e => /\ wq'[f] = wq[f] /\ ucType'[f] = ucType[f]
                                    /\ pvTcbOwn'[f] = pvTcbOwn[f] /\ ulOption'[f] = ulOption[f]
  BY <1>1 DEF SemaphoreMCreate, MutexType
<1> QED BY <1>2, FreePrio

(* API_SemaphoreMPend, the first time and again after a signal.              *)
LEMMA PendPrio ==
  ASSUME IInv, IInv', PrioInv, OneAtATime, \A o \in Options : o.inherit => o.prio,
         NEW t \in Threads,
         \/ \E e \in Events, timeout \in Timeouts : SemaphoreMPend(t, e, timeout)
         \/ SemaphoreMPendAgain(t)
  PROVE  PrioInv'
<1>1. ASSUME NEW e \in Events, NEW timeout \in Timeouts, IsReady(t), PendSection(t, e, timeout)
      PROVE  PrioInv'
  <2>1. ThreadEnter /\ UNCHANGED kernVars
    BY <1>1 DEF PendSection
  <2>2. CASE PendFails(t, e, timeout) \/ PendRecurses(t, e)
    BY <2>1, <2>2, StillPrio DEF PendFails, PendRecurses, queueVars, waitVars, mutexVars
  <2>3. CASE PendTakes(t, e)
    <3>1. wq[e] = <<>> /\ MutexType
      BY <2>3 DEF PendTakes, IInv, MutexInv, EventOK, OwnerOK
    <3>2. /\ UNCHANGED <<ucPriority, ring, wq>>
          /\ \A f \in Events : f # e => /\ ucType'[f] = ucType[f]
                                 /\ pvTcbOwn'[f] = pvTcbOwn[f] /\ ulOption'[f] = ulOption[f]
      BY <2>3, <3>1 DEF PendTakes, queueVars, MutexType
    <3> QED BY <2>1, <3>1, <3>2, FreePrio
  <2>4. CASE PendWaits(t, e, timeout)
    BY <1>1, <2>1, <2>4, PendWaitsPrio
  <2> QED BY <1>1, <2>2, <2>3, <2>4 DEF PendSection
<1>2. CASE \E e \in Events, timeout \in Timeouts : SemaphoreMPend(t, e, timeout)
  BY <1>1, <1>2 DEF SemaphoreMPend
<1>3. CASE SemaphoreMPendAgain(t)
  <2>1. call[t].pc = "again" /\ call[t].got = "no" /\ call[t] \in Call
    BY <1>3 DEF SemaphoreMPendAgain, IInv, EvHonest, HonestCall, EvInv, EventType, CallType
  <2>2. call[t].ev \in Events /\ call[t].left \in Timeouts
    BY <2>1 DEF IInv, EvCalls, HasEvent, Call
  <2> QED BY <1>1, <1>3, <2>1, <2>2 DEF SemaphoreMPendAgain
<1> QED BY <1>2, <1>3

(* API_SemaphoreMPost by the owner.                                          *)
LEMMA PostPrio ==
  ASSUME IInv, IInv', PrioInv, \A o \in Options : o.inherit => o.prio,
         NEW t \in Threads, NEW e \in Events, SemaphoreMPost(t, e)
  PROVE  PrioInv'
<1>1. ThreadEnter /\ IsReady(t) /\ pvTcbOwn[e] = t
  BY DEF SemaphoreMPost
<1>2. CASE PostRecursed(e)
  BY <1>2, StillPrio DEF PostRecursed, eventVars, queueVars, waitVars
<1>3. CASE PostHandsOver(e)
  BY <1>1, <1>3, PostHandsOverPrio
<1>4. CASE PostFrees(e)
  <2>1. MutexType /\ wq[e] = <<>>
    BY <1>4, NoWaiterFacts DEF PostFrees, IInv, MutexInv
  <2>2. /\ UNCHANGED <<ucPriority, ring, wq>> /\ UNCHANGED kernVars
        /\ \A f \in Events : f # e => /\ ucType'[f] = ucType[f]
                                 /\ pvTcbOwn'[f] = pvTcbOwn[f] /\ ulOption'[f] = ulOption[f]
    BY <1>4, <2>1 DEF PostFrees, eventVars, queueVars, MutexType
  <2> QED BY <1>1, <2>1, <2>2, FreePrio
<1> QED BY <1>2, <1>3, <1>4 DEF SemaphoreMPost

(* A deleted waiter is made ready.                                           *)
LEMMA DeleteHighPrio ==
  ASSUME IInv, IInv', PrioInv, DeleteHigh
  PROVE  PrioInv'
<1>1. nest > 0 /\ frames[nest].op # "tick" /\ frames[nest].op = "delete"
  BY DEF DeleteHigh
<1>2. nest = 1 /\ frames[1].op = "delete" /\ frames[1] \in Frame /\ 1 \in 1..MaxNest
  BY <1>1, SectionOpen
<1>3. /\ UNCHANGED <<wq, ring, ucPriority, ucType, pvTcbOwn, ulOption>>
      /\ SetFrame(1, [frames[1] EXCEPT !.tcb = Null])
      /\ waitOn' = [waitOn EXCEPT ![frames[1].tcb] = Null]
  BY <1>2 DEF DeleteHigh, EventReadyHighLevel, queueVars, mutexVars
<1>4. nest' = 1 /\ frames'[1].op = "delete"
  BY <1>2, <1>3 DEF SetFrame, Frame, IInv, EvInv, EventType, KernType
<1>5. \A u \in Threads : waitOn'[u] \in {waitOn[u], Null}
  BY <1>3 DEF IInv, EvInv, EventType, WaitType
<1>6. \A e \in Events : Shrinks(wq'[e], wq[e])
  BY <1>3, ShrinksSelf DEF IInv, EvInv, EventType, QueueType
<1>7. \A e \in Events : ~Posting(e) /\ ~Posting(e)'
  BY <1>2, <1>4 DEF Posting
<1> QED BY <1>3, <1>5, <1>6, <1>7, QuietPrio

(* A round of the loop of API_SemaphoreMDelete, or its end: the owner of the *)
(* mutex gets its priority back, and nobody waits for another one it has.    *)
LEMMA DeleteLoopPrio ==
  ASSUME IInv, IInv', PrioInv, OneAtATime, AtTop(1), nest \in {0, 1}, NEW e \in Events,
         nest = 0 \/ Deleting(e),
         \A f \in Events : ucType'[f] = "MUTEX" => ucType[f] = "MUTEX",
         DeleteLoop(e, 1), UNCHANGED ulOption
  PROVE  PrioInv'
<1>1. /\ EvInv /\ MutexType /\ pvTcbOwn \in [Events -> Threads \cup {Null}]
      /\ ucPriority \in [Threads -> Priorities] /\ wq \in [Events -> Seq(Threads)]
      /\ Null \notin Threads
  BY EventAssumption DEF IInv, MutexInv, MutexType, EvInv, EventType, PrioType, QueueType
<1>2. \A f \in Events : ~Posting(f)
  BY DEF Posting, Deleting
<1>p. PICK op \in {"post", "delete"} : op = "delete"
  OBVIOUS
<1>3. CASE TakeFirst("delete", e, 0, 1) /\ UNCHANGED <<freeEvents, pvTcbOwn, held>>
  <2>1. TakeFirst(op, e, 0, 1)
    BY <1>3, <1>p
  <2>2. /\ UNCHANGED <<ucPriority, ring, waitOn>>
        /\ \A f \in Events : Shrinks(wq'[f], wq[f])
        /\ nest' = 1 /\ frames'[1].op = op
    BY <2>1, TakePrio
  <2>3. \A f \in Events : ~Posting(f)'
    BY <1>p, <2>2 DEF Posting
  <2>4. UNCHANGED <<pvTcbOwn, ucPriority, ring, ulOption>> /\ UNCHANGED waitOn
    BY <1>3, <2>2
  <2> QED BY <1>2, <2>2, <2>3, <2>4, QuietPrio
<1>4. CASE /\ EventWaitNum(e) = 0
           /\ ucPriority' = IF pvTcbOwn[e] = Null THEN ucPriority
                            ELSE [ucPriority EXCEPT ![pvTcbOwn[e]] = ulMaxCounter[e]]
           /\ pvTcbOwn' = [pvTcbOwn EXCEPT ![e] = Null]
           /\ EndFrame(1) /\ UNCHANGED <<wq, ring>>
  <2>1. wq'[e] = <<>>
    BY <1>1, <1>4, NoWaiterFacts
  <2>2. \A f \in Events : ~Posting(f)'
    <3>1. nest' = 0
      BY <1>4 DEF EndFrame
    <3> QED BY <3>1 DEF Posting
  <2>3. ASSUME NEW f \in Events, f # e PROVE PrioKeeps(f)
    <3>1. pvTcbOwn'[f] = pvTcbOwn[f] /\ pvTcbOwn[f] \in Threads \cup {Null}
      BY <1>1, <1>4, <2>3
    <3>2. Has(f) = pvTcbOwn[f] /\ Has(f)' = pvTcbOwn[f]
      BY <1>2, <2>2, <3>1 DEF Has
    <3>3. \A u \in Threads : u # pvTcbOwn[e] => ucPriority'[u] = ucPriority[u]
      BY <1>1, <1>4
    <3>4. Has(f) = Null \/ ucPriority'[Has(f)] = ucPriority[Has(f)]
      <4>1. pvTcbOwn[f] # Null => pvTcbOwn[f] # pvTcbOwn[e]
        BY <2>3, <3>1 DEF OneAtATime
      <4> QED BY <3>1, <3>2, <3>3, <4>1
    <3>5. ASSUME NEW i \in 1..Len(wq[f]) PROVE ucPriority'[wq[f][i]] = ucPriority[wq[f][i]]
      <4>1. wq[f][i] \in Threads /\ waitOn[wq[f][i]] = f
        BY <1>1, WaiterAt
      <4>2. wq[f][i] # pvTcbOwn[e]
        BY <2>3, <4>1 DEF OneAtATime
      <4> QED BY <3>3, <4>1, <4>2
    <3>6. WaitersKeep(f)
      <4>1. Shrinks(wq'[f], wq[f])
        BY <1>1, <1>4, ShrinksSelf
      <4> QED BY <1>4, <3>5, <4>1 DEF WaitersKeep
    <3> QED BY <3>1, <3>2, <3>4, <3>6 DEF PrioKeeps
  <2>4. PrioKeeps(e)
    BY <2>1 DEF PrioKeeps
  <2>5. \A f \in Events : AwakeKeeps(f)
    BY <2>2 DEF AwakeKeeps
  <2> QED BY <2>3, <2>4, <2>5, PrioKept DEF PrioInv
<1> QED BY <1>3, <1>4 DEF DeleteLoop, DeleteEnds, queueVars

(* API_SemaphoreMDelete up to its first window, and a later round.           *)
LEMMA DeletePrio ==
  ASSUME IInv, IInv', PrioInv, OneAtATime, DeleteNext \/ \E e \in Events : SemaphoreMDelete(e)
  PROVE  PrioInv'
<1>1. ASSUME NEW e \in Events, SemaphoreMDelete(e) PROVE PrioInv'
  <2>1. nest = 0 /\ AtTop(1) /\ nest + 1 = 1 /\ nest \in {0, 1}
    BY <1>1 DEF SemaphoreMDelete, ThreadEnter, AtTop
  <2>2. DeleteLoop(e, 1) /\ UNCHANGED ulOption
    BY <1>1, <2>1 DEF SemaphoreMDelete
  <2>3. \A f \in Events : ucType'[f] = "MUTEX" => ucType[f] = "MUTEX"
    BY <1>1 DEF SemaphoreMDelete, IInv, MutexInv, MutexType
  <2> QED BY <2>1, <2>2, <2>3, DeleteLoopPrio
<1>2. CASE DeleteNext
  <2>1. /\ nest = 1 /\ frames[1].ev \in Events /\ frames[1].op = "delete" /\ frames[1].tcb = Null
    BY <1>2, SectionOpen DEF DeleteNext
  <2>2. PICK e \in Events : e = frames[1].ev
    BY <2>1
  <2>3. AtTop(1) /\ nest \in {0, 1} /\ Deleting(e) /\ DeleteLoop(e, 1)
    BY <1>2, <2>1, <2>2 DEF AtTop, Deleting, DeleteNext
  <2>4. UNCHANGED <<ucType, ulOption>>
    BY <1>2 DEF DeleteNext
  <2> QED BY <2>3, <2>4, DeleteLoopPrio
<1> QED BY <1>1, <1>2

(* Every step keeps the order of the queues and the bound.                   *)
LEMMA NextPrio ==
  ASSUME IInv, PrioInv, OneAtATime, IsrWakesPended = FALSE, MaxSig = 0 \/ MaxSuspend = 0,
         PrioChanges = FALSE, \A o \in Options : o.inherit => o.prio, [Next]_vars
  PROVE  PrioInv'
<1>0. IInv'
  BY NextIInv
<1>1. ASSUME NEW e \in Events, NEW c \in Ceilings, NEW o \in Options, SemaphoreMCreate(e, c, o)
      PROVE  PrioInv'
  BY <1>0, <1>1, CreatePrio
<1>2. ASSUME NEW e \in Events, NEW t \in Threads, NEW timeout \in Timeouts,
             SemaphoreMPend(t, e, timeout)
      PROVE  PrioInv'
  BY <1>0, <1>2, PendPrio
<1>3. ASSUME NEW e \in Events, NEW t \in Threads, SemaphoreMPost(t, e) PROVE PrioInv'
  BY <1>0, <1>3, PostPrio
<1>4. ASSUME NEW e \in Events, SemaphoreMDelete(e) PROVE PrioInv'
  BY <1>0, <1>4, DeletePrio
<1>5. ASSUME NEW t \in Threads, SemaphoreMPendAgain(t) PROVE PrioInv'
  BY <1>0, <1>5, PendPrio
<1>6. ASSUME NEW t \in Threads, SemaphoreMPendReturn(t) PROVE PrioInv'
  BY <1>0, <1>6, StillPrio DEF SemaphoreMPendReturn, PendReturn, queueVars, waitVars, mutexVars
<1>7. ASSUME NEW t \in Threads, NEW p \in Priorities, SetPriority(t, p) PROVE PrioInv'
  BY <1>7 DEF SetPriority, ThreadSetPriority
<1>8. CASE PostHigh \/ DeleteHigh \/ DeleteNext \/ Environment
  BY <1>0, <1>8, PostHighPrio, DeleteHighPrio, DeletePrio, EnvironmentPrio
<1>9. CASE UNCHANGED vars
  BY <1>0, <1>9, StillPrio DEF vars, eventVars, queueVars, waitVars, mutexVars
<1> QED BY <1>1, <1>2, <1>3, <1>4, <1>5, <1>6, <1>7, <1>8, <1>9 DEF Next

(* Priority inheritance (InheritBound): the thread that has a mutex is at    *)
(* least as urgent as every thread in its queue, also in the window of MPost *)
(* and after the hand-over, when the mutexes that inherit queue by priority, *)
(* nobody calls API_ThreadSetPriority and no owner of a mutex uses another.  *)
THEOREM InheritCorrect ==
  ASSUME IsrWakesPended = FALSE, MaxSig = 0 \/ MaxSuspend = 0, PrioChanges = FALSE,
         \A o \in Options : o.inherit => o.prio
  PROVE  Spec /\ []OneAtATime => []InheritBound
<1>1. Init => PrioInv
  <2> SUFFICES ASSUME Init, NEW e \in Events PROVE Ordered(e) /\ Urgent(e) /\ PosterAwake(e)
    BY DEF PrioInv
  <2>1. 1..Len(wq[e]) = {} /\ nest = 0
    BY DEF Init, EventInit
  <2> QED BY <2>1 DEF Ordered, InPlace, Urgent, PosterAwake, Posting
<1>2. IInv /\ PrioInv /\ OneAtATime /\ [Next]_vars => PrioInv'
  BY NextPrio
<1>3. IInv /\ PrioInv => InheritBound
  BY HolderIs DEF PrioInv, Urgent, InheritBound
<1>4. Spec => []IInv
  BY InductiveInvariant
<1> QED BY <1>1, <1>2, <1>3, <1>4, PTL DEF Spec

-----------------------------------------------------------------------------
(* What is saved and what is given back.                                     *)

(* The priority saved for the owner of a mutex is one the application gave   *)
(* it, or a more urgent one it inherited.                                    *)
SavedOK(e) == pvTcbOwn[e] # Null => ulMaxCounter[e] =< basePrio[pvTcbOwn[e]]

BaseInv == NeverLowered /\ \A e \in Events : SavedOK(e)

LEMMA BaseTypes ==
  ASSUME IInv
  PROVE  /\ \A t \in Threads : ucPriority[t] \in Nat /\ basePrio[t] \in Nat
         /\ ucPriority \in [Threads -> Priorities]
         /\ ulMaxCounter \in [Events -> Nat]
         /\ pvTcbOwn \in [Events -> Threads \cup {Null}]
         /\ Null \notin Threads
<1>1. Priorities \subseteq Nat /\ Null \notin Threads
  BY EventAssumption
<1>2. Lowest \in Nat
  BY SemaphoreMAssumption
<1>3. /\ ucPriority \in [Threads -> Priorities] /\ basePrio \in [Threads -> Priorities]
      /\ ulMaxCounter \in [Events -> Priorities \cup {Lowest}]
      /\ pvTcbOwn \in [Events -> Threads \cup {Null}]
  BY DEF IInv, MutexInv, MutexType, EvInv, EventType, PrioType
<1> QED BY <1>1, <1>2, <1>3

(* Steps that save nothing and give nothing back.                            *)
LEMMA StillBase ==
  ASSUME IInv, BaseInv, UNCHANGED <<ucPriority, basePrio, ulMaxCounter>>,
         \A e \in Events : pvTcbOwn'[e] = pvTcbOwn[e] \/ pvTcbOwn'[e] = Null
  PROVE  BaseInv'
  BY BaseTypes DEF BaseInv, NeverLowered, SavedOK

(* API_SemaphoreMPend: it saves the priority of the new owner, or boosts the *)
(* owner there is.                                                           *)
LEMMA PendBase ==
  ASSUME IInv, BaseInv, NEW t \in Threads, NEW e \in Events, NEW timeout,
         PendSection(t, e, timeout)
  PROVE  BaseInv'
<1>0. UNCHANGED basePrio
  BY DEF PendSection
<1>1. CASE PendFails(t, e, timeout) \/ PendRecurses(t, e)
  BY <1>0, <1>1, StillBase DEF PendFails, PendRecurses, mutexVars
<1>2. CASE PendTakes(t, e)
  BY <1>0, <1>2, BaseTypes DEF PendTakes, BaseInv, NeverLowered, SavedOK
<1>3. CASE PendWaits(t, e, timeout)
  <2>1. UNCHANGED <<ulMaxCounter, pvTcbOwn>> /\ EventPrioTryBoost(e, t)
    BY <1>3 DEF PendWaits, mutexVars
  <2>2. PICK new \in Nat : \/ ucPriority' = ucPriority
                           \/ /\ IsHigh(new, ucPriority[pvTcbOwn[e]])
                              /\ ucPriority' = [ucPriority EXCEPT ![pvTcbOwn[e]] = new]
    <3>1. ucCeilingPriority[e] \in Nat /\ ucPriority[t] \in Nat
      BY BaseTypes, EventAssumption, SemaphoreMAssumption DEF IInv, MutexInv, MutexType
    <3> QED BY <2>1, <3>1 DEF EventPrioTryBoost
  <2>3. \A u \in Threads : ucPriority'[u] =< ucPriority[u] /\ ucPriority'[u] \in Nat
    <3>1. CASE ucPriority' = ucPriority
      BY <3>1, BaseTypes
    <3>2. CASE /\ IsHigh(new, ucPriority[pvTcbOwn[e]])
               /\ ucPriority' = [ucPriority EXCEPT ![pvTcbOwn[e]] = new]
      BY <3>2, BaseTypes DEF IsHigh
    <3> QED BY <2>2, <3>1, <3>2
  <2> QED BY <1>0, <2>1, <2>3, BaseTypes DEF BaseInv, NeverLowered, SavedOK
<1> QED BY <1>1, <1>2, <1>3 DEF PendSection

(* Out of the window of API_SemaphoreMPost.                                  *)
LEMMA PostHighBase ==
  ASSUME IInv, BaseInv, PostHigh
  PROVE  BaseInv'
<1>0. PICK t : t = frames[nest].tcb
  OBVIOUS
<1>1. PICK e : e = frames[nest].ev
  OBVIOUS
<1>2. /\ nest > 0 /\ frames[nest].op = "post" /\ t # Null
      /\ ucPriority' = [ucPriority EXCEPT ![pvTcbOwn[e]] = ulMaxCounter[e]]
      /\ ulMaxCounter' = [ulMaxCounter EXCEPT ![e] = ucPriority'[t]]
      /\ pvTcbOwn' = [pvTcbOwn EXCEPT ![e] = t]
      /\ UNCHANGED basePrio
  BY <1>0, <1>1 DEF PostHigh
<1>3. /\ nest = 1 /\ e \in Events /\ frames[1].ev = e /\ frames[1].op = "post"
      /\ frames[1].tcb = t /\ frames[1] \in Frame
  BY <1>0, <1>1, <1>2, SectionOpen
<1>4. t \in Threads
  BY <1>2, <1>3 DEF Frame
<1>5. Posting(e) /\ EventOK(e)
  BY <1>3 DEF Posting, IInv, MutexInv
<1>6. pvTcbOwn[e] \in Threads /\ ulMaxCounter[e] =< basePrio[pvTcbOwn[e]]
  BY <1>3, <1>5, BaseTypes DEF EventOK, OwnerOK, BaseInv, SavedOK
<1>7. \A u \in Threads : ucPriority'[u] =< basePrio[u]
  BY <1>2, <1>6, BaseTypes DEF BaseInv, NeverLowered
<1>8. \A f \in Events : SavedOK(f)'
  <2>1. ulMaxCounter'[e] = ucPriority'[t] /\ pvTcbOwn'[e] = t
    BY <1>2, <1>3, BaseTypes
  <2>2. \A f \in Events : f # e => ulMaxCounter'[f] = ulMaxCounter[f] /\ pvTcbOwn'[f] = pvTcbOwn[f]
    BY <1>2, <1>3, BaseTypes
  <2> QED BY <1>2, <1>4, <1>7, <2>1, <2>2 DEF BaseInv, SavedOK
<1> QED BY <1>2, <1>7, <1>8 DEF BaseInv, NeverLowered

(* A round of the loop of API_SemaphoreMDelete, or its end.                  *)
LEMMA DeleteLoopBase ==
  ASSUME IInv, BaseInv, NEW e \in Events, NEW d, DeleteLoop(e, d),
         UNCHANGED <<ulMaxCounter, basePrio>>
  PROVE  BaseInv'
<1>1. CASE TakeFirst("delete", e, 0, d) /\ UNCHANGED <<freeEvents, pvTcbOwn, held>>
  BY <1>1, StillBase DEF TakeFirst
<1>2. CASE DeleteEnds(e, d)
  <2>1. /\ ucPriority' = IF pvTcbOwn[e] = Null THEN ucPriority
                         ELSE [ucPriority EXCEPT ![pvTcbOwn[e]] = ulMaxCounter[e]]
        /\ pvTcbOwn' = [pvTcbOwn EXCEPT ![e] = Null]
    BY <1>2 DEF DeleteEnds
  <2>2. \A u \in Threads : ucPriority'[u] =< basePrio[u]
    BY <2>1, BaseTypes DEF BaseInv, NeverLowered, SavedOK
  <2>3. \A f \in Events : pvTcbOwn'[f] = pvTcbOwn[f] \/ pvTcbOwn'[f] = Null
    BY <2>1, BaseTypes
  <2> QED BY <2>2, <2>3 DEF BaseInv, NeverLowered, SavedOK
<1> QED BY <1>1, <1>2 DEF DeleteLoop

(* Every step keeps what is saved and what is in force.                      *)
LEMMA NextBase ==
  ASSUME IInv, BaseInv, PrioChanges = FALSE, [Next]_vars
  PROVE  BaseInv'
<1>1. ASSUME NEW e \in Events, NEW c \in Ceilings, NEW o \in Options, SemaphoreMCreate(e, c, o)
      PROVE  BaseInv'
  <2>1. /\ UNCHANGED <<ucPriority, basePrio>>
        /\ ulMaxCounter' = [ulMaxCounter EXCEPT ![e] = Lowest]
        /\ pvTcbOwn' = [pvTcbOwn EXCEPT ![e] = Null]
    BY <1>1 DEF SemaphoreMCreate
  <2> QED BY <2>1, BaseTypes DEF BaseInv, NeverLowered, SavedOK
<1>2. ASSUME NEW e \in Events, NEW t \in Threads, NEW timeout \in Timeouts,
             SemaphoreMPend(t, e, timeout)
      PROVE  BaseInv'
  BY <1>2, PendBase DEF SemaphoreMPend
<1>3. ASSUME NEW e \in Events, NEW t \in Threads, SemaphoreMPost(t, e) PROVE BaseInv'
  <2>1. UNCHANGED basePrio
    BY <1>3 DEF SemaphoreMPost
  <2>2. CASE PostRecursed(e) \/ PostHandsOver(e)
    BY <2>1, <2>2, StillBase DEF PostRecursed, PostHandsOver, TakeFirst, eventVars, mutexVars
  <2>3. CASE PostFrees(e)
    <3>1. /\ UNCHANGED ucPriority
          /\ ulMaxCounter' = [ulMaxCounter EXCEPT ![e] = Lowest]
          /\ pvTcbOwn' = [pvTcbOwn EXCEPT ![e] = Null]
      BY <2>3 DEF PostFrees, eventVars
    <3> QED BY <2>1, <3>1, BaseTypes DEF BaseInv, NeverLowered, SavedOK
  <2> QED BY <1>3, <2>2, <2>3 DEF SemaphoreMPost
<1>4. ASSUME NEW e \in Events, SemaphoreMDelete(e) PROVE BaseInv'
  BY <1>4, DeleteLoopBase DEF SemaphoreMDelete
<1>5. ASSUME NEW t \in Threads, SemaphoreMPendAgain(t) PROVE BaseInv'
  <2>0. call[t].pc = "again" /\ call[t].got = "no" /\ call[t] \in Call
    BY <1>5 DEF SemaphoreMPendAgain, IInv, EvHonest, HonestCall, EvInv, EventType, CallType
  <2>1. call[t].ev \in Events
    BY <2>0 DEF IInv, EvCalls, HasEvent, Call
  <2> QED BY <1>5, <2>1, PendBase DEF SemaphoreMPendAgain
<1>6. ASSUME NEW t \in Threads, SemaphoreMPendReturn(t) PROVE BaseInv'
  BY <1>6, StillBase DEF SemaphoreMPendReturn, PendReturn, mutexVars
<1>7. ASSUME NEW t \in Threads, NEW p \in Priorities, SetPriority(t, p) PROVE BaseInv'
  BY <1>7 DEF SetPriority, ThreadSetPriority
<1>8. CASE PostHigh
  BY <1>8, PostHighBase
<1>9. CASE DeleteHigh
  BY <1>9, StillBase DEF DeleteHigh, mutexVars
<1>10. CASE DeleteNext
  <2>1. nest > 0 /\ frames[nest].op # "tick"
    BY <1>10 DEF DeleteNext
  <2>2. frames[nest].ev \in Events
    BY <2>1, SectionOpen
  <2> QED BY <1>10, <2>2, DeleteLoopBase DEF DeleteNext
<1>11. CASE Environment
  <2>1. UNCHANGED ucPriority
    BY <1>11 DEF Environment, Tick, TickNext, ThreadWakeup, Signal, SigReturn, ThreadSuspend,
                 ThreadResume
  <2> QED BY <1>11, <2>1, StillBase DEF Environment, mutexVars
<1>12. CASE UNCHANGED vars
  BY <1>12, StillBase DEF vars, eventVars, mutexVars
<1> QED BY <1>1, <1>2, <1>3, <1>4, <1>5, <1>6, <1>7, <1>8, <1>9, <1>10, <1>11, <1>12 DEF Next

(* NeverLowered: however mutexes are handed over, nested and deleted, what   *)
(* MPost and MDelete give back to a thread is never less urgent than what    *)
(* the application gave it, while nobody calls API_ThreadSetPriority.        *)
THEOREM NeverLoweredCorrect ==
  ASSUME IsrWakesPended = FALSE, MaxSig = 0 \/ MaxSuspend = 0, PrioChanges = FALSE
  PROVE  Spec => []NeverLowered
<1>1. Init => BaseInv
  <2> SUFFICES ASSUME Init PROVE BaseInv
    OBVIOUS
  <2>1. /\ \A t \in Threads : ucPriority[t] \in Nat /\ basePrio[t] = ucPriority[t]
        /\ \A e \in Events : pvTcbOwn[e] = Null
    BY InitIInv, BaseTypes DEF Init
  <2> QED BY <2>1 DEF BaseInv, NeverLowered, SavedOK
<1>2. IInv /\ BaseInv /\ [Next]_vars => BaseInv'
  BY NextBase
<1>3. BaseInv => NeverLowered
  BY DEF BaseInv
<1>4. Spec => []IInv
  BY InductiveInvariant
<1> QED BY <1>1, <1>2, <1>3, <1>4, PTL DEF Spec

-----------------------------------------------------------------------------
(* The mutexes are locks: every step is a step of Lock, or invisible there.  *)

LockStep == [L!Next]_(L!vars)

WaitersOf(e) == {t \in Threads : Contains(wq[e], t)}
DepthOf(e) == IF Has(e) = Null THEN 0 ELSE pvPtr[e]

(* The variables of Lock.                                                    *)
Owners == [e \in Events |-> Holder(e)]
Depths == [e \in Events |-> IF Holder(e) = Null THEN 0 ELSE pvPtr[e]]
Waits  == [e \in Events |-> WaitersOf(e)]

(* Lock sees nothing of e change, or nothing of the others.                  *)
SeenSame(e) == /\ Has(e)' = Has(e)
               /\ DepthOf(e)' = DepthOf(e)
               /\ WaitersOf(e)' = WaitersOf(e)

OthersSame(e) == \A f \in Events : f # e => SeenSame(f)

Idle(t) == \A f \in Events : t \notin WaitersOf(f)

(* Who has a mutex after a step.                                             *)
LEMMA HolderThen ==
  ASSUME IInv', NEW e \in Events
  PROVE  Holder(e)' = Has(e)'
<1>0. nest' \in 0..MaxNest /\ Sections'
  BY DEF IInv, MutexInv, EvInv, EventType, KernType
<1>1. CASE Posting(e)'
  <2>1. {j \in 1..nest' : frames'[j].op = "post" /\ frames'[j].ev = e} = {1}
    BY <1>0, <1>1 DEF Posting, Sections
  <2>2. HandTo(e)' = {frames'[1].tcb}
    BY <2>1 DEF HandTo
  <2> QED BY <1>1, <2>2 DEF Holder, Has
<1>2. CASE ~Posting(e)'
  <2>1. {j \in 1..nest' : frames'[j].op = "post" /\ frames'[j].ev = e} = {}
    BY <1>0, <1>2 DEF Posting, Sections
  <2>2. HandTo(e)' = {}
    BY <2>1 DEF HandTo
  <2> QED BY <1>2, <2>2 DEF Holder, Has
<1> QED BY <1>1, <1>2

(* The variables of Lock before and after a step that it sees of one mutex.  *)
LEMMA LockMaps ==
  ASSUME IInv, IInv', NEW e \in Events, OthersSame(e)
  PROVE  /\ Owners' = [Owners EXCEPT ![e] = Has(e)']
         /\ Depths' = [Depths EXCEPT ![e] = DepthOf(e)']
         /\ Waits' = [Waits EXCEPT ![e] = WaitersOf(e)']
         /\ Owners[e] = Has(e) /\ Depths[e] = DepthOf(e)
         /\ \A f \in Events : Waits[f] = WaitersOf(f)
         /\ Has(e)' = Has(e) => Owners' = Owners
         /\ DepthOf(e)' = DepthOf(e) => Depths' = Depths
         /\ WaitersOf(e)' = WaitersOf(e) => Waits' = Waits
<1>1. \A f \in Events : Holder(f) = Has(f) /\ Holder(f)' = Has(f)'
  BY HolderIs, HolderThen
<1>2. Owners = [f \in Events |-> Has(f)] /\ Owners' = [f \in Events |-> Has(f)']
  BY <1>1 DEF Owners
<1>3. Depths = [f \in Events |-> DepthOf(f)] /\ Depths' = [f \in Events |-> DepthOf(f)']
  BY <1>1 DEF Depths, DepthOf
<1>4. Waits = [f \in Events |-> WaitersOf(f)] /\ Waits' = [f \in Events |-> WaitersOf(f)']
  BY DEF Waits, WaitersOf
<1>5. \A f \in Events : f # e => /\ Has(f)' = Has(f) /\ DepthOf(f)' = DepthOf(f)
                                 /\ WaitersOf(f)' = WaitersOf(f)
  BY DEF OthersSame, SeenSame
<1>6. /\ Owners' = [Owners EXCEPT ![e] = Has(e)'] /\ Owners[e] = Has(e)
      /\ Has(e)' = Has(e) => Owners' = Owners
  BY <1>2, <1>5
<1>7. /\ Depths' = [Depths EXCEPT ![e] = DepthOf(e)'] /\ Depths[e] = DepthOf(e)
      /\ DepthOf(e)' = DepthOf(e) => Depths' = Depths
  BY <1>3, <1>5
<1>8. /\ Waits' = [Waits EXCEPT ![e] = WaitersOf(e)'] /\ \A f \in Events : Waits[f] = WaitersOf(f)
      /\ WaitersOf(e)' = WaitersOf(e) => Waits' = Waits
  BY <1>4, <1>5
<1> QED BY <1>6, <1>7, <1>8

(* Nothing changes that Lock sees.                                           *)
LEMMA LockSame ==
  ASSUME IInv, IInv', \A e \in Events : SeenSame(e)
  PROVE  LockStep
<1>1. \A f \in Events : Holder(f) = Has(f) /\ Holder(f)' = Has(f)'
  BY HolderIs, HolderThen
<1>2. Owners' = Owners
  BY <1>1 DEF Owners, SeenSame
<1>3. Depths' = Depths
  BY <1>1 DEF Depths, DepthOf, SeenSame
<1>4. Waits' = Waits
  BY DEF Waits, WaitersOf, SeenSame
<1> QED BY <1>2, <1>3, <1>4 DEF LockStep, L!vars, Owners, Depths, Waits, WaitersOf

(* A free mutex is taken.                                                    *)
LEMMA SimAcquire ==
  ASSUME IInv, IInv', NEW e \in Events, OthersSame(e), NEW t \in Threads, Has(e) = Null,
         WaitersOf(e) = {}, Idle(t), Has(e)' = t, DepthOf(e)' = DepthOf(e),
         WaitersOf(e)' = WaitersOf(e)
  PROVE  LockStep
<1>1. /\ Owners[e] = Null /\ Waits[e] = {} /\ \A m \in Events : t \notin Waits[m]
      /\ Owners' = [Owners EXCEPT ![e] = t] /\ Depths' = Depths /\ Waits' = Waits
  BY LockMaps DEF Idle
<1>2. L!Active(t)
  BY <1>1 DEF L!Active, Waits, WaitersOf
<1>3. L!Acquire(e, t)
  BY <1>1, <1>2 DEF L!Acquire, Owners, Depths, Waits, WaitersOf
<1> QED BY <1>3 DEF LockStep, L!Next

(* The owner takes the mutex again, or gives up one of several holds.        *)
LEMMA SimDepth ==
  ASSUME IInv, IInv', NEW e \in Events, OthersSame(e), Has(e) # Null, Idle(Has(e)),
         Has(e)' = Has(e), WaitersOf(e)' = WaitersOf(e),
         DepthOf(e)' = DepthOf(e) + 1 \/ (DepthOf(e) > 0 /\ DepthOf(e)' = DepthOf(e) - 1)
  PROVE  LockStep
<1>0. /\ Owners[e] = Has(e) /\ Depths[e] = DepthOf(e) /\ \A m \in Events : Waits[m] = WaitersOf(m)
      /\ Owners' = Owners /\ Depths' = [Depths EXCEPT ![e] = DepthOf(e)'] /\ Waits' = Waits
  BY LockMaps
<1>1. \A m \in Events : Owners[e] \notin Waits[m]
  BY <1>0 DEF Idle
<1>2. L!Active(Owners[e])
  BY <1>1 DEF L!Active, Waits, WaitersOf
<1>3. CASE DepthOf(e)' = DepthOf(e) + 1
  <2>1. Depths' = [Depths EXCEPT ![e] = Depths[e] + 1]
    BY <1>0, <1>3
  <2>2. L!Reenter(e)
    BY <1>0, <1>2, <2>1 DEF L!Reenter, Owners, Depths, Waits, WaitersOf
  <2> QED BY <2>2 DEF LockStep, L!Next
<1>4. CASE DepthOf(e) > 0 /\ DepthOf(e)' = DepthOf(e) - 1
  <2>1. Depths' = [Depths EXCEPT ![e] = Depths[e] - 1] /\ Depths[e] > 0
    BY <1>0, <1>4
  <2>2. L!Leave(e)
    BY <1>0, <1>2, <2>1 DEF L!Leave, Owners, Depths, Waits, WaitersOf
  <2> QED BY <2>2 DEF LockStep, L!Next
<1> QED BY <1>3, <1>4

(* A thread waits for a mutex that somebody has.                             *)
LEMMA SimWait ==
  ASSUME IInv, IInv', NEW e \in Events, OthersSame(e), NEW t \in Threads, Has(e) # Null, Idle(t),
         Has(e)' = Has(e), DepthOf(e)' = DepthOf(e), WaitersOf(e)' = WaitersOf(e) \cup {t}
  PROVE  LockStep
<1>1. /\ Owners[e] # Null /\ \A m \in Events : t \notin Waits[m]
      /\ Owners' = Owners /\ Depths' = Depths /\ Waits' = [Waits EXCEPT ![e] = Waits[e] \cup {t}]
  BY LockMaps DEF Idle
<1>2. L!Active(t)
  BY <1>1 DEF L!Active, Waits, WaitersOf
<1>3. L!Wait(e, t)
  BY <1>1, <1>2 DEF L!Wait, Owners, Depths, Waits, WaitersOf
<1> QED BY <1>3 DEF LockStep, L!Next

(* A thread waits no longer.                                                 *)
LEMMA SimGiveUp ==
  ASSUME IInv, IInv', NEW e \in Events, OthersSame(e), NEW t \in WaitersOf(e),
         Has(e)' = Has(e), DepthOf(e)' = DepthOf(e), WaitersOf(e)' = WaitersOf(e) \ {t}
  PROVE  LockStep
<1>0. t \in Threads
  BY DEF WaitersOf
<1>1. /\ t \in Waits[e] /\ Owners' = Owners /\ Depths' = Depths
      /\ Waits' = [Waits EXCEPT ![e] = Waits[e] \ {t}]
  BY LockMaps
<1>3. L!GiveUp(e, t)
  BY <1>1 DEF L!GiveUp, Owners, Depths, Waits, WaitersOf
<1> QED BY <1>0, <1>3 DEF LockStep, L!Next

(* The owner hands the mutex to one that waits, or gives it up.              *)
LEMMA SimRelease ==
  ASSUME IInv, IInv', NEW e \in Events, OthersSame(e), Has(e) # Null, Idle(Has(e)),
         DepthOf(e) = 0, DepthOf(e)' = 0,
         \/ WaitersOf(e) = {} /\ Has(e)' = Null /\ WaitersOf(e)' = WaitersOf(e)
         \/ \E t \in WaitersOf(e) : Has(e)' = t /\ WaitersOf(e)' = WaitersOf(e) \ {t}
  PROVE  LockStep
<1>0. /\ Owners[e] = Has(e) /\ Depths[e] = 0 /\ \A m \in Events : Waits[m] = WaitersOf(m)
      /\ Owners' = [Owners EXCEPT ![e] = Has(e)'] /\ Depths' = Depths
      /\ Waits' = [Waits EXCEPT ![e] = WaitersOf(e)']
  BY LockMaps
<1>1. \A m \in Events : Owners[e] \notin Waits[m]
  BY <1>0 DEF Idle
<1>2. L!Active(Owners[e])
  BY <1>1 DEF L!Active, Waits, WaitersOf
<1>3. CASE WaitersOf(e) = {} /\ Has(e)' = Null /\ WaitersOf(e)' = WaitersOf(e)
  <2>1. Waits' = Waits /\ Waits[e] = {} /\ Owners' = [Owners EXCEPT ![e] = Null]
    BY <1>0, <1>3, LockMaps
  <2>2. L!Release(e)
    BY <1>0, <1>2, <2>1 DEF L!Release, Owners, Depths, Waits, WaitersOf
  <2> QED BY <2>2 DEF LockStep, L!Next
<1>4. ASSUME NEW t \in WaitersOf(e), Has(e)' = t, WaitersOf(e)' = WaitersOf(e) \ {t}
      PROVE  LockStep
  <2>0. t \in Threads
    BY DEF WaitersOf
  <2>1. /\ t \in Waits[e] /\ Owners' = [Owners EXCEPT ![e] = t]
        /\ Waits' = [Waits EXCEPT ![e] = Waits[e] \ {t}]
    BY <1>0, <1>4
  <2>2. L!PassOn(e, t)
    BY <1>0, <1>2, <2>1 DEF L!PassOn, Owners, Depths, Waits, WaitersOf
  <2> QED BY <2>0, <2>2 DEF LockStep, L!Next
<1> QED BY <1>3, <1>4

(* A mutex that nobody waits for is destroyed.                               *)
LEMMA SimDestroy ==
  ASSUME IInv, IInv', NEW e \in Events, OthersSame(e), WaitersOf(e) = {}, Has(e)' = Null,
         WaitersOf(e)' = {}
  PROVE  LockStep
<1>0. DepthOf(e)' = 0
  BY DEF DepthOf
<1>1. /\ Waits[e] = {} /\ Owners' = [Owners EXCEPT ![e] = Null]
      /\ Depths' = [Depths EXCEPT ![e] = 0] /\ Waits' = Waits
  BY <1>0, LockMaps
<1>2. L!Destroy(e)
  BY <1>1 DEF L!Destroy, Owners, Depths, Waits, WaitersOf
<1> QED BY <1>2 DEF LockStep, L!Next

-----------------------------------------------------------------------------
(* What the actions do to owners, depths and waiters.                        *)

(* Waiters, owners and sections of a mutex that are left alone.              *)
LEMMA SeenKept ==
  ASSUME NEW e \in Events, SameSection(e), pvTcbOwn'[e] = pvTcbOwn[e], pvPtr'[e] = pvPtr[e]
  PROVE  /\ Has(e)' = Has(e) /\ DepthOf(e)' = DepthOf(e)
         /\ wq'[e] = wq[e] => SeenSame(e)
<1>1. Has(e)' = Has(e)
  BY DEF Has, SameSection
<1>2. DepthOf(e)' = DepthOf(e)
  BY <1>1 DEF DepthOf
<1>3. wq'[e] = wq[e] => WaitersOf(e)' = WaitersOf(e)
  BY DEF WaitersOf, Contains
<1> QED BY <1>1, <1>2, <1>3 DEF SeenSame

(* A step that changes no queue and no owner.                                *)
LEMMA StillLock ==
  ASSUME IInv, IInv', UNCHANGED <<wq, pvTcbOwn, pvPtr>>, \A e \in Events : SameSection(e)
  PROVE  LockStep
  BY SeenKept, LockSame

(* A wait is aborted.                                                        *)
LEMMA AbortLock ==
  ASSUME IInv, IInv', UNCHANGED <<pvTcbOwn, pvPtr>>, \A e \in Events : SameSection(e),
         NEW t \in Threads, NEW o \in {"CLEAR", "OUT"}, ~IsReady(t), ~InLimbo(t), AbortWait(t, o)
  PROVE  LockStep
<1>0. EvInv /\ waitOn \in [Threads -> Events \cup {Null}] /\ Null \notin Events
  BY EventAssumption DEF IInv, EvInv, EventType, WaitType
<1>1. /\ waitOn' = [waitOn EXCEPT ![t] = Null]
      /\ \A e \in Events, u \in Threads : Contains(wq'[e], u) <=> waitOn'[u] = e /\ ~InLimbo(u)
  BY <1>0, AbortFacts
<1>2. \A e \in Events, u \in Threads : Contains(wq[e], u) <=> waitOn[u] = e /\ ~InLimbo(u)
  BY <1>0 DEF EvInv, QueuesAgree
<1>3. \A e \in Events : WaitersOf(e)' = WaitersOf(e) \ {t}
  <2> SUFFICES ASSUME NEW e \in Events, NEW u \in Threads
               PROVE  Contains(wq'[e], u) <=> Contains(wq[e], u) /\ u # t
    BY DEF WaitersOf, Contains
  <2>1. waitOn'[u] = IF u = t THEN Null ELSE waitOn[u]
    BY <1>0, <1>1
  <2> QED BY <1>0, <1>1, <1>2, <2>1
<1>4. \A e \in Events : Has(e)' = Has(e) /\ DepthOf(e)' = DepthOf(e)
  BY SeenKept
<1>5. CASE \E e \in Events : t \in WaitersOf(e)
  <2>1. PICK e \in Events : t \in WaitersOf(e)
    BY <1>5
  <2>2. \A f \in Events : f # e => t \notin WaitersOf(f)
    BY <1>2, <2>1 DEF WaitersOf
  <2>3. OthersSame(e)
    BY <1>3, <1>4, <2>2 DEF OthersSame, SeenSame
  <2> QED BY <1>3, <1>4, <2>1, <2>3, SimGiveUp
<1>6. CASE \A e \in Events : t \notin WaitersOf(e)
  <2>1. \A e \in Events : SeenSame(e)
    BY <1>3, <1>4, <1>6 DEF SeenSame
  <2> QED BY <2>1, LockSame
<1> QED BY <1>5, <1>6

(* Ticks, wakeups, signals, suspends and resumes.                            *)
LEMMA EnvironmentLock ==
  ASSUME IInv, IInv', IsrWakesPended = FALSE, Environment
  PROVE  LockStep
<1>0. UNCHANGED <<pvTcbOwn, pvPtr>> /\ EvInv /\ EvInv'
  BY DEF Environment, mutexVars, IInv
<1>1. CASE Tick \/ TickNext
  <2>1. \A e \in Events : SameSection(e)
    BY <1>0, <1>1, TickLeaves, SectionAfter
  <2>2. CASE \E t \in Threads : ~IsReady(t) /\ ~InLimbo(t) /\ AbortWait(t, "CLEAR")
    BY <1>0, <2>1, <2>2, AbortLock
  <2>3. CASE UNCHANGED wq
    BY <1>0, <2>1, <2>3, StillLock
  <2> QED BY <1>0, <1>1, <2>2, <2>3, TickCases
<1>2. ASSUME NEW t \in Threads, NEW inf \in BOOLEAN, ThreadWakeup(t, inf) PROVE LockStep
  <2>1. \A e \in Events : SameSection(e)
    BY <1>0, <1>2, ThreadWakeupLeaves, SectionAfter
  <2>2. /\ ~IsReady(t) /\ ~InLimbo(t) /\ AbortWait(t, ucWaitTimeout[t])
        /\ ucWaitTimeout[t] \in {"CLEAR", "OUT"}
    BY <1>0, <1>2, ThreadWakeupCases
  <2> QED BY <1>0, <2>1, <2>2, AbortLock
<1>3. ASSUME NEW t \in Threads, NEW s \in {"EINTR", "RESTART"}, Signal(t, s) PROVE LockStep
  <2>1. \A e \in Events : SameSection(e)
    BY <1>0, <1>3, SignalLeaves, SectionAfter
  <2>2. ~InLimbo(t) /\ IF IsReady(t) THEN UNCHANGED wq ELSE AbortWait(t, "CLEAR")
    BY <1>0, <1>3, SignalCases
  <2>3. CASE IsReady(t)
    BY <1>0, <2>1, <2>2, <2>3, StillLock
  <2>4. CASE ~IsReady(t)
    BY <1>0, <2>1, <2>2, <2>4, AbortLock
  <2> QED BY <2>3, <2>4
<1>4. ASSUME NEW t \in Threads,
             \/ SigReturn(t) \/ ThreadSuspend(t)
             \/ \E levels \in {1, ulSuspendNesting[t]} : ThreadResume(t, levels)
      PROVE  LockStep
  <2>1. UNCHANGED wq /\ UNCHANGED kernVars
    BY <1>4 DEF SigReturn, ThreadSuspend, ThreadResume, queueVars
  <2>2. \A e \in Events : SameSection(e)
    BY <2>1, SectionAfter
  <2> QED BY <1>0, <2>1, <2>2, StillLock
<1> QED BY <1>1, <1>2, <1>3, <1>4 DEF Environment

(* A ready thread waits for nothing.                                         *)
LEMMA ReadyIdle ==
  ASSUME IInv, NEW t \in Threads, IsReady(t)
  PROVE  waitOn[t] = Null /\ Idle(t)
<1>1. EvInv /\ Null \notin Events
  BY EventAssumption DEF IInv
<1>2. waitOn[t] = Null
  BY <1>1, EventAssumption DEF EvInv, EvWait, WaitOK, IsReady
<1> QED BY <1>1, <1>2 DEF EvInv, QueuesAgree, Idle, WaitersOf

(* An empty queue, and one without waiters.                                  *)
LEMMA NoWaiters ==
  ASSUME NEW e \in Events, wq[e] = <<>>
  PROVE  WaitersOf(e) = {}
  BY DEF WaitersOf, Contains

(* API_SemaphoreMCreate, of a mutex that nobody has or waits for.            *)
LEMMA CreateLock ==
  ASSUME IInv, IInv', NEW e \in Events, NEW c \in Ceilings, NEW o \in Options,
         SemaphoreMCreate(e, c, o)
  PROVE  LockStep
<1>1. /\ ThreadEnter /\ UNCHANGED kernVars /\ e \in freeEvents
      /\ wq' = [wq EXCEPT ![e] = <<>>] /\ pvTcbOwn' = [pvTcbOwn EXCEPT ![e] = Null]
      /\ pvPtr' = [pvPtr EXCEPT ![e] = 0]
  BY DEF SemaphoreMCreate
<1>2. /\ MutexType /\ wq \in [Events -> Seq(Threads)]
  BY DEF IInv, MutexInv, EvInv, EventType, QueueType
<1>3. \A f : SameSection(f)
  BY <1>1, SectionAfter
<1>4. wq[e] = <<>> /\ pvTcbOwn[e] = Null /\ ~Posting(e)
  BY <1>1, ThreadSees DEF OwnerOK
<1>5. wq'[e] = <<>> /\ pvTcbOwn'[e] = Null
  BY <1>1, <1>2 DEF MutexType
<1>6. SeenSame(e)
  <2>1. Has(e) = Null /\ Has(e)' = Null
    BY <1>3, <1>4, <1>5 DEF Has, SameSection
  <2>2. DepthOf(e) = 0 /\ DepthOf(e)' = 0
    BY <2>1 DEF DepthOf
  <2>3. WaitersOf(e)' = WaitersOf(e)
    BY <1>4, <1>5 DEF WaitersOf, Contains
  <2> QED BY <2>1, <2>2, <2>3 DEF SeenSame
<1>7. ASSUME NEW f \in Events, f # e PROVE SeenSame(f)
  <2>1. wq'[f] = wq[f] /\ pvTcbOwn'[f] = pvTcbOwn[f] /\ pvPtr'[f] = pvPtr[f]
    BY <1>1, <1>2, <1>7 DEF MutexType
  <2> QED BY <1>3, <2>1, SeenKept
<1> QED BY <1>6, <1>7, LockSame

(* A free mutex is taken by the thread that pends.                           *)
LEMMA PendTakesLock ==
  ASSUME IInv, IInv', NEW t \in Threads, NEW e \in Events, ThreadEnter, IsReady(t),
         PendTakes(t, e), UNCHANGED kernVars
  PROVE  LockStep
<1>1. /\ ucType[e] = "MUTEX" /\ ulCounter[e] /\ pvTcbOwn' = [pvTcbOwn EXCEPT ![e] = t]
      /\ UNCHANGED <<wq, pvPtr>>
  BY DEF PendTakes, queueVars
<1>2. /\ MutexType /\ OwnerOK(e) /\ Has(e) = pvTcbOwn[e] /\ ~Posting(e) /\ Null \notin Threads
  BY ThreadSees
<1>3. \A f : SameSection(f)
  BY SectionAfter
<1>4. pvTcbOwn[e] = Null /\ wq[e] = <<>> /\ pvPtr[e] = 0 /\ pvPtr'[e] = 0
  BY <1>1, <1>2 DEF OwnerOK
<1>5. pvTcbOwn'[e] = t
  BY <1>1, <1>2 DEF MutexType
<1>6. Has(e) = Null /\ Has(e)' = t
  BY <1>2, <1>3, <1>4, <1>5 DEF Has, SameSection
<1>7. DepthOf(e) = 0 /\ DepthOf(e)' = 0
  BY <1>4, <1>6 DEF DepthOf
<1>8. WaitersOf(e) = {} /\ WaitersOf(e)' = WaitersOf(e)
  BY <1>1, <1>4 DEF WaitersOf, Contains
<1>9. ASSUME NEW f \in Events, f # e PROVE SeenSame(f)
  <2>1. wq'[f] = wq[f] /\ pvTcbOwn'[f] = pvTcbOwn[f] /\ pvPtr'[f] = pvPtr[f]
    BY <1>1, <1>2, <1>9 DEF MutexType
  <2> QED BY <1>3, <2>1, SeenKept
<1>10. OthersSame(e)
  BY <1>9 DEF OthersSame
<1> QED BY <1>6, <1>7, <1>8, <1>10, ReadyIdle, SimAcquire

(* The owner pends again, or posts one of several pends.                     *)
LEMMA DepthLock ==
  ASSUME IInv, IInv', NEW t \in Threads, NEW e \in Events, ThreadEnter, IsReady(t),
         pvTcbOwn[e] = t, UNCHANGED kernVars, UNCHANGED <<wq, pvTcbOwn>>,
         \/ pvPtr' = [pvPtr EXCEPT ![e] = @ + 1]
         \/ pvPtr[e] > 0 /\ pvPtr' = [pvPtr EXCEPT ![e] = @ - 1]
  PROVE  LockStep
<1>2. /\ MutexType /\ Has(e) = pvTcbOwn[e] /\ Null \notin Threads
  BY ThreadSees
<1>3. \A f : SameSection(f)
  BY SectionAfter
<1>4. Has(e) = t /\ Has(e)' = t /\ t # Null
  BY <1>2, <1>3 DEF Has, SameSection
<1>5. DepthOf(e) = pvPtr[e] /\ DepthOf(e)' = pvPtr'[e]
  BY <1>4 DEF DepthOf
<1>6. \/ pvPtr'[e] = pvPtr[e] + 1
      \/ pvPtr[e] > 0 /\ pvPtr'[e] = pvPtr[e] - 1
  BY <1>2 DEF MutexType
<1>7. WaitersOf(e)' = WaitersOf(e)
  BY DEF WaitersOf, Contains
<1>8. ASSUME NEW f \in Events, f # e PROVE SeenSame(f)
  <2>1. pvPtr'[f] = pvPtr[f]
    BY <1>2, <1>8 DEF MutexType
  <2> QED BY <1>3, <2>1, SeenKept
<1>9. OthersSame(e)
  BY <1>8 DEF OthersSame
<1>10. Idle(Has(e)) /\ Has(e) # Null /\ Has(e)' = Has(e)
  BY <1>4, ReadyIdle
<1>11. DepthOf(e)' = DepthOf(e) + 1 \/ (DepthOf(e) > 0 /\ DepthOf(e)' = DepthOf(e) - 1)
  BY <1>5, <1>6
<1> QED BY <1>7, <1>9, <1>10, <1>11, SimDepth

(* A thread waits: somebody has the mutex.                                   *)
LEMMA PendWaitsLock ==
  ASSUME IInv, IInv', NEW t \in Threads, NEW e \in Events, NEW timeout \in Timeouts,
         ThreadEnter, IsReady(t), PendWaits(t, e, timeout), UNCHANGED kernVars
  PROVE  LockStep
<1>0. /\ UNCHANGED <<ucType, pvTcbOwn, pvPtr>> /\ ucType[e] = "MUTEX" /\ ~ulCounter[e]
      /\ waitOn' = [waitOn EXCEPT ![t] = e]
  BY DEF PendWaits, mutexVars, EventWait
<1>1. /\ OwnerOK(e) /\ Has(e) = pvTcbOwn[e] /\ EvInv /\ EvInv' /\ nest = 0 /\ nest' = 0
  BY ThreadSees DEF ThreadEnter, kernVars, IInv
<1>2. /\ waitOn \in [Threads -> Events \cup {Null}] /\ Null \notin Events
  BY <1>1, EventAssumption DEF EvInv, EventType, WaitType
<1>3. \A f : SameSection(f)
  BY SectionAfter
<1>4. \A u \in Threads : ~InLimbo(u) /\ ~InLimbo(u)'
  BY <1>1 DEF InLimbo
<1>5. /\ \A f \in Events, u \in Threads : Contains(wq[f], u) <=> waitOn[u] = f
      /\ \A f \in Events, u \in Threads : Contains(wq'[f], u) <=> waitOn'[u] = f
  BY <1>1, <1>4 DEF EvInv, QueuesAgree, InLimbo, Contains
<1>6. waitOn[t] = Null /\ Idle(t)
  BY ReadyIdle
<1>7. \A u \in Threads : waitOn'[u] = IF u = t THEN e ELSE waitOn[u]
  BY <1>0, <1>2
<1>8. WaitersOf(e)' = WaitersOf(e) \cup {t}
  BY <1>5, <1>7 DEF WaitersOf, Contains
<1>9. \A f \in Events : f # e => WaitersOf(f)' = WaitersOf(f)
  BY <1>2, <1>5, <1>6, <1>7 DEF WaitersOf, Contains
<1>10. \A f \in Events : Has(f)' = Has(f) /\ DepthOf(f)' = DepthOf(f)
  BY <1>0, <1>3, SeenKept
<1>11. OthersSame(e)
  BY <1>9, <1>10 DEF OthersSame, SeenSame
<1>12. Has(e) # Null
  BY <1>0, <1>1 DEF OwnerOK
<1> QED BY <1>6, <1>8, <1>10, <1>11, <1>12, SimWait

(* API_SemaphoreMPend, the first time and again after a signal.              *)
LEMMA PendLock ==
  ASSUME IInv, IInv', NEW t \in Threads,
         \/ \E e \in Events, timeout \in Timeouts : SemaphoreMPend(t, e, timeout)
         \/ SemaphoreMPendAgain(t)
  PROVE  LockStep
<1>1. ASSUME NEW e \in Events, NEW timeout \in Timeouts, IsReady(t), PendSection(t, e, timeout)
      PROVE  LockStep
  <2>1. ThreadEnter /\ UNCHANGED kernVars
    BY <1>1 DEF PendSection
  <2>2. CASE PendFails(t, e, timeout)
    <3>1. UNCHANGED <<wq, pvTcbOwn, pvPtr>> /\ \A f \in Events : SameSection(f)
      BY <2>1, <2>2, SectionAfter DEF PendFails, queueVars, mutexVars
    <3> QED BY <3>1, StillLock
  <2>3. CASE PendTakes(t, e)
    BY <1>1, <2>1, <2>3, PendTakesLock
  <2>4. CASE PendRecurses(t, e)
    <3>1. /\ pvTcbOwn[e] = t /\ UNCHANGED <<wq, pvTcbOwn>>
          /\ pvPtr' = [pvPtr EXCEPT ![e] = pvPtr[e] + 1]
      BY <2>4 DEF PendRecurses, queueVars
    <3> QED BY <1>1, <2>1, <3>1, DepthLock
  <2>5. CASE PendWaits(t, e, timeout)
    BY <1>1, <2>1, <2>5, PendWaitsLock
  <2> QED BY <1>1, <2>2, <2>3, <2>4, <2>5 DEF PendSection
<1>2. CASE \E e \in Events, timeout \in Timeouts : SemaphoreMPend(t, e, timeout)
  BY <1>1, <1>2 DEF SemaphoreMPend
<1>3. CASE SemaphoreMPendAgain(t)
  <2>1. call[t].pc = "again" /\ call[t].got = "no" /\ call[t] \in Call
    BY <1>3 DEF SemaphoreMPendAgain, IInv, EvHonest, HonestCall, EvInv, EventType, CallType
  <2>2. call[t].ev \in Events /\ call[t].left \in Timeouts
    BY <2>1 DEF IInv, EvCalls, HasEvent, Call
  <2> QED BY <1>1, <1>3, <2>1, <2>2 DEF SemaphoreMPendAgain
<1> QED BY <1>2, <1>3

(* The first waiter of e leaves its queue; the others stay.                  *)
LEMMA TakeLock ==
  ASSUME IInv, NEW op \in {"post", "delete"}, NEW e \in Events, AtTop(1), nest \in {0, 1},
         TakeFirst(op, e, 0, 1)
  PROVE  \E w \in WaitersOf(e) :
           /\ frames'[1].tcb = w /\ WaitersOf(e)' = WaitersOf(e) \ {w}
           /\ nest' = 1 /\ frames'[1].op = op /\ frames'[1].ev = e
           /\ \A f \in Events : f # e => wq'[f] = wq[f]
<1>1. /\ wq[e] \in Seq(Threads) /\ Len(wq[e]) > 0 /\ IsInjective(wq[e])
      /\ wq'[e] = Tail(wq[e]) /\ frames'[1].tcb = wq[e][1]
      /\ nest' = 1 /\ frames'[1].op = op /\ frames'[1].ev = e
  BY TakePrio DEF IInv, EvInv, QueuesAgree
<1>2. \A f \in Events : f # e => wq'[f] = wq[f]
  BY DEF TakeFirst, EventReadyLowLevel, IInv, EvInv, EventType, QueueType
<1>3. PICK w : w = wq[e][1]
  OBVIOUS
<1>4. w = Head(wq[e]) /\ w \in Threads /\ Contains(wq[e], w)
  BY <1>1, <1>3, TailKeeps
<1>5. \A u \in Threads : Contains(wq'[e], u) <=> Contains(wq[e], u) /\ u # w
  BY <1>1, <1>4, TailKeeps
<1>6. WaitersOf(e)' = WaitersOf(e) \ {w}
  BY <1>5 DEF WaitersOf, Contains
<1> QED BY <1>1, <1>2, <1>3, <1>4, <1>6 DEF WaitersOf

(* The owner posts and hands the mutex to the first waiter.                  *)
LEMMA PostHandsOverLock ==
  ASSUME IInv, IInv', NEW t \in Threads, NEW e \in Events, ThreadEnter, IsReady(t),
         pvTcbOwn[e] = t, PostHandsOver(e)
  PROVE  LockStep
<1>0. /\ nest = 0 /\ AtTop(1) /\ nest \in {0, 1} /\ UNCHANGED <<pvTcbOwn, pvPtr>>
      /\ nest + 1 = 1 /\ ~(pvPtr[e] > 0)
  BY DEF PostHandsOver, Recursed, mutexVars, ThreadEnter, AtTop
<1>p. PICK op \in {"post", "delete"} : op = "post"
  OBVIOUS
<1>1. TakeFirst(op, e, 0, 1)
  BY <1>0, <1>p DEF PostHandsOver
<1>2. PICK w \in WaitersOf(e) :
           /\ frames'[1].tcb = w /\ WaitersOf(e)' = WaitersOf(e) \ {w}
           /\ nest' = 1 /\ frames'[1].op = op /\ frames'[1].ev = e
           /\ \A f \in Events : f # e => wq'[f] = wq[f]
  BY <1>0, <1>1, TakeLock
<1>3. /\ Has(e) = pvTcbOwn[e] /\ Null \notin Threads /\ pvPtr[e] \in 0..MaxRecursion
      /\ MaxRecursion \in Nat
  BY ThreadSees
<1>4. /\ \A f \in Events : ~Posting(f) /\ (Posting(f)' <=> f = e)
      /\ \A f \in Events : ~Deleting(f) /\ ~Deleting(f)'
  BY <1>0, <1>2, <1>p DEF Posting, Deleting
<1>5. Has(e) = t /\ Has(e)' = w /\ t # Null /\ w # Null
  BY <1>2, <1>3, <1>4 DEF Has, WaitersOf
<1>6. pvPtr[e] = 0
  BY <1>0, <1>3
<1>7. DepthOf(e) = 0 /\ DepthOf(e)' = 0
  BY <1>0, <1>5, <1>6 DEF DepthOf
<1>8. ASSUME NEW f \in Events, f # e PROVE SeenSame(f)
  <2>1. SameSection(f)
    BY <1>4, <1>8 DEF SameSection
  <2> QED BY <1>0, <1>2, <1>8, <2>1, SeenKept
<1>9. OthersSame(e)
  BY <1>8 DEF OthersSame
<1>10. Has(e) # Null /\ Idle(Has(e))
  BY <1>5, ReadyIdle
<1> QED BY <1>2, <1>5, <1>7, <1>9, <1>10, SimRelease

(* The owner posts and nobody waits.                                         *)
LEMMA PostFreesLock ==
  ASSUME IInv, IInv', NEW t \in Threads, NEW e \in Events, ThreadEnter, IsReady(t),
         ucType[e] = "MUTEX", pvTcbOwn[e] = t, PostFrees(e)
  PROVE  LockStep
<1>0. /\ pvTcbOwn' = [pvTcbOwn EXCEPT ![e] = Null] /\ UNCHANGED <<wq, pvPtr>> /\ UNCHANGED kernVars
      /\ ~(pvPtr[e] > 0) /\ EventWaitNum(e) = 0
  BY DEF PostFrees, Recursed, eventVars, queueVars
<1>1. /\ MutexType /\ Has(e) = pvTcbOwn[e] /\ ~Posting(e) /\ Null \notin Threads /\ EvInv
      /\ pvPtr[e] \in 0..MaxRecursion /\ MaxRecursion \in Nat
  BY ThreadSees
<1>2. wq[e] = <<>> /\ pvPtr[e] = 0
  BY <1>0, <1>1, NoWaiterFacts
<1>3. \A f : SameSection(f)
  BY <1>0, SectionAfter
<1>4. pvTcbOwn'[e] = Null
  BY <1>0, <1>1 DEF MutexType
<1>5. Has(e) = t /\ t # Null /\ Has(e)' = Null
  BY <1>1, <1>3, <1>4 DEF Has, SameSection
<1>6. DepthOf(e) = 0 /\ DepthOf(e)' = 0
  BY <1>2, <1>5 DEF DepthOf
<1>7. WaitersOf(e) = {} /\ WaitersOf(e)' = WaitersOf(e)
  BY <1>0, <1>2 DEF WaitersOf, Contains
<1>8. ASSUME NEW f \in Events, f # e PROVE SeenSame(f)
  <2>1. pvTcbOwn'[f] = pvTcbOwn[f] /\ wq'[f] = wq[f] /\ pvPtr'[f] = pvPtr[f]
    BY <1>0, <1>1, <1>8 DEF MutexType
  <2> QED BY <1>3, <2>1, SeenKept
<1>9. OthersSame(e)
  BY <1>8 DEF OthersSame
<1>10. Has(e) # Null /\ Idle(Has(e))
  BY <1>5, ReadyIdle
<1> QED BY <1>5, <1>6, <1>7, <1>9, <1>10, SimRelease

(* API_SemaphoreMPost by the owner.                                          *)
LEMMA PostLock ==
  ASSUME IInv, IInv', NEW t \in Threads, NEW e \in Events, SemaphoreMPost(t, e)
  PROVE  LockStep
<1>1. ThreadEnter /\ IsReady(t) /\ pvTcbOwn[e] = t /\ ucType[e] = "MUTEX"
  BY DEF SemaphoreMPost
<1>2. CASE PostRecursed(e)
  <2>1. /\ pvPtr[e] > 0 /\ pvPtr' = [pvPtr EXCEPT ![e] = pvPtr[e] - 1]
        /\ UNCHANGED <<wq, pvTcbOwn>> /\ UNCHANGED kernVars
    BY <1>2 DEF PostRecursed, Recursed, eventVars, queueVars
  <2> QED BY <1>1, <2>1, DepthLock
<1>3. CASE PostHandsOver(e)
  BY <1>1, <1>3, PostHandsOverLock
<1>4. CASE PostFrees(e)
  BY <1>1, <1>4, PostFreesLock
<1> QED BY <1>2, <1>3, <1>4 DEF SemaphoreMPost

(* Out of the window of MPost: EVENT_pvTcbOwn catches up with who has it.    *)
LEMMA PostHighLock ==
  ASSUME IInv, IInv', PostHigh
  PROVE  LockStep
<1>0. PICK t : t = frames[nest].tcb
  OBVIOUS
<1>1. PICK e : e = frames[nest].ev
  OBVIOUS
<1>2. /\ nest > 0 /\ frames[nest].op = "post" /\ EndFrame(nest)
      /\ pvTcbOwn' = [pvTcbOwn EXCEPT ![e] = t] /\ UNCHANGED <<wq, pvPtr>>
  BY <1>0, <1>1 DEF PostHigh, queueVars
<1>3. /\ nest = 1 /\ e \in Events /\ frames[1].ev = e /\ frames[1].op = "post"
      /\ frames[1].tcb = t
  BY <1>0, <1>1, <1>2, SectionOpen
<1>4. MutexType
  BY DEF IInv, MutexInv
<1>5. /\ Posting(e) /\ \A f \in Events : f # e => ~Posting(f)
      /\ \A f \in Events : ~Posting(f)' /\ ~Deleting(f) /\ ~Deleting(f)'
  <2>1. nest' = 0
    BY <1>2, <1>3 DEF EndFrame
  <2> QED BY <1>3, <2>1 DEF Posting, Deleting
<1>6. pvTcbOwn'[e] = t
  BY <1>2, <1>3, <1>4 DEF MutexType
<1>7. Has(e) = t /\ Has(e)' = t
  BY <1>3, <1>5, <1>6 DEF Has
<1>8. SeenSame(e)
  <2>1. DepthOf(e)' = DepthOf(e)
    BY <1>2, <1>7 DEF DepthOf
  <2>2. WaitersOf(e)' = WaitersOf(e)
    BY <1>2 DEF WaitersOf, Contains
  <2> QED BY <1>7, <2>1, <2>2 DEF SeenSame
<1>9. ASSUME NEW f \in Events, f # e PROVE SeenSame(f)
  <2>1. pvTcbOwn'[f] = pvTcbOwn[f] /\ wq'[f] = wq[f] /\ pvPtr'[f] = pvPtr[f]
    BY <1>2, <1>3, <1>4, <1>9 DEF MutexType
  <2>2. SameSection(f)
    BY <1>5, <1>9 DEF SameSection
  <2> QED BY <2>1, <2>2, SeenKept
<1> QED BY <1>8, <1>9, LockSame

(* A deleted waiter is made ready.                                           *)
LEMMA DeleteHighLock ==
  ASSUME IInv, IInv', DeleteHigh
  PROVE  LockStep
<1>1. nest > 0 /\ frames[nest].op # "tick" /\ frames[nest].op = "delete"
  BY DEF DeleteHigh
<1>2. nest = 1 /\ frames[1].op = "delete" /\ frames[1] \in Frame /\ 1 \in 1..MaxNest
  BY <1>1, SectionOpen
<1>3. /\ UNCHANGED <<wq, pvTcbOwn, pvPtr>>
      /\ SetFrame(1, [frames[1] EXCEPT !.tcb = Null])
  BY <1>2 DEF DeleteHigh, queueVars, mutexVars
<1>4. nest' = 1 /\ frames'[1].op = "delete" /\ frames'[1].ev = frames[1].ev
  BY <1>2, <1>3 DEF SetFrame, Frame, IInv, EvInv, EventType, KernType
<1>5. \A e \in Events : SameSection(e)
  BY <1>2, <1>4 DEF SameSection, Posting, Deleting
<1> QED BY <1>3, <1>5, StillLock

(* A round of the loop of API_SemaphoreMDelete sends a waiter away; the end  *)
(* of the loop takes the mutex from its owner.                               *)
LEMMA DeleteLoopLock ==
  ASSUME IInv, IInv', AtTop(1), nest \in {0, 1}, NEW e \in Events,
         nest = 0 \/ Deleting(e), DeleteLoop(e, 1), UNCHANGED pvPtr
  PROVE  LockStep
<1>1. EvInv /\ MutexType
  BY DEF IInv, MutexInv
<1>2. \A f \in Events : ~Posting(f) /\ Has(f) = pvTcbOwn[f]
  BY DEF Posting, Deleting, Has
<1>p. PICK op \in {"post", "delete"} : op = "delete"
  OBVIOUS
<1>3. CASE TakeFirst("delete", e, 0, 1) /\ UNCHANGED <<freeEvents, pvTcbOwn, held>>
  <2>1. TakeFirst(op, e, 0, 1)
    BY <1>3, <1>p
  <2>2. PICK w \in WaitersOf(e) :
           /\ frames'[1].tcb = w /\ WaitersOf(e)' = WaitersOf(e) \ {w}
           /\ nest' = 1 /\ frames'[1].op = op /\ frames'[1].ev = e
           /\ \A f \in Events : f # e => wq'[f] = wq[f]
    BY <2>1, TakeLock
  <2>3. \A f \in Events : ~Posting(f)'
    BY <1>p, <2>2 DEF Posting
  <2>4. \A f \in Events : Has(f)' = Has(f)
    BY <1>2, <1>3, <2>3 DEF Has
  <2>5. \A f \in Events : DepthOf(f)' = DepthOf(f)
    BY <2>4 DEF DepthOf
  <2>6. \A f \in Events : f # e => WaitersOf(f)' = WaitersOf(f)
    BY <2>2 DEF WaitersOf, Contains
  <2>7. OthersSame(e)
    BY <2>4, <2>5, <2>6 DEF OthersSame, SeenSame
  <2> QED BY <2>2, <2>4, <2>5, <2>7, SimGiveUp
<1>4. CASE /\ EventWaitNum(e) = 0
           /\ pvTcbOwn' = [pvTcbOwn EXCEPT ![e] = Null]
           /\ EndFrame(1) /\ UNCHANGED wq
  <2>1. wq[e] = <<>> /\ wq'[e] = <<>>
    BY <1>1, <1>4, NoWaiterFacts
  <2>2. \A f \in Events : ~Posting(f)'
    <3>1. nest' = 0
      BY <1>4 DEF EndFrame
    <3> QED BY <3>1 DEF Posting
  <2>3. pvTcbOwn'[e] = Null /\ \A f \in Events : f # e => pvTcbOwn'[f] = pvTcbOwn[f]
    BY <1>1, <1>4 DEF MutexType
  <2>4. Has(e)' = Null /\ \A f \in Events : f # e => Has(f)' = Has(f)
    BY <1>2, <2>2, <2>3 DEF Has
  <2>5. \A f \in Events : f # e => DepthOf(f)' = DepthOf(f)
    BY <2>4 DEF DepthOf
  <2>6. \A f \in Events : WaitersOf(f)' = WaitersOf(f)
    BY <1>4 DEF WaitersOf, Contains
  <2>7. WaitersOf(e) = {} /\ WaitersOf(e)' = {}
    BY <2>1, <2>6, NoWaiters
  <2>8. OthersSame(e)
    BY <2>4, <2>5, <2>6 DEF OthersSame, SeenSame
  <2> QED BY <2>4, <2>7, <2>8, SimDestroy
<1> QED BY <1>3, <1>4 DEF DeleteLoop, DeleteEnds, queueVars

(* API_SemaphoreMDelete up to its first window, and a later round.           *)
LEMMA DeleteLock ==
  ASSUME IInv, IInv', DeleteNext \/ \E e \in Events : SemaphoreMDelete(e)
  PROVE  LockStep
<1>1. ASSUME NEW e \in Events, SemaphoreMDelete(e) PROVE LockStep
  <2>1. nest = 0 /\ AtTop(1) /\ nest + 1 = 1 /\ nest \in {0, 1}
    BY <1>1 DEF SemaphoreMDelete, ThreadEnter, AtTop
  <2>2. DeleteLoop(e, 1) /\ UNCHANGED pvPtr
    BY <1>1, <2>1 DEF SemaphoreMDelete
  <2> QED BY <2>1, <2>2, DeleteLoopLock
<1>2. CASE DeleteNext
  <2>1. /\ nest = 1 /\ frames[1].ev \in Events /\ frames[1].op = "delete"
    BY <1>2, SectionOpen DEF DeleteNext
  <2>2. PICK e \in Events : e = frames[1].ev
    BY <2>1
  <2>3. AtTop(1) /\ nest \in {0, 1} /\ Deleting(e) /\ DeleteLoop(e, 1)
    BY <1>2, <2>1, <2>2 DEF AtTop, Deleting, DeleteNext
  <2>4. UNCHANGED pvPtr
    BY <1>2 DEF DeleteNext
  <2> QED BY <2>3, <2>4, DeleteLoopLock
<1> QED BY <1>1, <1>2

(* Steps outside the kernel's sections that leave the mutexes alone.         *)
LEMMA QuietLock ==
  ASSUME IInv, IInv', UNCHANGED kernVars, UNCHANGED <<wq, pvTcbOwn, pvPtr>>
  PROVE  LockStep
  BY SectionAfter, StillLock

(* Every step is a step of Lock, or Lock does not see it.                    *)
LEMMA NextLock ==
  ASSUME IInv, IInv', IsrWakesPended = FALSE, [Next]_vars
  PROVE  LockStep
<1>1. ASSUME NEW e \in Events, NEW c \in Ceilings, NEW o \in Options, SemaphoreMCreate(e, c, o)
      PROVE  LockStep
  BY <1>1, CreateLock
<1>2. ASSUME NEW e \in Events, NEW t \in Threads, NEW timeout \in Timeouts,
             SemaphoreMPend(t, e, timeout)
      PROVE  LockStep
  BY <1>2, PendLock
<1>3. ASSUME NEW e \in Events, NEW t \in Threads, SemaphoreMPost(t, e) PROVE LockStep
  BY <1>3, PostLock
<1>4. ASSUME NEW e \in Events, SemaphoreMDelete(e) PROVE LockStep
  BY <1>4, DeleteLock
<1>5. ASSUME NEW t \in Threads, SemaphoreMPendAgain(t) PROVE LockStep
  BY <1>5, PendLock
<1>6. ASSUME NEW t \in Threads, SemaphoreMPendReturn(t) PROVE LockStep
  BY <1>6, QuietLock DEF SemaphoreMPendReturn, PendReturn, queueVars, mutexVars
<1>7. ASSUME NEW t \in Threads, NEW p \in Priorities, SetPriority(t, p) PROVE LockStep
  BY <1>7, QuietLock DEF SetPriority, ThreadSetPriority, queueVars, mutexVars
<1>8. CASE PostHigh \/ DeleteHigh \/ DeleteNext \/ Environment
  BY <1>8, PostHighLock, DeleteHighLock, DeleteLock, EnvironmentLock
<1>9. CASE UNCHANGED vars
  BY <1>9, QuietLock DEF vars, eventVars, queueVars, mutexVars
<1> QED BY <1>1, <1>2, <1>3, <1>4, <1>5, <1>6, <1>7, <1>8, <1>9 DEF Next

(* The mutexes are locks (IsLock): the hand-over of MPost passes the mutex   *)
(* on in the step that takes the waiter off the queue, nobody passes a       *)
(* waiter, and recursion, timeouts, signals, the rest of the window of MPost *)
(* and the loop of MDelete are what Lock allows or does not see.             *)
THEOREM ImplementsLock ==
  ASSUME IsrWakesPended = FALSE, MaxSig = 0 \/ MaxSuspend = 0
  PROVE  Spec => IsLock
<1>1. Init => L!Init
  <2> SUFFICES ASSUME Init PROVE L!Init
    OBVIOUS
  <2>1. nest = 0 /\ \A e \in Events : pvTcbOwn[e] = Null /\ wq[e] = <<>>
    BY DEF Init, EventInit
  <2>2. ASSUME NEW e \in Events PROVE Holder(e) = Null
    <3>1. {j \in 1..nest : frames[j].op = "post" /\ frames[j].ev = e} = {}
      BY <2>1
    <3>2. HandTo(e) = {}
      BY <3>1 DEF HandTo
    <3> QED BY <2>1, <3>2 DEF Holder
  <2>3. ASSUME NEW e \in Events PROVE WaitersOf(e) = {}
    BY <2>1, NoWaiters
  <2> QED BY <2>2, <2>3 DEF L!Init, WaitersOf
<1>2. IInv /\ IInv' /\ [Next]_vars => [L!Next]_(L!vars)
  BY NextLock DEF LockStep
<1>3. Spec => []IInv
  BY InductiveInvariant
<1> QED BY <1>1, <1>2, <1>3, PTL DEF Spec, IsLock, L!Spec

=============================================================================
