-------------------------- MODULE SemaphoreRWProofs --------------------------
(***************************************************************************)
(* Proofs about SemaphoreRW for every number of threads and every bound on  *)
(* the times a thread has the semaphore.  The wait machinery's part of the   *)
(* invariant is in EventProofs.                                              *)
(***************************************************************************)
EXTENDS SemaphoreRW, EventProofs, FiniteSetTheorems

-----------------------------------------------------------------------------
(* The inductive invariant.                                                *)

RwType ==
  /\ ucType \in {"UNUSED", "SEMRW"}
  /\ ulCounter \in 0 .. Cardinality(Threads) * MaxHolds
  /\ iStatus \in {"R", "W"}
  /\ pvTcbOwn \in Threads \cup {Null}
  /\ pvPtr \in 0 .. MaxHolds
  /\ ulOption \in Options
  /\ held \in [Threads -> [R : 0 .. MaxHolds, W : 0 .. MaxHolds]]

(* The section of RWPost or RWDelete that is open, "tick" for none.  It is   *)
(* at the bottom: the calls are made by threads.                             *)
Section == IF nest = 0 THEN "tick" ELSE frames[1].op
InHand  == IF nest = 0 THEN Null ELSE frames[1].tcb

Sections ==
  /\ \A i \in 1..nest : i > 1 => frames[i].op = "tick"
  /\ Section \in {"tick", "post", "release", "delete"}

(* No signals: a call is not restarted, and nobody is flushed.  One that     *)
(* waits has not reached the bound on its holds.                             *)
PlainCall(t) ==
  /\ call[t].ret = "NONE" /\ call[t].got # "flush"
  /\ call[t].pc = "pend" /\ call[t].ev # Null => held[t][ModeOf(call[t].ev)] < MaxHolds

Plain == \A t \in Threads : PlainCall(t)

(* Who has the semaphore, by the section that is open.                       *)
NoReader == \A t \in Threads : Claims(t, "R") = 0
NoWriter == \A t \in Threads : Claims(t, "W") = 0
OnlyWriter(w, n) == \A t \in Threads : Claims(t, "W") = IF t = w THEN n ELSE 0

Counted == IsFiniteSet(ReadHolds) /\ ulCounter = Cardinality(ReadHolds)

Idle ==
  /\ iStatus = "R" => Counted /\ NoWriter /\ pvTcbOwn = Null /\ pvPtr = 0
  /\ iStatus = "W" => /\ NoReader /\ ulCounter = 1 /\ pvTcbOwn \in Threads
                      /\ OnlyWriter(pvTcbOwn, pvPtr + 1)

Posting == ucType = "SEMRW" /\ ulCounter = 1 /\ pvPtr = 0 /\ NoReader /\ OnlyWriter(InHand, 1)

Releasing == ucType = "SEMRW" /\ ulCounter > 0 /\ pvPtr = 0 /\ Counted /\ NoWriter

Lone == \/ NoWriter
        \/ NoReader /\ \E w \in Threads : \A t \in Threads : t # w => Claims(t, "W") = 0

Deleting == ucType = "UNUSED" /\ Lone

Unused == /\ NoReader /\ NoWriter
          /\ \A q \in Events : wq[q] = <<>>

Holding ==
  /\ Section = "tick" /\ ucType = "SEMRW"  => Idle
  /\ Section = "tick" /\ ucType = "UNUSED" => Unused
  /\ Section = "post"    => Posting
  /\ Section = "release" => Releasing
  /\ Section = "delete"  => Deleting

(* With LW_OPTION_RW_PREFER_WRITER no post decides to pass the writers over, *)
(* and readers are readied while no writer waits.                            *)
Preferred ==
  ulOption.preferWriter =>
    /\ Section = "tick" /\ ucType = "SEMRW" /\ ulCounter = 0 => \A q \in Events : wq[q] = <<>>
    /\ Section = "post" /\ InHand = Null => frames[1].n = 0
    /\ Section = "release" => wq[Q_W] = <<>>

RwInv == RwType /\ Sections /\ Plain /\ Holding /\ Preferred

IInv == EvInv /\ EvCalls(FALSE) /\ EvHonest /\ RwInv

-----------------------------------------------------------------------------
(* What a thread holds.                                                      *)

Handed(t, m) == call[t].pc = "pend" /\ call[t].got = "token" /\ call[t].ev # Null
                /\ ModeOf(call[t].ev) = m

Modes == {"R", "W"}

(* The pieces of a claim.                                                    *)
LEMMA ClaimsAre ==
  ASSUME RwType, Plain, NEW t \in Threads, NEW m \in Modes
  PROVE  /\ held[t][m] \in 0 .. MaxHolds /\ MaxHolds \in Nat
         /\ Claims(t, m) = held[t][m] + IF Handed(t, m) THEN 1 ELSE 0
         /\ Claims(t, m) \in 0 .. MaxHolds
<1>1. held[t] \in [R : 0 .. MaxHolds, W : 0 .. MaxHolds] /\ MaxHolds \in Nat
  BY SemaphoreRWAssumption DEF RwType
<1>2. held[t][m] \in 0 .. MaxHolds
  BY <1>1 DEF Modes
<1>3. Claims(t, m) = held[t][m] + IF Handed(t, m) THEN 1 ELSE 0
  BY DEF Claims, Handed
<1>4. Handed(t, m) => held[t][m] < MaxHolds
  BY DEF Handed, Plain, PlainCall
<1> QED BY <1>1, <1>2, <1>3, <1>4

SameClaim(u) == \A m \in Modes : Claims(u, m)' = Claims(u, m)

(* A thread whose call and holds are as they were.                           *)
LEMMA ClaimSame ==
  ASSUME NEW u \in Threads, held'[u] = held[u], SameCall(u)
  PROVE  SameClaim(u)
  BY DEF SameClaim, SameCall, Claims, ModeOf

(* One entry of held changes.                                                *)
LEMMA HeldChanges ==
  ASSUME RwType, NEW t \in Threads, NEW m \in Modes, NEW n \in 0 .. MaxHolds,
         held' = [held EXCEPT ![t][m] = n]
  PROVE  /\ held' \in [Threads -> [R : 0 .. MaxHolds, W : 0 .. MaxHolds]]
         /\ held'[t][m] = n
         /\ \A k \in Modes : k # m => held'[t][k] = held[t][k]
         /\ \A u \in Threads : u # t => held'[u] = held[u]
<1>1. held \in [Threads -> [R : 0 .. MaxHolds, W : 0 .. MaxHolds]]
      /\ held[t] \in [R : 0 .. MaxHolds, W : 0 .. MaxHolds]
  BY DEF RwType
<1>2. held' = [held EXCEPT ![t] = [held[t] EXCEPT ![m] = n]]
  OBVIOUS
<1>3. PICK h : h = [held[t] EXCEPT ![m] = n]
  OBVIOUS
<1>4. /\ h \in [R : 0 .. MaxHolds, W : 0 .. MaxHolds] /\ h[m] = n
      /\ \A k \in Modes : k # m => h[k] = held[t][k]
  <2>1. CASE m = "R"
    BY <1>1, <1>3, <2>1 DEF Modes
  <2>2. CASE m = "W"
    BY <1>1, <1>3, <2>2 DEF Modes
  <2> QED BY <2>1, <2>2 DEF Modes
<1> QED BY <1>1, <1>2, <1>3, <1>4

(* One read more.                                                            *)
LEMMA ReadersAdd ==
  ASSUME IsFiniteSet(ReadHolds), NEW t \in Threads,
         \A u \in Threads : Claims(u, "R") \in 0 .. MaxHolds,
         Claims(t, "R")' = Claims(t, "R") + 1, Claims(t, "R")' \in 0 .. MaxHolds,
         \A u \in Threads : u # t => Claims(u, "R")' = Claims(u, "R")
  PROVE  IsFiniteSet(ReadHolds)' /\ Cardinality(ReadHolds)' = Cardinality(ReadHolds) + 1
<1> DEFINE x == <<t, Claims(t, "R") + 1>>
<1>0. MaxHolds \in Nat /\ Claims(t, "R") \in Nat
  BY SemaphoreRWAssumption
<1>1. ReadHolds' = ReadHolds \cup {x}
  <2>1. ASSUME NEW u \in Threads, NEW k \in 1 .. MaxHolds
        PROVE  <<u, k>> \in ReadHolds' <=> <<u, k>> \in ReadHolds \/ <<u, k>> = x
    <3>1. <<u, k>> \in ReadHolds <=> k =< Claims(u, "R")
      BY DEF ReadHolds
    <3>2. <<u, k>> \in ReadHolds' <=> k =< Claims(u, "R")'
      BY DEF ReadHolds
    <3>3. CASE u = t
      BY <1>0, <3>1, <3>2, <3>3
    <3>4. CASE u # t
      BY <3>1, <3>2, <3>4
    <3> QED BY <3>3, <3>4
  <2>2. x \in Threads \X (1 .. MaxHolds)
    BY <1>0
  <2>3. \A y \in ReadHolds \cup ReadHolds' : \E u \in Threads, k \in 1 .. MaxHolds : y = <<u, k>>
    BY DEF ReadHolds
  <2> HIDE DEF x
  <2>4. \A y : y \in ReadHolds' <=> y \in ReadHolds \/ y = x
    BY <2>1, <2>2, <2>3
  <2> QED BY <2>4
<1>2. x \notin ReadHolds
  BY <1>0 DEF ReadHolds
<1> HIDE DEF x
<1>3. IsFiniteSet(ReadHolds \cup {x}) /\ Cardinality(ReadHolds \cup {x}) = Cardinality(ReadHolds) + 1
  BY <1>2, FS_AddElement
<1> QED BY <1>1, <1>3

(* One read less.                                                            *)
LEMMA ReadersSub ==
  ASSUME IsFiniteSet(ReadHolds), NEW t \in Threads,
         \A u \in Threads : Claims(u, "R") \in 0 .. MaxHolds,
         Claims(t, "R")' = Claims(t, "R") - 1, Claims(t, "R") > 0,
         \A u \in Threads : u # t => Claims(u, "R")' = Claims(u, "R")
  PROVE  IsFiniteSet(ReadHolds)' /\ Cardinality(ReadHolds)' = Cardinality(ReadHolds) - 1
<1> DEFINE x == <<t, Claims(t, "R")>>
<1>0. MaxHolds \in Nat /\ Claims(t, "R") \in Nat
  BY SemaphoreRWAssumption
<1>1. ReadHolds' = ReadHolds \ {x}
  <2>1. ASSUME NEW u \in Threads, NEW k \in 1 .. MaxHolds
        PROVE  <<u, k>> \in ReadHolds' <=> <<u, k>> \in ReadHolds /\ <<u, k>> # x
    <3>1. <<u, k>> \in ReadHolds <=> k =< Claims(u, "R")
      BY DEF ReadHolds
    <3>2. <<u, k>> \in ReadHolds' <=> k =< Claims(u, "R")'
      BY DEF ReadHolds
    <3>3. CASE u = t
      BY <1>0, <3>1, <3>2, <3>3
    <3>4. CASE u # t
      BY <3>1, <3>2, <3>4
    <3> QED BY <3>3, <3>4
  <2>3. \A y \in ReadHolds \cup ReadHolds' : \E u \in Threads, k \in 1 .. MaxHolds : y = <<u, k>>
    BY DEF ReadHolds
  <2> HIDE DEF x
  <2>4. \A y : y \in ReadHolds' <=> y \in ReadHolds /\ y # x
    BY <2>1, <2>3
  <2> QED BY <2>4
<1>2. x \in ReadHolds
  BY <1>0 DEF ReadHolds
<1> HIDE DEF x
<1>3. IsFiniteSet(ReadHolds \ {x}) /\ Cardinality(ReadHolds \ {x}) = Cardinality(ReadHolds) - 1
  BY <1>2, FS_RemoveElement
<1> QED BY <1>1, <1>3

(* The reads change with the claims only.                                    *)
LEMMA ReadersSame ==
  ASSUME \A u \in Threads : SameClaim(u)
  PROVE  ReadHolds' = ReadHolds
<1>1. \A u \in Threads : Claims(u, "R")' = Claims(u, "R")
  BY DEF SameClaim, Modes
<1> QED BY <1>1 DEF ReadHolds

(* Nobody reads when the set is empty.                                       *)
LEMMA ReadersNone ==
  ASSUME \A u \in Threads : Claims(u, "R") \in 0 .. MaxHolds
  PROVE  /\ NoReader <=> ReadHolds = {}
         /\ NoReader => IsFiniteSet(ReadHolds) /\ Cardinality(ReadHolds) = 0
         /\ IsFiniteSet(ReadHolds) /\ Cardinality(ReadHolds) = 0 => NoReader
<1>0. MaxHolds \in Nat \ {0}
  BY SemaphoreRWAssumption
<1>1. NoReader => ReadHolds = {}
  BY DEF NoReader, ReadHolds
<1>2. ASSUME ReadHolds = {}, NEW t \in Threads PROVE Claims(t, "R") = 0
  <2>1. <<t, 1>> \notin ReadHolds /\ 1 \in 1 .. MaxHolds
    BY <1>0, <1>2
  <2> QED BY <2>1 DEF ReadHolds
<1>3. NoReader <=> ReadHolds = {}
  BY <1>1, <1>2 DEF NoReader
<1> QED BY <1>3, FS_EmptySet

(* The same of the next state.                                               *)
LEMMA NoneNext ==
  ASSUME NoReader'
  PROVE  IsFiniteSet(ReadHolds)' /\ Cardinality(ReadHolds)' = 0
<1>1. ReadHolds' = {}
  BY DEF NoReader, ReadHolds
<1> QED BY <1>1, FS_EmptySet

(* There are no more reads than MaxHolds for each thread.                    *)
LEMMA ReadersBound ==
  /\ Cardinality(Threads) * MaxHolds \in Nat
  /\ Threads # {} => Cardinality(Threads) * MaxHolds >= 1
  /\ Cardinality(ReadHolds) \in 0 .. Cardinality(Threads) * MaxHolds
  /\ Cardinality(ReadHolds)' \in 0 .. Cardinality(Threads) * MaxHolds
<1>0. IsFiniteSet(Threads) /\ MaxHolds \in Nat \ {0} /\ Cardinality(Threads) \in Nat
  BY SemaphoreRWAssumption, FS_CardinalityType
<1>1. IsFiniteSet(1 .. MaxHolds) /\ Cardinality(1 .. MaxHolds) = MaxHolds
  BY <1>0, FS_Interval
<1>2. /\ IsFiniteSet(Threads \X (1 .. MaxHolds))
      /\ Cardinality(Threads \X (1 .. MaxHolds)) = Cardinality(Threads) * MaxHolds
  BY <1>0, <1>1, FS_Product
<1>3. ReadHolds \subseteq Threads \X (1 .. MaxHolds) /\ ReadHolds' \subseteq Threads \X (1 .. MaxHolds)
  BY DEF ReadHolds
<1>4. \A S : S \subseteq Threads \X (1 .. MaxHolds) =>
         Cardinality(S) \in Nat /\ Cardinality(S) =< Cardinality(Threads) * MaxHolds
  BY <1>2, FS_Subset, FS_CardinalityType
<1>5. Threads # {} => Cardinality(Threads) >= 1
  BY <1>0, FS_EmptySet
<1>6. Cardinality(Threads) * MaxHolds \in Nat
  BY <1>0
<1>7. Cardinality(Threads) >= 1 => Cardinality(Threads) * MaxHolds >= 1
  BY <1>0
<1> QED BY <1>3, <1>4, <1>5, <1>6, <1>7

-----------------------------------------------------------------------------
(* The stack of sections.                                                    *)

(* A section that goes on is at the bottom of the stack, and alone.          *)
LEMMA SectionOpen ==
  ASSUME IInv, nest > 0, frames[nest].op # "tick"
  PROVE  /\ nest = 1 /\ 1 \in 1..MaxNest /\ 1 \in 1..nest /\ frames[1] \in Frame
         /\ Section = frames[1].op /\ InHand = frames[1].tcb
         /\ Section \in {"post", "release", "delete"}
<1>1. nest \in 1..nest /\ nest \in 1..MaxNest /\ nest \in Nat
  BY EventAssumption DEF IInv, EvInv, EventType, KernType
<1>2. nest = 1
  BY <1>1 DEF IInv, RwInv, Sections
<1>3. frames[1] \in Frame
  BY <1>1, <1>2 DEF IInv, EvInv, EventType, KernType
<1> QED BY <1>1, <1>2, <1>3 DEF IInv, RwInv, Sections, Section, InHand

(* Section and InHand after a step of the kernel.                            *)
LEMMA SectionAfter ==
  ASSUME IInv
  PROVE  /\ UNCHANGED kernVars =>
              Section' = Section /\ InHand' = InHand /\ Sections' /\ frames'[1] = frames[1]
         /\ EvInv' /\ OnlyLeaves =>
              /\ Section' = Section /\ (Section # "tick" => InHand' = InHand) /\ Sections'
              /\ Section # "tick" => frames'[1] = frames[1]
         /\ nest \in {0, 1} /\ EndFrame(1) => Section' = "tick" /\ InHand' = Null /\ Sections'
         /\ \A f : nest \in {0, 1} /\ SetFrame(1, f)
                     /\ f.op \in {"post", "release", "delete"} =>
              Section' = f.op /\ InHand' = f.tcb /\ Sections' /\ frames'[1] = f
<1>0. nest \in 0..MaxNest /\ frames \in [1..MaxNest -> Frame] /\ MaxNest \in Nat \ {0}
  BY EventAssumption DEF IInv, EvInv, EventType, KernType
<1>1. Sections
  BY DEF IInv, RwInv
<1>2. ASSUME UNCHANGED kernVars
      PROVE  Section' = Section /\ InHand' = InHand /\ Sections' /\ frames'[1] = frames[1]
  BY <1>1, <1>2 DEF kernVars, Section, InHand, Sections
<1>3. ASSUME EvInv', OnlyLeaves
      PROVE  /\ Section' = Section /\ (Section # "tick" => InHand' = InHand) /\ Sections'
             /\ Section # "tick" => frames'[1] = frames[1]
  <2>1. /\ \A i \in 1..nest' : OldFrame(i) \/ frames'[i].op = "tick"
        /\ \A i \in 1..nest : frames[i].op # "tick" => i \in 1..nest' /\ OldFrame(i)
    BY <1>3 DEF OnlyLeaves, TickFrame
  <2>3. CASE Section # "tick"
    <3>1. nest > 0 /\ 1 \in 1..nest /\ frames[1].op # "tick"
      BY <1>0, <2>3 DEF Section
    <3>2. 1 \in 1..nest' /\ frames'[1] = frames[1]
      BY <2>1, <3>1 DEF OldFrame
    <3>3. nest' # 0
      BY <3>2
    <3>4. \A i \in 1..nest' : i > 1 => frames'[i].op = "tick"
      BY <1>1, <2>1 DEF OldFrame, Sections
    <3> QED BY <1>1, <2>3, <3>1, <3>2, <3>3, <3>4 DEF Section, InHand, Sections
  <2>4. CASE Section = "tick"
    <3>1. \A i \in 1..nest : frames[i].op = "tick"
      BY <1>0, <1>1, <2>4 DEF Section, Sections
    <3>2. \A i \in 1..nest' : frames'[i].op = "tick"
      BY <2>1, <3>1 DEF OldFrame
    <3>3. nest' \in 0..MaxNest
      BY <1>3 DEF EvInv, EventType, KernType
    <3> QED BY <2>4, <3>2, <3>3 DEF Section, Sections
  <2> QED BY <2>3, <2>4
<1>4. ASSUME nest \in {0, 1}, EndFrame(1)
      PROVE  Section' = "tick" /\ InHand' = Null /\ Sections'
  <2>1. nest' = 0
    BY <1>4 DEF EndFrame
  <2> QED BY <2>1 DEF Section, InHand, Sections
<1>5. ASSUME NEW f, nest \in {0, 1}, SetFrame(1, f), f.op \in {"post", "release", "delete"}
      PROVE  Section' = f.op /\ InHand' = f.tcb /\ Sections' /\ frames'[1] = f
  <2>1. nest' = 1 /\ frames'[1] = f
    BY <1>0, <1>5 DEF SetFrame
  <2> QED BY <1>5, <2>1 DEF Section, InHand, Sections
<1> QED BY <1>2, <1>3, <1>4, <1>5

-----------------------------------------------------------------------------
(* Steps that leave the semaphore alone.                                     *)

(* Holding and Preferred while nobody gains or loses anything.               *)
LEMMA HoldingKept ==
  ASSUME IInv, UNCHANGED rwVars, \A u \in Threads : SameClaim(u),
         Section' = Section, Section # "tick" => InHand' = InHand /\ frames'[1] = frames[1],
         \A q \in Events : wq[q] = <<>> => wq'[q] = <<>>
  PROVE  Holding' /\ Preferred'
<1>0. UNCHANGED <<ucType, ulCounter, iStatus, pvTcbOwn, pvPtr, ulOption>>
  BY DEF rwVars
<1>1. ReadHolds' = ReadHolds
  BY ReadersSame
<1>2. \A u \in Threads : Claims(u, "R")' = Claims(u, "R") /\ Claims(u, "W")' = Claims(u, "W")
  BY DEF SameClaim, Modes
<1>3. /\ NoReader' <=> NoReader
      /\ NoWriter' <=> NoWriter
      /\ OnlyWriter(pvTcbOwn, pvPtr + 1)' <=> OnlyWriter(pvTcbOwn, pvPtr + 1)
      /\ Section # "tick" => (OnlyWriter(InHand, 1)' <=> OnlyWriter(InHand, 1))
      /\ Counted' <=> Counted
  BY <1>0, <1>1, <1>2 DEF NoReader, NoWriter, OnlyWriter, Counted
<1>4. Idle' <=> Idle
  BY <1>0, <1>3 DEF Idle
<1>5. Section # "tick" => (Posting' <=> Posting)
  BY <1>0, <1>3 DEF Posting
<1>6. Releasing' <=> Releasing
  BY <1>0, <1>3 DEF Releasing
<1>7. Deleting => Deleting'
  BY <1>0, <1>2, <1>3 DEF Deleting, Lone
<1>8. Unused => Unused'
  BY <1>3 DEF Unused
<1>9. Holding'
  BY <1>0, <1>4, <1>5, <1>6, <1>7, <1>8 DEF IInv, RwInv, Holding
<1>10. Preferred'
  BY <1>0, SemaphoreRWAssumption DEF IInv, RwInv, Preferred
<1> QED BY <1>9, <1>10

(* The same when no thread's holds change.                                   *)
LEMMA HoldingSame ==
  ASSUME IInv, UNCHANGED <<rwVars, held>>, \A u \in Threads : SameClaim(u),
         Section' = Section, Section # "tick" => InHand' = InHand /\ frames'[1] = frames[1],
         \A q \in Events : wq[q] = <<>> => wq'[q] = <<>>
  PROVE  Holding' /\ Preferred' /\ RwType'
<1>1. RwType'
  BY DEF IInv, RwInv, RwType, rwVars
<1> QED BY <1>1, HoldingKept

(* Calls that go on as they are stay plain.                                  *)
LEMMA PlainSame ==
  ASSUME Plain, \A u \in Threads : SameCall(u), UNCHANGED held
  PROVE  Plain'
  BY DEF Plain, PlainCall, SameCall, ModeOf

(* An empty queue stays empty when threads only leave.                       *)
LEMMA LeavesEmpty ==
  ASSUME EvInv', OnlyLeaves, NEW q \in Events, wq[q] = <<>>
  PROVE  wq'[q] = <<>>
<1>1. wq'[q] \in Seq(Threads) /\ Shrinks(wq'[q], <<>>)
  BY DEF OnlyLeaves, EvInv, EventType, QueueType
<1> QED BY <1>1, ShrinksEmpty

(* Ticks and wakeups.                                                        *)
LEMMA EnvironmentKeeps ==
  ASSUME IInv, IsrWakesPended = FALSE, Environment
  PROVE  IInv'
<1>0. UNCHANGED <<rwVars, held>> /\ UNCHANGED held /\ FALSE \in BOOLEAN
  BY DEF Environment
<1>1. ASSUME EvInv', EvCalls(FALSE)', EvHonest', OnlyLeaves, \A u \in Threads : SameCall(u)
      PROVE  IInv'
  <2>1. \A u \in Threads : SameClaim(u)
    BY <1>0, <1>1, ClaimSame
  <2>2. /\ Section' = Section /\ Sections'
        /\ Section # "tick" => InHand' = InHand /\ frames'[1] = frames[1]
    BY <1>1, SectionAfter
  <2>3. Holding' /\ Preferred' /\ RwType'
    BY <1>0, <1>1, <2>1, <2>2, LeavesEmpty, HoldingSame
  <2>4. Plain'
    BY <1>0, <1>1, PlainSame DEF IInv, RwInv
  <2> QED BY <1>1, <2>2, <2>3, <2>4 DEF IInv, RwInv
<1>2. CASE Tick \/ TickNext
  <2>1. \A u \in Threads : SameCall(u)
    BY <1>2, TickCases DEF IInv
  <2> QED BY <1>0, <1>1, <1>2, <2>1, TickKeeps, TickCallsKept, TickLeaves DEF IInv
<1>3. ASSUME NEW t \in Threads, NEW inf \in BOOLEAN, ThreadWakeup(t, inf) PROVE IInv'
  <2>1. \A u \in Threads : SameCall(u)
    BY <1>3, ThreadWakeupCases DEF IInv, SameCall
  <2> QED BY <1>0, <1>1, <1>3, <2>1, ThreadWakeupKeeps, ThreadWakeupCalls, ThreadWakeupLeaves
          DEF IInv
<1> QED BY <1>2, <1>3 DEF Environment

(* A step that changes nothing, a pend that fails among them.                *)
LEMMA SameKeeps ==
  ASSUME IInv, UNCHANGED vars
  PROVE  IInv'
<1>0. /\ UNCHANGED eventVars /\ UNCHANGED <<rwVars, held>> /\ UNCHANGED held /\ UNCHANGED kernVars
      /\ UNCHANGED <<wq, usStatus, waitOn, ucWaitTimeout, ucIsEventDelete, call, sig>>
      /\ FALSE \in BOOLEAN
  BY DEF vars, eventVars, waitVars, queueVars
<1>1. EvInv' /\ EvCalls(FALSE)' /\ EvHonest'
  BY <1>0, EventSameKeeps, NotKernCalls DEF IInv
<1>2. \A u \in Threads : SameCall(u)
  BY <1>0 DEF SameCall
<1>3. \A u \in Threads : SameClaim(u)
  BY <1>0, <1>2, ClaimSame
<1>4. Section' = Section /\ Sections' /\ InHand' = InHand /\ frames'[1] = frames[1]
  BY <1>0, SectionAfter
<1>5. Holding' /\ Preferred' /\ RwType'
  BY <1>0, <1>3, <1>4, HoldingSame
<1>6. Plain'
  BY <1>0, <1>2, PlainSame DEF IInv, RwInv
<1> QED BY <1>1, <1>4, <1>5, <1>6 DEF IInv, RwInv

-----------------------------------------------------------------------------
(* Pends and posts that only count.                                          *)

(* A thread outside any call gains or loses n holds for mode m.              *)
LEMMA CountStep ==
  ASSUME IInv, NEW t \in Threads, NEW m \in Modes, NEW n \in 0 .. MaxHolds,
         held' = [held EXCEPT ![t][m] = n], call[t].pc = "run", UNCHANGED call
  PROVE  /\ Plain'
         /\ held' \in [Threads -> [R : 0 .. MaxHolds, W : 0 .. MaxHolds]]
         /\ Claims(t, m) = held[t][m] /\ Claims(t, m)' = n
         /\ \A k \in Modes : k # m => Claims(t, k)' = Claims(t, k)
         /\ \A u \in Threads : u # t => SameClaim(u)
         /\ \A u \in Threads, k \in Modes : Claims(u, k) \in 0 .. MaxHolds
<1>1. /\ held' \in [Threads -> [R : 0 .. MaxHolds, W : 0 .. MaxHolds]]
      /\ held'[t][m] = n
      /\ \A k \in Modes : k # m => held'[t][k] = held[t][k]
      /\ \A u \in Threads : u # t => held'[u] = held[u]
  BY HeldChanges DEF IInv, RwInv
<1>2. \A u \in Threads, k \in Modes : Claims(u, k) \in 0 .. MaxHolds
  BY ClaimsAre DEF IInv, RwInv
<1>3. \A k \in Modes : held[t][k] \in Nat /\ Claims(t, k) = held[t][k]
  BY ClaimsAre DEF IInv, RwInv, Handed
<1>4. \A k \in Modes : held'[t][k] \in Nat
  BY <1>1, <1>3
<1>5. \A k \in Modes : Claims(t, k)' = held'[t][k]
  BY <1>4 DEF Claims
<1>6. \A u \in Threads : u # t => SameClaim(u)
  BY <1>1, ClaimSame DEF SameCall
<1>7. Plain'
  BY <1>1 DEF IInv, RwInv, Plain, PlainCall, ModeOf
<1> QED BY <1>1, <1>2, <1>3, <1>5, <1>6, <1>7

(* The wait machinery's part while it stands still.                          *)
LEMMA EventStill ==
  ASSUME IInv, UNCHANGED eventVars
  PROVE  /\ EvInv' /\ EvCalls(FALSE)' /\ EvHonest'
         /\ Section' = Section /\ Sections' /\ InHand' = InHand /\ frames'[1] = frames[1]
         /\ UNCHANGED <<wq, wqNum, call>>
<1>0. /\ UNCHANGED kernVars
      /\ UNCHANGED <<wq, wqNum, usStatus, waitOn, ucWaitTimeout, ucIsEventDelete, call, sig>>
      /\ FALSE \in BOOLEAN
  BY DEF eventVars, waitVars, queueVars
<1>1. EvInv' /\ EvCalls(FALSE)' /\ EvHonest'
  BY <1>0, EventSameKeeps, NotKernCalls DEF IInv
<1> QED BY <1>0, <1>1, SectionAfter

(* While no section is open and the semaphore is in use it is idle.          *)
LEMMA ThreadSees ==
  ASSUME IInv, ThreadEnter
  PROVE  /\ nest = 0 /\ Section = "tick" /\ InHand = Null
         /\ ucType = "SEMRW" => Idle
         /\ ucType = "UNUSED" => Unused
         /\ iStatus \in Modes /\ ulCounter \in Nat /\ pvPtr \in Nat
         /\ MaxHolds \in Nat \ {0}
<1>1. ulCounter \in Nat /\ pvPtr \in Nat /\ MaxHolds \in Nat \ {0}
  BY ReadersBound, SemaphoreRWAssumption DEF IInv, RwInv, RwType
<1> QED BY <1>1 DEF ThreadEnter, Section, InHand, IInv, RwInv, Holding, RwType, Modes

(* API_SemaphoreRWPendR that need not wait.                                  *)
LEMMA ReadPassesKeeps ==
  ASSUME IInv, NEW t \in Threads, ThreadEnter, call[t].pc = "run", held[t].R < MaxHolds,
         ReadPasses(t), UNCHANGED <<kernVars, ucPriority, ulSuspendNesting, sig>>
  PROVE  IInv'
<1>1. UNCHANGED eventVars /\ UNCHANGED <<ucType, iStatus, pvTcbOwn, pvPtr, ulOption, call>>
  BY DEF ReadPasses, eventVars
<1>2. /\ ucType = "SEMRW" /\ iStatus = "R" /\ ulCounter' = ulCounter + 1
      /\ held' = [held EXCEPT ![t]["R"] = held[t]["R"] + 1]
  BY DEF ReadPasses, MayRead
<1>3. "R" \in Modes /\ "W" \in Modes /\ held[t]["R"] + 1 \in 0 .. MaxHolds /\ held[t]["R"] \in Nat
  <2>1. "R" \in Modes /\ "W" \in Modes
    BY DEF Modes
  <2>2. held[t]["R"] \in 0 .. MaxHolds /\ held[t]["R"] < MaxHolds /\ MaxHolds \in Nat
    BY <2>1, ClaimsAre DEF IInv, RwInv
  <2> QED BY <2>1, <2>2
<1>a. PICK n \in 0 .. MaxHolds : n = held[t]["R"] + 1
  BY <1>3
<1>b. held' = [held EXCEPT ![t]["R"] = n]
  BY <1>2, <1>a
<1>c. /\ Plain'
      /\ held' \in [Threads -> [R : 0 .. MaxHolds, W : 0 .. MaxHolds]]
      /\ Claims(t, "R") = held[t]["R"] /\ Claims(t, "R")' = n
      /\ \A k \in Modes : k # "R" => Claims(t, k)' = Claims(t, k)
      /\ \A u \in Threads : u # t => SameClaim(u)
      /\ \A u \in Threads, k \in Modes : Claims(u, k) \in 0 .. MaxHolds
  BY <1>1, <1>3, <1>b, CountStep
<1>4. /\ Plain' /\ held' \in [Threads -> [R : 0 .. MaxHolds, W : 0 .. MaxHolds]]
      /\ Claims(t, "R")' = Claims(t, "R") + 1 /\ Claims(t, "R")' \in 0 .. MaxHolds
      /\ Claims(t, "W")' = Claims(t, "W")
      /\ \A u \in Threads : u # t => SameClaim(u)
      /\ \A u \in Threads : Claims(u, "R") \in 0 .. MaxHolds
  BY <1>3, <1>a, <1>c
<1>5. Idle /\ Section = "tick" /\ ulCounter \in Nat
  BY <1>2, ThreadSees
<1>6. Counted'
  <2>1. IsFiniteSet(ReadHolds) /\ ulCounter = Cardinality(ReadHolds)
    BY <1>2, <1>5 DEF Idle, Counted
  <2>2. \A u \in Threads : u # t => Claims(u, "R")' = Claims(u, "R")
    BY <1>3, <1>4 DEF SameClaim
  <2> QED BY <1>2, <1>4, <2>1, <2>2, ReadersAdd DEF Counted
<1>7. NoWriter'
  BY <1>2, <1>3, <1>4, <1>5 DEF Idle, NoWriter, SameClaim
<1>8. Idle'
  BY <1>1, <1>2, <1>5, <1>6, <1>7 DEF Idle
<1>9. Holding' /\ Preferred'
  BY <1>1, <1>2, <1>5, <1>8, EventStill DEF Holding, Preferred
<1>10. RwType'
  BY <1>1, <1>4, <1>6, ReadersBound DEF IInv, RwInv, RwType, Counted
<1> QED BY <1>1, <1>4, <1>9, <1>10, EventStill DEF IInv, RwInv

(* API_SemaphoreRWPendW of a free semaphore.                                 *)
LEMMA WritePassesKeeps ==
  ASSUME IInv, NEW t \in Threads, ThreadEnter, call[t].pc = "run", held[t].W < MaxHolds,
         WritePasses(t), UNCHANGED <<kernVars, ucPriority, ulSuspendNesting, sig>>
  PROVE  IInv'
<1>1. UNCHANGED eventVars /\ UNCHANGED <<ucType, pvPtr, ulOption, call>>
  BY DEF WritePasses, eventVars
<1>2. /\ ucType = "SEMRW" /\ ulCounter = 0 /\ ulCounter' = ulCounter + 1 /\ ulCounter' = 1
      /\ iStatus' = "W" /\ pvTcbOwn' = t
      /\ held' = [held EXCEPT ![t]["W"] = held[t]["W"] + 1]
  <2>1. /\ ucType = "SEMRW" /\ ulCounter = 0 /\ ulCounter' = ulCounter + 1
        /\ iStatus' = "W" /\ pvTcbOwn' = t
    BY DEF WritePasses, MayWrite
  <2>2. held' = [held EXCEPT ![t]["W"] = held[t]["W"] + 1]
    BY DEF WritePasses
  <2>3. ulCounter' = 1
    BY <2>1
  <2> QED BY <2>1, <2>2, <2>3
<1>3. "R" \in Modes /\ "W" \in Modes /\ held[t]["W"] + 1 \in 0 .. MaxHolds /\ held[t]["W"] \in Nat
  <2>1. "R" \in Modes /\ "W" \in Modes
    BY DEF Modes
  <2>2. held[t]["W"] \in 0 .. MaxHolds /\ held[t]["W"] < MaxHolds /\ MaxHolds \in Nat
    BY <2>1, ClaimsAre DEF IInv, RwInv
  <2> QED BY <2>1, <2>2
<1>a. PICK n \in 0 .. MaxHolds : n = held[t]["W"] + 1
  BY <1>3
<1>b. held' = [held EXCEPT ![t]["W"] = n]
  BY <1>2, <1>a
<1>c. /\ Plain'
      /\ held' \in [Threads -> [R : 0 .. MaxHolds, W : 0 .. MaxHolds]]
      /\ Claims(t, "W") = held[t]["W"] /\ Claims(t, "W")' = n
      /\ \A k \in Modes : k # "W" => Claims(t, k)' = Claims(t, k)
      /\ \A u \in Threads : u # t => SameClaim(u)
      /\ \A u \in Threads, k \in Modes : Claims(u, k) \in 0 .. MaxHolds
  BY <1>1, <1>3, <1>b, CountStep
<1>4. /\ Plain' /\ held' \in [Threads -> [R : 0 .. MaxHolds, W : 0 .. MaxHolds]]
      /\ Claims(t, "W")' = Claims(t, "W") + 1
      /\ Claims(t, "R")' = Claims(t, "R")
      /\ \A u \in Threads : u # t => SameClaim(u)
      /\ \A u \in Threads : Claims(u, "R") \in 0 .. MaxHolds
  BY <1>3, <1>a, <1>c
<1>5. Idle /\ Section = "tick" /\ iStatus \in {"R", "W"}
  BY <1>2, ThreadSees DEF Modes
<1>6. NoReader /\ NoWriter /\ pvPtr = 0
  <2>1. Counted /\ NoWriter /\ pvPtr = 0
    BY <1>2, <1>5 DEF Idle
  <2> QED BY <1>2, <1>4, <2>1, ReadersNone DEF Counted
<1>7. NoReader' /\ OnlyWriter(pvTcbOwn, pvPtr + 1)'
  BY <1>1, <1>2, <1>3, <1>4, <1>6 DEF NoReader, NoWriter, OnlyWriter, SameClaim
<1>8. Idle'
  BY <1>2, <1>7 DEF Idle
<1>9. Holding' /\ Preferred'
  BY <1>1, <1>2, <1>5, <1>8, EventStill DEF Holding, Preferred
<1>10. RwType'
  BY <1>1, <1>2, <1>4, ReadersBound DEF IInv, RwInv, RwType
<1> QED BY <1>1, <1>4, <1>9, <1>10, EventStill DEF IInv, RwInv

(* API_SemaphoreRWPendW by the writer itself.                                *)
LEMMA WriteRecursesKeeps ==
  ASSUME IInv, NEW t \in Threads, ThreadEnter, call[t].pc = "run", held[t].W < MaxHolds,
         WriteRecurses(t), UNCHANGED <<kernVars, ucPriority, ulSuspendNesting, sig>>
  PROVE  IInv'
<1>1. UNCHANGED eventVars /\ UNCHANGED <<ucType, ulCounter, iStatus, pvTcbOwn, ulOption, call>>
  BY DEF WriteRecurses, eventVars
<1>2. /\ ucType = "SEMRW" /\ ulCounter # 0 /\ pvTcbOwn = t /\ pvPtr' = pvPtr + 1
      /\ held' = [held EXCEPT ![t]["W"] = held[t]["W"] + 1]
  BY DEF WriteRecurses, Recurses
<1>3. "R" \in Modes /\ "W" \in Modes /\ held[t]["W"] + 1 \in 0 .. MaxHolds /\ held[t]["W"] \in Nat
      /\ held[t]["W"] < MaxHolds
  <2>1. "R" \in Modes /\ "W" \in Modes
    BY DEF Modes
  <2>2. held[t]["W"] \in 0 .. MaxHolds /\ held[t]["W"] < MaxHolds /\ MaxHolds \in Nat
    BY <2>1, ClaimsAre DEF IInv, RwInv
  <2> QED BY <2>1, <2>2
<1>a. PICK n \in 0 .. MaxHolds : n = held[t]["W"] + 1
  BY <1>3
<1>b. held' = [held EXCEPT ![t]["W"] = n]
  BY <1>2, <1>a
<1>c. /\ Plain'
      /\ held' \in [Threads -> [R : 0 .. MaxHolds, W : 0 .. MaxHolds]]
      /\ Claims(t, "W") = held[t]["W"] /\ Claims(t, "W")' = n
      /\ \A k \in Modes : k # "W" => Claims(t, k)' = Claims(t, k)
      /\ \A u \in Threads : u # t => SameClaim(u)
      /\ \A u \in Threads, k \in Modes : Claims(u, k) \in 0 .. MaxHolds
  BY <1>1, <1>3, <1>b, CountStep
<1>4. /\ Plain' /\ held' \in [Threads -> [R : 0 .. MaxHolds, W : 0 .. MaxHolds]]
      /\ Claims(t, "W") = held[t]["W"]
      /\ Claims(t, "W")' = Claims(t, "W") + 1
      /\ Claims(t, "R")' = Claims(t, "R")
      /\ \A u \in Threads : u # t => SameClaim(u)
  BY <1>3, <1>a, <1>c
<1>5. Idle /\ Section = "tick" /\ iStatus \in {"R", "W"} /\ pvPtr \in Nat
  BY <1>2, ThreadSees DEF Modes
<1>6. NoReader /\ OnlyWriter(t, pvPtr + 1) /\ ulCounter = 1 /\ iStatus = "W"
  BY <1>2, <1>5, EventAssumption DEF Idle
<1>7. NoReader' /\ OnlyWriter(pvTcbOwn, pvPtr + 1)'
  BY <1>1, <1>2, <1>3, <1>4, <1>6 DEF NoReader, OnlyWriter, SameClaim
<1>8. Idle'
  BY <1>1, <1>2, <1>6, <1>7 DEF Idle
<1>9. Holding' /\ Preferred'
  BY <1>1, <1>2, <1>5, <1>8, EventStill DEF Holding, Preferred
<1>10. RwType'
  <2>1. pvPtr + 1 = held[t]["W"]
    BY <1>4, <1>6 DEF OnlyWriter
  <2>2. PICK h \in 0 .. MaxHolds : h = held[t]["W"]
    BY <1>3, ThreadSees
  <2>3. pvPtr' = h
    BY <1>2, <2>1, <2>2
  <2> QED BY <1>1, <1>4, <2>2, <2>3 DEF IInv, RwInv, RwType
<1> QED BY <1>1, <1>4, <1>9, <1>10, EventStill DEF IInv, RwInv

(* A pend that waits: it is not the free semaphore it waits for.             *)
LEMMA PendWaitsKeeps ==
  ASSUME IInv, NEW t \in Threads, NEW q \in Events, NEW timeout \in Timeouts,
         ThreadEnter, IsReady(t), call[t].pc = "run", held[t][ModeOf(q)] < MaxHolds,
         PendWaits(t, q, timeout), UNCHANGED <<kernVars, ucPriority, ulSuspendNesting, sig>>
  PROVE  IInv'
<1> DEFINE c == [pc |-> "pend", ev |-> q, left |-> timeout,
                 inter |-> ulOption.inter, ret |-> "NONE", got |-> "no"]
<1>0. /\ UNCHANGED <<ucType, ulCounter, iStatus, pvTcbOwn, pvPtr, ulOption>> /\ UNCHANGED held
      /\ UNCHANGED kernVars /\ UNCHANGED sig /\ ucType = "SEMRW" /\ FALSE \in BOOLEAN
      /\ UNCHANGED <<rwVars, held>>
      /\ UNCHANGED <<kernVars, ulSuspendNesting, sig>>
      /\ ucPriority' \in [Threads -> Priorities]
  BY DEF PendWaits, rwVars, IInv, EvInv, EventType, PrioType
<1>1. Waiting(c, q)
  <2>1. ulOption \in [prio : BOOLEAN, inter : BOOLEAN, preferWriter : BOOLEAN]
    BY SemaphoreRWAssumption DEF IInv, RwInv, RwType
  <2>2. ulOption.inter \in BOOLEAN
    BY <2>1
  <2> QED BY <2>2 DEF Waiting, Call, SchedRets, Got
<1>2. call' = [call EXCEPT ![t] = c] /\ EventWait(q, t, ulOption.prio, timeout # Infinite, ucPriority)
  BY DEF PendWaits
<1>3. c.pc = "pend" /\ c.ev = q /\ c.ret = "NONE" /\ c.got = "no"
  OBVIOUS
<1> HIDE DEF c
<1>4. (timeout # Infinite) \in BOOLEAN
  OBVIOUS
<1>5. EvInv'
  BY <1>0, <1>1, <1>2, <1>4, EventWaitKeeps DEF IInv
<1>6. EvCalls(FALSE)' /\ EvHonest'
  BY <1>0, <1>1, <1>2, EventWaitCalls DEF IInv
<1>7. call'[t] = c /\ \A u \in Threads : u # t => call'[u] = call[u]
  BY <1>2 DEF IInv, EvInv, EventType, CallType
<1>8. \A u \in Threads : SameClaim(u)
  <2>1. \A u \in Threads : u # t => SameClaim(u)
    BY <1>0, <1>7, ClaimSame DEF SameCall
  <2>2. SameClaim(t)
    BY <1>0, <1>3, <1>7 DEF SameClaim, Claims
  <2> QED BY <2>1, <2>2
<1>9. Section = "tick" /\ Section' = Section /\ InHand' = InHand /\ Sections'
  BY <1>0, SectionAfter, ThreadSees
<1>10. Plain'
  <2>1. PlainCall(t)'
    BY <1>0, <1>3, <1>7 DEF PlainCall, ModeOf
  <2>2. \A u \in Threads : u # t => PlainCall(u)'
    BY <1>0, <1>7 DEF IInv, RwInv, Plain, PlainCall, ModeOf
  <2> QED BY <2>1, <2>2 DEF Plain
<1>11. ulOption.preferWriter => ulCounter # 0
  <2> SUFFICES ASSUME ulOption.preferWriter, ulCounter = 0 PROVE FALSE
    OBVIOUS
  <2>1. Q_R \in Events /\ Q_W \in Events
    BY SemaphoreRWAssumption
  <2>2. EventWaitNum(Q_W) = 0
    BY <1>0, <1>9, <2>1, NoWaiterFacts DEF IInv, RwInv, Preferred
  <2>3. Idle /\ iStatus \in {"R", "W"}
    BY <1>0, ThreadSees DEF Modes
  <2>4. iStatus = "R"
    BY <2>3 DEF Idle
  <2> QED BY <2>2, <2>4 DEF PendWaits, MayRead, MayWrite
<1>12. Holding' /\ RwType'
  <2>1. ReadHolds' = ReadHolds
    BY <1>8, ReadersSame
  <2>2. \A u \in Threads : Claims(u, "R")' = Claims(u, "R") /\ Claims(u, "W")' = Claims(u, "W")
    BY <1>8 DEF SameClaim, Modes
  <2>3. Idle
    BY <1>0, ThreadSees
  <2>4. Idle'
    BY <1>0, <2>1, <2>2, <2>3 DEF Idle, Counted, NoReader, NoWriter, OnlyWriter
  <2>5. RwType'
    BY <1>0 DEF IInv, RwInv, RwType
  <2> QED BY <1>0, <1>9, <2>4, <2>5 DEF Holding
<1>13. Preferred'
  BY <1>0, <1>9, <1>11 DEF Preferred
<1> QED BY <1>5, <1>6, <1>9, <1>10, <1>12, <1>13 DEF IInv, RwInv

(* The end of a pend: what RWPost gave is counted as held.                   *)
LEMMA PendReturnHolds ==
  ASSUME IInv, NEW t \in Threads, SemaphoreRWPendReturn(t)
  PROVE  IInv' /\ (\A u \in Threads : SameClaim(u)) /\ UNCHANGED wq
<1>0. FALSE \in BOOLEAN /\ PendReturn(t) /\ UNCHANGED rwVars
  BY DEF SemaphoreRWPendReturn
<1>1. EvInv' /\ EvCalls(FALSE)' /\ EvHonest'
  BY <1>0, PendReturnKeeps, PendReturnCalls DEF IInv
<1>2. PlainCall(t) /\ call[t] \in Call /\ RwType /\ Plain
  BY DEF IInv, RwInv, Plain, EvInv, EventType, CallType
<1>3. /\ UNCHANGED kernVars /\ UNCHANGED wq /\ call'[t] = Running /\ call[t].pc = "pend"
      /\ "SEM" \notin usStatus[t] /\ \A u \in Threads : u # t => call'[u] = call[u]
  BY <1>0, <1>2, PendReturnCases DEF IInv, PlainCall, GoesOn, IsReady
<1>4. PendResult(ucWaitTimeout[t], ucIsEventDelete[t]) = "ERROR_NONE" <=> call[t].got = "token"
  <2>1. Honest(call[t], call[t].ret, ucWaitTimeout[t], ucIsEventDelete[t])
    BY <1>3 DEF IInv, EvHonest, HonestCall
  <2> QED BY <1>2, <2>1 DEF Honest, PendResult, PlainCall
<1>5. \A m \in Modes : Claims(t, m) = held[t][m] + IF Handed(t, m) THEN 1 ELSE 0
  BY <1>2, ClaimsAre
<1>6. Running.pc = "run" /\ Running.got = "no" /\ Running.ret = "NONE"
  BY DEF Running
<1>7. \A m \in Modes : held[t][m] \in Nat /\ MaxHolds \in Nat
  BY <1>2, ClaimsAre
<1>8. /\ held' \in [Threads -> [R : 0 .. MaxHolds, W : 0 .. MaxHolds]]
      /\ \A m \in Modes : held'[t][m] = Claims(t, m)
      /\ \A u \in Threads : u # t => held'[u] = held[u]
  <2>1. CASE call[t].got = "token" /\ call[t].ev # Null
    <3>1. PICK m \in Modes : m = ModeOf(call[t].ev)
      BY DEF ModeOf, Modes
    <3>2. held[t][m] < MaxHolds
      BY <1>2, <1>3, <2>1, <3>1 DEF PlainCall
    <3>3. PICK n \in 0 .. MaxHolds : n = held[t][m] + 1
      BY <1>7, <3>2
    <3>4. held' = [held EXCEPT ![t][m] = n]
      BY <1>4, <2>1, <3>1, <3>3 DEF SemaphoreRWPendReturn
    <3>5. /\ held' \in [Threads -> [R : 0 .. MaxHolds, W : 0 .. MaxHolds]]
          /\ held'[t][m] = n
          /\ \A k \in Modes : k # m => held'[t][k] = held[t][k]
          /\ \A u \in Threads : u # t => held'[u] = held[u]
      BY <1>2, <3>4, HeldChanges
    <3>6. \A k \in Modes : Handed(t, k) <=> k = m
      BY <1>3, <2>1, <3>1 DEF Handed
    <3> QED BY <1>5, <1>7, <3>3, <3>5, <3>6
  <2>2. CASE ~(call[t].got = "token" /\ call[t].ev # Null)
    <3>1. UNCHANGED held
      BY <1>4, <2>2 DEF SemaphoreRWPendReturn
    <3>2. \A m \in Modes : ~Handed(t, m)
      BY <2>2 DEF Handed
    <3> QED BY <1>2, <1>5, <1>7, <3>1, <3>2 DEF RwType
  <2> QED BY <2>1, <2>2
<1>9. \A u \in Threads : SameClaim(u)
  <2>1. SameClaim(t)
    <3>1. \A m \in Modes : held'[t][m] \in Nat
      <4>1. held'[t] \in [R : 0 .. MaxHolds, W : 0 .. MaxHolds]
        BY <1>8
      <4> QED BY <4>1 DEF Modes
    <3>2. \A m \in Modes : Claims(t, m)' = held'[t][m]
      BY <1>3, <1>6, <3>1 DEF Claims
    <3> QED BY <1>8, <3>2 DEF SameClaim
  <2> QED BY <1>3, <1>8, <2>1, ClaimSame DEF SameCall
<1>10. Section' = Section /\ InHand' = InHand /\ Sections' /\ frames'[1] = frames[1]
  BY <1>3, SectionAfter
<1>11. Holding' /\ Preferred'
  BY <1>0, <1>3, <1>9, <1>10, HoldingKept
<1>12. Plain'
  BY <1>2, <1>3, <1>6, <1>8 DEF Plain, PlainCall, ModeOf
<1>13. RwType'
  BY <1>0, <1>2, <1>8 DEF RwType, rwVars
<1> QED BY <1>1, <1>3, <1>9, <1>10, <1>11, <1>12, <1>13 DEF IInv, RwInv

-----------------------------------------------------------------------------
(* API_SemaphoreRWPost.                                                      *)

(* Nobody reads when nothing is left of the reads.                           *)
LEMMA NoneAfter ==
  ASSUME IsFiniteSet(ReadHolds)', Cardinality(ReadHolds)' = 0,
         \A u \in Threads : Claims(u, "R")' \in Nat
  PROVE  NoReader'
<1>0. 1 \in 1 .. MaxHolds
  BY SemaphoreRWAssumption
<1>1. ReadHolds' = {}
  BY FS_EmptySet
<1>2. ASSUME NEW t \in Threads PROVE Claims(t, "R")' = 0
  <2>1. <<t, 1>> \notin ReadHolds'
    BY <1>1
  <2>2. ~(1 =< Claims(t, "R")')
    BY <1>0, <2>1 DEF ReadHolds
  <2> QED BY <2>2
<1> QED BY <1>2 DEF NoReader

(* What every post begins with: the caller's hold for the mode goes.         *)
LEMMA PostStep ==
  ASSUME IInv, NEW t \in Threads, NEW m \in Modes, call[t].pc = "run", UNCHANGED call,
         held[t][m] > 0, held' = [held EXCEPT ![t][m] = held[t][m] - 1]
  PROVE  /\ Plain' /\ held' \in [Threads -> [R : 0 .. MaxHolds, W : 0 .. MaxHolds]]
         /\ Claims(t, m)' = Claims(t, m) - 1 /\ Claims(t, m) > 0
         /\ \A k \in Modes : k # m => Claims(t, k)' = Claims(t, k)
         /\ \A u \in Threads, k \in Modes : Claims(u, k) \in 0 .. MaxHolds
         /\ \A u \in Threads, k \in Modes : Claims(u, k)' \in Nat
         /\ \A u \in Threads : u # t => SameClaim(u)
<1>1. held[t][m] \in 0 .. MaxHolds /\ MaxHolds \in Nat
  BY ClaimsAre DEF IInv, RwInv
<1>2. PICK n \in 0 .. MaxHolds : n = held[t][m] - 1
  BY <1>1
<1>3. held' = [held EXCEPT ![t][m] = n]
  BY <1>2
<1>4. /\ Plain'
      /\ held' \in [Threads -> [R : 0 .. MaxHolds, W : 0 .. MaxHolds]]
      /\ Claims(t, m) = held[t][m] /\ Claims(t, m)' = n
      /\ \A k \in Modes : k # m => Claims(t, k)' = Claims(t, k)
      /\ \A u \in Threads : u # t => SameClaim(u)
      /\ \A u \in Threads, k \in Modes : Claims(u, k) \in 0 .. MaxHolds
  BY <1>3, CountStep
<1>5. \A u \in Threads, k \in Modes : Claims(u, k)' \in Nat
  BY <1>1, <1>2, <1>4 DEF SameClaim
<1> QED BY <1>1, <1>2, <1>4, <1>5

(* One reader of several leaves.                                             *)
LEMMA PostCountsKeeps ==
  ASSUME IInv, NEW t \in Threads, ThreadEnter, call[t].pc = "run", held[t][iStatus] > 0,
         ucType = "SEMRW", PostCounts(t)
  PROVE  IInv'
<1>1. UNCHANGED eventVars /\ UNCHANGED <<ucType, iStatus, pvTcbOwn, pvPtr, ulOption>>
  BY DEF PostCounts
<1>2. /\ iStatus = "R" /\ ulCounter > 1 /\ ulCounter' = ulCounter - 1 /\ held[t]["R"] > 0
      /\ held' = [held EXCEPT ![t]["R"] = held[t]["R"] - 1]
  BY DEF PostCounts
<1>3. "R" \in Modes /\ "W" \in Modes /\ "R" # "W" /\ UNCHANGED call
  BY <1>1 DEF Modes, eventVars
<1>4. /\ Plain' /\ held' \in [Threads -> [R : 0 .. MaxHolds, W : 0 .. MaxHolds]]
      /\ Claims(t, "R")' = Claims(t, "R") - 1 /\ Claims(t, "R") > 0
      /\ \A k \in Modes : k # "R" => Claims(t, k)' = Claims(t, k)
      /\ \A u \in Threads, k \in Modes : Claims(u, k) \in 0 .. MaxHolds
      /\ \A u \in Threads : u # t => SameClaim(u)
  BY <1>2, <1>3, PostStep
<1>5. Idle /\ Section = "tick" /\ ulCounter \in Nat
  BY ThreadSees
<1>6. Counted'
  <2>1. IsFiniteSet(ReadHolds) /\ ulCounter = Cardinality(ReadHolds)
    BY <1>2, <1>5 DEF Idle, Counted
  <2>2. \A u \in Threads : u # t => Claims(u, "R")' = Claims(u, "R")
    BY <1>3, <1>4 DEF SameClaim
  <2>3. \A u \in Threads : Claims(u, "R") \in 0 .. MaxHolds
    BY <1>3, <1>4
  <2> QED BY <1>2, <1>4, <2>1, <2>2, <2>3, ReadersSub DEF Counted
<1>7. NoWriter'
  BY <1>2, <1>3, <1>4, <1>5 DEF Idle, NoWriter, SameClaim
<1>8. Idle'
  BY <1>1, <1>2, <1>5, <1>6, <1>7 DEF Idle
<1>9. Holding' /\ Preferred'
  <2>1. ulCounter' # 0
    BY <1>2, <1>5
  <2> QED BY <1>1, <1>5, <1>8, <2>1, EventStill DEF Holding, Preferred
<1>10. RwType'
  BY <1>1, <1>4, <1>6, ReadersBound DEF IInv, RwInv, RwType, Counted
<1> QED BY <1>1, <1>4, <1>9, <1>10, EventStill DEF IInv, RwInv

(* The writer leaves a recursion.                                            *)
LEMMA PostRecursedKeeps ==
  ASSUME IInv, NEW t \in Threads, ThreadEnter, call[t].pc = "run", held[t][iStatus] > 0,
         ucType = "SEMRW", PostRecursed(t)
  PROVE  IInv'
<1>1. UNCHANGED eventVars /\ UNCHANGED <<ucType, ulCounter, iStatus, pvTcbOwn, ulOption>>
  BY DEF PostRecursed
<1>2. /\ iStatus = "W" /\ pvTcbOwn = t /\ pvPtr > 0 /\ pvPtr' = pvPtr - 1 /\ held[t]["W"] > 0
      /\ held' = [held EXCEPT ![t]["W"] = held[t]["W"] - 1]
  BY DEF PostRecursed
<1>3. "R" \in Modes /\ "W" \in Modes /\ "R" # "W" /\ UNCHANGED call
  BY <1>1 DEF Modes, eventVars
<1>4. /\ Plain' /\ held' \in [Threads -> [R : 0 .. MaxHolds, W : 0 .. MaxHolds]]
      /\ Claims(t, "W")' = Claims(t, "W") - 1
      /\ \A k \in Modes : k # "W" => Claims(t, k)' = Claims(t, k)
      /\ \A u \in Threads : u # t => SameClaim(u)
  BY <1>2, <1>3, PostStep
<1>5. Idle /\ Section = "tick" /\ pvPtr \in Nat /\ MaxHolds \in Nat
  BY ThreadSees
<1>6. NoReader /\ OnlyWriter(t, pvPtr + 1) /\ ulCounter = 1
  BY <1>2, <1>5 DEF Idle
<1>7. NoReader'
  BY <1>3, <1>4, <1>6 DEF NoReader, SameClaim
<1>8. OnlyWriter(pvTcbOwn, pvPtr + 1)'
  <2>1. Claims(t, "W")' = pvPtr' + 1
    BY <1>2, <1>4, <1>5, <1>6 DEF OnlyWriter
  <2> QED BY <1>1, <1>2, <1>3, <1>4, <1>6, <2>1 DEF OnlyWriter, SameClaim
<1>9. Idle'
  BY <1>1, <1>2, <1>6, <1>7, <1>8 DEF Idle
<1>10. Holding' /\ Preferred'
  BY <1>1, <1>5, <1>6, <1>9, EventStill DEF Holding, Preferred
<1>11. RwType'
  <2>1. pvPtr' \in 0 .. MaxHolds
    BY <1>2, <1>5 DEF IInv, RwInv, RwType
  <2> QED BY <1>1, <1>4, <2>1 DEF IInv, RwInv, RwType
<1> QED BY <1>1, <1>4, <1>10, <1>11, EventStill DEF IInv, RwInv

(* A section begins, ends or changes without a waiter in hand.               *)
LEMMA KernelStep ==
  ASSUME IInv, AtTop(1), UNCHANGED notKern,
         EndFrame(1) \/ \E f \in Frame : f.tcb = Null /\ SetFrame(1, f)
  PROVE  /\ EvInv' /\ EvCalls(FALSE)' /\ EvHonest' /\ UNCHANGED <<wq, wqNum, call>>
         /\ \A u \in Threads : SameCall(u)
<1>0. /\ 1 \in 1..MaxNest /\ FALSE \in BOOLEAN
      /\ UNCHANGED <<wq, wqNum, usStatus, waitOn, ucWaitTimeout, ucIsEventDelete, call, sig>>
  BY EventAssumption DEF notKern, queueVars, waitVars
<1>1. /\ KernType'
      /\ \A i \in 1..nest' : OldFrame(i) \/ NoTcb(i)
      /\ \A u \in Threads : InLimbo(u)' <=> InLimbo(u)
  BY <1>0, TopQuiet DEF IInv
<1>2. EvInv'
  BY <1>1, NotKernKeeps DEF IInv
<1>3. EvCalls(FALSE)' /\ EvHonest'
  BY <1>0, NotKernCalls DEF IInv
<1> QED BY <1>0, <1>2, <1>3 DEF SameCall

(* The last reader, or the writer out of its recursion: the section opens.   *)
LEMMA PostDecidesKeeps ==
  ASSUME IInv, NEW t \in Threads, ThreadEnter, call[t].pc = "run", held[t][iStatus] > 0,
         ucType = "SEMRW", PostDecides(t)
  PROVE  IInv'
<1>1. PICK m \in Modes : m = iStatus
  BY ThreadSees
<1>2. /\ held[t][m] > 0 /\ held' = [held EXCEPT ![t][m] = held[t][m] - 1]
      /\ UNCHANGED notKern /\ UNCHANGED call
      /\ UNCHANGED <<ucType, ulCounter, iStatus, pvTcbOwn, pvPtr, ulOption>>
  BY <1>1 DEF PostDecides, rwVars, notKern
<1>3. /\ Plain' /\ held' \in [Threads -> [R : 0 .. MaxHolds, W : 0 .. MaxHolds]]
      /\ Claims(t, m)' = Claims(t, m) - 1 /\ Claims(t, m) > 0
      /\ \A k \in Modes : k # m => Claims(t, k)' = Claims(t, k)
      /\ \A u \in Threads, k \in Modes : Claims(u, k) \in 0 .. MaxHolds
      /\ \A u \in Threads, k \in Modes : Claims(u, k)' \in Nat
      /\ \A u \in Threads : u # t => SameClaim(u)
  BY <1>2, PostStep
<1>4. Idle /\ nest = 0
  BY ThreadSees
<1>5. "R" \in Modes /\ "W" \in Modes /\ "R" # "W"
  BY DEF Modes
<1>6. \E f \in Frame : /\ SetFrame(1, f) /\ f.op = "post" /\ f.tcb = Null
                       /\ f.n = IF IgnWrite THEN 1 ELSE 0
  <2> DEFINE f == [op |-> "post", ev |-> Null, tcb |-> Null, n |-> IF IgnWrite THEN 1 ELSE 0]
  <2>1. f \in Frame /\ f.op = "post" /\ f.tcb = Null /\ f.n = IF IgnWrite THEN 1 ELSE 0
    BY DEF Frame, Ops
  <2>2. SetFrame(nest + 1, f)
    BY DEF PostDecides
  <2>3. SetFrame(1, f)
    BY <1>4, <2>2
  <2> QED BY <2>1, <2>3
<1>7. PICK f \in Frame : /\ SetFrame(1, f) /\ f.op = "post" /\ f.tcb = Null
                         /\ f.n = IF IgnWrite THEN 1 ELSE 0
  BY <1>6
<1>8. EvInv' /\ EvCalls(FALSE)' /\ EvHonest'
  <2>1. AtTop(1)
    BY <1>4 DEF AtTop
  <2> QED BY <1>2, <1>7, <2>1, KernelStep
<1>9. Section' = "post" /\ InHand' = Null /\ Sections' /\ frames'[1] = f
  BY <1>4, <1>7, SectionAfter
<1>10. ulCounter = 1 /\ pvPtr = 0 /\ NoReader' /\ \A u \in Threads : Claims(u, "W")' = 0
  <2>1. CASE m = "R"
    <3>1. ulCounter = 1 /\ Counted /\ NoWriter /\ pvPtr = 0
      BY <1>1, <1>4, <2>1 DEF PostDecides, Idle
    <3>2. IsFiniteSet(ReadHolds)' /\ Cardinality(ReadHolds)' = 1 - 1
      <4>1. \A u \in Threads : Claims(u, "R") \in 0 .. MaxHolds
        BY <1>3, <1>5
      <4>2. \A u \in Threads : u # t => Claims(u, "R")' = Claims(u, "R")
        BY <1>3, <1>5 DEF SameClaim
      <4>3. IsFiniteSet(ReadHolds) /\ Cardinality(ReadHolds) = 1
        BY <3>1 DEF Counted
      <4>4. Claims(t, "R")' = Claims(t, "R") - 1 /\ Claims(t, "R") > 0
        BY <1>3, <2>1
      <4>5. IsFiniteSet(ReadHolds)' /\ Cardinality(ReadHolds)' = Cardinality(ReadHolds) - 1
        BY <4>1, <4>2, <4>3, <4>4, ReadersSub
      <4> QED BY <4>3, <4>5
    <3>3. NoReader'
      BY <1>3, <1>5, <3>2, NoneAfter
    <3>4. \A u \in Threads : Claims(u, "W")' = 0
      BY <1>3, <1>5, <2>1, <3>1 DEF NoWriter, SameClaim
    <3> QED BY <3>1, <3>3, <3>4
  <2>2. CASE m = "W"
    <3>1. pvTcbOwn = t /\ pvPtr = 0
      BY <1>1, <1>5, <2>2 DEF PostDecides
    <3>2. ulCounter = 1 /\ NoReader /\ OnlyWriter(t, 0 + 1)
      BY <1>1, <1>4, <2>2, <3>1 DEF Idle
    <3>3. Claims(t, "W") = 1
      BY <3>2 DEF OnlyWriter
    <3>4. NoReader'
      BY <1>3, <1>5, <2>2, <3>2 DEF NoReader, SameClaim
    <3>5. ASSUME NEW u \in Threads PROVE Claims(u, "W")' = 0
      <4>1. CASE u = t
        BY <1>3, <2>2, <3>3, <4>1
      <4>2. CASE u # t
        BY <1>3, <1>5, <3>2, <4>2 DEF OnlyWriter, SameClaim
      <4> QED BY <4>1, <4>2
    <3> QED BY <3>1, <3>2, <3>4, <3>5
  <2> QED BY <2>1, <2>2 DEF Modes
<1>11. Posting'
  <2>1. OnlyWriter(InHand, 1)'
    BY <1>9, <1>10, EventAssumption DEF OnlyWriter
  <2> QED BY <1>2, <1>10, <2>1 DEF Posting
<1>12. Holding'
  BY <1>9, <1>11 DEF Holding
<1>13. Preferred'
  BY <1>2, <1>7, <1>9 DEF Preferred, IgnWrite
<1>14. RwType'
  BY <1>2, <1>3 DEF IInv, RwInv, RwType
<1> QED BY <1>3, <1>8, <1>9, <1>12, <1>13, <1>14 DEF IInv, RwInv

(* API_SemaphoreRWPost up to its first window.                               *)
LEMMA SemaphoreRWPostKeeps ==
  ASSUME IInv, NEW t \in Threads, SemaphoreRWPost(t)
  PROVE  IInv'
  BY PostCountsKeeps, PostRecursedKeeps, PostDecidesKeeps DEF SemaphoreRWPost

-----------------------------------------------------------------------------
(* The sections.                                                             *)

(* A waiter is taken off a queue: a post gives it the semaphore.             *)
LEMMA TakeHolds ==
  ASSUME IInv, NEW op \in {"post", "release", "delete"}, NEW e \in Events,
         AtTop(1), nest \in {0, 1}, TakeFirst(op, e, 0, 1), UNCHANGED held
  PROVE  /\ EvInv' /\ EvCalls(FALSE)' /\ EvHonest' /\ Plain' /\ Sections' /\ Section' = op
         /\ \E t \in Threads :
              /\ InHand' = t
              /\ \A u \in Threads : u # t => SameClaim(u)
              /\ \A m \in Modes :
                   /\ Claims(t, m)' = Claims(t, m) + IF op # "delete" /\ ModeOf(e) = m THEN 1 ELSE 0
                   /\ Claims(t, m)' \in 0 .. MaxHolds
         /\ \A u \in Threads, m \in Modes : Claims(u, m) \in 0 .. MaxHolds
<1>0. /\ 1 \in 1..MaxNest /\ FALSE \in BOOLEAN /\ 0 \in Nat /\ op \in Ops \ {"tick"}
      /\ e # Null
  BY EventAssumption DEF Ops
<1>1. EvInv' /\ EvCalls(FALSE)' /\ EvHonest'
  BY <1>0, TakeFirstKeeps, TakeFirstCalls DEF IInv
<1>2. PICK t \in Threads :
         /\ waitOn[t] = e /\ "SEM" \in usStatus[t]
         /\ call[t].got = "no" /\ call[t].pc = "pend"
         /\ call'[t].pc = "pend" /\ call'[t].ev = call[t].ev /\ call'[t].ret = call[t].ret
         /\ call'[t].got = GotOf(op)
         /\ \A u \in Threads : u # t => call'[u] = call[u]
         /\ nest' = 1 /\ frames'[1].op = op /\ frames'[1].tcb = t
  BY <1>0, TakeFirstFacts DEF IInv
<1>3. call[t].ev = e /\ call'[t].ev = e
  BY <1>2 DEF IInv, EvCalls
<1>4. /\ Section' = op /\ InHand' = t /\ Sections'
  BY <1>2 DEF Section, InHand, Sections
<1>5. \A u \in Threads, m \in Modes : Claims(u, m) \in 0 .. MaxHolds
  BY ClaimsAre DEF IInv, RwInv
<1>6. \A u \in Threads : u # t => SameClaim(u)
  BY <1>2, ClaimSame DEF SameCall
<1>7. ASSUME NEW m \in Modes
      PROVE  /\ Claims(t, m)' = Claims(t, m) + IF op # "delete" /\ ModeOf(e) = m THEN 1 ELSE 0
             /\ Claims(t, m)' \in 0 .. MaxHolds
  <2>1. /\ held[t][m] \in 0 .. MaxHolds /\ MaxHolds \in Nat
        /\ Claims(t, m) = held[t][m] + IF Handed(t, m) THEN 1 ELSE 0
    BY ClaimsAre DEF IInv, RwInv
  <2>2. Claims(t, m) = held[t][m]
    BY <1>2, <2>1 DEF Handed
  <2>3. GotOf(op) = "token" <=> op # "delete"
    BY DEF GotOf
  <2>4. Claims(t, m)' = held[t][m] + IF op # "delete" /\ ModeOf(e) = m THEN 1 ELSE 0
    BY <1>0, <1>2, <1>3, <2>3 DEF Claims, ModeOf
  <2>5. ModeOf(e) = m => held[t][m] < MaxHolds
    BY <1>0, <1>2, <1>3 DEF IInv, RwInv, Plain, PlainCall
  <2> QED BY <2>1, <2>2, <2>4, <2>5
<1>8. Plain'
  <2>1. PlainCall(t)'
    BY <1>2, <1>3 DEF IInv, RwInv, Plain, PlainCall, ModeOf, GotOf
  <2>2. \A u \in Threads : u # t => PlainCall(u)'
    BY <1>2 DEF IInv, RwInv, Plain, PlainCall, ModeOf
  <2> QED BY <2>1, <2>2 DEF Plain
<1> QED BY <1>1, <1>4, <1>5, <1>6, <1>7, <1>8

(* The loop that readies the readers, counted of them being done.            *)
LEMMA WakeReadersKeeps ==
  ASSUME IInv, AtTop(1), nest \in {0, 1}, ucType = "SEMRW", pvPtr = 0, NoWriter,
         IsFiniteSet(ReadHolds), NEW counted \in Nat, counted = Cardinality(ReadHolds),
         EventWaitNum(Q_R) = 0 => ulCounter = counted /\ ulCounter > 0,
         ulOption.preferWriter => wq[Q_W] = <<>>,
         WakeReaders(1, counted)
  PROVE  IInv'
<1>0. Q_R \in Events /\ "R" \in Modes /\ "W" \in Modes /\ "R" # "W" /\ ModeOf(Q_R) = "R"
  BY SemaphoreRWAssumption DEF ModeOf, Modes
<1>1. CASE /\ TakeFirst("release", Q_R, 0, 1)
           /\ ulCounter' = counted + 1
           /\ UNCHANGED <<ucType, iStatus, pvTcbOwn, pvPtr, ulOption, held>>
  <2>0. UNCHANGED held
    BY <1>1
  <2>1. /\ EvInv' /\ EvCalls(FALSE)' /\ EvHonest' /\ Plain' /\ Sections' /\ Section' = "release"
        /\ \E t \in Threads :
              /\ \A u \in Threads : u # t => SameClaim(u)
              /\ \A m \in Modes :
                   /\ Claims(t, m)' = Claims(t, m) + IF "release" # "delete" /\ ModeOf(Q_R) = m THEN 1 ELSE 0
                   /\ Claims(t, m)' \in 0 .. MaxHolds
        /\ \A u \in Threads, m \in Modes : Claims(u, m) \in 0 .. MaxHolds
    BY <1>0, <1>1, <2>0, TakeHolds
  <2>2. PICK t \in Threads :
              /\ \A u \in Threads : u # t => SameClaim(u)
              /\ \A m \in Modes :
                   /\ Claims(t, m)' = Claims(t, m) + IF "release" # "delete" /\ ModeOf(Q_R) = m THEN 1 ELSE 0
                   /\ Claims(t, m)' \in 0 .. MaxHolds
    BY <2>1
  <2>3. /\ Claims(t, "R")' = Claims(t, "R") + 1 /\ Claims(t, "R")' \in 0 .. MaxHolds
        /\ Claims(t, "W")' = Claims(t, "W") + 0
    BY <1>0, <2>2
  <2>4. Counted'
    <3>1. \A u \in Threads : Claims(u, "R") \in 0 .. MaxHolds
      BY <1>0, <2>1
    <3>2. \A u \in Threads : u # t => Claims(u, "R")' = Claims(u, "R")
      BY <1>0, <2>2 DEF SameClaim
    <3> QED BY <1>1, <2>3, <3>1, <3>2, ReadersAdd DEF Counted
  <2>5. NoWriter'
    <3>1. Claims(t, "W") = 0 /\ \A u \in Threads : u # t => Claims(u, "W")' = Claims(u, "W")
      BY <1>0, <2>2 DEF NoWriter, SameClaim
    <3>2. Claims(t, "W")' = 0
      BY <2>3, <3>1
    <3> QED BY <3>1, <3>2 DEF NoWriter
  <2>6. Releasing'
    BY <1>1, <2>4, <2>5 DEF Releasing
  <2>7. Holding' /\ Preferred'
    <3>1. wq'[Q_W] = wq[Q_W]
      BY <1>1, SemaphoreRWAssumption
         DEF TakeFirst, EventReadyLowLevel, IInv, EvInv, EventType, QueueType
    <3> QED BY <1>1, <2>1, <2>6, <3>1 DEF Holding, Preferred
  <2>8. RwType'
    BY <1>1, <2>4, ReadersBound DEF IInv, RwInv, RwType, Counted
  <2> QED BY <2>1, <2>7, <2>8 DEF IInv, RwInv
<1>2. CASE /\ EventWaitNum(Q_R) = 0
           /\ EndFrame(1)
           /\ pvTcbOwn' = Null /\ iStatus' = "R"
           /\ UNCHANGED <<notKern, ucType, ulCounter, pvPtr, ulOption, held>>
  <2>1. /\ EvInv' /\ EvCalls(FALSE)' /\ EvHonest' /\ \A u \in Threads : SameCall(u)
    BY <1>2, KernelStep
  <2>2. Section' = "tick" /\ Sections'
    BY <1>2, SectionAfter
  <2>3. \A u \in Threads : SameClaim(u)
    BY <1>2, <2>1, ClaimSame
  <2>4. Counted' /\ NoWriter'
    BY <1>0, <1>2, <2>3, ReadersSame DEF Counted, NoWriter, SameClaim
  <2>5. Idle'
    BY <1>2, <2>4 DEF Idle
  <2>6. Holding' /\ Preferred'
    BY <1>2, <2>2, <2>5 DEF Holding, Preferred
  <2>7. Plain'
    BY <1>2, <2>1, PlainSame DEF IInv, RwInv
  <2>8. RwType'
    BY <1>2 DEF IInv, RwInv, RwType
  <2> QED BY <2>1, <2>2, <2>6, <2>7, <2>8 DEF IInv, RwInv
<1> QED BY <1>1, <1>2 DEF WakeReaders

(* __release_pend.                                                           *)
LEMMA ReleasePendKeeps ==
  ASSUME IInv, AtTop(1), nest = 1, Section = "post", InHand = Null,
         NEW ign \in BOOLEAN, ulOption.preferWriter => ~ign, ReleasePend(ign, 1)
  PROVE  IInv'
<1>0. /\ Q_R \in Events /\ Q_W \in Events /\ Events = {Q_R, Q_W} /\ ModeOf(Q_W) = "W"
      /\ "R" \in Modes /\ "W" \in Modes /\ "R" # "W"
  BY SemaphoreRWAssumption DEF ModeOf, Modes
<1>1. ucType = "SEMRW" /\ ulCounter = 1 /\ pvPtr = 0 /\ NoReader /\ OnlyWriter(InHand, 1)
  BY DEF IInv, RwInv, Holding, Posting
<1>2. NoWriter
  BY <1>1, EventAssumption DEF NoWriter, OnlyWriter
<1>3. IsFiniteSet(ReadHolds) /\ Cardinality(ReadHolds) = 0
  <2>1. \A u \in Threads : Claims(u, "R") \in 0 .. MaxHolds
    BY <1>0, ClaimsAre DEF IInv, RwInv
  <2> QED BY <1>1, <2>1, ReadersNone
<1>4. CASE EventWaitNum(Q_W) > 0 /\ TakeFirst("post", Q_W, 0, 1) /\ UNCHANGED <<rwVars, held>>
  <2>0. UNCHANGED held /\ UNCHANGED <<ucType, ulCounter, iStatus, pvTcbOwn, pvPtr, ulOption>>
    BY <1>4 DEF rwVars
  <2>1. /\ EvInv' /\ EvCalls(FALSE)' /\ EvHonest' /\ Plain' /\ Sections' /\ Section' = "post"
        /\ \E t \in Threads :
              /\ InHand' = t
              /\ \A u \in Threads : u # t => SameClaim(u)
              /\ \A m \in Modes :
                   Claims(t, m)' = Claims(t, m) + IF "post" # "delete" /\ ModeOf(Q_W) = m THEN 1 ELSE 0
    BY <1>0, <1>4, <2>0, TakeHolds
  <2>2. PICK t \in Threads :
              /\ InHand' = t
              /\ \A u \in Threads : u # t => SameClaim(u)
              /\ \A m \in Modes :
                   Claims(t, m)' = Claims(t, m) + IF "post" # "delete" /\ ModeOf(Q_W) = m THEN 1 ELSE 0
    BY <2>1
  <2>3. Claims(t, "W")' = Claims(t, "W") + 1 /\ Claims(t, "R")' = Claims(t, "R") + 0
    BY <1>0, <2>2
  <2>4. NoReader'
    BY <1>0, <1>1, <2>2, <2>3 DEF NoReader, SameClaim
  <2>5. OnlyWriter(InHand, 1)'
    BY <1>0, <1>2, <2>2, <2>3 DEF NoWriter, OnlyWriter, SameClaim
  <2>6. Posting'
    BY <1>1, <2>0, <2>4, <2>5 DEF Posting
  <2>7. Holding'
    BY <2>1, <2>6 DEF Holding
  <2>8. Preferred'
    BY <2>1, <2>2, EventAssumption DEF Preferred
  <2>9. RwType'
    BY <2>0 DEF IInv, RwInv, RwType
  <2> QED BY <2>1, <2>7, <2>8, <2>9 DEF IInv, RwInv
<1>5. CASE /\ ign \/ EventWaitNum(Q_W) = 0
           /\ EventWaitNum(Q_R) > 0 /\ WakeReaders(1, ulCounter - 1)
  <2>1. ulCounter - 1 = 0 /\ 0 \in Nat /\ EventWaitNum(Q_R) # 0
    BY <1>1, <1>5
  <2>2. WakeReaders(1, 0)
    BY <1>5, <2>1 DEF WakeReaders
  <2>3. ulOption.preferWriter => wq[Q_W] = <<>>
    BY <1>0, <1>5, NoWaiterFacts DEF IInv
  <2> QED BY <1>1, <1>2, <1>3, <2>1, <2>2, <2>3, WakeReadersKeeps
<1>6. CASE /\ ign \/ EventWaitNum(Q_W) = 0
           /\ EventWaitNum(Q_R) = 0
           /\ EndFrame(1)
           /\ ulCounter' = ulCounter - 1
           /\ pvTcbOwn' = Null /\ iStatus' = "R"
           /\ UNCHANGED <<notKern, ucType, pvPtr, ulOption, held>>
  <2>1. /\ EvInv' /\ EvCalls(FALSE)' /\ EvHonest' /\ UNCHANGED wq
        /\ \A u \in Threads : SameCall(u)
    BY <1>6, KernelStep
  <2>2. Section' = "tick" /\ Sections'
    BY <1>6, SectionAfter
  <2>3. \A u \in Threads : SameClaim(u)
    BY <1>6, <2>1, ClaimSame
  <2>4. ulCounter' = 0
    BY <1>1, <1>6
  <2>5. Counted' /\ NoWriter'
    BY <1>0, <1>2, <1>3, <2>3, <2>4, ReadersSame DEF Counted, NoWriter, SameClaim
  <2>6. Idle'
    BY <1>1, <1>6, <2>5 DEF Idle
  <2>7. Holding'
    BY <1>1, <1>6, <2>2, <2>6 DEF Holding
  <2>8. ulOption.preferWriter => \A q \in Events : wq[q] = <<>>
    BY <1>0, <1>6, NoWaiterFacts DEF IInv
  <2>9. Preferred'
    BY <1>6, <2>1, <2>2, <2>8 DEF Preferred
  <2>10. Plain'
    BY <1>6, <2>1, PlainSame DEF IInv, RwInv
  <2>11. RwType'
    BY <1>6, <2>4, ReadersBound DEF IInv, RwInv, RwType
  <2> QED BY <2>1, <2>2, <2>7, <2>9, <2>10, <2>11 DEF IInv, RwInv
<1> QED BY <1>4, <1>5, <1>6 DEF ReleasePend

(* The last step of API_SemaphoreRWDelete: nobody has the semaphore.         *)
LEMMA ForgetKeeps ==
  ASSUME IInv, AtTop(1), nest \in {0, 1}, EndFrame(1),
         call' = [t \in Threads |-> Forget(call[t])],
         UNCHANGED <<queueVars, waitVars, ring, ucPriority, ucIsEventDelete,
                     ulSuspendNesting, sig>>
  PROVE  /\ EvInv' /\ EvCalls(FALSE)' /\ EvHonest'
         /\ \A u \in Threads : /\ call'[u].ret = call[u].ret /\ call'[u].got = call[u].got
                               /\ call'[u].got = "token" => call'[u].ev = Null
<1>0. /\ 1 \in 1..MaxNest /\ FALSE \in BOOLEAN
      /\ UNCHANGED <<wq, wqNum, usStatus, inRing, waitOn, ucWaitTimeout, ring, ucPriority,
                     ucIsEventDelete, ulSuspendNesting, sig>>
  BY EventAssumption DEF queueVars, waitVars
<1>1. /\ KernType'
      /\ \A i \in 1..nest' : OldFrame(i) \/ NoTcb(i)
      /\ \A u \in Threads : InLimbo(u)' <=> InLimbo(u)
  BY <1>0, TopQuiet DEF IInv
<1>2. ASSUME NEW u \in Threads
      PROVE  /\ call'[u] \in Call /\ call'[u].pc = call[u].pc /\ call'[u].ret = call[u].ret
             /\ call'[u].got = call[u].got
             /\ call'[u].got = "token" => call'[u].ev = Null
             /\ call[u].got # "token" => call'[u] = call[u]
  <2>1. call[u] \in Call /\ call'[u] = Forget(call[u])
    BY DEF IInv, EvInv, EventType, CallType
  <2>2. PICK c \in Call : c = call[u]
    BY <2>1
  <2>3. /\ Forget(c) \in Call /\ Forget(c).pc = c.pc /\ Forget(c).ret = c.ret
        /\ Forget(c).got = c.got /\ (c.got = "token" => Forget(c).ev = Null)
        /\ c.got # "token" => Forget(c) = c
    <3>1. [c EXCEPT !.ev = Null] \in Call
      BY DEF Call
    <3> QED BY <3>1 DEF Forget, Call
  <2> QED BY <2>1, <2>2, <2>3
<1>3. CallType' /\ SigType' /\ FlagType' /\ PrioType'
  BY <1>0, <1>2 DEF IInv, EvInv, EventType, CallType, SigType, FlagType, PrioType
<1>4. \A u \in Threads : ~InLimbo(u)
  BY EventAssumption DEF AtTop, InLimbo, IInv, EvInv, EventType, KernType
<1>5. \A u \in Threads : "SEM" \in usStatus[u] => call'[u] = call[u]
  BY <1>2, <1>4 DEF IInv, EvInv, EvWait, WaitOK
<1>6. EvInv'
  <2>1. \A u \in Threads : "SEM" \in usStatus[u] =>
            /\ SameWait(u)
            /\ ucWaitTimeout'[u] = ucWaitTimeout[u]
            /\ ucIsEventDelete'[u] = ucIsEventDelete[u]
    BY <1>0, <1>5 DEF SameWait
  <2> QED BY <1>0, <1>1, <1>3, <2>1, QuietKeeps DEF IInv
<1>7. \A u \in Threads : CallKept(u, FALSE)
  <2> SUFFICES ASSUME NEW u \in Threads PROVE CallKept(u, FALSE)
    OBVIOUS
  <2>1. HasEvent(call[u], FALSE) => HasEvent(call'[u], FALSE)
    BY <1>2 DEF HasEvent
  <2>2. HonestCall(u) => HonestCall(u)'
    BY <1>0, <1>2 DEF HonestCall, Honest
  <2> QED BY <1>0, <1>5, <2>1, <2>2 DEF CallKept
<1>8. \A u \in Threads : SameSigs(u)
  BY <1>0 DEF SameSigs, SameCtx
<1>9. EvCalls(FALSE)' /\ EvHonest'
  BY <1>0, <1>7, <1>8, AllKept DEF IInv
<1> QED BY <1>2, <1>6, <1>9

(* The loops of API_SemaphoreRWDelete.                                       *)
LEMMA DeleteLoopKeeps ==
  ASSUME IInv, AtTop(1), nest \in {0, 1}, Lone, ucType' = "UNUSED", DeleteLoop(1),
         UNCHANGED <<ulCounter, iStatus, pvPtr, ulOption>>
  PROVE  IInv'
<1>0. /\ Q_R \in Events /\ Q_W \in Events /\ Events = {Q_R, Q_W} /\ 0 \in Nat
      /\ "R" \in Modes /\ "W" \in Modes /\ MaxHolds \in Nat \ {0}
  BY SemaphoreRWAssumption DEF Modes
<1>1. ASSUME NEW e \in Events, TakeFirst("delete", e, 0, 1), UNCHANGED <<pvTcbOwn, held>>
      PROVE  IInv'
  <2>1. /\ EvInv' /\ EvCalls(FALSE)' /\ EvHonest' /\ Plain' /\ Sections' /\ Section' = "delete"
        /\ \E t \in Threads :
              /\ \A u \in Threads : u # t => SameClaim(u)
              /\ \A m \in Modes :
                   Claims(t, m)' = Claims(t, m) + IF "delete" # "delete" /\ ModeOf(e) = m THEN 1 ELSE 0
        /\ \A u \in Threads, m \in Modes : Claims(u, m) \in 0 .. MaxHolds
    BY <1>1, TakeHolds
  <2>2. \A u \in Threads : SameClaim(u)
    BY <2>1 DEF SameClaim
  <2>3. Lone'
    BY <1>0, <2>2 DEF Lone, NoReader, NoWriter, SameClaim
  <2>4. Holding' /\ Preferred'
    BY <2>1, <2>3 DEF Holding, Deleting, Preferred
  <2>5. RwType'
    BY <1>1 DEF IInv, RwInv, RwType
  <2> QED BY <2>1, <2>4, <2>5 DEF IInv, RwInv
<1>2. CASE /\ EventWaitNum(Q_R) = 0 /\ EventWaitNum(Q_W) = 0
           /\ pvTcbOwn' = Null
           /\ held' = [t \in Threads |-> Nothing]
           /\ call' = [t \in Threads |-> Forget(call[t])]
           /\ EndFrame(1)
           /\ UNCHANGED <<queueVars, waitVars, ring, ucPriority, ucIsEventDelete,
                          ulSuspendNesting, sig>>
  <2>1. /\ EvInv' /\ EvCalls(FALSE)' /\ EvHonest'
        /\ \A u \in Threads : /\ call'[u].ret = call[u].ret /\ call'[u].got = call[u].got
                              /\ call'[u].got = "token" => call'[u].ev = Null
    BY <1>2, ForgetKeeps
  <2>2. Section' = "tick" /\ Sections'
    BY <1>2, SectionAfter
  <2>3. \A u \in Threads, m \in Modes : held'[u][m] = 0
    BY <1>2 DEF Nothing, Modes
  <2>4. \A u \in Threads, m \in Modes : Claims(u, m)' = 0
    BY <2>1, <2>3 DEF Claims
  <2>5. \A q \in Events : wq'[q] = <<>>
    BY <1>0, <1>2, NoWaiterFacts DEF IInv, queueVars
  <2>6. Unused'
    BY <1>0, <2>4, <2>5 DEF Unused, NoReader, NoWriter
  <2>7. Holding' /\ Preferred'
    BY <2>2, <2>6 DEF Holding, Preferred
  <2>8. Plain'
    <3>1. \A q : ModeOf(q) \in Modes
      BY DEF ModeOf, Modes
    <3>2. \A u \in Threads : call'[u].ev # Null => held'[u][ModeOf(call'[u].ev)] < MaxHolds
      BY <1>0, <2>3, <3>1
    <3> QED BY <2>1, <3>2 DEF IInv, RwInv, Plain, PlainCall, ModeOf
  <2>9. RwType'
    <3>1. held' \in [Threads -> [R : 0 .. MaxHolds, W : 0 .. MaxHolds]]
      BY <1>0, <1>2 DEF Nothing
    <3> QED BY <1>2, <3>1 DEF IInv, RwInv, RwType
  <2> QED BY <2>1, <2>2, <2>7, <2>8, <2>9 DEF IInv, RwInv
<1> QED BY <1>0, <1>1, <1>2 DEF DeleteLoop

(* API_SemaphoreRWDelete up to its first window.                             *)
LEMMA SemaphoreRWDeleteKeeps ==
  ASSUME IInv, SemaphoreRWDelete
  PROVE  IInv'
<1>1. nest = 0 /\ ucType = "SEMRW" /\ ThreadEnter
  BY DEF SemaphoreRWDelete, ThreadEnter
<1>2. Idle /\ iStatus \in Modes
  BY <1>1, ThreadSees
<1>3. Lone
  BY <1>2 DEF Idle, Lone, OnlyWriter, Modes
<1>4. AtTop(1)
  BY <1>1 DEF AtTop
<1>5. DeleteLoop(nest + 1) /\ nest + 1 = 1
  BY <1>1 DEF SemaphoreRWDelete
<1>6. DeleteLoop(1)
  BY <1>5
<1> QED BY <1>1, <1>3, <1>4, <1>6, DeleteLoopKeeps DEF SemaphoreRWDelete

(* Out of a window without a waiter in hand.                                 *)
LEMMA SectionNextKeeps ==
  ASSUME IInv, SectionNext
  PROVE  IInv'
<1>0. PICK f : f = frames[nest]
  OBVIOUS
<1>1. nest > 0 /\ f.tcb = Null
  BY <1>0 DEF SectionNext
<1>2. CASE f.op = "post" /\ ReleasePend(f.n = 1, nest)
  <2>1. nest = 1 /\ Section = "post" /\ InHand = Null /\ frames[1] = f
    BY <1>0, <1>1, <1>2, SectionOpen
  <2>2. AtTop(1)
    BY <1>0, <1>1, <2>1 DEF AtTop
  <2>3. ulOption.preferWriter => f.n # 1
    BY <2>1 DEF IInv, RwInv, Preferred
  <2>4. PICK ign \in BOOLEAN : ign = (f.n = 1)
    OBVIOUS
  <2>5. ReleasePend(ign, 1)
    BY <1>2, <2>1, <2>4
  <2> QED BY <2>1, <2>2, <2>3, <2>4, <2>5, ReleasePendKeeps
<1>3. CASE f.op = "release" /\ WakeReaders(nest, ulCounter)
  <2>1. nest = 1 /\ Section = "release"
    BY <1>0, <1>1, <1>3, SectionOpen
  <2>2. AtTop(1)
    BY <1>0, <1>1, <2>1 DEF AtTop
  <2>3. ucType = "SEMRW" /\ ulCounter > 0 /\ pvPtr = 0 /\ Counted /\ NoWriter
    BY <2>1 DEF IInv, RwInv, Holding, Releasing
  <2>4. PICK c \in Nat : c = ulCounter
    BY ReadersBound DEF IInv, RwInv, RwType
  <2>5. WakeReaders(1, c)
    BY <1>3, <2>1, <2>4 DEF WakeReaders
  <2>6. ulOption.preferWriter => wq[Q_W] = <<>>
    BY <2>1 DEF IInv, RwInv, Preferred
  <2> QED BY <2>1, <2>2, <2>3, <2>4, <2>5, <2>6, WakeReadersKeeps DEF Counted
<1>4. CASE /\ f.op = "delete" /\ DeleteLoop(nest)
           /\ UNCHANGED <<ucType, ulCounter, iStatus, pvPtr, ulOption>>
  <2>1. nest = 1 /\ Section = "delete"
    BY <1>0, <1>1, <1>4, SectionOpen
  <2>2. AtTop(1)
    BY <1>0, <1>1, <2>1 DEF AtTop
  <2>3. ucType = "UNUSED" /\ Lone
    BY <2>1 DEF IInv, RwInv, Holding, Deleting
  <2>4. DeleteLoop(1)
    BY <1>4, <2>1
  <2> QED BY <1>4, <2>1, <2>2, <2>3, <2>4, DeleteLoopKeeps
<1> QED BY <1>0, <1>2, <1>3, <1>4 DEF SectionNext

(* Out of a window: the waiter in hand becomes ready.                        *)
LEMMA EventHighKeeps ==
  ASSUME IInv, EventHigh
  PROVE  IInv'
<1>0. PICK f : f = frames[nest]
  OBVIOUS
<1>1. PICK t : t = frames[nest].tcb
  OBVIOUS
<1>2. /\ nest > 0 /\ t # Null /\ EventReadyHighLevel(t) /\ f.tcb = t
      /\ ucIsEventDelete' = IF frames[nest].op = "delete"
                            THEN [ucIsEventDelete EXCEPT ![t] = "DELETE"]
                            ELSE ucIsEventDelete
      /\ UNCHANGED <<queueVars, ring, ucPriority, ulSuspendNesting, call, sig, ucType,
                     ulCounter, pvPtr, ulOption, held>>
  BY <1>0, <1>1 DEF EventHigh
<1>3. t \in Threads /\ frames[nest].op # "tick" /\ FALSE \in BOOLEAN
  BY <1>1, <1>2, HighFacts DEF IInv
<1>4. nest = 1 /\ f \in Frame /\ Section = f.op /\ InHand = t
      /\ f.op \in {"post", "release", "delete"}
  BY <1>0, <1>1, <1>2, <1>3, SectionOpen
<1>5. \/ f.op = "post" /\ EndFrame(nest) /\ pvTcbOwn' = t /\ iStatus' = "W"
      \/ /\ f.op # "post" /\ SetFrame(nest, [f EXCEPT !.tcb = Null])
         /\ UNCHANGED <<pvTcbOwn, iStatus>>
  BY <1>0, <1>1 DEF EventHigh
<1>6. f.op # "post" => \E g \in Frame : g.tcb = Null /\ g.op = f.op /\ SetFrame(nest, g)
  <2> DEFINE g == [f EXCEPT !.tcb = Null]
  <2>1. g \in Frame /\ g.tcb = Null /\ g.op = f.op
    BY <1>4 DEF Frame
  <2> HIDE DEF g
  <2>2. f.op # "post" => SetFrame(nest, g)
    BY <1>5 DEF g
  <2> QED BY <2>1, <2>2
<1>7. EvInv'
  <2>1. EndFrame(nest) \/ \E g \in Frame : g.tcb = Null /\ SetFrame(nest, g)
    BY <1>5, <1>6
  <2>2. ucIsEventDelete' \in {[ucIsEventDelete EXCEPT ![t] = "DELETE"], ucIsEventDelete}
    BY <1>2
  <2>3. ucPriority' \in [Threads -> Priorities]
    BY <1>2 DEF IInv, EvInv, EventType, PrioType
  <2> QED BY <1>1, <1>2, <2>1, <2>2, <2>3, HighKeeps DEF IInv
<1>8. EvCalls(FALSE)' /\ EvHonest'
  BY <1>1, <1>2, <1>3, HighCalls DEF IInv
<1>9. (\A u \in Threads : SameCall(u)) /\ UNCHANGED wq
  BY <1>2 DEF SameCall, queueVars
<1>10. \A u \in Threads : SameClaim(u)
  BY <1>2, <1>9, ClaimSame
<1>11. Plain'
  BY <1>2, <1>9, PlainSame DEF IInv, RwInv
<1>12. "R" \in Modes /\ "W" \in Modes
  BY DEF Modes
<1>13. CASE f.op = "post"
  <2>1. EndFrame(1) /\ pvTcbOwn' = t /\ iStatus' = "W"
    BY <1>4, <1>5, <1>13
  <2>2. Section' = "tick" /\ Sections'
    BY <1>4, <2>1, SectionAfter
  <2>3. ucType = "SEMRW" /\ ulCounter = 1 /\ pvPtr = 0 /\ NoReader /\ OnlyWriter(t, 1)
    BY <1>4, <1>13 DEF IInv, RwInv, Holding, Posting
  <2>4. NoReader'
    BY <1>10, <1>12, <2>3 DEF NoReader, SameClaim
  <2>5. OnlyWriter(pvTcbOwn, pvPtr + 1)'
    BY <1>2, <1>10, <1>12, <2>1, <2>3 DEF OnlyWriter, SameClaim
  <2>6. Idle'
    BY <1>2, <1>3, <2>1, <2>3, <2>4, <2>5 DEF Idle
  <2>7. Holding' /\ Preferred'
    BY <1>2, <2>2, <2>3, <2>6 DEF Holding, Preferred
  <2>8. RwType'
    BY <1>2, <1>3, <2>1 DEF IInv, RwInv, RwType
  <2> QED BY <1>7, <1>8, <1>11, <2>2, <2>7, <2>8 DEF IInv, RwInv
<1>14. CASE f.op # "post"
  <2>1. PICK g \in Frame : g.tcb = Null /\ g.op = f.op /\ SetFrame(1, g)
    BY <1>4, <1>6, <1>14
  <2>2. Section' = Section /\ Sections'
    BY <1>4, <2>1, SectionAfter
  <2>3. UNCHANGED <<pvTcbOwn, iStatus>>
    BY <1>5, <1>14
  <2>4. Releasing => Releasing'
    BY <1>2, <1>10, <1>12, ReadersSame DEF Releasing, Counted, NoWriter, SameClaim
  <2>5. Deleting => Deleting'
    BY <1>2, <1>10, <1>12 DEF Deleting, Lone, NoReader, NoWriter, SameClaim
  <2>6. Holding' /\ Preferred'
    BY <1>2, <1>4, <1>9, <1>14, <2>2, <2>4, <2>5 DEF IInv, RwInv, Holding, Preferred
  <2>7. RwType'
    BY <1>2, <2>3 DEF IInv, RwInv, RwType
  <2> QED BY <1>7, <1>8, <1>11, <2>2, <2>6, <2>7 DEF IInv, RwInv
<1> QED BY <1>13, <1>14

-----------------------------------------------------------------------------
(* The invariant always holds.                                               *)

(* API_SemaphoreRWCreate: the control block it takes has nobody queued.      *)
LEMMA SemaphoreRWCreateKeeps ==
  ASSUME IInv, NEW o \in Options, SemaphoreRWCreate(o)
  PROVE  IInv'
<1>0. ThreadEnter /\ ucType = "UNUSED"
  BY DEF SemaphoreRWCreate
<1>1. NoReader /\ NoWriter /\ (\A q \in Events : wq[q] = <<>>) /\ Section = "tick"
  BY <1>0, ThreadSees DEF Unused
<1>2. UNCHANGED eventVars
  <2>1. UNCHANGED wq
    BY <1>1 DEF SemaphoreRWCreate, IInv, EvInv, EventType, QueueType
  <2>2. UNCHANGED wqNum
    BY <1>1 DEF SemaphoreRWCreate, IInv, EvInv, EventType, QueueType, QueuesAgree
  <2> QED BY <2>1, <2>2 DEF SemaphoreRWCreate, eventVars, queueVars
<1>3. /\ EvInv' /\ EvCalls(FALSE)' /\ EvHonest'
      /\ Section' = Section /\ Sections' /\ UNCHANGED <<wq, call>>
  BY <1>2, EventStill
<1>4. /\ UNCHANGED held /\ ucType' = "SEMRW" /\ ulCounter' = 0 /\ iStatus' = "R"
      /\ pvTcbOwn' = Null /\ pvPtr' = 0 /\ ulOption' = o
  BY DEF SemaphoreRWCreate
<1>5. NoReader' /\ NoWriter'
  BY <1>1, <1>3, <1>4 DEF NoReader, NoWriter, Claims, ModeOf
<1>6. Idle'
  BY <1>4, <1>5, NoneNext DEF Idle, Counted
<1>7. Holding' /\ Preferred'
  BY <1>1, <1>3, <1>4, <1>6 DEF Holding, Preferred
<1>8. Plain'
  BY <1>3, <1>4 DEF IInv, RwInv, Plain, PlainCall, ModeOf
<1>9. RwType'
  BY <1>4, ReadersBound, SemaphoreRWAssumption DEF IInv, RwInv, RwType
<1> QED BY <1>3, <1>7, <1>8, <1>9 DEF IInv, RwInv

(* API_SemaphoreRWPendR and API_SemaphoreRWPendW.                            *)
LEMMA SemaphoreRWPendKeeps ==
  ASSUME IInv, NEW t \in Threads, NEW timeout \in Timeouts,
         SemaphoreRWPendR(t, timeout) \/ SemaphoreRWPendW(t, timeout)
  PROVE  IInv'
<1>0. Q_R \in Events /\ Q_W \in Events /\ ModeOf(Q_R) = "R" /\ ModeOf(Q_W) = "W"
  BY SemaphoreRWAssumption DEF ModeOf
<1>1. CASE SemaphoreRWPendR(t, timeout)
  <2>1. /\ ThreadEnter /\ IsReady(t) /\ call[t].pc = "run" /\ held[t].R < MaxHolds
        /\ held[t][ModeOf(Q_R)] < MaxHolds
        /\ UNCHANGED <<kernVars, ucPriority, ulSuspendNesting, sig>>
    BY <1>0, <1>1 DEF SemaphoreRWPendR
  <2>2. CASE PendFails(t, Q_R, timeout)
    BY <2>1, <2>2, SameKeeps DEF PendFails, vars, eventVars
  <2>3. CASE ReadPasses(t)
    BY <2>1, <2>3, ReadPassesKeeps
  <2>4. CASE PendWaits(t, Q_R, timeout)
    BY <1>0, <2>1, <2>4, PendWaitsKeeps
  <2> QED BY <1>1, <2>2, <2>3, <2>4 DEF SemaphoreRWPendR
<1>2. CASE SemaphoreRWPendW(t, timeout)
  <2>1. /\ ThreadEnter /\ IsReady(t) /\ call[t].pc = "run" /\ held[t].W < MaxHolds
        /\ held[t][ModeOf(Q_W)] < MaxHolds
        /\ UNCHANGED <<kernVars, ucPriority, ulSuspendNesting, sig>>
    BY <1>0, <1>2 DEF SemaphoreRWPendW
  <2>2. CASE PendFails(t, Q_W, timeout)
    BY <2>1, <2>2, SameKeeps DEF PendFails, vars, eventVars
  <2>3. CASE WritePasses(t)
    BY <2>1, <2>3, WritePassesKeeps
  <2>4. CASE WriteRecurses(t)
    BY <2>1, <2>4, WriteRecursesKeeps
  <2>5. CASE PendWaits(t, Q_W, timeout)
    BY <1>0, <2>1, <2>5, PendWaitsKeeps
  <2> QED BY <1>2, <2>2, <2>3, <2>4, <2>5 DEF SemaphoreRWPendW
<1> QED BY <1>1, <1>2

(* It holds in the beginning: nobody has the semaphore.                      *)
LEMMA InitIInv == Init => IInv
<1> SUFFICES ASSUME Init PROVE IInv
  OBVIOUS
<1>0. FALSE \in BOOLEAN /\ EventInit
  BY DEF Init
<1>1. EvInv /\ EvCalls(FALSE) /\ EvHonest
  BY <1>0, EvInit, CallsInit
<1>2. MaxHolds \in Nat \ {0} /\ Cardinality(Threads) * MaxHolds \in Nat
  BY SemaphoreRWAssumption, ReadersBound
<1>3. RwType
  <2>1. held \in [Threads -> [R : 0 .. MaxHolds, W : 0 .. MaxHolds]]
    BY <1>2 DEF Init, Nothing
  <2> QED BY <1>2, <2>1 DEF Init, RwType
<1>4. Plain
  BY RunningCall DEF Init, EventInit, Plain, PlainCall, Running
<1>5. NoReader /\ NoWriter
  <2>1. \A t \in Threads : call[t].pc = "run" /\ held[t]["R"] = 0 /\ held[t]["W"] = 0
    BY RunningCall DEF Init, EventInit, Nothing
  <2> QED BY <2>1 DEF NoReader, NoWriter, Claims
<1>6. Section = "tick" /\ Sections
  BY DEF Init, EventInit, Section, Sections
<1>7. Holding /\ Preferred
  BY <1>5, <1>6 DEF Init, EventInit, Holding, Preferred, Unused
<1> QED BY <1>1, <1>3, <1>4, <1>6, <1>7 DEF IInv, RwInv

(* Every step keeps it.                                                      *)
LEMMA NextIInv ==
  ASSUME IInv, IsrWakesPended = FALSE, [Next]_vars
  PROVE  IInv'
<1>1. CASE UNCHANGED vars
  BY <1>1, SameKeeps
<1>2. CASE \E o \in Options : SemaphoreRWCreate(o)
  BY <1>2, SemaphoreRWCreateKeeps
<1>3. CASE \E t \in Threads, timeout \in Timeouts :
             SemaphoreRWPendR(t, timeout) \/ SemaphoreRWPendW(t, timeout)
  BY <1>3, SemaphoreRWPendKeeps
<1>4. CASE \E t \in Threads : SemaphoreRWPendReturn(t) \/ SemaphoreRWPost(t)
  BY <1>4, PendReturnHolds, SemaphoreRWPostKeeps
<1>5. CASE SemaphoreRWDelete \/ EventHigh \/ SectionNext \/ Environment
  BY <1>5, SemaphoreRWDeleteKeeps, EventHighKeeps, SectionNextKeeps, EnvironmentKeeps
<1> QED BY <1>1, <1>2, <1>3, <1>4, <1>5 DEF Next

-----------------------------------------------------------------------------
(* The theorems, while no interrupt handler wakes a thread that waits        *)
(* without a timeout.                                                        *)

(* The inductive invariant holds of every behaviour of the semaphore.        *)
THEOREM InductiveInvariant == ASSUME IsrWakesPended = FALSE PROVE Spec => []IInv
<1>1. Init => IInv
  BY InitIInv
<1>2. IInv /\ [Next]_vars => IInv'
  BY NextIInv
<1> QED BY <1>1, <1>2, PTL DEF Spec

(* Type correctness: EVENT_ulCounter never passes the number of holds there  *)
(* can be and never goes below zero, nor does the recursion EVENT_pvPtr.     *)
THEOREM TypeCorrect == ASSUME IsrWakesPended = FALSE PROVE Spec => []TypeOK
<1>1. IInv => TypeOK
  BY DEF IInv, EvInv, RwInv, RwType, TypeOK
<1> QED BY <1>1, InductiveInvariant, PTL

(* At most one thread writes, and then nobody reads, at every step of        *)
(* API_SemaphoreRWPost and API_SemaphoreRWDelete.                            *)
THEOREM WriterAloneCorrect == ASSUME IsrWakesPended = FALSE PROVE Spec => []WriterAlone
<1>1. ASSUME IInv PROVE WriterAlone
  <2>1. /\ NoWriter => Writers = {}
        /\ NoReader => Readers = {}
    BY DEF NoWriter, NoReader, Writers, Readers
  <2>2. \A w : Writers \subseteq {w} => Cardinality(Writers) =< 1
    <3> SUFFICES ASSUME NEW w, Writers \subseteq {w} PROVE Cardinality(Writers) =< 1
      OBVIOUS
    <3>1. Writers = {} \/ Writers = {w}
      OBVIOUS
    <3>2. Cardinality({}) = 0 /\ Cardinality({w}) = 1
      BY FS_EmptySet, FS_Singleton
    <3> QED BY <3>1, <3>2
  <2>3. NoWriter \/ (NoReader /\ \E w : \A t \in Threads : t # w => Claims(t, "W") = 0)
    <3>1. /\ Section \in {"tick", "post", "release", "delete"} /\ ucType \in {"UNUSED", "SEMRW"}
          /\ iStatus \in {"R", "W"} /\ Holding
      BY <1>1 DEF IInv, RwInv, RwType, Sections
    <3>2. CASE Section = "tick"
      BY <3>1, <3>2 DEF Holding, Idle, Unused, OnlyWriter
    <3>3. CASE Section = "post"
      BY <3>1, <3>3 DEF Holding, Posting, OnlyWriter
    <3>4. CASE Section = "release"
      BY <3>1, <3>4 DEF Holding, Releasing
    <3>5. CASE Section = "delete"
      BY <3>1, <3>5 DEF Holding, Deleting, Lone
    <3> QED BY <3>1, <3>2, <3>3, <3>4, <3>5
  <2>4. \A w : (\A t \in Threads : t # w => Claims(t, "W") = 0) => Writers \subseteq {w}
    BY DEF Writers
  <2>5. Cardinality(Writers) =< 1
    BY <2>1, <2>2, <2>3, <2>4
  <2> QED BY <2>1, <2>3, <2>5 DEF WriterAlone
<1> QED BY <1>1, InductiveInvariant, PTL

(* Outside the calls EVENT_ulCounter, EVENT_iStatus, EVENT_pvTcbOwn and      *)
(* EVENT_pvPtr say who has the semaphore and how often.                      *)
THEOREM CounterCorrect == ASSUME IsrWakesPended = FALSE PROVE Spec => []CounterCounts
<1>1. ASSUME IInv PROVE CounterCounts
  <2> SUFFICES ASSUME ucType = "SEMRW", nest = 0
               PROVE  /\ ulCounter = Cardinality(ReadHolds) + Cardinality(Writers)
                      /\ iStatus = "W" <=> Writers # {}
                      /\ \A t \in Writers : pvTcbOwn = t /\ pvPtr = Claims(t, "W") - 1
    BY DEF CounterCounts
  <2>1. Idle /\ iStatus \in {"R", "W"} /\ pvPtr \in Nat /\ ulCounter \in Nat
    BY <1>1, ThreadSees DEF ThreadEnter, Modes
  <2>2. CASE iStatus = "R"
    <3>1. Counted /\ Writers = {}
      BY <2>1, <2>2 DEF Idle, NoWriter, Writers
    <3>2. Cardinality(Writers) = 0
      BY <3>1, FS_EmptySet
    <3> QED BY <2>1, <2>2, <3>1, <3>2 DEF Counted
  <2>3. CASE iStatus = "W"
    <3>1. NoReader /\ ulCounter = 1 /\ pvTcbOwn \in Threads /\ OnlyWriter(pvTcbOwn, pvPtr + 1)
      BY <2>1, <2>3 DEF Idle
    <3>2. Cardinality(ReadHolds) = 0
      <4>1. "R" \in Modes
        BY DEF Modes
      <4>2. \A u \in Threads : Claims(u, "R") \in 0 .. MaxHolds
        BY <1>1, <4>1, ClaimsAre DEF IInv, RwInv
      <4> QED BY <3>1, <4>2, ReadersNone
    <3>3. Claims(pvTcbOwn, "W") = pvPtr + 1
      BY <3>1 DEF OnlyWriter
    <3>4. Writers = {pvTcbOwn}
      BY <2>1, <3>1 DEF OnlyWriter, Writers
    <3>5. Cardinality(Writers) = 1
      BY <3>4, FS_Singleton
    <3> QED BY <2>1, <2>3, <3>1, <3>2, <3>3, <3>4, <3>5
  <2> QED BY <2>1, <2>2, <2>3
<1> QED BY <1>1, InductiveInvariant, PTL

(* With LW_OPTION_RW_PREFER_WRITER nobody waits for a semaphore that nobody  *)
(* has.                                                                      *)
THEOREM NobodyStuckPreferred ==
  ASSUME IsrWakesPended = FALSE PROVE Spec => []FreeHasNoWaiterPreferred
<1>1. IInv => FreeHasNoWaiterPreferred
  BY SemaphoreRWAssumption DEF IInv, RwInv, Preferred, Section, FreeHasNoWaiterPreferred,
                               FreeHasNoWaiter
<1> QED BY <1>1, InductiveInvariant, PTL

-----------------------------------------------------------------------------
(* It is a read-write lock: every step is a step of ReadWriteLock, or         *)
(* invisible there.                                                          *)

LockStep == [L!Next]_(L!vars)

QueueOf(m) == IF m = "R" THEN Q_R ELSE Q_W
WaitersOf(m) == {t \in Threads : Contains(wq[QueueOf(m)], t)}

(* The variables of ReadWriteLock.                                           *)
Hass    == [t \in Threads |-> [m \in {"R", "W"} |-> Claims(t, m)]]
Waits   == [m \in {"R", "W"} |-> WaitersOf(m)]
Prefers == ulOption.preferWriter

Rests(t) == \A m \in Modes : t \notin WaitersOf(m)

(* A step to n claims of t for m; one to the waiters S for m; neither.       *)
ClaimStep(t, m, n) ==
  /\ Claims(t, m)' = n
  /\ \A k \in Modes : k # m => Claims(t, k)' = Claims(t, k)
  /\ \A u \in Threads : u # t => SameClaim(u)

WaitersStep(m, S) ==
  /\ WaitersOf(m)' = S
  /\ \A k \in Modes : k # m => WaitersOf(k)' = WaitersOf(k)

ClaimsKept  == \A u \in Threads : SameClaim(u)
WaitersKept == \A m \in Modes : WaitersOf(m)' = WaitersOf(m)

(* The variables of ReadWriteLock before and after a step.                   *)
LEMMA LockMaps ==
  /\ \A t \in Threads, m \in Modes : Hass[t][m] = Claims(t, m)
  /\ \A m \in Modes : Waits[m] = WaitersOf(m)
  /\ \A t \in Threads, m \in Modes :
       \A n : ClaimStep(t, m, n) => Hass' = [Hass EXCEPT ![t][m] = n]
  /\ \A m \in Modes : \A S : WaitersStep(m, S) => Waits' = [Waits EXCEPT ![m] = S]
  /\ ClaimsKept => Hass' = Hass
  /\ WaitersKept => Waits' = Waits
<1>1. \A t \in Threads, m \in Modes : Hass[t][m] = Claims(t, m)
  BY DEF Hass, Modes
<1>2. \A m \in Modes : Waits[m] = WaitersOf(m)
  BY DEF Waits, Modes
<1>3. ASSUME NEW t \in Threads, NEW m \in Modes, NEW n, ClaimStep(t, m, n)
      PROVE  Hass' = [Hass EXCEPT ![t][m] = n]
  <2>1. Hass' = [u \in Threads |-> [k \in {"R", "W"} |-> Claims(u, k)']]
    BY DEF Hass
  <2>2. \A u \in Threads, k \in {"R", "W"} :
          Claims(u, k)' = IF u = t /\ k = m THEN n ELSE Claims(u, k)
    BY <1>3 DEF ClaimStep, SameClaim, Modes
  <2>3. Hass[t] = [k \in {"R", "W"} |-> Claims(t, k)]
    BY DEF Hass
  <2>4. PICK h : h = [Hass[t] EXCEPT ![m] = n]
    OBVIOUS
  <2>5. h = [k \in {"R", "W"} |-> IF k = m THEN n ELSE Claims(t, k)]
    BY <2>3, <2>4
  <2>6. [Hass EXCEPT ![t] = h] = [u \in Threads |-> IF u = t THEN h ELSE [k \in {"R", "W"} |-> Claims(u, k)]]
    BY DEF Hass
  <2>7. ASSUME NEW u \in Threads
        PROVE  [k \in {"R", "W"} |-> Claims(u, k)'] = IF u = t THEN h ELSE [k \in {"R", "W"} |-> Claims(u, k)]
    <3>1. CASE u = t
      BY <2>2, <2>5, <3>1
    <3>2. CASE u # t
      BY <2>2, <3>2
    <3> QED BY <3>1, <3>2
  <2>8. Hass' = [Hass EXCEPT ![t] = h]
    BY <2>1, <2>6, <2>7
  <2> QED BY <2>4, <2>8
<1>4. ASSUME NEW m \in Modes, NEW S, WaitersStep(m, S)
      PROVE  Waits' = [Waits EXCEPT ![m] = S]
  <2>1. Waits' = [k \in {"R", "W"} |-> WaitersOf(k)']
    BY DEF Waits
  <2>2. \A k \in {"R", "W"} : WaitersOf(k)' = IF k = m THEN S ELSE WaitersOf(k)
    BY <1>4 DEF WaitersStep, Modes
  <2> QED BY <2>1, <2>2 DEF Waits
<1>5. ASSUME ClaimsKept PROVE Hass' = Hass
  <2>1. \A u \in Threads, k \in {"R", "W"} : Claims(u, k)' = Claims(u, k)
    BY <1>5 DEF ClaimsKept, SameClaim, Modes
  <2> QED BY <2>1 DEF Hass
<1>6. ASSUME WaitersKept PROVE Waits' = Waits
  BY <1>6 DEF WaitersKept, Waits, Modes
<1> QED BY <1>1, <1>2, <1>3, <1>4, <1>5, <1>6

(* Who has it, who waits, in the words of ReadWriteLock.                     *)
LEMMA LockSees ==
  /\ L!NobodyHas("R") <=> NoReader
  /\ L!NobodyHas("W") <=> NoWriter
  /\ L!Free <=> NoReader /\ NoWriter
  /\ L!NobodyWaits <=> \A m \in Modes : WaitersOf(m) = {}
  /\ \A t : L!Active(t) <=> Rests(t)
<1>1. \A t \in Threads, m \in {"R", "W"} : Hass[t][m] = Claims(t, m)
  BY DEF Hass
<1>2. /\ L!NobodyHas("R") <=> NoReader
      /\ L!NobodyHas("W") <=> NoWriter
  BY DEF L!NobodyHas, NoReader, NoWriter
<1>3. L!Free <=> NoReader /\ NoWriter
  BY <1>2 DEF L!Free, L!Modes
<1>4. L!NobodyWaits <=> \A m \in Modes : WaitersOf(m) = {}
  BY DEF L!NobodyWaits, L!Modes, Modes, WaitersOf, QueueOf
<1>5. \A t : L!Active(t) <=> Rests(t)
  BY DEF L!Active, L!Modes, Rests, Modes, WaitersOf, QueueOf
<1> QED BY <1>2, <1>3, <1>4, <1>5

(* Nothing changes that ReadWriteLock sees.                                  *)
LEMMA LockSame ==
  ASSUME ClaimsKept, WaitersKept, Prefers' = Prefers
  PROVE  LockStep
<1>1. Hass' = Hass /\ Waits' = Waits
  BY LockMaps
<1> QED BY <1>1 DEF LockStep, L!vars, Hass, Waits, WaitersOf, QueueOf, Prefers

(* A thread comes in without waiting, or once more as the writer.            *)
LEMMA SimGain ==
  ASSUME NEW t \in Threads, NEW m \in Modes, ClaimStep(t, m, Claims(t, m) + 1), WaitersKept,
         Prefers' = Prefers, Rests(t),
         \/ m = "R" /\ NoWriter /\ WaitersOf("W") = {}
         \/ /\ m = "W" /\ NoReader /\ NoWriter
            /\ Prefers => \A k \in Modes : WaitersOf(k) = {}
         \/ m = "W" /\ Claims(t, m) > 0
  PROVE  LockStep
<1>1. /\ Hass' = [Hass EXCEPT ![t][m] = Hass[t][m] + 1] /\ Waits' = Waits
      /\ Hass[t][m] = Claims(t, m) /\ Waits["W"] = WaitersOf("W")
  BY LockMaps DEF Modes
<1>2. L!Active(t)
  BY LockSees
<1>3. L!Gains(t, m)
  BY <1>1 DEF L!Gains, Hass
<1>4. CASE m = "R" /\ NoWriter /\ WaitersOf("W") = {}
  <2>1. L!Read(t)
    BY <1>1, <1>2, <1>3, <1>4, LockSees DEF L!Read, Waits, WaitersOf, QueueOf, Prefers
  <2> QED BY <2>1 DEF LockStep, L!Next
<1>5. CASE /\ m = "W" /\ NoReader /\ NoWriter
           /\ Prefers => \A k \in Modes : WaitersOf(k) = {}
  <2>1. Prefers => L!NobodyWaits
    BY <1>5, LockSees
  <2>2. L!Write(t)
    BY <1>1, <1>2, <1>3, <1>5, <2>1, LockSees DEF L!Write, Waits, WaitersOf, QueueOf, Prefers
  <2> QED BY <2>2 DEF LockStep, L!Next
<1>6. CASE m = "W" /\ Claims(t, m) > 0
  <2>1. L!WriteAgain(t)
    BY <1>1, <1>2, <1>3, <1>6 DEF L!WriteAgain, Hass, Waits, WaitersOf, QueueOf, Prefers
  <2> QED BY <2>1 DEF LockStep, L!Next
<1> QED BY <1>4, <1>5, <1>6

(* A thread waits for what it cannot have.                                   *)
LEMMA SimWait ==
  ASSUME NEW t \in Threads, NEW m \in Modes, ClaimsKept, Prefers' = Prefers, Rests(t),
         WaitersStep(m, WaitersOf(m) \cup {t}),
         \/ m = "R" /\ (~NoWriter \/ WaitersOf("W") # {})
         \/ m = "W" /\ ~(NoReader /\ NoWriter) /\ Claims(t, "W") = 0
  PROVE  LockStep
<1>1. /\ Hass' = Hass /\ Waits' = [Waits EXCEPT ![m] = Waits[m] \cup {t}]
      /\ Hass[t]["W"] = Claims(t, "W") /\ Waits["W"] = WaitersOf("W")
  BY LockMaps DEF Modes
<1>2. L!Active(t) /\ m \in L!Modes
  BY LockSees DEF Modes, L!Modes
<1>3. IF m = "R" THEN ~L!NobodyHas("W") \/ Waits["W"] # {} ELSE ~L!Free /\ Hass[t]["W"] = 0
  BY <1>1, LockSees
<1>4. L!Wait(t, m)
  BY <1>1, <1>2, <1>3 DEF L!Wait, Hass, Waits, WaitersOf, QueueOf, Prefers
<1> QED BY <1>2, <1>4 DEF LockStep, L!Next

(* A thread waits no longer.                                                 *)
LEMMA SimGiveUp ==
  ASSUME NEW m \in Modes, NEW t \in WaitersOf(m), ClaimsKept, Prefers' = Prefers,
         WaitersStep(m, WaitersOf(m) \ {t})
  PROVE  LockStep
<1>1. /\ Hass' = Hass /\ Waits' = [Waits EXCEPT ![m] = Waits[m] \ {t}] /\ t \in Waits[m]
  BY LockMaps
<1>2. t \in Threads /\ m \in L!Modes
  BY DEF WaitersOf, Modes, L!Modes
<1>3. L!GiveUp(t, m)
  BY <1>1 DEF L!GiveUp, Hass, Waits, WaitersOf, QueueOf, Prefers
<1> QED BY <1>2, <1>3 DEF LockStep, L!Next

(* One that waits is let in.                                                 *)
LEMMA SimAdmit ==
  ASSUME NEW m \in Modes, NEW t \in WaitersOf(m), ClaimStep(t, m, Claims(t, m) + 1),
         Prefers' = Prefers, WaitersStep(m, WaitersOf(m) \ {t}), NoWriter,
         \/ m = "R" /\ (Prefers => WaitersOf("W") = {})
         \/ m = "W" /\ NoReader
  PROVE  LockStep
<1>1. t \in Threads /\ m \in L!Modes
  BY DEF WaitersOf, Modes, L!Modes
<1>2. /\ Hass' = [Hass EXCEPT ![t][m] = Hass[t][m] + 1]
      /\ Waits' = [Waits EXCEPT ![m] = Waits[m] \ {t}] /\ t \in Waits[m]
      /\ Waits["W"] = WaitersOf("W")
  BY <1>1, LockMaps DEF Modes
<1>3. L!Gains(t, m)
  BY <1>2 DEF L!Gains, Hass
<1>4. L!NobodyHas("W") /\ IF m = "R" THEN Prefers => Waits["W"] = {} ELSE L!NobodyHas("R")
  BY <1>2, LockSees
<1>5. L!Admit(t, m)
  BY <1>2, <1>3, <1>4 DEF L!Admit, Waits, WaitersOf, QueueOf, Prefers
<1> QED BY <1>1, <1>5 DEF LockStep, L!Next

(* A thread gives up one of its holds.                                       *)
LEMMA SimLeave ==
  ASSUME NEW t \in Threads, NEW m \in Modes, ClaimStep(t, m, Claims(t, m) - 1),
         Claims(t, m) > 0, WaitersKept, Prefers' = Prefers, Rests(t)
  PROVE  LockStep
<1>1. /\ Hass' = [Hass EXCEPT ![t][m] = Hass[t][m] - 1] /\ Waits' = Waits
      /\ Hass[t][m] > 0
  BY LockMaps
<1>2. L!Active(t) /\ m \in L!Modes
  BY LockSees DEF Modes, L!Modes
<1>3. L!Leave(t, m)
  BY <1>1, <1>2 DEF L!Leave, Hass, Waits, WaitersOf, QueueOf, Prefers
<1> QED BY <1>2, <1>3 DEF LockStep, L!Next

(* A lock that nobody has or waits for is set up anew.                       *)
LEMMA SimCreate ==
  ASSUME ClaimsKept, WaitersKept, Prefers' \in BOOLEAN, NoReader, NoWriter,
         \A m \in Modes : WaitersOf(m) = {}
  PROVE  LockStep
<1>1. Hass' = Hass /\ Waits' = Waits /\ L!Free /\ L!NobodyWaits
  BY LockMaps, LockSees
<1>2. L!Create
  BY <1>1 DEF L!Create, Hass, Waits, WaitersOf, QueueOf, Prefers
<1> QED BY <1>2 DEF LockStep, L!Next

(* One that nobody waits for is destroyed.                                   *)
LEMMA SimDestroy ==
  ASSUME \A t \in Threads, m \in Modes : Claims(t, m)' = 0, WaitersKept, Prefers' = Prefers,
         \A m \in Modes : WaitersOf(m) = {}
  PROVE  LockStep
<1>1. Hass' = [t \in Threads |-> [m \in {"R", "W"} |-> 0]]
  BY DEF Hass, Modes
<1>2. Waits' = Waits /\ L!NobodyWaits
  BY LockMaps, LockSees
<1>3. L!Destroy
  BY <1>1, <1>2 DEF L!Destroy, L!Modes, Hass, Waits, WaitersOf, QueueOf, Prefers
<1> QED BY <1>3 DEF LockStep, L!Next

-----------------------------------------------------------------------------
(* What the actions do to claims and waiters.                                *)

(* The two queues and the two modes.                                         *)
LEMMA QueueMode ==
  /\ \A m \in Modes : QueueOf(m) \in Events /\ ModeOf(QueueOf(m)) = m
  /\ \A q \in Events : ModeOf(q) \in Modes /\ QueueOf(ModeOf(q)) = q
  /\ \A q \in Events, m \in Modes : m # ModeOf(q) => QueueOf(m) # q
  BY SemaphoreRWAssumption DEF Modes, QueueOf, ModeOf

(* Queues that are left alone, or empty.                                     *)
LEMMA WaitersSame ==
  /\ UNCHANGED wq => WaitersKept
  /\ \A q \in Events : wq[q] = <<>> => WaitersOf(ModeOf(q)) = {}
  BY QueueMode DEF WaitersKept, WaitersOf, Contains

(* A ready thread waits for nothing.                                         *)
LEMMA ReadyRests ==
  ASSUME IInv, NEW t \in Threads, IsReady(t)
  PROVE  waitOn[t] = Null /\ Rests(t)
<1>1. EvInv /\ Null \notin Events
  BY EventAssumption DEF IInv
<1>2. waitOn[t] = Null
  BY <1>1, EventAssumption DEF EvInv, EvWait, WaitOK, IsReady
<1> QED BY <1>1, <1>2, QueueMode DEF EvInv, QueuesAgree, Rests, WaitersOf

(* A wait is aborted.                                                        *)
LEMMA AbortLock ==
  ASSUME IInv, ClaimsKept, Prefers' = Prefers,
         NEW t \in Threads, NEW o \in {"CLEAR", "OUT"}, ~IsReady(t), ~InLimbo(t), AbortWait(t, o)
  PROVE  LockStep
<1>0. EvInv /\ waitOn \in [Threads -> Events \cup {Null}] /\ Null \notin Events
  BY EventAssumption DEF IInv, EvInv, EventType, WaitType
<1>1. /\ waitOn' = [waitOn EXCEPT ![t] = Null]
      /\ \A e \in Events, u \in Threads : Contains(wq'[e], u) <=> waitOn'[u] = e /\ ~InLimbo(u)
  BY <1>0, AbortFacts
<1>2. \A e \in Events, u \in Threads : Contains(wq[e], u) <=> waitOn[u] = e /\ ~InLimbo(u)
  BY <1>0 DEF EvInv, QueuesAgree
<1>3. ASSUME NEW m \in Modes PROVE WaitersOf(m)' = WaitersOf(m) \ {t}
  <2>1. PICK e \in Events : e = QueueOf(m)
    BY QueueMode
  <2>2. ASSUME NEW u \in Threads
        PROVE  Contains(wq'[e], u) <=> Contains(wq[e], u) /\ u # t
    <3>1. waitOn'[u] = IF u = t THEN Null ELSE waitOn[u]
      BY <1>0, <1>1
    <3> QED BY <1>0, <1>1, <1>2, <3>1
  <2> QED BY <2>1, <2>2 DEF WaitersOf, QueueOf, Contains
<1>4. CASE \E m \in Modes : t \in WaitersOf(m)
  <2>1. PICK m \in Modes : t \in WaitersOf(m)
    BY <1>4
  <2>2. \A k \in Modes : k # m => t \notin WaitersOf(k)
    BY <1>2, <2>1, QueueMode DEF WaitersOf
  <2>3. WaitersStep(m, WaitersOf(m) \ {t})
    BY <1>3, <2>2 DEF WaitersStep
  <2> QED BY <2>1, <2>3, SimGiveUp
<1>5. CASE \A m \in Modes : t \notin WaitersOf(m)
  <2>1. WaitersKept
    BY <1>3, <1>5 DEF WaitersKept
  <2> QED BY <2>1, LockSame
<1> QED BY <1>4, <1>5

(* Ticks and wakeups.                                                        *)
LEMMA EnvironmentLock ==
  ASSUME IInv, IsrWakesPended = FALSE, Environment
  PROVE  LockStep
<1>0. EvInv /\ UNCHANGED held /\ Prefers' = Prefers
  BY DEF IInv, Environment, rwVars, Prefers
<1>1. CASE Tick \/ TickNext
  <2>1. ClaimsKept
    BY <1>0, <1>1, TickCases, ClaimSame DEF ClaimsKept
  <2>2. CASE \E t \in Threads : ~IsReady(t) /\ ~InLimbo(t) /\ AbortWait(t, "CLEAR")
    BY <1>0, <2>1, <2>2, AbortLock
  <2>3. CASE UNCHANGED wq
    BY <1>0, <2>1, <2>3, WaitersSame, LockSame
  <2> QED BY <1>0, <1>1, <2>2, <2>3, TickCases
<1>2. ASSUME NEW t \in Threads, NEW inf \in BOOLEAN, ThreadWakeup(t, inf) PROVE LockStep
  <2>1. /\ UNCHANGED call /\ ~IsReady(t) /\ ~InLimbo(t) /\ AbortWait(t, ucWaitTimeout[t])
        /\ ucWaitTimeout[t] \in {"CLEAR", "OUT"}
    BY <1>0, <1>2, ThreadWakeupCases
  <2>2. ClaimsKept
    BY <1>0, <2>1, ClaimSame DEF ClaimsKept, SameCall
  <2> QED BY <1>0, <2>1, <2>2, AbortLock
<1> QED BY <1>1, <1>2 DEF Environment

(* A step that changes neither queues nor calls nor holds.                   *)
LEMMA StillLock ==
  ASSUME UNCHANGED <<wq, call, held, ulOption>>
  PROVE  LockStep
<1>1. ClaimsKept
  BY ClaimSame DEF ClaimsKept, SameCall
<1> QED BY <1>1, WaitersSame, LockSame DEF Prefers

(* API_SemaphoreRWCreate.                                                    *)
LEMMA CreateLock ==
  ASSUME IInv, NEW o \in Options, SemaphoreRWCreate(o)
  PROVE  LockStep
<1>1. Unused
  BY ThreadSees DEF SemaphoreRWCreate
<1>2. /\ UNCHANGED call /\ UNCHANGED held /\ ulOption' = o
      /\ wq' = [q \in Events |-> <<>>]
  BY DEF SemaphoreRWCreate
<1>3. ClaimsKept
  BY <1>2, ClaimSame DEF ClaimsKept, SameCall
<1>4. \A m \in Modes : WaitersOf(m) = {}
  BY <1>1, WaitersSame, QueueMode DEF Unused
<1>5. WaitersKept
  <2>1. UNCHANGED wq
    BY <1>1, <1>2 DEF Unused, IInv, EvInv, EventType, QueueType
  <2> QED BY <2>1, WaitersSame
<1>6. Prefers' \in BOOLEAN
  <2>1. o \in [prio : BOOLEAN, inter : BOOLEAN, preferWriter : BOOLEAN]
    BY SemaphoreRWAssumption
  <2> QED BY <1>2, <2>1 DEF Prefers
<1> QED BY <1>1, <1>3, <1>4, <1>5, <1>6, SimCreate DEF Unused

(* A pend that need not wait: one claim more.                                *)
LEMMA PassStep ==
  ASSUME IInv, NEW t \in Threads, NEW m \in Modes, call[t].pc = "run", UNCHANGED call,
         held[t][m] < MaxHolds, held' = [held EXCEPT ![t][m] = held[t][m] + 1]
  PROVE  ClaimStep(t, m, Claims(t, m) + 1)
<1>1. held[t][m] \in 0 .. MaxHolds /\ MaxHolds \in Nat
  BY ClaimsAre DEF IInv, RwInv
<1>2. PICK n \in 0 .. MaxHolds : n = held[t][m] + 1
  BY <1>1
<1>3. held' = [held EXCEPT ![t][m] = n]
  BY <1>2
<1>4. /\ Claims(t, m) = held[t][m] /\ Claims(t, m)' = n
      /\ \A k \in Modes : k # m => Claims(t, k)' = Claims(t, k)
      /\ \A u \in Threads : u # t => SameClaim(u)
  BY <1>3, CountStep
<1> QED BY <1>2, <1>4 DEF ClaimStep

(* API_SemaphoreRWPendR that need not wait.                                  *)
LEMMA ReadPassesLock ==
  ASSUME IInv, NEW t \in Threads, ThreadEnter, IsReady(t), call[t].pc = "run",
         held[t].R < MaxHolds, ReadPasses(t)
  PROVE  LockStep
<1>1. /\ UNCHANGED call /\ UNCHANGED wq /\ UNCHANGED ulOption /\ ucType = "SEMRW" /\ iStatus = "R"
      /\ EventWaitNum(Q_W) = 0 /\ held' = [held EXCEPT ![t]["R"] = held[t]["R"] + 1]
  BY DEF ReadPasses, MayRead, queueVars
<1>2. PICK m \in Modes : m = "R"
  BY DEF Modes
<1>3. ClaimStep(t, m, Claims(t, m) + 1)
  BY <1>1, <1>2, PassStep
<1>4. NoWriter
  BY <1>1, ThreadSees DEF Idle
<1>5. WaitersOf("W") = {}
  <2>1. Q_W \in Events /\ ModeOf(Q_W) = "W"
    BY SemaphoreRWAssumption DEF ModeOf
  <2>2. wq[Q_W] = <<>>
    BY <1>1, <2>1, NoWaiterFacts DEF IInv
  <2> QED BY <2>1, <2>2, WaitersSame
<1> QED BY <1>1, <1>2, <1>3, <1>4, <1>5, WaitersSame, ReadyRests, SimGain DEF Prefers

(* API_SemaphoreRWPendW of a free semaphore: with writer preference nobody   *)
(* waits for it.                                                             *)
LEMMA WritePassesLock ==
  ASSUME IInv, NEW t \in Threads, ThreadEnter, IsReady(t), call[t].pc = "run",
         held[t].W < MaxHolds, WritePasses(t)
  PROVE  LockStep
<1>1. /\ UNCHANGED call /\ UNCHANGED wq /\ UNCHANGED ulOption /\ ucType = "SEMRW" /\ ulCounter = 0
      /\ held' = [held EXCEPT ![t]["W"] = held[t]["W"] + 1]
  BY DEF WritePasses, MayWrite, queueVars
<1>2. PICK m \in Modes : m = "W"
  BY DEF Modes
<1>3. ClaimStep(t, m, Claims(t, m) + 1)
  BY <1>1, <1>2, PassStep
<1>4. Idle /\ Section = "tick" /\ iStatus \in Modes
  BY <1>1, ThreadSees
<1>5. NoWriter /\ Counted
  BY <1>1, <1>4 DEF Idle, Modes
<1>6. NoReader
  <2>1. \A u \in Threads : Claims(u, "R") \in 0 .. MaxHolds
    BY ClaimsAre DEF IInv, RwInv, Modes
  <2> QED BY <1>1, <1>5, <2>1, ReadersNone DEF Counted
<1>7. Prefers => \A k \in Modes : WaitersOf(k) = {}
  <2>1. Prefers => \A q \in Events : wq[q] = <<>>
    BY <1>1, <1>4 DEF IInv, RwInv, Preferred, Prefers
  <2> QED BY <2>1, WaitersSame, QueueMode
<1> QED BY <1>1, <1>2, <1>3, <1>5, <1>6, <1>7, WaitersSame, ReadyRests, SimGain DEF Prefers

(* API_SemaphoreRWPendW by the writer itself.                                *)
LEMMA WriteRecursesLock ==
  ASSUME IInv, NEW t \in Threads, ThreadEnter, IsReady(t), call[t].pc = "run",
         held[t].W < MaxHolds, WriteRecurses(t)
  PROVE  LockStep
<1>1. /\ UNCHANGED call /\ UNCHANGED wq /\ UNCHANGED ulOption /\ ucType = "SEMRW"
      /\ ulCounter # 0 /\ pvTcbOwn = t
      /\ held' = [held EXCEPT ![t]["W"] = held[t]["W"] + 1]
  BY DEF WriteRecurses, Recurses, queueVars
<1>2. PICK m \in Modes : m = "W"
  BY DEF Modes
<1>3. ClaimStep(t, m, Claims(t, m) + 1)
  BY <1>1, <1>2, PassStep
<1>4. Idle /\ iStatus \in Modes /\ pvPtr \in Nat
  BY <1>1, ThreadSees
<1>5. OnlyWriter(t, pvPtr + 1)
  BY <1>1, <1>4, EventAssumption DEF Idle, Modes
<1>6. Claims(t, m) > 0
  BY <1>2, <1>4, <1>5 DEF OnlyWriter
<1> QED BY <1>1, <1>2, <1>3, <1>6, WaitersSame, ReadyRests, SimGain DEF Prefers

(* A pend that waits: for a semaphore that it cannot have.                   *)
LEMMA PendWaitsLock ==
  ASSUME IInv, NEW t \in Threads, NEW q \in Events, NEW timeout \in Timeouts,
         ThreadEnter, IsReady(t), call[t].pc = "run", PendWaits(t, q, timeout),
         UNCHANGED kernVars, IInv'
  PROVE  LockStep
<1>0. /\ UNCHANGED held /\ UNCHANGED ulOption /\ ucType = "SEMRW" /\ waitOn' = [waitOn EXCEPT ![t] = q]
      /\ IF q = Q_R THEN ~MayRead(t) ELSE ~MayWrite(t) /\ ~Recurses(t)
  BY DEF PendWaits, rwVars, EventWait
<1>1. /\ EvInv /\ EvInv' /\ nest = 0 /\ nest' = 0 /\ Null \notin Events
      /\ waitOn \in [Threads -> Events \cup {Null}]
  BY EventAssumption DEF IInv, EvInv, EventType, WaitType, ThreadEnter, kernVars
<1>2. PICK m \in Modes : m = ModeOf(q) /\ QueueOf(m) = q
  BY QueueMode
<1>3. waitOn[t] = Null /\ Rests(t)
  BY ReadyRests
<1>4. ClaimsKept
  <2>1. \A u \in Threads : u # t => SameClaim(u)
    BY <1>0, ClaimSame DEF PendWaits, SameCall, IInv, EvInv, EventType, CallType
  <2>2. SameClaim(t)
    <3>1. call'[t].got = "no"
      BY DEF PendWaits, IInv, EvInv, EventType, CallType
    <3> QED BY <1>0, <3>1 DEF SameClaim, Claims
  <2> QED BY <2>1, <2>2 DEF ClaimsKept
<1>5. WaitersStep(m, WaitersOf(m) \cup {t})
  <2>1. \A u \in Threads : ~InLimbo(u) /\ ~InLimbo(u)'
    BY <1>1 DEF InLimbo
  <2>2. /\ \A f \in Events, u \in Threads : Contains(wq[f], u) <=> waitOn[u] = f
        /\ \A f \in Events, u \in Threads : Contains(wq'[f], u) <=> waitOn'[u] = f
    BY <1>1, <2>1 DEF EvInv, QueuesAgree, InLimbo, Contains
  <2>3. \A u \in Threads : waitOn'[u] = IF u = t THEN q ELSE waitOn[u]
    BY <1>0, <1>1
  <2>4. \A k \in Modes : QueueOf(k) \in Events /\ (k # m => QueueOf(k) # q)
    BY <1>2, QueueMode
  <2>5. WaitersOf(m)' = WaitersOf(m) \cup {t}
    BY <1>2, <2>2, <2>3, <2>4 DEF WaitersOf, QueueOf, Contains
  <2>6. ASSUME NEW k \in Modes, k # m PROVE WaitersOf(k)' = WaitersOf(k)
    BY <1>1, <1>3, <2>2, <2>3, <2>4, <2>6 DEF WaitersOf, QueueOf, Contains
  <2> QED BY <2>5, <2>6 DEF WaitersStep
<1>6. Idle /\ iStatus \in Modes /\ pvPtr \in Nat /\ ulCounter \in Nat
  BY <1>0, ThreadSees
<1>7. iStatus = "W" => ~NoWriter
  BY <1>6 DEF Idle, OnlyWriter, NoWriter
<1>8. CASE m = "R"
  <2>1. q = Q_R /\ Q_W \in Events /\ ModeOf(Q_W) = "W"
    BY <1>2, <1>8, SemaphoreRWAssumption DEF QueueOf, ModeOf
  <2>2. iStatus = "R" => EventWaitNum(Q_W) # 0
    BY <1>0, <2>1 DEF MayRead
  <2>3. EventWaitNum(Q_W) # 0 => WaitersOf("W") # {}
    <3>1. EventWaitNum(Q_W) # 0 => wq[Q_W] # <<>> /\ wq[Q_W] \in Seq(Threads)
      BY <1>1, <2>1, NoWaiterFacts DEF EvInv, EventType, QueueType
    <3>2. EventWaitNum(Q_W) # 0 => wq[Q_W][1] \in Threads /\ Contains(wq[Q_W], wq[Q_W][1])
      BY <3>1 DEF Contains
    <3> QED BY <3>2 DEF WaitersOf, QueueOf
  <2> QED BY <1>0, <1>3, <1>4, <1>5, <1>6, <1>7, <1>8, <2>2, <2>3, SimWait DEF Prefers, Modes
<1>9. CASE m = "W"
  <2>1. q # Q_R
    BY <1>2, <1>9 DEF ModeOf
  <2>2. ulCounter # 0 /\ pvTcbOwn # t
    BY <1>0, <2>1 DEF MayWrite, Recurses
  <2>3. iStatus = "R" => ~NoReader /\ Claims(t, "W") = 0
    <3>1. \A u \in Threads : Claims(u, "R") \in 0 .. MaxHolds
      BY ClaimsAre DEF IInv, RwInv, Modes
    <3> QED BY <1>6, <2>2, <3>1, ReadersNone DEF Idle, Counted, NoWriter
  <2>4. iStatus = "W" => Claims(t, "W") = 0
    BY <1>6, <2>2 DEF Idle, OnlyWriter
  <2> QED BY <1>0, <1>3, <1>4, <1>5, <1>6, <1>7, <1>9, <2>3, <2>4, SimWait DEF Prefers, Modes
<1> QED BY <1>8, <1>9 DEF Modes

(* API_SemaphoreRWPendR and API_SemaphoreRWPendW.                            *)
LEMMA PendLock ==
  ASSUME IInv, IInv', NEW t \in Threads, NEW timeout \in Timeouts,
         SemaphoreRWPendR(t, timeout) \/ SemaphoreRWPendW(t, timeout)
  PROVE  LockStep
<1>0. Q_R \in Events /\ Q_W \in Events
  BY SemaphoreRWAssumption
<1>1. ThreadEnter /\ IsReady(t) /\ call[t].pc = "run" /\ UNCHANGED kernVars
  BY DEF SemaphoreRWPendR, SemaphoreRWPendW
<1>2. ASSUME NEW q \in Events, PendFails(t, q, timeout) PROVE LockStep
  BY <1>2, StillLock DEF PendFails, queueVars, rwVars
<1>3. CASE SemaphoreRWPendR(t, timeout)
  BY <1>0, <1>1, <1>2, <1>3, ReadPassesLock, PendWaitsLock DEF SemaphoreRWPendR
<1>4. CASE SemaphoreRWPendW(t, timeout)
  BY <1>0, <1>1, <1>2, <1>4, WritePassesLock, WriteRecursesLock, PendWaitsLock DEF SemaphoreRWPendW
<1> QED BY <1>3, <1>4

(* API_SemaphoreRWPost up to its first window.                               *)
LEMMA PostLock ==
  ASSUME IInv, NEW t \in Threads, SemaphoreRWPost(t)
  PROVE  LockStep
<1>1. ThreadEnter /\ IsReady(t) /\ call[t].pc = "run"
  BY DEF SemaphoreRWPost
<1>2. PICK m \in Modes : m = iStatus
  BY <1>1, ThreadSees
<1>3. /\ held[t][m] > 0 /\ held' = [held EXCEPT ![t][m] = held[t][m] - 1]
      /\ UNCHANGED call /\ UNCHANGED wq /\ UNCHANGED ulOption
  <2>1. held[t][m] > 0
    BY <1>2 DEF SemaphoreRWPost
  <2>2. CASE PostCounts(t)
    BY <1>2, <2>1, <2>2 DEF PostCounts, eventVars, queueVars
  <2>3. CASE PostRecursed(t)
    BY <1>2, <2>1, <2>3 DEF PostRecursed, eventVars, queueVars
  <2>4. CASE PostDecides(t)
    BY <1>2, <2>1, <2>4 DEF PostDecides, notKern, queueVars, rwVars
  <2> QED BY <2>2, <2>3, <2>4 DEF SemaphoreRWPost
<1>4. ClaimStep(t, m, Claims(t, m) - 1) /\ Claims(t, m) > 0
  BY <1>1, <1>3, PostStep DEF ClaimStep
<1> QED BY <1>1, <1>3, <1>4, WaitersSame, ReadyRests, SimLeave DEF Prefers

(* The first waiter of a queue leaves it; a post lets it in.                 *)
LEMMA TakeLock ==
  ASSUME IInv, NEW op \in {"post", "release", "delete"}, NEW e \in Events,
         AtTop(1), nest \in {0, 1}, TakeFirst(op, e, 0, 1), UNCHANGED held
  PROVE  \E m \in Modes : m = ModeOf(e) /\ \E t \in WaitersOf(m) :
           /\ WaitersStep(m, WaitersOf(m) \ {t})
           /\ op = "delete" => ClaimsKept
           /\ op # "delete" => ClaimStep(t, m, Claims(t, m) + 1)
<1>0. /\ op \in Ops \ {"tick"} /\ 0 \in Nat /\ 1 \in 1..MaxNest /\ EvInv /\ MaxHolds \in Nat
      /\ wq \in [Events -> Seq(Threads)]
  BY EventAssumption, SemaphoreRWAssumption DEF Ops, IInv, EvInv, EventType, QueueType
<1>1. PICK m \in Modes : m = ModeOf(e) /\ QueueOf(m) = e
  BY QueueMode
<1>2. PICK t \in Threads :
        /\ InHand' = t
        /\ \A u \in Threads : u # t => SameClaim(u)
        /\ \A k \in Modes :
             Claims(t, k)' = Claims(t, k) + IF op # "delete" /\ ModeOf(e) = k THEN 1 ELSE 0
  BY TakeHolds
<1>3. \A k \in Modes : Claims(t, k) \in Nat
  BY <1>0, ClaimsAre DEF IInv, RwInv
<1>4. /\ FirstWaiter(e) = t /\ wq' = [wq EXCEPT ![e] = Tail(wq[e])]
  <2>1. nest' = 1 /\ frames'[1].tcb = FirstWaiter(e) /\ wq' = [wq EXCEPT ![e] = Tail(wq[e])]
    BY <1>0, TakeFirstFacts
  <2> QED BY <1>2, <2>1 DEF InHand
<1>5. wq[e] \in Seq(Threads) /\ Len(wq[e]) > 0 /\ IsInjective(wq[e]) /\ t = Head(wq[e])
  <2>1. wq[e] # <<>>
    BY <1>0, FirstWaiterFacts DEF TakeFirst
  <2>2. wq[e] \in Seq(Threads) /\ Len(wq[e]) > 0 /\ IsInjective(wq[e])
    BY <1>0, <2>1 DEF EvInv, QueuesAgree
  <2> QED BY <1>4, <2>2 DEF FirstWaiter
<1>6. t \in WaitersOf(m)
  BY <1>1, <1>5, TailKeeps DEF WaitersOf
<1>7. WaitersOf(m)' = WaitersOf(m) \ {t}
  <2>1. wq'[e] = Tail(wq[e])
    BY <1>0, <1>4
  <2>2. \A u \in Threads : Contains(wq'[e], u) <=> Contains(wq[e], u) /\ u # t
    BY <1>5, <2>1, TailKeeps
  <2> QED BY <1>1, <2>2 DEF WaitersOf, QueueOf, Contains
<1>8. ASSUME NEW k \in Modes, k # m PROVE WaitersOf(k)' = WaitersOf(k)
  <2>1. wq'[QueueOf(k)] = wq[QueueOf(k)]
    BY <1>0, <1>1, <1>4, <1>8, QueueMode
  <2> QED BY <2>1 DEF WaitersOf, QueueOf, Contains
<1>9. op = "delete" => ClaimsKept
  BY <1>2, <1>3 DEF ClaimsKept, SameClaim
<1>10. op # "delete" => ClaimStep(t, m, Claims(t, m) + 1)
  BY <1>1, <1>2, <1>3 DEF ClaimStep
<1> QED BY <1>1, <1>6, <1>7, <1>8, <1>9, <1>10 DEF WaitersStep

(* A round of the loop that readies the readers.                             *)
LEMMA WakeReadersLock ==
  ASSUME IInv, AtTop(1), nest \in {0, 1}, NoWriter, Prefers => wq[Q_W] = <<>>,
         NEW counted, WakeReaders(1, counted)
  PROVE  LockStep
<1>0. Q_R \in Events /\ Q_W \in Events /\ ModeOf(Q_R) = "R" /\ ModeOf(Q_W) = "W"
  BY SemaphoreRWAssumption DEF ModeOf
<1>p. PICK op \in {"post", "release", "delete"} : op = "release"
  OBVIOUS
<1>1. CASE TakeFirst("release", Q_R, 0, 1) /\ UNCHANGED <<ulOption, held>>
  <2>1. TakeFirst(op, Q_R, 0, 1) /\ op # "delete" /\ UNCHANGED held /\ Prefers' = Prefers
    BY <1>p, <1>1 DEF Prefers
  <2>2. PICK m \in Modes : m = ModeOf(Q_R) /\ \E t \in WaitersOf(m) :
           /\ WaitersStep(m, WaitersOf(m) \ {t})
           /\ ClaimStep(t, m, Claims(t, m) + 1)
    BY <1>0, <2>1, TakeLock
  <2>3. PICK t \in WaitersOf(m) : /\ WaitersStep(m, WaitersOf(m) \ {t})
                                  /\ ClaimStep(t, m, Claims(t, m) + 1)
    BY <2>2
  <2>4. m = "R" /\ (Prefers => WaitersOf("W") = {})
    BY <1>0, <2>2, WaitersSame
  <2> QED BY <2>1, <2>3, <2>4, SimAdmit
<1>2. CASE UNCHANGED notKern /\ UNCHANGED <<ulOption, held>>
  BY <1>2, StillLock DEF notKern, queueVars
<1> QED BY <1>1, <1>2 DEF WakeReaders

(* __release_pend.                                                           *)
LEMMA ReleasePendLock ==
  ASSUME IInv, AtTop(1), nest = 1, Section = "post", InHand = Null,
         NEW ign \in BOOLEAN, Prefers => ~ign, ReleasePend(ign, 1)
  PROVE  LockStep
<1>0. Q_R \in Events /\ Q_W \in Events /\ ModeOf(Q_W) = "W" /\ EvInv
  BY SemaphoreRWAssumption DEF ModeOf, IInv
<1>1. NoReader /\ NoWriter
  <2>1. NoReader /\ OnlyWriter(InHand, 1)
    BY DEF IInv, RwInv, Holding, Posting
  <2> QED BY <2>1, EventAssumption DEF NoWriter, OnlyWriter
<1>p. PICK op \in {"post", "release", "delete"} : op = "post"
  OBVIOUS
<1>2. CASE TakeFirst("post", Q_W, 0, 1) /\ UNCHANGED <<rwVars, held>>
  <2>1. TakeFirst(op, Q_W, 0, 1) /\ op # "delete" /\ UNCHANGED held /\ Prefers' = Prefers
    BY <1>p, <1>2 DEF Prefers, rwVars
  <2>2. PICK m \in Modes : m = ModeOf(Q_W) /\ \E t \in WaitersOf(m) :
           /\ WaitersStep(m, WaitersOf(m) \ {t})
           /\ ClaimStep(t, m, Claims(t, m) + 1)
    BY <1>0, <2>1, TakeLock
  <2>3. PICK t \in WaitersOf(m) : /\ WaitersStep(m, WaitersOf(m) \ {t})
                                  /\ ClaimStep(t, m, Claims(t, m) + 1)
    BY <2>2
  <2> QED BY <1>0, <1>1, <2>1, <2>2, <2>3, SimAdmit
<1>3. CASE (ign \/ EventWaitNum(Q_W) = 0) /\ WakeReaders(1, ulCounter - 1)
  <2>1. Prefers => wq[Q_W] = <<>>
    BY <1>0, <1>3, NoWaiterFacts
  <2> QED BY <1>1, <1>3, <2>1, WakeReadersLock
<1>4. CASE UNCHANGED notKern /\ UNCHANGED <<ulOption, held>>
  BY <1>4, StillLock DEF notKern, queueVars
<1> QED BY <1>2, <1>3, <1>4 DEF ReleasePend

(* A round of the loops of API_SemaphoreRWDelete, and their end.             *)
LEMMA DeleteLoopLock ==
  ASSUME IInv, AtTop(1), nest \in {0, 1}, DeleteLoop(1), UNCHANGED ulOption
  PROVE  LockStep
<1>0. Q_R \in Events /\ Q_W \in Events /\ EvInv /\ Prefers' = Prefers
  BY SemaphoreRWAssumption DEF IInv, Prefers
<1>p. PICK op \in {"post", "release", "delete"} : op = "delete"
  OBVIOUS
<1>1. ASSUME NEW e \in Events, TakeFirst("delete", e, 0, 1), UNCHANGED held
      PROVE  LockStep
  <2>1. TakeFirst(op, e, 0, 1)
    BY <1>p, <1>1
  <2>2. PICK m \in Modes : \E t \in WaitersOf(m) :
           WaitersStep(m, WaitersOf(m) \ {t}) /\ ClaimsKept
    BY <1>p, <1>1, <2>1, TakeLock
  <2> QED BY <1>0, <2>2, SimGiveUp
<1>2. CASE /\ EventWaitNum(Q_R) = 0 /\ EventWaitNum(Q_W) = 0
           /\ held' = [t \in Threads |-> Nothing]
           /\ call' = [t \in Threads |-> Forget(call[t])]
           /\ EndFrame(1)
           /\ UNCHANGED <<queueVars, waitVars, ring, ucPriority, ucIsEventDelete,
                          ulSuspendNesting, sig>>
  <2>1. \A u \in Threads : call'[u].got = "token" => call'[u].ev = Null
    BY <1>2, ForgetKeeps
  <2>2. \A u \in Threads, m \in Modes : held'[u][m] = 0
    BY <1>2 DEF Nothing, Modes
  <2>3. \A u \in Threads, m \in Modes : Claims(u, m)' = 0
    BY <2>1, <2>2 DEF Claims
  <2>4. \A q \in Events : wq[q] = <<>>
    BY <1>0, <1>2, NoWaiterFacts, SemaphoreRWAssumption
  <2>5. \A m \in Modes : WaitersOf(m) = {}
    BY <2>4, WaitersSame, QueueMode
  <2>6. WaitersKept
    BY <1>2, WaitersSame DEF queueVars
  <2> QED BY <1>0, <2>3, <2>5, <2>6, SimDestroy
<1> QED BY <1>0, <1>1, <1>2 DEF DeleteLoop

(* Out of a window without a waiter in hand.                                 *)
LEMMA SectionNextLock ==
  ASSUME IInv, SectionNext
  PROVE  LockStep
<1>0. PICK f : f = frames[nest]
  OBVIOUS
<1>1. nest > 0 /\ f.tcb = Null
  BY <1>0 DEF SectionNext
<1>2. ASSUME f.op \in {"post", "release", "delete"}
      PROVE  nest = 1 /\ AtTop(1) /\ Section = f.op /\ InHand = Null /\ frames[1] = f
  <2>1. nest = 1 /\ Section = f.op /\ InHand = Null /\ frames[1] = f
    BY <1>0, <1>1, <1>2, SectionOpen
  <2> QED BY <1>1, <2>1 DEF AtTop
<1>3. CASE f.op = "post" /\ ReleasePend(f.n = 1, nest)
  <2>1. PICK ign \in BOOLEAN : ign = (f.n = 1)
    OBVIOUS
  <2>2. ReleasePend(ign, 1) /\ nest = 1
    BY <1>2, <1>3, <2>1
  <2>3. Prefers => ~ign
    <3>1. Section = "post" /\ InHand = Null /\ frames[1] = f
      BY <1>2, <1>3
    <3>2. Prefers => f.n = 0
      BY <3>1 DEF IInv, RwInv, Preferred, Prefers
    <3>3. ign => f.n = 1
      BY <2>1
    <3> QED BY <3>2, <3>3
  <2> QED BY <1>2, <1>3, <2>2, <2>3, ReleasePendLock
<1>4. CASE f.op = "release" /\ WakeReaders(nest, ulCounter)
  <2>1. WakeReaders(1, ulCounter) /\ nest \in {0, 1}
    BY <1>2, <1>4
  <2>2. NoWriter /\ (Prefers => wq[Q_W] = <<>>)
    BY <1>2, <1>4 DEF IInv, RwInv, Holding, Releasing, Preferred, Prefers
  <2> QED BY <1>2, <1>4, <2>1, <2>2, WakeReadersLock
<1>5. CASE f.op = "delete" /\ DeleteLoop(nest) /\ UNCHANGED ulOption
  BY <1>2, <1>5, DeleteLoopLock
<1> QED BY <1>0, <1>3, <1>4, <1>5 DEF SectionNext

(* Every step is a step of ReadWriteLock, or ReadWriteLock does not see it.  *)
LEMMA NextLock ==
  ASSUME IInv, IInv', IsrWakesPended = FALSE, [Next]_vars
  PROVE  LockStep
<1>1. ASSUME NEW o \in Options, SemaphoreRWCreate(o) PROVE LockStep
  BY <1>1, CreateLock
<1>2. ASSUME NEW t \in Threads, NEW timeout \in Timeouts,
             SemaphoreRWPendR(t, timeout) \/ SemaphoreRWPendW(t, timeout)
      PROVE  LockStep
  BY <1>2, PendLock
<1>3. ASSUME NEW t \in Threads, SemaphoreRWPendReturn(t) PROVE LockStep
  <2>1. ClaimsKept /\ UNCHANGED wq /\ Prefers' = Prefers
    BY <1>3, PendReturnHolds DEF ClaimsKept, SemaphoreRWPendReturn, rwVars, Prefers
  <2> QED BY <2>1, WaitersSame, LockSame
<1>4. ASSUME NEW t \in Threads, SemaphoreRWPost(t) PROVE LockStep
  BY <1>4, PostLock
<1>5. CASE SemaphoreRWDelete
  <2>1. nest = 0 /\ AtTop(1) /\ nest + 1 = 1 /\ nest \in {0, 1}
    BY <1>5 DEF SemaphoreRWDelete, ThreadEnter, AtTop
  <2>2. DeleteLoop(1) /\ UNCHANGED ulOption
    BY <1>5, <2>1 DEF SemaphoreRWDelete
  <2> QED BY <2>1, <2>2, DeleteLoopLock
<1>6. CASE EventHigh
  BY <1>6, StillLock DEF EventHigh, queueVars
<1>7. CASE SectionNext \/ Environment
  BY <1>7, SectionNextLock, EnvironmentLock
<1>8. CASE UNCHANGED vars
  BY <1>8, StillLock DEF vars, eventVars, queueVars, rwVars
<1> QED BY <1>1, <1>2, <1>3, <1>4, <1>5, <1>6, <1>7, <1>8 DEF Next

(* The semaphore is a read-write lock (IsReadWriteLock): no window of        *)
(* API_SemaphoreRWPost, no timeout in one and no loop of RWDelete lets a     *)
(* thread in that ReadWriteLock keeps out or takes from one what it has; with*)
(* LW_OPTION_RW_PREFER_WRITER no reader is let in while a writer waits.      *)
THEOREM ImplementsReadWriteLock ==
  ASSUME IsrWakesPended = FALSE PROVE Spec => IsReadWriteLock
<1>1. Init => L!Init
  <2> SUFFICES ASSUME Init PROVE L!Init
    OBVIOUS
  <2>1. NoReader /\ NoWriter
    <3>1. \A t \in Threads : call[t].pc = "run" /\ held[t]["R"] = 0 /\ held[t]["W"] = 0
      BY RunningCall DEF Init, EventInit, Nothing
    <3> QED BY <3>1 DEF NoReader, NoWriter, Claims
  <2>2. \A t \in Threads, m \in {"R", "W"} : Claims(t, m) = 0
    BY <2>1 DEF NoReader, NoWriter
  <2>3. \A m \in Modes : WaitersOf(m) = {}
    BY WaitersSame, QueueMode DEF Init, EventInit
  <2>4. ulOption.preferWriter \in BOOLEAN
    <3>1. ulOption \in [prio : BOOLEAN, inter : BOOLEAN, preferWriter : BOOLEAN]
      BY SemaphoreRWAssumption DEF Init
    <3> QED BY <3>1
  <2> QED BY <2>2, <2>3, <2>4 DEF L!Init, L!Modes, Modes, WaitersOf, QueueOf
<1>2. IInv /\ IInv' /\ [Next]_vars => [L!Next]_(L!vars)
  BY NextLock DEF LockStep
<1>3. Spec => []IInv
  BY InductiveInvariant
<1> QED BY <1>1, <1>2, <1>3, PTL DEF Spec, IsReadWriteLock, L!Spec

=============================================================================
