-------------------------- MODULE ThreadLifeProofs --------------------------
(***************************************************************************)
(* Proofs about ThreadLife for every number of TCBs, every nesting of safe  *)
(* mode and any number of deletions.                                        *)
(***************************************************************************)
EXTENDS ThreadLife, FiniteSetTheorems, TLAPS

-----------------------------------------------------------------------------
(* The inductive invariant.                                                *)

(* OnePlace without counting, and without asking who goes on with a TCB that *)
(* was unlinked: the four places exclude each other, and a TCB is in one.    *)
PlaceInv ==
  \A t \in Threads :
    /\ t \in table \/ t \in twj \/ job[t].stage = "unlinked" \/ freed[t] = 1
    /\ t \in table => t \notin twj /\ job[t].stage # "unlinked" /\ freed[t] = 0
    /\ t \in twj => job[t].stage # "unlinked" /\ freed[t] = 0
    /\ job[t].stage = "unlinked" => freed[t] = 0

(* TCB_iDeleteProcStatus says whether somebody deletes the thread.  Until it  *)
(* is unlinked it is in the table, and a zombie is off the ready ring.  A     *)
(* thread runs its own hooks only when it is marked.                         *)
JobInv ==
  \A t \in Threads :
    /\ delProc[t] = "DEL" <=> job[t].stage # "none"
    /\ job[t].stage \in {"marked", "zombie"} => t \in table
    /\ job[t].stage = "zombie" => "WDEATH" \in usStatus[t]
    /\ pc[t] = "hook" => delProc[t] = "DEL"

(* A thread inside a deletion has entered safe mode once more than the       *)
(* application made it.                                                      *)
SafeInv ==
  \A t \in Threads :
    IF pc[t] \in {"hook", "works", "leave"} THEN safe[t] > 0 ELSE safe[t] =< MaxSafe

(* Nobody joins itself, and nobody waits for a thread whose deletion began.  *)
WaitInv ==
  \A t, u \in Threads :
    /\ ptcbJoin[t] # t
    /\ delProc[u] = "DEL" /\ t # u => deleteMe[u] # t

IInv ==
  /\ TypeOK
  /\ PlaceInv
  /\ JobInv
  /\ SafeInv
  /\ WaitInv
  /\ ReadyRingOnce
  /\ JoinConsistent
  /\ DeleterAwaited

-----------------------------------------------------------------------------
(* The null pointer, a pointer to a TCB that is over and the exception thread *)
(* are no threads.                                                           *)
LEMMA NoThread == Null \notin Threads /\ Gone \notin Threads /\ Exc \notin Threads
  BY ThreadLifeAssumption

(* API_ThreadCreate builds a TCB that was on the free list.                  *)
LEMMA ThreadCreateKeeps ==
  ASSUME IInv, NEW c \in Threads, NEW t \in Threads, ThreadCreate(c, t)
  PROVE  IInv'
<1>1. t \notin table /\ t \notin twj /\ job[t].stage = "none" /\ freed[t] = 1 /\ c # t
  BY DEF IInv, TypeOK, PlaceInv, JobInv, ThreadCreate, At
<1>2. TypeOK'
  BY <1>1, ThreadLifeAssumption DEF IInv, TypeOK, ReadyRingOnce, ThreadCreate, TCBBuild
<1>3. PlaceInv'
  BY <1>1 DEF IInv, TypeOK, PlaceInv, ThreadCreate
<1>4. JobInv'
  BY <1>1 DEF IInv, TypeOK, JobInv, ThreadCreate, TCBBuild
<1>5. SafeInv'
  BY ThreadLifeAssumption DEF IInv, TypeOK, SafeInv, ThreadCreate, TCBBuild
<1>6. WaitInv'
  BY NoThread DEF IInv, TypeOK, WaitInv, ThreadCreate, TCBBuild
<1>7. ReadyRingOnce'
  <2>1. PICK o \in Creates :
          /\ usStatus' = [usStatus EXCEPT ![t] = IF o.init THEN {"INIT"} ELSE {}]
          /\ inRing' = [inRing EXCEPT ![t] = IF o.init THEN inRing[t] ELSE inRing[t] + 1]
    BY DEF ThreadCreate
  <2>2. inRing[t] = 0
    BY <1>1 DEF IInv, ReadyRingOnce
  <2>3. usStatus'[t] = (IF o.init THEN {"INIT"} ELSE {}) /\ inRing'[t] = IF o.init THEN 0 ELSE 1
    BY <2>1, <2>2 DEF IInv, TypeOK
  <2>4. \A u \in Threads \ {t} : usStatus'[u] = usStatus[u] /\ inRing'[u] = inRing[u]
    BY <2>1 DEF IInv, TypeOK
  <2>5. table' = table \cup {t}
    BY DEF ThreadCreate
  <2> QED BY <2>3, <2>4, <2>5 DEF IInv, ReadyRingOnce, IsReady
<1>8. JoinConsistent'
  BY <1>1, NoThread DEF IInv, TypeOK, JoinConsistent, ThreadCreate
<1>9. DeleterAwaited'
  BY <1>1, NoThread DEF IInv, TypeOK, DeleterAwaited, ThreadCreate, TCBBuild
<1> QED BY <1>2, <1>3, <1>4, <1>5, <1>6, <1>7, <1>8, <1>9 DEF IInv

(* A thread that executes joins nobody and waits for no deletion.            *)
LEMMA ReadyFacts ==
  ASSUME IInv, NEW c \in Threads, c \in table, IsReady(c)
  PROVE  /\ ptcbJoin[c] = Null /\ deleteWait[c] = Null /\ inRing[c] = 1
         /\ job[c].stage # "zombie"
         /\ \A u \in Threads \ {c} : deleteMe[u] # c
         /\ \A u \in Threads : c \notin joinHeader[u]
  BY NoThread DEF IInv, TypeOK, IsReady, JoinConsistent, DeleterAwaited, ReadyRingOnce, JobInv

(* Steps that leave alone where TCBs are and how far deletions are.          *)
LEMMA PlacesSame ==
  ASSUME IInv, UNCHANGED <<freed, table, twj, job>>
  PROVE  PlaceInv'
  BY DEF IInv, PlaceInv

(* API_ThreadStartEx.                                                        *)
LEMMA ThreadStartKeeps ==
  ASSUME IInv, NEW c \in Threads, NEW t \in Threads, NEW bJoin \in BOOLEAN,
         ThreadStart(c, t, bJoin)
  PROVE  IInv'
<1> DEFINE starts == usStatus[t] = {"INIT"}
           joins == starts /\ bJoin
<1>0. /\ c \in table /\ t \in table /\ IsReady(c) /\ "INIT" \in usStatus[t]
      /\ UNCHANGED <<tcbVars, safeVars, procVars>>
      /\ usStatus' = [u \in Threads |->
                          CASE u = t -> usStatus[t] \ {"INIT"}
                            [] u = c /\ joins -> {"JOIN"}
                            [] OTHER -> usStatus[u]]
      /\ inRing' = [u \in Threads |->
                        CASE u = t /\ starts -> inRing[u] + 1
                          [] u = c /\ joins -> inRing[u] - 1
                          [] OTHER -> inRing[u]]
      /\ joins => Join(c, t)
      /\ ~joins => UNCHANGED joinVars
  BY DEF ThreadStart, At
<1>1. c # t
  BY <1>0 DEF IsReady
<1>2. /\ usStatus'[t] = usStatus[t] \ {"INIT"}
      /\ usStatus'[c] = IF joins THEN {"JOIN"} ELSE usStatus[c]
      /\ \A u \in Threads \ {c, t} : usStatus'[u] = usStatus[u] /\ inRing'[u] = inRing[u]
      /\ inRing'[t] = IF starts THEN inRing[t] + 1 ELSE inRing[t]
      /\ inRing'[c] = IF joins THEN inRing[c] - 1 ELSE inRing[c]
      /\ usStatus' \in [Threads -> SUBSET {"INIT", "JOIN", "SUSPEND", "WDEATH"}]
  BY <1>0, <1>1 DEF IInv, TypeOK
<1>j. /\ joins => /\ joinHeader' = [joinHeader EXCEPT ![t] = @ \cup {c}]
                  /\ ptcbJoin' = [ptcbJoin EXCEPT ![c] = t]
      /\ ~joins => UNCHANGED <<joinHeader, ptcbJoin>>
  BY <1>0 DEF Join, joinVars
<1>u. UNCHANGED <<autoRec, freed, table, twj, posix, detached, safe, deleteMe, deleteWait,
                  delProc, pc, job, excQ, ends>>
  BY <1>0 DEF tcbVars, safeVars, procVars
<1>7. ReadyRingOnce' /\ inRing' \in [Threads -> {0, 1}]
  <2>1. inRing[c] = 1 /\ (starts => inRing[t] = 0)
    BY <1>0, ReadyFacts DEF IInv, ReadyRingOnce, IsReady
  <2>2. ASSUME NEW u \in Threads PROVE inRing'[u] = IF u \in table' /\ usStatus'[u] = {} THEN 1 ELSE 0
    <3>0. inRing[u] = IF u \in table /\ usStatus[u] = {} THEN 1 ELSE 0
      BY DEF IInv, ReadyRingOnce, IsReady
    <3>1. CASE u = t
      <4>1. CASE starts
        BY <3>1, <4>1, <1>0, <1>2, <2>1, <1>u
      <4>2. CASE ~starts
        <5>1. usStatus[t] # {} /\ usStatus[t] \ {"INIT"} # {}
          BY <4>2, <1>0
        <5> QED BY <3>0, <3>1, <4>2, <5>1, <1>2, <1>u
      <4> QED BY <4>1, <4>2
    <3>2. CASE u = c
      BY <3>0, <3>2, <1>0, <1>2, <2>1, <1>u DEF IsReady
    <3>3. CASE u # c /\ u # t
      BY <3>0, <3>3, <1>2, <1>u
    <3> QED BY <3>1, <3>2, <3>3
  <2>3. DOMAIN inRing' = Threads /\ inRing' = [u \in Threads |-> inRing'[u]]
    BY <1>0
  <2>4. \A u \in Threads : inRing'[u] \in {0, 1}
    BY <2>2
  <2>5. inRing' \in [Threads -> {0, 1}]
    BY <2>3, <2>4
  <2> QED BY <2>2, <2>5 DEF ReadyRingOnce, IsReady
<1> HIDE DEF joins, starts
<1>r. ptcbJoin[c] = Null /\ usStatus[c] = {} /\ deleteWait[c] = Null /\ job[c].stage # "zombie"
  BY <1>0, ReadyFacts DEF IsReady
<1>8. JoinConsistent'
  BY <1>0, <1>1, <1>2, <1>j, <1>u, <1>r, NoThread DEF IInv, TypeOK, JoinConsistent
<1>3. TypeOK'
  <2>2. ptcbJoin' \in [Threads -> Threads \cup {Null}] /\ joinHeader' \in [Threads -> SUBSET Threads]
    <3>0. ptcbJoin \in [Threads -> Threads \cup {Null}] /\ joinHeader \in [Threads -> SUBSET Threads]
      BY DEF IInv, TypeOK
    <3>1. CASE joins
      BY <3>0, <3>1, <1>j
    <3>2. CASE ~joins
      BY <3>0, <3>2, <1>j
    <3> QED BY <3>1, <3>2
  <2> QED BY <1>2, <1>7, <1>u, <2>2 DEF IInv, TypeOK
<1>4. PlaceInv' /\ SafeInv'
  BY <1>u, PlacesSame DEF IInv, SafeInv
<1>5. JobInv'
  BY <1>0, <1>2, <1>r, <1>u DEF IInv, JobInv
<1>6. WaitInv'
  BY <1>1, <1>j, <1>u DEF IInv, TypeOK, WaitInv
<1>9. DeleterAwaited'
  BY <1>0, <1>2, <1>r, <1>u, NoThread DEF IInv, DeleterAwaited
<1> QED BY <1>3, <1>4, <1>5, <1>6, <1>7, <1>8, <1>9 DEF IInv

-----------------------------------------------------------------------------
(* The ready ring.                                                           *)

Bits == {"INIT", "JOIN", "SUSPEND", "WDEATH"}

(* A ready thread blocks itself.                                             *)
LEMMA BlockKeeps ==
  ASSUME IInv, NEW c \in Threads, c \in table, IsReady(c), NEW bit \in Bits,
         Block(c, bit), table' = table
  PROVE  /\ ReadyRingOnce'
         /\ usStatus' \in [Threads -> SUBSET Bits] /\ inRing' \in [Threads -> {0, 1}]
         /\ usStatus'[c] = {bit}
         /\ \A u \in Threads \ {c} : usStatus'[u] = usStatus[u]
<1>1. /\ usStatus' = [usStatus EXCEPT ![c] = usStatus[c] \cup {bit}]
      /\ inRing' = [inRing EXCEPT ![c] = inRing[c] - 1]
      /\ usStatus \in [Threads -> SUBSET Bits] /\ inRing \in [Threads -> {0, 1}]
      /\ usStatus[c] = {} /\ inRing[c] = 1
  BY ReadyFacts DEF Block, IInv, TypeOK, Bits, IsReady
<1> QED BY <1>1 DEF IInv, ReadyRingOnce, IsReady

(* The bit that holds the threads of S is taken off.                         *)
LEMMA UnblockKeeps ==
  ASSUME IInv, NEW S \in SUBSET table, NEW bit \in Bits, Unblock(S, bit), table' = table,
         \A u \in S : bit \in usStatus[u]
  PROVE  /\ ReadyRingOnce'
         /\ usStatus' \in [Threads -> SUBSET Bits] /\ inRing' \in [Threads -> {0, 1}]
         /\ \A u \in S : usStatus'[u] = usStatus[u] \ {bit}
         /\ \A u \in Threads \ S : usStatus'[u] = usStatus[u]
<1>1. /\ usStatus' = [t \in Threads |-> usStatus[t] \ (IF t \in S THEN {bit} ELSE {})]
      /\ inRing' = [t \in Threads |->
                  IF t \in S /\ usStatus[t] \ {bit} = {} THEN inRing[t] + 1 ELSE inRing[t]]
      /\ usStatus \in [Threads -> SUBSET Bits] /\ inRing \in [Threads -> {0, 1}]
      /\ S \subseteq Threads
  BY DEF Unblock, IInv, TypeOK, Bits
<1>2. \A u \in S : inRing[u] = 0 /\ usStatus'[u] = usStatus[u] \ {bit}
  BY <1>1 DEF IInv, ReadyRingOnce, IsReady
<1>3. \A u \in Threads \ S : usStatus'[u] = usStatus[u] /\ inRing'[u] = inRing[u]
  BY <1>1
<1>4. \A u \in S : inRing'[u] = IF usStatus'[u] = {} THEN 1 ELSE 0
  BY <1>1, <1>2
<1>5. ReadyRingOnce'
  BY <1>3, <1>4 DEF IInv, ReadyRingOnce, IsReady
<1>6. inRing' \in [Threads -> {0, 1}]
  BY <1>1, <1>2
<1> QED BY <1>1, <1>2, <1>3, <1>5, <1>6

(* A TCB that waited to be joined goes back to the free list.                *)
LEMMA ReapKeeps ==
  ASSUME IInv, NEW t \in Threads, t \in twj, Reap(t), UNCHANGED <<safeVars, procVars>>
  PROVE  IInv'
<1>1. UNCHANGED <<autoRec, table, posix, detached, usStatus, inRing, ptcbJoin, joinHeader,
                  safe, deleteMe, deleteWait, delProc, pc, job, excQ, ends>>
  BY DEF Reap, runVars, joinVars, safeVars, procVars
<1>2. freed' = [freed EXCEPT ![t] = freed[t] + 1] /\ twj' = twj \ {t} /\ freed[t] = 0
  BY DEF Reap, IInv, PlaceInv
<1>3. TypeOK'
  BY <1>1, <1>2 DEF IInv, TypeOK
<1>4. PlaceInv'
  BY <1>1, <1>2 DEF IInv, TypeOK, PlaceInv
<1>5. JobInv' /\ SafeInv' /\ WaitInv' /\ ReadyRingOnce' /\ JoinConsistent' /\ DeleterAwaited'
  BY <1>1 DEF IInv, JobInv, SafeInv, WaitInv, ReadyRingOnce, IsReady, JoinConsistent,
              DeleterAwaited
<1> QED BY <1>3, <1>4, <1>5 DEF IInv

(* API_ThreadJoin, of a thread that lives or of one that is over.            *)
LEMMA ThreadJoinKeeps ==
  ASSUME IInv, NEW c \in Threads, NEW t \in Threads, ThreadJoin(c, t)
  PROVE  IInv'
<1>1. CASE t \in twj \ table /\ Reap(t)
  BY <1>1, ReapKeeps DEF ThreadJoin
<1>2. CASE t \in table /\ t # c /\ Join(c, t) /\ Block(c, "JOIN") /\ UNCHANGED tcbVars
  <2>1. /\ UNCHANGED <<autoRec, freed, table, twj, posix, detached, safe, deleteMe, deleteWait,
                       delProc, pc, job, excQ, ends>>
        /\ c \in table /\ IsReady(c)
    BY <1>2 DEF ThreadJoin, At, tcbVars, safeVars, procVars
  <2>2. /\ ReadyRingOnce'
        /\ usStatus' \in [Threads -> SUBSET Bits] /\ inRing' \in [Threads -> {0, 1}]
        /\ usStatus'[c] = {"JOIN"}
        /\ \A u \in Threads \ {c} : usStatus'[u] = usStatus[u]
    <3>1. "JOIN" \in Bits BY DEF Bits
    <3> QED BY <1>2, <2>1, <3>1, BlockKeeps
  <2>3. /\ ptcbJoin[c] = Null /\ usStatus[c] = {} /\ deleteWait[c] = Null
        /\ job[c].stage # "zombie"
    BY <2>1, ReadyFacts DEF IsReady
  <2>4. /\ joinHeader' = [joinHeader EXCEPT ![t] = joinHeader[t] \cup {c}]
        /\ ptcbJoin' = [ptcbJoin EXCEPT ![c] = t]
    BY <1>2 DEF Join
  <2>5. TypeOK'
    BY <2>1, <2>2, <2>4 DEF IInv, TypeOK, Bits
  <2>6. PlaceInv' /\ SafeInv'
    BY <2>1, PlacesSame DEF IInv, SafeInv
  <2>7. JobInv'
    BY <2>1, <2>2, <2>3 DEF IInv, JobInv
  <2>8. WaitInv'
    BY <1>2, <2>1, <2>4 DEF IInv, TypeOK, WaitInv
  <2>9. JoinConsistent'
    BY <1>2, <2>1, <2>2, <2>3, <2>4, NoThread DEF IInv, TypeOK, JoinConsistent
  <2>10. DeleterAwaited'
    BY <2>1, <2>2, <2>3, NoThread DEF IInv, DeleterAwaited
  <2> QED BY <2>2, <2>5, <2>6, <2>7, <2>8, <2>9, <2>10 DEF IInv
<1> QED BY <1>1, <1>2 DEF ThreadJoin

(* API_ThreadDetach wakes everybody who joins.                               *)
LEMMA ThreadDetachKeeps ==
  ASSUME IInv, NEW c \in Threads, NEW t \in Threads, ThreadDetach(c, t)
  PROVE  IInv'
<1>1. CASE t \in twj \ table /\ Reap(t)
  BY <1>1, ReapKeeps DEF ThreadDetach
<1>2. CASE ~(t \in twj \ table /\ Reap(t))
  <2>1. /\ Unblock(joinHeader[t], "JOIN")
        /\ ptcbJoin' = [u \in Threads |-> IF u \in joinHeader[t] THEN Null ELSE ptcbJoin[u]]
        /\ joinHeader' = [joinHeader EXCEPT ![t] = {}]
        /\ detached' = detached \cup {t}
        /\ UNCHANGED <<autoRec, freed, table, twj, posix, safe, deleteMe, deleteWait,
                       delProc, pc, job, excQ, ends>>
    BY <1>2 DEF ThreadDetach, safeVars, procVars
  <2>2. joinHeader[t] \in SUBSET table /\ \A u \in joinHeader[t] : "JOIN" \in usStatus[u]
    BY NoThread DEF IInv, TypeOK, JoinConsistent
  <2>3. /\ ReadyRingOnce'
        /\ usStatus' \in [Threads -> SUBSET Bits] /\ inRing' \in [Threads -> {0, 1}]
        /\ \A u \in joinHeader[t] : usStatus'[u] = usStatus[u] \ {"JOIN"}
        /\ \A u \in Threads \ joinHeader[t] : usStatus'[u] = usStatus[u]
    <3>1. "JOIN" \in Bits BY DEF Bits
    <3> QED BY <2>1, <2>2, <3>1, UnblockKeeps
  <2>5. TypeOK'
    BY <2>1, <2>3 DEF IInv, TypeOK, Bits
  <2>6. PlaceInv' /\ SafeInv'
    BY <2>1, PlacesSame DEF IInv, SafeInv
  <2>7. JobInv'
    BY <2>1, <2>3 DEF IInv, JobInv
  <2>8. WaitInv'
    BY <2>1, NoThread DEF IInv, TypeOK, WaitInv
  <2>9. JoinConsistent'
    BY <2>1, <2>2, <2>3, NoThread DEF IInv, TypeOK, JoinConsistent
  <2>10. DeleterAwaited'
    BY <2>1, <2>3 DEF IInv, DeleterAwaited
  <2> QED BY <2>3, <2>5, <2>6, <2>7, <2>8, <2>9, <2>10 DEF IInv
<1> QED BY <1>1, <1>2

(* A signal takes a thread out of its join.                                  *)
LEMMA SignalExitKeeps ==
  ASSUME IInv, NEW t \in Threads, SignalExit(t)
  PROVE  IInv'
<1>1. /\ Unblock({t}, "JOIN")
      /\ joinHeader' = [joinHeader EXCEPT ![ptcbJoin[t]] = joinHeader[ptcbJoin[t]] \ {t}]
      /\ ptcbJoin' = [ptcbJoin EXCEPT ![t] = Null]
      /\ t \in table /\ ptcbJoin[t] \in Threads
      /\ UNCHANGED <<autoRec, freed, table, twj, posix, detached, safe, deleteMe, deleteWait,
                     delProc, pc, job, excQ, ends>>
  BY DEF SignalExit, tcbVars, safeVars, procVars, IInv, TypeOK
<1>2. "JOIN" \in usStatus[t]
  BY <1>1, NoThread DEF IInv, JoinConsistent
<1>3. /\ ReadyRingOnce'
      /\ usStatus' \in [Threads -> SUBSET Bits] /\ inRing' \in [Threads -> {0, 1}]
      /\ usStatus'[t] = usStatus[t] \ {"JOIN"}
      /\ \A u \in Threads \ {t} : usStatus'[u] = usStatus[u]
  <2>1. "JOIN" \in Bits BY DEF Bits
  <2>2. {t} \in SUBSET table /\ \A u \in {t} : "JOIN" \in usStatus[u]
    BY <1>1, <1>2
  <2> HIDE <1>2
  <2>3. /\ ReadyRingOnce'
        /\ usStatus' \in [Threads -> SUBSET Bits] /\ inRing' \in [Threads -> {0, 1}]
        /\ \A u \in {t} : usStatus'[u] = usStatus[u] \ {"JOIN"}
        /\ \A u \in Threads \ {t} : usStatus'[u] = usStatus[u]
    BY <1>1, <2>1, <2>2, UnblockKeeps
  <2> QED BY <2>3
<1>5. TypeOK'
  BY <1>1, <1>3 DEF IInv, TypeOK, Bits
<1>6. PlaceInv' /\ SafeInv'
  BY <1>1, PlacesSame DEF IInv, SafeInv
<1>7. JobInv'
  BY <1>1, <1>3 DEF IInv, JobInv
<1>8. WaitInv'
  BY <1>1, NoThread DEF IInv, TypeOK, WaitInv
<1>9. JoinConsistent'
  BY <1>1, <1>2, <1>3, NoThread DEF IInv, TypeOK, JoinConsistent
<1>10. DeleterAwaited'
  BY <1>1, <1>3 DEF IInv, DeleterAwaited
<1> QED BY <1>3, <1>5, <1>6, <1>7, <1>8, <1>9, <1>10 DEF IInv

-----------------------------------------------------------------------------
(* Safe mode.                                                                *)

(* API_ThreadSafe.                                                           *)
LEMMA ThreadSafeKeeps ==
  ASSUME IInv, NEW c \in Threads, ThreadSafe(c)
  PROVE  IInv'
<1>1. /\ safe' = [safe EXCEPT ![c] = safe[c] + 1] /\ safe[c] < MaxSafe /\ pc[c] = "run"
      /\ safe \in [Threads -> 0 .. MaxSafe + 1]
      /\ UNCHANGED <<autoRec, freed, table, twj, posix, detached, usStatus, inRing, ptcbJoin,
                     joinHeader, deleteMe, deleteWait, delProc, pc, job, excQ, ends>>
  BY DEF ThreadSafe, At, tcbVars, runVars, joinVars, procVars, IInv, TypeOK
<1>2. safe' \in [Threads -> 0 .. MaxSafe + 1]
  BY <1>1, ThreadLifeAssumption
<1>3. TypeOK'
  BY <1>1, <1>2 DEF IInv, TypeOK
<1>4. PlaceInv' /\ JobInv' /\ WaitInv' /\ ReadyRingOnce' /\ JoinConsistent'
  BY <1>1 DEF IInv, PlaceInv, JobInv, WaitInv, ReadyRingOnce, IsReady, JoinConsistent
<1>5. SafeInv'
  BY <1>1, ThreadLifeAssumption DEF IInv, SafeInv
<1>6. DeleterAwaited'
  BY <1>1 DEF IInv, DeleterAwaited
<1> QED BY <1>3, <1>4, <1>5, <1>6 DEF IInv

(* The last LW_THREAD_UNSAFE wakes the thread that waits for the deletion,   *)
(* which is the one that TCB_ptcbDeleteMe names.                             *)
LEMMA ThreadUnsafeKeeps ==
  ASSUME IInv, NEW c \in Threads, ThreadUnsafe(c)
  PROVE  IInv'
<1> DEFINE last == safe[c] = 1
           asked == last /\ deleteMe[c] # Null
           wake == IF last THEN Deleter(c) ELSE {}
<1>1. /\ c \in table /\ IsReady(c) /\ safe[c] > 0
      /\ pc[c] \in {"run", "leave"}
  BY DEF ThreadUnsafe, At, IInv, SafeInv
<1>2. /\ safe' = [safe EXCEPT ![c] = safe[c] - 1]
      /\ deleteMe' = IF asked THEN [deleteMe EXCEPT ![c] = Null] ELSE deleteMe
      /\ deleteWait' = [u \in Threads |-> IF u \in wake THEN Null ELSE deleteWait[u]]
      /\ Unblock(wake, "SUSPEND")
      /\ pc' = [pc EXCEPT ![c] = IF asked THEN "dying" ELSE "run"]
      /\ UNCHANGED <<autoRec, freed, table, twj, posix, detached, ptcbJoin, joinHeader,
                     delProc, job, excQ, ends>>
  BY <1>1 DEF ThreadUnsafe, tcbVars, joinVars
<1>3. /\ safe \in [Threads -> 0 .. MaxSafe + 1]
      /\ deleteMe \in [Threads -> Threads \cup {Null, Gone}]
      /\ deleteWait \in [Threads -> Threads \cup {Null}]
      /\ table \subseteq Threads
  BY DEF IInv, TypeOK
<1>4. \A u \in wake : u \in table /\ u # c /\ deleteMe[c] = u /\ deleteWait[u] = c /\ "SUSPEND" \in usStatus[u]
  BY <1>3 DEF Deleter, IInv, DeleterAwaited
<1>5. last => \A u \in table \ {c} : deleteMe[c] = u => u \in wake
  BY DEF Deleter
<1>6. wake # {} => last
  OBVIOUS
<1>7. deleteWait[c] = Null /\ job[c].stage # "zombie"
  BY <1>1, ReadyFacts
<1> HIDE DEF wake
<1>8. /\ ReadyRingOnce'
      /\ usStatus' \in [Threads -> SUBSET Bits] /\ inRing' \in [Threads -> {0, 1}]
      /\ \A u \in wake : usStatus'[u] = usStatus[u] \ {"SUSPEND"}
      /\ \A u \in Threads \ wake : usStatus'[u] = usStatus[u]
  <2>1. "SUSPEND" \in Bits BY DEF Bits
  <2>2. wake \in SUBSET table /\ \A u \in wake : "SUSPEND" \in usStatus[u]
    BY <1>4
  <2>3. table' = table BY <1>2
  <2>4. Unblock(wake, "SUSPEND") BY <1>2
  <2> QED BY <2>1, <2>2, <2>3, <2>4, UnblockKeeps
<1>9. /\ \A u \in Threads \ {c} : safe'[u] = safe[u] /\ deleteMe'[u] = deleteMe[u] /\ pc'[u] = pc[u]
      /\ safe'[c] = safe[c] - 1 /\ deleteMe'[c] = (IF asked THEN Null ELSE deleteMe[c])
      /\ pc'[c] \in {"dying", "run"}
      /\ \A u \in Threads : deleteWait'[u] = IF u \in wake THEN Null ELSE deleteWait[u]
  BY <1>2, <1>3 DEF IInv, TypeOK
<1>10. TypeOK'
  <2>1. safe' \in [Threads -> 0 .. MaxSafe + 1]
    BY <1>1, <1>2, <1>3, ThreadLifeAssumption
  <2>2. /\ deleteMe' \in [Threads -> Threads \cup {Null, Gone}]
        /\ deleteWait' \in [Threads -> Threads \cup {Null}]
    BY <1>2, <1>3
  <2>3. pc' \in [Threads -> {"run", "hook", "works", "leave", "dying", "sleep"}]
    BY <1>2 DEF IInv, TypeOK
  <2> QED BY <1>2, <1>8, <2>1, <2>2, <2>3 DEF IInv, TypeOK, Bits
<1>11. PlaceInv'
  BY <1>2, PlacesSame
<1>12. JobInv'
  BY <1>2, <1>8, <1>9 DEF IInv, JobInv
<1>13. SafeInv'
  BY <1>1, <1>3, <1>9, ThreadLifeAssumption DEF IInv, SafeInv
<1>14. WaitInv'
  BY <1>2, <1>9, NoThread DEF IInv, WaitInv
<1>15. JoinConsistent'
  BY <1>2, <1>8 DEF IInv, JoinConsistent
<1>16. DeleterAwaited'
  <2> SUFFICES ASSUME NEW t \in Threads, NEW d \in Threads
               PROVE  /\ deleteWait'[t] = d => /\ {t, d} \subseteq table
                                               /\ deleteMe'[d] = t /\ safe'[d] > 0
                                               /\ "SUSPEND" \in usStatus'[t]
                      /\ deleteMe'[d] = t /\ t # d => deleteWait'[t] = d
    BY <1>2 DEF DeleterAwaited
  <2>0. /\ deleteWait[t] = d => /\ {t, d} \subseteq table
                                /\ deleteMe[d] = t /\ safe[d] > 0
                                /\ "SUSPEND" \in usStatus[t]
        /\ deleteMe[d] = t /\ t # d => deleteWait[t] = d
    BY DEF IInv, DeleterAwaited
  <2>1. CASE d = c
    BY <2>0, <2>1, <1>1, <1>3, <1>4, <1>5, <1>6, <1>7, <1>8, <1>9, NoThread
  <2>2. CASE d # c
    BY <2>0, <2>2, <1>1, <1>3, <1>4, <1>7, <1>8, <1>9, NoThread
  <2> QED BY <2>1, <2>2
<1> QED BY <1>8, <1>10, <1>11, <1>12, <1>13, <1>14, <1>15, <1>16 DEF IInv

-----------------------------------------------------------------------------
(* Deletion.                                                                 *)

Jobs == [stage : {"none", "marked", "zombie", "unlinked"},
         by : Threads \cup {Null, Exc}, jwt : BOOLEAN]

(* Whoever takes over a job, it stays a job at the same stage.               *)
LEMMA JobOfOther ==
  ASSUME NEW j \in Jobs, NEW b \in Threads \cup {Null, Exc}
  PROVE  [j EXCEPT !.by = b] \in Jobs /\ [j EXCEPT !.by = b].stage = j.stage
<1>1. j.stage \in {"none", "marked", "zombie", "unlinked"} /\ j.jwt \in BOOLEAN
      /\ j = [stage |-> j.stage, by |-> j.by, jwt |-> j.jwt]
  BY DEF Jobs
<1>2. [j EXCEPT !.by = b] = [stage |-> j.stage, by |-> b, jwt |-> j.jwt]
  BY <1>1
<1> QED BY <1>1, <1>2 DEF Jobs

(* A deletion begins of a thread nobody waits to see deleted.                *)
LEMMA MarkKeeps ==
  ASSUME IInv, NEW c \in Threads, NEW d \in Threads, pc[c] \in {"run", "dying"},
         d \in table, delProc[d] = "NONE", \A u \in Threads \ {d} : deleteMe[d] # u,
         Mark(c, d)
  PROVE  IInv'
<1>1. /\ ends < MaxEnds /\ ends' = ends + 1
      /\ delProc' = [delProc EXCEPT ![d] = "DEL"]
      /\ safe' = [safe EXCEPT ![c] = safe[c] + 1]
      /\ pc' = [pc EXCEPT ![c] = IF c = d THEN "hook" ELSE "works"]
      /\ job' = [job EXCEPT ![d] = [stage |-> "marked", by |-> c, jwt |-> FALSE]]
      /\ UNCHANGED <<autoRec, freed, table, twj, posix, detached, usStatus, inRing, ptcbJoin,
                     joinHeader, deleteMe, deleteWait, excQ>>
  BY DEF Mark, tcbVars, runVars, joinVars
<1>2. safe[c] =< MaxSafe /\ safe[c] \in Nat /\ job[d].stage = "none"
  <2>1. safe[c] \in 0 .. MaxSafe + 1
    BY DEF IInv, TypeOK
  <2>2. safe[c] =< MaxSafe
    BY DEF IInv, SafeInv
  <2>3. job[d].stage = "none"
    BY DEF IInv, JobInv
  <2> QED BY <2>1, <2>2, <2>3, ThreadLifeAssumption
<1>3. TypeOK'
  <2>1. ends' \in 0 .. MaxEnds
    BY <1>1, ThreadLifeAssumption DEF IInv, TypeOK
  <2>2. safe' \in [Threads -> 0 .. MaxSafe + 1]
    BY <1>1, <1>2, ThreadLifeAssumption DEF IInv, TypeOK
  <2>3. job' \in [Threads -> [stage : {"none", "marked", "zombie", "unlinked"},
                              by : Threads \cup {Null, Exc}, jwt : BOOLEAN]]
    BY <1>1 DEF IInv, TypeOK
  <2> QED BY <1>1, <2>1, <2>2, <2>3 DEF IInv, TypeOK
<1>4. /\ \A u \in Threads \ {d} : job'[u] = job[u] /\ delProc'[u] = delProc[u]
      /\ job'[d].stage = "marked" /\ delProc'[d] = "DEL"
      /\ \A u \in Threads \ {c} : safe'[u] = safe[u] /\ pc'[u] = pc[u]
      /\ safe'[c] = safe[c] + 1 /\ pc'[c] = IF c = d THEN "hook" ELSE "works"
  BY <1>1 DEF IInv, TypeOK
<1>5. PlaceInv'
  BY <1>1, <1>2, <1>4 DEF IInv, PlaceInv
<1>6. JobInv'
  BY <1>1, <1>2, <1>4 DEF IInv, JobInv
<1>7. SafeInv'
  BY <1>2, <1>4 DEF IInv, SafeInv
<1>8. WaitInv'
  BY <1>1, <1>4 DEF IInv, WaitInv
<1>9. ReadyRingOnce' /\ JoinConsistent'
  BY <1>1 DEF IInv, ReadyRingOnce, IsReady, JoinConsistent
<1>10. DeleterAwaited'
  BY <1>1, <1>2, <1>4, <1>3 DEF IInv, DeleterAwaited, TypeOK
<1> QED BY <1>3, <1>5, <1>6, <1>7, <1>8, <1>9, <1>10 DEF IInv

(* A thread that calls on itself while somebody deletes it.                  *)
LEMMA SleepsForEverKeeps ==
  ASSUME IInv, NEW c \in Threads, pc[c] \in {"run", "dying"}, SleepsForEver(c)
  PROVE  IInv'
<1>1. /\ pc' = [pc EXCEPT ![c] = "sleep"]
      /\ UNCHANGED <<autoRec, freed, table, twj, posix, detached, usStatus, inRing, ptcbJoin,
                     joinHeader, safe, deleteMe, deleteWait, delProc, job, excQ, ends>>
  BY DEF SleepsForEver, tcbVars, runVars, joinVars, safeVars
<1>2. TypeOK'
  BY <1>1 DEF IInv, TypeOK
<1>3. PlaceInv' /\ WaitInv' /\ ReadyRingOnce' /\ JoinConsistent' /\ DeleterAwaited'
  BY <1>1 DEF IInv, PlaceInv, WaitInv, ReadyRingOnce, IsReady, JoinConsistent, DeleterAwaited
<1>4. \A u \in Threads \ {c} : pc'[u] = pc[u]
  BY <1>1 DEF IInv, TypeOK
<1>5. pc'[c] = "sleep"
  BY <1>1 DEF IInv, TypeOK
<1>6. JobInv'
  BY <1>1, <1>4, <1>5 DEF IInv, JobInv
<1>7. SafeInv'
  BY <1>1, <1>4, <1>5 DEF IInv, SafeInv
<1> QED BY <1>2, <1>3, <1>6, <1>7 DEF IInv

(* A thread in safe mode is asked to delete itself.                          *)
LEMMA AskToDeleteKeeps ==
  ASSUME IInv, NEW c \in Threads, NEW d \in Threads, c \in table, IsReady(c), d \in table,
         delProc[d] = "NONE", AskToDelete(c, d)
  PROVE  IInv'
<1>1. /\ safe[d] > 0 /\ deleteMe[d] = Null
      /\ deleteMe' = [deleteMe EXCEPT ![d] = c]
      /\ UNCHANGED <<autoRec, freed, table, twj, posix, detached, ptcbJoin, joinHeader, safe,
                     delProc, pc, job, excQ, ends>>
  BY DEF AskToDelete, tcbVars, joinVars, procVars
<1>2. deleteMe'[d] = c /\ \A u \in Threads \ {d} : deleteMe'[u] = deleteMe[u]
  BY <1>1 DEF IInv, TypeOK
<1>3. deleteMe' \in [Threads -> Threads \cup {Null, Gone}]
  BY <1>1 DEF IInv, TypeOK
<1>4. PlaceInv' /\ SafeInv'
  BY <1>1, PlacesSame DEF IInv, SafeInv
<1>5. WaitInv'
  BY <1>1, <1>2 DEF IInv, WaitInv
<1>6. CASE c = d
  <2>1. UNCHANGED <<deleteWait, usStatus, inRing>>
    BY <1>6 DEF AskToDelete, runVars
  <2>2. TypeOK'
    BY <1>1, <1>3, <2>1 DEF IInv, TypeOK
  <2>3. JobInv' /\ ReadyRingOnce' /\ JoinConsistent'
    BY <1>1, <2>1 DEF IInv, JobInv, ReadyRingOnce, IsReady, JoinConsistent
  <2>4. DeleterAwaited'
    BY <1>1, <1>2, <1>6, <2>1, NoThread DEF IInv, DeleterAwaited
  <2> QED BY <1>4, <1>5, <2>2, <2>3, <2>4 DEF IInv
<1>7. CASE c # d
  <2>1. deleteWait' = [deleteWait EXCEPT ![c] = d] /\ Block(c, "SUSPEND")
    BY <1>7 DEF AskToDelete
  <2>2. /\ ReadyRingOnce'
        /\ usStatus' \in [Threads -> SUBSET Bits] /\ inRing' \in [Threads -> {0, 1}]
        /\ usStatus'[c] = {"SUSPEND"}
        /\ \A u \in Threads \ {c} : usStatus'[u] = usStatus[u]
    <3>1. "SUSPEND" \in Bits BY DEF Bits
    <3> QED BY <1>1, <2>1, <3>1, BlockKeeps
  <2>3. /\ ptcbJoin[c] = Null /\ usStatus[c] = {} /\ deleteWait[c] = Null
        /\ job[c].stage # "zombie"
    BY ReadyFacts DEF IsReady
  <2>4. deleteWait' \in [Threads -> Threads \cup {Null}]
    BY <2>1 DEF IInv, TypeOK
  <2>5. deleteWait'[c] = d /\ \A u \in Threads \ {c} : deleteWait'[u] = deleteWait[u]
    BY <2>1 DEF IInv, TypeOK
  <2>6. TypeOK'
    BY <1>1, <1>3, <2>2, <2>4 DEF IInv, TypeOK, Bits
  <2>7. JobInv'
    BY <1>1, <2>2, <2>3 DEF IInv, JobInv
  <2>8. JoinConsistent'
    BY <1>1, <2>2, <2>3, NoThread DEF IInv, JoinConsistent
  <2>9. DeleterAwaited'
    BY <1>1, <1>2, <1>7, <2>2, <2>3, <2>5, NoThread DEF IInv, DeleterAwaited
  <2> QED BY <1>4, <1>5, <2>2, <2>6, <2>7, <2>8, <2>9 DEF IInv
<1> QED BY <1>6, <1>7

(* API_ThreadDelete marks only a thread outside safe mode, so nobody waits.  *)
LEMMA ThreadDeleteKeeps ==
  ASSUME IInv, NEW c \in Threads, NEW d \in Threads, ThreadDelete(c, d)
  PROVE  IInv'
<1>1. c \in table /\ IsReady(c) /\ pc[c] \in {"run", "dying"} /\ d \in table
  BY DEF ThreadDelete, At
<1>2. CASE c = d /\ SleepsForEver(c)
  BY <1>1, <1>2, SleepsForEverKeeps
<1>3. CASE delProc[d] = "NONE" /\ AskToDelete(c, d)
  BY <1>1, <1>3, AskToDeleteKeeps
<1>4. CASE delProc[d] = "NONE" /\ safe[d] = 0 /\ Mark(c, d)
  <2>1. \A u \in Threads \ {d} : deleteMe[d] # u
    BY <1>4 DEF IInv, DeleterAwaited
  <2> QED BY <1>1, <1>4, <2>1, MarkKeeps
<1> QED BY <1>2, <1>3, <1>4 DEF ThreadDelete

(* API_ThreadForceDelete of a thread whose deleter does not wait.            *)
LEMMA ThreadForceDeleteKeeps ==
  ASSUME IInv, ForcesAwaited = FALSE, NEW c \in Threads, NEW d \in Threads,
         ThreadForceDelete(c, d)
  PROVE  IInv'
<1>1. c \in table /\ IsReady(c) /\ pc[c] \in {"run", "dying"} /\ d \in table
  BY DEF ThreadForceDelete, At
<1>2. CASE c = d /\ SleepsForEver(c)
  BY <1>1, <1>2, SleepsForEverKeeps
<1>3. CASE delProc[d] = "NONE" /\ deleteMe[d] \notin Threads \ {d} /\ Mark(c, d)
  <2>1. \A u \in Threads \ {d} : deleteMe[d] # u
    BY <1>3
  <2> QED BY <1>1, <1>3, <2>1, MarkKeeps
<1> QED BY <1>2, <1>3 DEF ThreadForceDelete

(* The exception thread gets the rest of a deletion.                         *)
LEMMA ExcJobAddKeeps ==
  ASSUME IInv, NEW d \in Threads, ExcJobAdd(d)
  PROVE  IInv'
<1>1. /\ pc[d] = "hook"
      /\ safe' = [safe EXCEPT ![d] = safe[d] - 1]
      /\ pc' = [pc EXCEPT ![d] = "sleep"]
      /\ job' = [job EXCEPT ![d] = [job[d] EXCEPT !.by = Exc]]
      /\ excQ' = Append(excQ, d)
      /\ UNCHANGED <<autoRec, freed, table, twj, posix, detached, usStatus, inRing, ptcbJoin,
                     joinHeader, deleteMe, deleteWait, delProc, ends>>
  BY DEF ExcJobAdd, At, tcbVars, runVars, joinVars
<1>2. safe[d] > 0 /\ safe[d] \in 0 .. MaxSafe + 1 /\ delProc[d] = "DEL"
  BY <1>1 DEF IInv, SafeInv, JobInv, TypeOK
<1>3. /\ \A u \in Threads : job'[u].stage = job[u].stage
      /\ \A u \in Threads \ {d} : safe'[u] = safe[u] /\ pc'[u] = pc[u]
      /\ safe'[d] = safe[d] - 1 /\ pc'[d] = "sleep"
  BY <1>1 DEF IInv, TypeOK
<1>4. TypeOK'
  <2>1. safe' \in [Threads -> 0 .. MaxSafe + 1]
    BY <1>1, <1>2, ThreadLifeAssumption DEF IInv, TypeOK
  <2>2. job' \in [Threads -> [stage : {"none", "marked", "zombie", "unlinked"},
                              by : Threads \cup {Null, Exc}, jwt : BOOLEAN]]
    <3>1. [job[d] EXCEPT !.by = Exc] \in
            [stage : {"none", "marked", "zombie", "unlinked"},
             by : Threads \cup {Null, Exc}, jwt : BOOLEAN]
      BY JobOfOther DEF IInv, TypeOK, Jobs
    <3> QED BY <1>1, <3>1 DEF IInv, TypeOK
  <2>3. excQ' \in Seq(Threads)
    BY <1>1 DEF IInv, TypeOK
  <2> QED BY <1>1, <2>1, <2>2, <2>3 DEF IInv, TypeOK
<1>5. PlaceInv'
  BY <1>1, <1>3 DEF IInv, PlaceInv
<1>6. JobInv'
  BY <1>1, <1>3 DEF IInv, JobInv
<1>7. SafeInv'
  BY <1>2, <1>3, ThreadLifeAssumption DEF IInv, SafeInv
<1>8. WaitInv' /\ ReadyRingOnce' /\ JoinConsistent'
  BY <1>1 DEF IInv, WaitInv, ReadyRingOnce, IsReady, JoinConsistent
<1>9. \A u \in Threads \ {d} : deleteWait[u] # d
  BY <1>2 DEF IInv, WaitInv, DeleterAwaited
<1>10. deleteWait[d] # d
  BY ReadyFacts, NoThread DEF ExcJobAdd, At
<1>11. DeleterAwaited'
  BY <1>1, <1>3, <1>9, <1>10 DEF IInv, DeleterAwaited
<1> QED BY <1>4, <1>5, <1>6, <1>7, <1>8, <1>11 DEF IInv

(* The thread is made a zombie, from the ready ring or from its wait.        *)
LEMMA WaitDeathKeeps ==
  ASSUME IInv, NEW d \in Threads, WaitDeath(d)
  PROVE  IInv'
<1>1. /\ job[d].stage = "marked"
      /\ job' = [job EXCEPT ![d] = [job[d] EXCEPT !.stage = "zombie"]]
      /\ UNCHANGED <<autoRec, freed, table, twj, posix, detached, ptcbJoin, joinHeader, safe,
                     deleteMe, deleteWait, delProc, pc, excQ, ends>>
  BY DEF WaitDeath, tcbVars, joinVars, safeVars
<1>2. d \in table
  BY <1>1 DEF IInv, JobInv
<1>3. /\ \A u \in Threads \ {d} : job'[u] = job[u]
      /\ job'[d].stage = "zombie"
      /\ job' \in [Threads -> Jobs]
  <2>1. job \in [Threads -> Jobs] /\ job[d] \in Jobs
    BY DEF IInv, TypeOK, Jobs
  <2>2. [job[d] EXCEPT !.stage = "zombie"] = [stage |-> "zombie", by |-> job[d].by, jwt |-> job[d].jwt]
    BY <2>1 DEF Jobs
  <2>3. [stage |-> "zombie", by |-> job[d].by, jwt |-> job[d].jwt] \in Jobs
    BY <2>1 DEF Jobs
  <2> QED BY <1>1, <2>1, <2>2, <2>3
<1>4. /\ ReadyRingOnce'
      /\ usStatus' \in [Threads -> SUBSET Bits] /\ inRing' \in [Threads -> {0, 1}]
      /\ usStatus'[d] = usStatus[d] \cup {"WDEATH"}
      /\ \A u \in Threads \ {d} : usStatus'[u] = usStatus[u]
  <2>1. CASE IsReady(d)
    <3>1. "WDEATH" \in Bits /\ table' = table /\ Block(d, "WDEATH")
      BY <1>1, <2>1 DEF Bits, WaitDeath
    <3>2. usStatus[d] = {}
      BY <2>1 DEF IsReady
    <3>3. usStatus[d] \cup {"WDEATH"} = {"WDEATH"}
      BY <3>2
    <3> QED BY <1>2, <2>1, <3>1, <3>3, BlockKeeps
  <2>2. CASE ~IsReady(d)
    <3>1. usStatus' = [usStatus EXCEPT ![d] = usStatus[d] \cup {"WDEATH"}] /\ inRing' = inRing
      BY <2>2 DEF WaitDeath
    <3>2. usStatus[d] # {} /\ usStatus[d] \cup {"WDEATH"} # {}
      BY <2>2 DEF IsReady
    <3> QED BY <1>1, <1>2, <3>1, <3>2 DEF IInv, TypeOK, Bits, ReadyRingOnce, IsReady
  <2> QED BY <2>1, <2>2
<1>5. TypeOK'
  BY <1>1, <1>3, <1>4 DEF IInv, TypeOK, Bits, Jobs
<1>6. PlaceInv'
  BY <1>1, <1>3 DEF IInv, PlaceInv
<1>7. JobInv'
  BY <1>1, <1>2, <1>3, <1>4 DEF IInv, JobInv
<1>8. SafeInv' /\ WaitInv'
  BY <1>1 DEF IInv, SafeInv, WaitInv
<1>9. JoinConsistent'
  BY <1>1, <1>4 DEF IInv, JoinConsistent
<1>10. DeleterAwaited'
  BY <1>1, <1>4 DEF IInv, DeleterAwaited
<1> QED BY <1>4, <1>5, <1>6, <1>7, <1>8, <1>9, <1>10 DEF IInv

(* The thread leaves the lists of others, and others leave its own.          *)
LEMMA ThreadUnlinkKeeps ==
  ASSUME IInv, NEW d \in Threads, ThreadUnlink(d)
  PROVE  IInv'
<1> DEFINE jwt == d \notin detached /\ joinHeader[d] = {} /\ ~autoRec /\ d \in posix
<1>1. /\ job[d].stage = "zombie"
      /\ deleteMe' = IF deleteWait[d] # Null THEN [deleteMe EXCEPT ![deleteWait[d]] = Gone]
                                             ELSE deleteMe
      /\ deleteWait' = [deleteWait EXCEPT ![d] = Null]
      /\ ptcbJoin' = [t \in Threads |-> IF t = d \/ t \in joinHeader[d] THEN Null ELSE ptcbJoin[t]]
      /\ joinHeader' = [t \in Threads |-> IF t = d THEN {} ELSE joinHeader[t] \ {d}]
      /\ table' = table \ {d}
      /\ detached' = detached \cup {d}
      /\ UNCHANGED <<autoRec, freed, twj, posix, safe, delProc, pc, excQ, ends>>
  BY DEF ThreadUnlink, StopWaiting, Disjoin
<1>2. /\ \A u \in Threads \ {d} : job'[u] = job[u]
      /\ job'[d].stage = "unlinked"
      /\ job' \in [Threads -> Jobs]
  <2>1. job \in [Threads -> Jobs] /\ job[d] \in Jobs
    BY DEF IInv, TypeOK, Jobs
  <2>3. job' = [job EXCEPT ![d] = [stage |-> "unlinked", by |-> job[d].by, jwt |-> jwt]]
    BY DEF ThreadUnlink
  <2>4. [stage |-> "unlinked", by |-> job[d].by, jwt |-> jwt] \in Jobs
    BY <2>1 DEF Jobs
  <2> QED BY <2>1, <2>3, <2>4
<1>3. d \in table /\ "WDEATH" \in usStatus[d] /\ delProc[d] = "DEL" /\ d \notin joinHeader[d]
  BY <1>1, NoThread DEF IInv, JobInv, WaitInv, JoinConsistent
<1>4. \A t \in joinHeader[d] : t \in Threads /\ t \in table /\ "JOIN" \in usStatus[t] /\ t # d
                               /\ ptcbJoin[t] = d
  BY <1>3, NoThread DEF IInv, TypeOK, JoinConsistent
<1>5. /\ usStatus' = [t \in Threads |-> CASE t = d -> {}
                                      [] t \in joinHeader[d] \ {d} -> usStatus[t] \ {"JOIN"}
                                      [] OTHER -> usStatus[t]]
      /\ inRing' = [t \in Threads |-> IF t \in joinHeader[d] /\ (t = d \/ usStatus[t] = {"JOIN"})
                                  THEN inRing[t] + 1 ELSE inRing[t]]
  BY DEF ThreadUnlink, Woken
<1>6. /\ usStatus'[d] = {} /\ inRing'[d] = inRing[d]
      /\ \A t \in joinHeader[d] : usStatus'[t] = usStatus[t] \ {"JOIN"}
      /\ \A t \in Threads \ {d} : t \notin joinHeader[d] =>
            usStatus'[t] = usStatus[t] /\ inRing'[t] = inRing[t]
  BY <1>3, <1>4, <1>5
<1>7. /\ \A t \in joinHeader[d] : inRing'[t] = IF usStatus'[t] = {} THEN 1 ELSE 0
      /\ inRing[d] = 0
  <2>1. \A t \in joinHeader[d] : inRing[t] = 0 /\ (usStatus[t] = {"JOIN"} <=> usStatus[t] \ {"JOIN"} = {})
    BY <1>4 DEF IInv, ReadyRingOnce, IsReady
  <2>2. inRing[d] = 0
    BY <1>3 DEF IInv, ReadyRingOnce, IsReady
  <2>3. \A t \in joinHeader[d] : inRing'[t] = IF usStatus[t] = {"JOIN"} THEN inRing[t] + 1 ELSE inRing[t]
    BY <1>4, <1>5
  <2> QED BY <2>1, <2>2, <2>3, <1>6
<1>8. ReadyRingOnce'
  BY <1>1, <1>3, <1>4, <1>6, <1>7 DEF IInv, ReadyRingOnce, IsReady
<1>9. TypeOK'
  <2>1. usStatus' \in [Threads -> SUBSET Bits]
    BY <1>4, <1>5 DEF IInv, TypeOK, Bits
  <2>2. inRing' \in [Threads -> {0, 1}]
    <3>1. \A t \in Threads : inRing'[t] \in {0, 1}
      BY <1>8 DEF ReadyRingOnce
    <3> QED BY <3>1, <1>5
  <2>3. /\ deleteMe' \in [Threads -> Threads \cup {Null, Gone}]
        /\ deleteWait' \in [Threads -> Threads \cup {Null}]
    BY <1>1 DEF IInv, TypeOK
  <2>4. /\ ptcbJoin' \in [Threads -> Threads \cup {Null}]
        /\ joinHeader' \in [Threads -> SUBSET Threads]
    BY <1>1 DEF IInv, TypeOK
  <2> QED BY <1>1, <1>2, <2>1, <2>2, <2>3, <2>4 DEF IInv, TypeOK, Bits, Jobs
<1>10. PlaceInv'
  BY <1>1, <1>2, <1>3 DEF IInv, PlaceInv
<1>11. JobInv'
  BY <1>1, <1>2, <1>3, <1>6 DEF IInv, JobInv
<1>12. SafeInv'
  BY <1>1 DEF IInv, SafeInv
<1>13. \A t \in Threads : deleteMe'[t] = deleteMe[t] \/ deleteMe'[t] = Gone
  <2>1. deleteMe \in [Threads -> Threads \cup {Null, Gone}]
    BY DEF IInv, TypeOK
  <2>2. CASE deleteWait[d] # Null
    BY <1>1, <2>1, <2>2
  <2>3. CASE deleteWait[d] = Null
    BY <1>1, <2>3
  <2> QED BY <2>2, <2>3
<1>14. WaitInv'
  BY <1>1, <1>13, NoThread DEF IInv, WaitInv
<1>15. JoinConsistent'
  <2> SUFFICES ASSUME NEW t \in Threads, NEW u \in Threads
               PROVE  /\ t \in joinHeader'[u] <=> ptcbJoin'[t] = u
                      /\ ptcbJoin'[t] = u => {t, u} \subseteq table \ {d}
                      /\ t \in table \ {d} => (ptcbJoin'[t] # Null <=> "JOIN" \in usStatus'[t])
    BY <1>1 DEF JoinConsistent
  <2>1. /\ t \in joinHeader[u] <=> ptcbJoin[t] = u
        /\ t \in joinHeader[d] <=> ptcbJoin[t] = d
        /\ ptcbJoin[t] = u => {t, u} \subseteq table
        /\ t \in table => (ptcbJoin[t] # Null <=> "JOIN" \in usStatus[t])
    BY DEF IInv, JoinConsistent
  <2>2. /\ ptcbJoin'[t] = (IF t = d \/ t \in joinHeader[d] THEN Null ELSE ptcbJoin[t])
        /\ joinHeader'[u] = IF u = d THEN {} ELSE joinHeader[u] \ {d}
    BY <1>1
  <2>3. CASE t = d
    BY <2>2, <2>3, NoThread
  <2>4. CASE t # d /\ t \in joinHeader[d]
    BY <2>1, <2>2, <2>4, <1>4, <1>6, NoThread
  <2>5. CASE t # d /\ t \notin joinHeader[d]
    BY <2>1, <2>2, <2>5, <1>6, NoThread
  <2> QED BY <2>3, <2>4, <2>5
<1>16. DeleterAwaited'
  <2> SUFFICES ASSUME NEW t \in Threads, NEW e \in Threads
               PROVE  /\ deleteWait'[t] = e => /\ {t, e} \subseteq table \ {d}
                                               /\ deleteMe'[e] = t /\ safe[e] > 0
                                               /\ "SUSPEND" \in usStatus'[t]
                      /\ deleteMe'[e] = t /\ t # e => deleteWait'[t] = e
    BY <1>1 DEF DeleterAwaited
  <2>1. /\ deleteWait[t] = e => /\ {t, e} \subseteq table
                                /\ deleteMe[e] = t /\ safe[e] > 0
                                /\ "SUSPEND" \in usStatus[t]
        /\ deleteMe[e] = t /\ t # e => deleteWait[t] = e
        /\ deleteWait[d] = e => deleteMe[e] = d
        /\ t # d => deleteMe[d] # t
    BY <1>3 DEF IInv, DeleterAwaited, WaitInv
  <2>2. /\ deleteWait'[t] = (IF t = d THEN Null ELSE deleteWait[t])
        /\ deleteMe'[e] = IF deleteWait[d] = e THEN Gone ELSE deleteMe[e]
    BY <1>1, NoThread DEF IInv, TypeOK
  <2>3. "SUSPEND" \in usStatus[t] /\ t # d => "SUSPEND" \in usStatus'[t]
    BY <1>6
  <2>4. CASE t = d
    BY <2>1, <2>2, <2>4, NoThread
  <2>5. CASE t # d
    BY <2>1, <2>2, <2>3, <2>5, NoThread
  <2> QED BY <2>4, <2>5
<1> QED BY <1>8, <1>9, <1>10, <1>11, <1>12, <1>14, <1>15, <1>16 DEF IInv

(* The TCB waits for a join or is free; whoever deleted it goes on.          *)
LEMMA ThreadReleaseKeeps ==
  ASSUME IInv, NEW d \in Threads, ThreadRelease(d)
  PROVE  IInv'
<1>1. /\ job[d].stage = "unlinked" /\ WorksOn(d)
      /\ safe' = [safe EXCEPT ![d] = 0]
      /\ deleteMe' = [deleteMe EXCEPT ![d] = Null]
      /\ deleteWait' = [deleteWait EXCEPT ![d] = Null]
      /\ delProc' = [delProc EXCEPT ![d] = "NONE"]
      /\ posix' = posix \ {d} /\ detached' = detached \ {d}
      /\ excQ' = (IF job[d].by = Exc THEN Tail(excQ) ELSE excQ)
      /\ pc' = [t \in Threads |-> CASE t = d -> "run" [] t = job[d].by -> "leave" [] OTHER -> pc[t]]
      /\ UNCHANGED <<autoRec, table, usStatus, inRing, ptcbJoin, joinHeader, ends>>
  BY DEF ThreadRelease, TCBBuild, EndWork, runVars, joinVars
<1>2. d \notin table /\ d \notin twj /\ freed[d] = 0
  BY <1>1 DEF IInv, PlaceInv
<1>3. job' \in [Threads -> Jobs] /\ job'[d] = NoJob
      /\ \A t \in Threads \ {d} : job'[t].stage = job[t].stage
  <2>1. job \in [Threads -> Jobs]
    BY DEF IInv, TypeOK, Jobs
  <2>2. job' = [t \in Threads |-> CASE t = d -> NoJob
                                 [] t # d /\ job[t].by = d -> [job[t] EXCEPT !.by = Null]
                                 [] OTHER -> job[t]]
    BY DEF ThreadRelease, EndWork
  <2>3. NoJob \in Jobs
    BY DEF NoJob, Jobs
  <2>4. \A t \in Threads : [job[t] EXCEPT !.by = Null] \in Jobs
                           /\ [job[t] EXCEPT !.by = Null].stage = job[t].stage
    BY <2>1, JobOfOther
  <2>5. \A t \in Threads \ {d} : job'[t] = job[t] \/ job'[t] = [job[t] EXCEPT !.by = Null]
    BY <2>2
  <2>6. job'[d] = NoJob
    BY <2>2
  <2>7. \A t \in Threads : job'[t] \in Jobs
    BY <2>1, <2>3, <2>4, <2>5, <2>6
  <2>8. job' = [t \in Threads |-> job'[t]]
    BY <2>2
  <2>9. job' \in [Threads -> Jobs]
    BY <2>7, <2>8
  <2>10. \A t \in Threads \ {d} : job'[t].stage = job[t].stage
    BY <2>4, <2>5
  <2> QED BY <2>6, <2>9, <2>10
<1>4. /\ pc'[d] = "run"
      /\ \A t \in Threads \ {d} : pc'[t] = IF t = job[d].by THEN "leave" ELSE pc[t]
      /\ pc' \in [Threads -> {"run", "hook", "works", "leave", "dying", "sleep"}]
  <2>1. pc \in [Threads -> {"run", "hook", "works", "leave", "dying", "sleep"}]
    BY DEF IInv, TypeOK
  <2> DEFINE b == job[d].by
  <2>0. pc' = [t \in Threads |-> CASE t = d -> "run" [] t = b -> "leave" [] OTHER -> pc[t]]
    BY <1>1
  <2> HIDE DEF b
  <2>a. b # d
    <3>1. CASE b = Exc
      BY <3>1, NoThread
    <3>2. CASE b # Exc
      BY <1>1, <1>2, <3>2 DEF WorksOn, At, b
    <3> QED BY <3>1, <3>2
  <2>2. pc'[d] = "run"
    BY <2>0, <2>a
  <2>3. \A t \in Threads \ {d} : pc'[t] = IF t = job[d].by THEN "leave" ELSE pc[t]
    BY <2>0 DEF b
  <2>4. \A t \in Threads : pc'[t] \in {"run", "hook", "works", "leave", "dying", "sleep"}
    BY <2>1, <2>2, <2>3
  <2>5. pc' = [t \in Threads |-> pc'[t]]
    BY <1>1
  <2>6. pc' \in [Threads -> {"run", "hook", "works", "leave", "dying", "sleep"}]
    BY <2>4, <2>5
  <2> QED BY <2>2, <2>3, <2>6
<1>5. \A t \in Threads : t = job[d].by => t # d /\ pc[t] = "works"
  BY <1>1, <1>2, NoThread DEF WorksOn, At
<1>6. /\ \A t \in Threads \ {d} : /\ safe'[t] = safe[t] /\ deleteMe'[t] = deleteMe[t]
                                 /\ deleteWait'[t] = deleteWait[t] /\ delProc'[t] = delProc[t]
      /\ safe'[d] = 0 /\ deleteMe'[d] = Null /\ deleteWait'[d] = Null /\ delProc'[d] = "NONE"
  BY <1>1 DEF IInv, TypeOK
<1>7. /\ \A t \in Threads \ {d} : freed'[t] = freed[t] /\ (t \in twj' <=> t \in twj)
      /\ (d \in twj' /\ freed'[d] = 0) \/ (d \notin twj' /\ freed'[d] = 1)
      /\ freed' \in [Threads -> {0, 1}] /\ twj' \subseteq Threads
  <2>1. CASE job[d].jwt
    <3>1. twj' = twj \cup {d} /\ freed' = freed
      BY <2>1 DEF ThreadRelease
    <3>2. freed \in [Threads -> {0, 1}] /\ twj \subseteq Threads
      BY DEF IInv, TypeOK
    <3>3. d \in twj' /\ freed'[d] = 0
      BY <3>1, <1>2
    <3>4. \A t \in Threads \ {d} : freed'[t] = freed[t] /\ (t \in twj' <=> t \in twj)
      BY <3>1
    <3>5. freed' \in [Threads -> {0, 1}] /\ twj' \subseteq Threads
      BY <3>1, <3>2
    <3> QED BY <3>3, <3>4, <3>5
  <2>2. CASE ~job[d].jwt
    <3>1. twj' = twj /\ freed' = [freed EXCEPT ![d] = freed[d] + 1]
      BY <2>2 DEF ThreadRelease
    <3> QED BY <3>1, <1>2 DEF IInv, TypeOK
  <2> QED BY <2>1, <2>2
<1>8. TypeOK'
  <2>1. excQ' \in Seq(Threads)
    <3>1. excQ \in Seq(Threads)
      BY DEF IInv, TypeOK
    <3>2. job[d].by = Exc => excQ # <<>>
      BY <1>1 DEF WorksOn
    <3> QED BY <1>1, <3>1, <3>2
  <2>2. safe' \in [Threads -> 0 .. MaxSafe + 1]
    BY <1>1, ThreadLifeAssumption DEF IInv, TypeOK
  <2> QED BY <1>1, <1>3, <1>4, <1>7, <2>1, <2>2 DEF IInv, TypeOK, Jobs
<1>9. PlaceInv'
  <2>1. job'[d].stage = "none"
    BY <1>3 DEF NoJob
  <2> QED BY <1>1, <1>2, <1>3, <1>7, <2>1 DEF IInv, PlaceInv
<1>10. JobInv'
  <2>1. job'[d].stage = "none"
    BY <1>3 DEF NoJob
  <2> QED BY <1>1, <1>3, <1>4, <1>6, <2>1 DEF IInv, JobInv
<1>11. SafeInv'
  BY <1>4, <1>5, <1>6, ThreadLifeAssumption DEF IInv, SafeInv
<1>12. WaitInv'
  BY <1>1, <1>6 DEF IInv, WaitInv
<1>13. ReadyRingOnce' /\ JoinConsistent'
  BY <1>1 DEF IInv, ReadyRingOnce, IsReady, JoinConsistent
<1>14. DeleterAwaited'
  BY <1>1, <1>2, <1>6, NoThread DEF IInv, DeleterAwaited
<1> QED BY <1>8, <1>9, <1>10, <1>11, <1>12, <1>13, <1>14 DEF IInv

-----------------------------------------------------------------------------
(* The specification.                                                        *)

(* The initial states.                                                       *)
LEMMA InitHolds == ASSUME Init PROVE IInv
<1>1. TypeOK
  <2>1. NoJob \in Jobs
    BY DEF NoJob, Jobs
  <2>2. job \in [Threads -> Jobs]
    BY <2>1 DEF Init
  <2>3. safe \in [Threads -> 0 .. MaxSafe + 1] /\ ends \in 0 .. MaxEnds
    BY ThreadLifeAssumption DEF Init
  <2>4. excQ \in Seq(Threads)
    BY DEF Init
  <2>5. autoRec \in AutoRec /\ table \subseteq Threads
    BY DEF Init
  <2> QED BY <2>2, <2>3, <2>4, <2>5 DEF Init, TypeOK, Jobs
<1>2. \A t \in Threads : job[t].stage = "none"
  BY DEF Init, NoJob
<1>3. PlaceInv
  BY <1>2 DEF Init, PlaceInv
<1>4. JobInv
  BY <1>2 DEF Init, JobInv
<1>5. SafeInv
  BY ThreadLifeAssumption DEF Init, SafeInv
<1>6. WaitInv /\ JoinConsistent /\ DeleterAwaited
  BY NoThread DEF Init, WaitInv, JoinConsistent, DeleterAwaited
<1>7. ReadyRingOnce
  BY DEF Init, ReadyRingOnce, IsReady
<1> QED BY <1>1, <1>3, <1>4, <1>5, <1>6, <1>7 DEF IInv

(* Every step keeps the invariant.                                           *)
LEMMA NextKeeps == ASSUME ForcesAwaited = FALSE, IInv, [Next]_vars PROVE IInv'
<1>1. CASE UNCHANGED vars
  <2>1. UNCHANGED <<autoRec, freed, table, twj, posix, detached, usStatus, inRing, ptcbJoin,
                    joinHeader, safe, deleteMe, deleteWait, delProc, pc, job, excQ, ends>>
    BY <1>1 DEF vars, tcbVars, runVars, joinVars, safeVars, procVars
  <2> QED BY <2>1 DEF IInv, TypeOK, PlaceInv, JobInv, SafeInv, WaitInv, ReadyRingOnce, IsReady,
                      JoinConsistent, DeleterAwaited
<1>2. ASSUME NEW c \in Threads, NEW t \in Threads,
             \/ ThreadCreate(c, t)
             \/ \E bJoin \in BOOLEAN : ThreadStart(c, t, bJoin)
             \/ ThreadJoin(c, t) \/ ThreadDetach(c, t) \/ ThreadDelete(c, t)
             \/ ThreadForceDelete(c, t)
      PROVE  IInv'
  BY <1>2, ThreadCreateKeeps, ThreadStartKeeps, ThreadJoinKeeps, ThreadDetachKeeps,
     ThreadDeleteKeeps, ThreadForceDeleteKeeps
<1>3. ASSUME NEW t \in Threads,
             \/ SignalExit(t) \/ ThreadSafe(t) \/ ThreadUnsafe(t) \/ ExcJobAdd(t) \/ Work(t)
      PROVE  IInv'
  BY <1>3, SignalExitKeeps, ThreadSafeKeeps, ThreadUnsafeKeeps, ExcJobAddKeeps, WaitDeathKeeps,
     ThreadUnlinkKeeps, ThreadReleaseKeeps DEF Work
<1> QED BY <1>1, <1>2, <1>3 DEF Next

(* The invariant holds in every state, for any number of TCBs, deletions and *)
(* nested safe modes, as long as nobody deletes by force a thread that a     *)
(* deleter waits for (API_ThreadForceDelete does not resume that deleter).   *)
THEOREM InvariantAlways == ASSUME ForcesAwaited = FALSE PROVE Spec => []IInv
<1>1. Init => IInv
  BY InitHolds
<1>2. IInv /\ [Next]_vars => IInv'
  BY NextKeeps
<1> QED BY <1>1, <1>2, PTL DEF Spec

(* The variables of ThreadLife have their types: no TCB is linked twice into *)
(* a ready ring or the free list, and the counter of safe mode, which is     *)
(* unsigned in the code, is never counted below zero by the paths that leave *)
(* safe mode without a test.                                                 *)
THEOREM TypeCorrect == ASSUME ForcesAwaited = FALSE PROVE Spec => []TypeOK
<1>1. IInv => TypeOK
  BY DEF IInv
<1> QED BY <1>1, InvariantAlways, PTL

(* A thread is in the ready ring once if it is ready and not at all if it is *)
(* blocked or over, whatever joins, detaches, signals and deletions do.      *)
THEOREM ReadyRingCorrect == ASSUME ForcesAwaited = FALSE PROVE Spec => []ReadyRingOnce
<1>1. IInv => ReadyRingOnce
  BY DEF IInv
<1> QED BY <1>1, InvariantAlways, PTL

(* The lists of threads that join, TCB_ptcbJoin and the status agree, and no *)
(* list holds a TCB that is over.                                            *)
THEOREM JoinCorrect == ASSUME ForcesAwaited = FALSE PROVE Spec => []JoinConsistent
<1>1. IInv => JoinConsistent
  BY DEF IInv
<1> QED BY <1>1, InvariantAlways, PTL

(* TCB_ptcbDeleteMe and TCB_ptcbDeleteWait point to each other.              *)
THEOREM DeleterCorrect == ASSUME ForcesAwaited = FALSE PROVE Spec => []DeleterAwaited
<1>1. IInv => DeleterAwaited
  BY DEF IInv
<1> QED BY <1>1, InvariantAlways, PTL

-----------------------------------------------------------------------------
(* Who does which deletion.                                                  *)

Busy(u) == \E t \in Threads : job[t].by = u
Over(u) == job[u].stage \in {"zombie", "unlinked"}

NoWorkOnFree == \A t \in Threads : job[t].stage = "none" => job[t].by = Null

(* The exception thread has the jobs it was given.                           *)
ExcHasJobs ==
  \A t \in Threads : job[t].by = Exc => \E i \in 1..Len(excQ) : excQ[i] = t

(* A thread that runs its own hooks, or deletes another one, is ready until  *)
(* it is over.                                                               *)
HooksRun ==
  \A t \in Threads : job[t].by = t =>
    job[t].stage = "marked" /\ pc[t] = "hook" /\ t \in table /\ IsReady(t)
WorkersWork ==
  \A t, c \in Threads : job[t].by = c /\ c # t =>
    pc[c] = "works" /\ (Over(c) \/ (c \in table /\ IsReady(c)))

(* A thread does one deletion at a time.                                     *)
OneWorkEach == \A t, u, c \in Threads : job[t].by = c /\ job[u].by = c => u = t

WorkInv == NoWorkOnFree /\ ExcHasJobs /\ HooksRun /\ WorkersWork /\ OneWorkEach

(* A step that leaves the deletions and those who do them alone.             *)
JobStill ==
  /\ UNCHANGED <<job, excQ>>
  /\ \A u \in Threads : Busy(u) =>
       /\ pc'[u] = pc[u]
       /\ u \in table /\ IsReady(u) => u \in table' /\ IsReady(u)'

LEMMA WorkStill ==
  ASSUME WorkInv, JobStill
  PROVE  WorkInv'
<1>1. job' = job /\ excQ' = excQ
  BY DEF JobStill
<1>2. (NoWorkOnFree /\ ExcHasJobs /\ OneWorkEach)'
  BY <1>1 DEF WorkInv, NoWorkOnFree, ExcHasJobs, OneWorkEach
<1>3. HooksRun'
  BY <1>1 DEF WorkInv, HooksRun, JobStill, Busy, IsReady
<1>4. WorkersWork'
  BY <1>1 DEF WorkInv, WorkersWork, JobStill, Busy, IsReady, Over
<1> QED BY <1>2, <1>3, <1>4 DEF WorkInv

(* A thread that executes a call of the application deletes nobody.          *)
LEMMA NotBusy ==
  ASSUME IInv, WorkInv, NEW c \in Threads, pc[c] \notin {"works", "hook"}
  PROVE  ~Busy(c)
  BY DEF WorkInv, HooksRun, WorkersWork, Busy

(* A TCB that is not used deletes nobody.                                    *)
LEMMA FreeNotBusy ==
  ASSUME IInv, WorkInv, NEW c \in Threads, c \notin table, job[c].stage = "none"
  PROVE  ~Busy(c)
  BY DEF WorkInv, HooksRun, WorkersWork, Busy, Over

(* Steps that only take status bits off, or block the thread that executes.  *)
LEMMA StillStep ==
  ASSUME IInv, WorkInv, UNCHANGED <<table, job, excQ>>, NEW c \in Threads, ~Busy(c),
         \A u \in Threads \ {c} : pc'[u] = pc[u] /\ usStatus'[u] \subseteq usStatus[u]
  PROVE  JobStill
  BY DEF JobStill, IsReady

(* The deletions go on, or a step is one of theirs.                          *)
LEMMA NextJobs ==
  ASSUME IInv, WorkInv, [Next]_vars
  PROVE  \/ JobStill
         \/ \E c, d \in Threads : /\ c \in table /\ IsReady(c) /\ pc[c] \in {"run", "dying"}
                                  /\ delProc[d] = "NONE" /\ Mark(c, d)
         \/ \E d \in Threads : ExcJobAdd(d) \/ Work(d)
<1>t. usStatus \in [Threads -> SUBSET {"INIT", "JOIN", "SUSPEND", "WDEATH"}]
      /\ pc \in [Threads -> {"run", "hook", "works", "leave", "dying", "sleep"}]
  BY DEF IInv, TypeOK
<1>1. CASE UNCHANGED vars
  <2>1. UNCHANGED <<job, excQ, pc, table, usStatus>>
    BY <1>1 DEF vars, tcbVars, runVars, procVars
  <2> QED BY <2>1 DEF JobStill, IsReady
<1>2. ASSUME NEW c \in Threads, NEW t \in Threads, ThreadCreate(c, t) PROVE JobStill
  <2>1. t \notin table /\ job[t].stage = "none"
    BY <1>2 DEF IInv, TypeOK, PlaceInv, JobInv, ThreadCreate
  <2>2. ~Busy(t)
    BY <2>1, FreeNotBusy
  <2>3. UNCHANGED <<job, excQ>> /\ table' = table \cup {t}
        /\ \A u \in Threads \ {t} : pc'[u] = pc[u] /\ usStatus'[u] = usStatus[u]
    BY <1>2, <1>t DEF ThreadCreate
  <2> QED BY <2>2, <2>3 DEF JobStill, IsReady
<1>3. ASSUME NEW c \in Threads, NEW t \in Threads,
             \/ \E bJoin \in BOOLEAN : ThreadStart(c, t, bJoin)
             \/ ThreadJoin(c, t) \/ ThreadDetach(c, t)
      PROVE  JobStill
  <2>1. pc[c] = "run" /\ UNCHANGED <<table, job, excQ, pc>>
    BY <1>3 DEF ThreadStart, ThreadJoin, ThreadDetach, At, Reap, tcbVars, procVars
  <2>2. \A u \in Threads \ {c} : usStatus'[u] \subseteq usStatus[u]
    <3>1. CASE \E bJoin \in BOOLEAN : ThreadStart(c, t, bJoin)
      BY <1>t, <3>1 DEF ThreadStart
    <3>2. CASE ThreadJoin(c, t)
      BY <1>t, <3>2 DEF ThreadJoin, Block, Reap, runVars
    <3>3. CASE ThreadDetach(c, t)
      BY <1>t, <3>3 DEF ThreadDetach, Unblock, Reap, runVars
    <3> QED BY <1>3, <3>1, <3>2, <3>3
  <2>3. ~Busy(c)
    BY <2>1, NotBusy
  <2> QED BY <2>1, <2>2, <2>3, StillStep
<1>4. ASSUME NEW t \in Threads, SignalExit(t) \/ ThreadSafe(t) PROVE JobStill
  <2>1. UNCHANGED <<table, job, excQ, pc>> /\ \A u \in Threads : usStatus'[u] \subseteq usStatus[u]
    BY <1>4, <1>t DEF SignalExit, ThreadSafe, Unblock, tcbVars, runVars, procVars
  <2> QED BY <2>1 DEF JobStill, IsReady
<1>5. ASSUME NEW t \in Threads, ThreadUnsafe(t) PROVE JobStill
  <2>1. pc[t] \in {"leave", "run"} /\ UNCHANGED <<table, job, excQ>>
    BY <1>5 DEF ThreadUnsafe, At, tcbVars
  <2>2. \A u \in Threads \ {t} : pc'[u] = pc[u] /\ usStatus'[u] \subseteq usStatus[u]
    BY <1>5, <1>t DEF ThreadUnsafe, Unblock
  <2>3. ~Busy(t)
    BY <2>1, NotBusy
  <2> QED BY <2>1, <2>2, <2>3, StillStep
<1>6. ASSUME NEW c \in Threads, NEW d \in Threads, ThreadDelete(c, d) \/ ThreadForceDelete(c, d)
      PROVE  \/ JobStill
             \/ /\ c \in table /\ IsReady(c) /\ pc[c] \in {"run", "dying"}
                /\ delProc[d] = "NONE" /\ Mark(c, d)
  <2>1. c \in table /\ IsReady(c) /\ pc[c] \in {"run", "dying"}
    BY <1>6 DEF ThreadDelete, ThreadForceDelete, At
  <2>2. ~Busy(c)
    BY <2>1, NotBusy
  <2>3. CASE c = d /\ SleepsForEver(c)
    <3>1. UNCHANGED <<table, job, excQ, usStatus>> /\ \A u \in Threads \ {c} : pc'[u] = pc[u]
      BY <2>3, <1>t DEF SleepsForEver, tcbVars, runVars
    <3> QED BY <2>2, <3>1, StillStep
  <2>4. CASE AskToDelete(c, d)
    <3>1. UNCHANGED <<table, job, excQ, pc>> /\ \A u \in Threads \ {c} : usStatus'[u] = usStatus[u]
      BY <2>4, <1>t DEF AskToDelete, Block, tcbVars, runVars, procVars
    <3> QED BY <2>2, <3>1, StillStep
  <2>5. CASE delProc[d] = "NONE" /\ Mark(c, d)
    BY <2>1, <2>5
  <2> QED BY <1>6, <2>3, <2>4, <2>5 DEF ThreadDelete, ThreadForceDelete
<1> QED BY <1>1, <1>2, <1>3, <1>4, <1>5, <1>6 DEF Next

(* The exception thread is not the null pointer.                             *)
LEMMA ExcNotNull == Exc # Null
<1>1. ASSUME Exc = Null PROVE FALSE
  <2>1. {Null, Gone, Exc} = {Null, Gone}
    BY <1>1
  <2>2. IsFiniteSet({Null}) /\ Cardinality({Null}) = 1
    BY FS_Singleton
  <2>3. /\ IsFiniteSet({Null} \cup {Gone})
        /\ Cardinality({Null} \cup {Gone}) = IF Gone \in {Null} THEN 1 ELSE 2
    BY <2>2, FS_AddElement
  <2>4. {Null} \cup {Gone} = {Null, Gone}
    OBVIOUS
  <2>5. Cardinality({Null, Gone, Exc}) # 3
    BY <2>1, <2>3, <2>4
  <2> QED BY <2>5, ThreadLifeAssumption
<1> QED BY <1>1

(* A thread takes up a deletion, or begins its own.                          *)
LEMMA MarkWork ==
  ASSUME IInv, WorkInv, NEW c \in Threads, NEW d \in Threads, c \in table, IsReady(c),
         pc[c] \in {"run", "dying"}, delProc[d] = "NONE", Mark(c, d)
  PROVE  WorkInv'
<1>1. /\ job' = [job EXCEPT ![d] = [stage |-> "marked", by |-> c, jwt |-> FALSE]]
      /\ pc' = [pc EXCEPT ![c] = IF c = d THEN "hook" ELSE "works"]
      /\ UNCHANGED <<table, usStatus, excQ>>
      /\ job \in [Threads -> Jobs]
      /\ pc \in [Threads -> {"run", "hook", "works", "leave", "dying", "sleep"}]
  BY DEF Mark, tcbVars, runVars, IInv, TypeOK, Jobs
<1>2. job[d].stage = "none" /\ job[d].by = Null
  BY DEF IInv, JobInv, WorkInv, NoWorkOnFree
<1>3. \A t \in Threads : job[t].by # c
  BY NotBusy DEF Busy
<1>4. /\ \A t \in Threads : /\ job'[t].by = IF t = d THEN c ELSE job[t].by
                            /\ job'[t].stage = IF t = d THEN "marked" ELSE job[t].stage
      /\ pc'[c] = IF c = d THEN "hook" ELSE "works"
      /\ \A t \in Threads \ {c} : pc'[t] = pc[t]
  BY <1>1
<1>5. NoWorkOnFree'
  BY <1>4 DEF WorkInv, NoWorkOnFree
<1>6. ExcHasJobs'
  BY <1>1, <1>4, NoThread DEF WorkInv, ExcHasJobs
<1>7. HooksRun'
  BY <1>1, <1>3, <1>4 DEF WorkInv, HooksRun, IsReady
<1>8. WorkersWork'
  <2> SUFFICES ASSUME NEW t \in Threads, NEW u \in Threads, job'[t].by = u, u # t
               PROVE  pc'[u] = "works" /\ (Over(u)' \/ (u \in table' /\ IsReady(u)'))
    BY DEF WorkersWork
  <2>1. CASE t = d
    <3>1. u = c /\ pc'[u] = "works"
      BY <1>4, <2>1
    <3> QED BY <1>1, <3>1 DEF IsReady
  <2>2. CASE t # d
    <3>1. job[t].by = u /\ u # c /\ pc'[u] = pc[u]
      BY <1>3, <1>4, <2>2
    <3>2. pc[u] = "works" /\ (Over(u) \/ (u \in table /\ IsReady(u)))
      BY <3>1 DEF WorkInv, WorkersWork
    <3>3. Over(u) => Over(u)'
      BY <1>2, <1>4 DEF Over
    <3>4. u \in table /\ IsReady(u) => u \in table' /\ IsReady(u)'
      BY <1>1 DEF IsReady
    <3> QED BY <3>1, <3>2, <3>3, <3>4
  <2> QED BY <2>1, <2>2
<1>9. OneWorkEach'
  BY <1>3, <1>4 DEF WorkInv, OneWorkEach
<1> QED BY <1>5, <1>6, <1>7, <1>8, <1>9 DEF WorkInv

(* A thread that has run its hooks gives its deletion to the exception       *)
(* thread.                                                                   *)
LEMMA ExcJobAddWork ==
  ASSUME IInv, WorkInv, NEW d \in Threads, ExcJobAdd(d)
  PROVE  WorkInv'
<1>1. /\ pc[d] = "hook" /\ pc' = [pc EXCEPT ![d] = "sleep"]
      /\ job' = [job EXCEPT ![d].by = Exc]
      /\ excQ' = Append(excQ, d)
      /\ UNCHANGED <<table, usStatus>>
      /\ job \in [Threads -> Jobs] /\ excQ \in Seq(Threads)
      /\ pc \in [Threads -> {"run", "hook", "works", "leave", "dying", "sleep"}]
  BY DEF ExcJobAdd, At, tcbVars, runVars, IInv, TypeOK, Jobs
<1>2. job[d].stage # "none"
  BY <1>1 DEF IInv, JobInv
<1>3. /\ \A t \in Threads : /\ job'[t].by = IF t = d THEN Exc ELSE job[t].by
                            /\ job'[t].stage = job[t].stage
      /\ \A t \in Threads \ {d} : pc'[t] = pc[t]
  BY <1>1 DEF Jobs
<1>4. \A t \in Threads \ {d} : job[t].by # d
  BY <1>1 DEF WorkInv, WorkersWork
<1>5. /\ \A i \in 1..Len(excQ) : i \in 1..Len(excQ') /\ excQ'[i] = excQ[i]
      /\ \E i \in 1..Len(excQ') : excQ'[i] = d
  <2>1. Len(excQ') = Len(excQ) + 1 /\ Len(excQ) \in Nat
    BY <1>1
  <2>2. excQ'[Len(excQ) + 1] = d /\ \A i \in 1..Len(excQ) : excQ'[i] = excQ[i]
    BY <1>1
  <2> QED BY <2>1, <2>2
<1>6. NoWorkOnFree'
  BY <1>2, <1>3 DEF WorkInv, NoWorkOnFree
<1>7. ExcHasJobs'
  <2> SUFFICES ASSUME NEW t \in Threads, job'[t].by = Exc
               PROVE  \E i \in 1..Len(excQ') : excQ'[i] = t
    BY DEF ExcHasJobs
  <2>1. CASE t = d
    BY <1>5, <2>1
  <2>2. CASE t # d
    <3>1. PICK i \in 1..Len(excQ) : excQ[i] = t
      BY <1>3, <2>2 DEF WorkInv, ExcHasJobs
    <3> QED BY <1>5, <3>1
  <2> QED BY <2>1, <2>2
<1>8. HooksRun'
  BY <1>1, <1>3, NoThread DEF WorkInv, HooksRun, IsReady
<1>9. WorkersWork'
  <2> SUFFICES ASSUME NEW t \in Threads, NEW u \in Threads, job'[t].by = u, u # t
               PROVE  pc'[u] = "works" /\ (Over(u)' \/ (u \in table' /\ IsReady(u)'))
    BY DEF WorkersWork
  <2>1. t # d /\ job[t].by = u
    BY <1>3, NoThread
  <2>2. u # d /\ pc[u] = "works" /\ (Over(u) \/ (u \in table /\ IsReady(u)))
    BY <1>4, <2>1 DEF WorkInv, WorkersWork
  <2>3. pc'[u] = pc[u] /\ (Over(u) => Over(u)')
    BY <1>3, <2>2 DEF Over
  <2>4. u \in table /\ IsReady(u) => u \in table' /\ IsReady(u)'
    BY <1>1 DEF IsReady
  <2> QED BY <2>2, <2>3, <2>4
<1>10. OneWorkEach'
  BY <1>3, NoThread DEF WorkInv, OneWorkEach
<1> QED BY <1>6, <1>7, <1>8, <1>9, <1>10 DEF WorkInv

(* A zombie does not do deletions any more; who does its deletion goes on.   *)
LEMMA StageWork ==
  ASSUME IInv, WorkInv, NEW d \in Threads, job[d].by # d, UNCHANGED <<pc, excQ>>,
         Over(d)',
         \A t \in Threads : job'[t].by = job[t].by,
         \A t \in Threads \ {d} : /\ job'[t].stage = job[t].stage
                                  /\ t \in table => t \in table'
                                  /\ IsReady(t) => IsReady(t)'
  PROVE  WorkInv'
<1>1. NoWorkOnFree'
  BY DEF WorkInv, NoWorkOnFree, Over
<1>2. ExcHasJobs'
  BY DEF WorkInv, ExcHasJobs
<1>3. HooksRun'
  BY DEF WorkInv, HooksRun
<1>4. WorkersWork'
  <2>1. \A c \in Threads : Over(c) \/ (c \in table /\ IsReady(c)) =>
                             Over(c)' \/ (c \in table' /\ IsReady(c)')
    BY DEF Over
  <2> QED BY <2>1 DEF WorkInv, WorkersWork
<1>5. OneWorkEach'
  BY DEF WorkInv, OneWorkEach
<1> QED BY <1>1, <1>2, <1>3, <1>4, <1>5 DEF WorkInv

LEMMA WaitDeathWork ==
  ASSUME IInv, WorkInv, NEW d \in Threads, WaitDeath(d)
  PROVE  WorkInv'
<1>1. /\ job[d].stage = "marked" /\ WorksOn(d)
      /\ job' = [job EXCEPT ![d].stage = "zombie"]
      /\ UNCHANGED <<table, pc, excQ>>
      /\ job \in [Threads -> Jobs] /\ usStatus \in [Threads -> SUBSET Bits]
  BY DEF WaitDeath, tcbVars, IInv, TypeOK, Jobs, Bits
<1>2. job[d].by # d
  BY <1>1, NoThread DEF WorksOn, At, WorkInv, HooksRun
<1>3. \A t \in Threads \ {d} : usStatus'[t] = usStatus[t]
  BY <1>1 DEF WaitDeath, Block
<1>4. /\ job'[d].stage = "zombie"
      /\ \A t \in Threads : job'[t].by = job[t].by
      /\ \A t \in Threads \ {d} : job'[t].stage = job[t].stage
  BY <1>1 DEF Jobs
<1> QED BY <1>1, <1>2, <1>3, <1>4, StageWork DEF Over, IsReady

LEMMA ThreadUnlinkWork ==
  ASSUME IInv, WorkInv, NEW d \in Threads, ThreadUnlink(d)
  PROVE  WorkInv'
<1>1. /\ job[d].stage = "zombie"
      /\ table' = table \ {d} /\ UNCHANGED <<pc, excQ>>
      /\ job \in [Threads -> Jobs] /\ usStatus \in [Threads -> SUBSET Bits]
  BY DEF ThreadUnlink, IInv, TypeOK, Jobs, Bits
<1>2. job[d].by # d
  BY <1>1 DEF WorkInv, HooksRun
<1>3. \A t \in Threads \ {d} : usStatus'[t] \subseteq usStatus[t]
  BY <1>1 DEF ThreadUnlink
<1>4. /\ job'[d].stage = "unlinked"
      /\ \A t \in Threads : job'[t].by = job[t].by
      /\ \A t \in Threads \ {d} : job'[t].stage = job[t].stage
  <2>1. PICK j \in BOOLEAN :
          job' = [job EXCEPT ![d] = [stage |-> "unlinked", by |-> job[d].by, jwt |-> j]]
    BY DEF ThreadUnlink
  <2> QED BY <1>1, <2>1
<1> QED BY <1>1, <1>2, <1>3, <1>4, StageWork DEF Over, IsReady

(* The TCB is released.  Who did the work does no other, and what d itself   *)
(* had begun has nobody to go on with it.                                    *)
LEMMA ThreadReleaseWork ==
  ASSUME IInv, WorkInv, NEW d \in Threads, ThreadRelease(d)
  PROVE  WorkInv'
<1>1. /\ job[d].stage = "unlinked" /\ WorksOn(d)
      /\ excQ' = (IF job[d].by = Exc THEN Tail(excQ) ELSE excQ)
      /\ UNCHANGED <<table, usStatus>>
      /\ job \in [Threads -> Jobs] /\ excQ \in Seq(Threads)
      /\ job' = [t \in Threads |-> CASE t = d -> NoJob
                                     [] t # d /\ job[t].by = d -> [job[t] EXCEPT !.by = Null]
                                     [] OTHER -> job[t]]
      /\ pc' = [t \in Threads |-> CASE t = d -> "run" [] t = job[d].by -> "leave" [] OTHER -> pc[t]]
  BY DEF ThreadRelease, EndWork, runVars, IInv, TypeOK, Jobs
<1>2. \A t \in Threads \ {d} : /\ job'[t].stage = job[t].stage
                               /\ job'[t].by = IF job[t].by = d THEN Null ELSE job[t].by
  <2>1. \A t \in Threads : /\ [job[t] EXCEPT !.by = Null].stage = job[t].stage
                           /\ [job[t] EXCEPT !.by = Null].by = Null
    BY <1>1 DEF Jobs
  <2>2. \A t \in Threads \ {d} : job'[t] = IF job[t].by = d THEN [job[t] EXCEPT !.by = Null] ELSE job[t]
    BY <1>1
  <2> QED BY <2>1, <2>2
<1>3. job'[d].stage = "none" /\ job'[d].by = Null
  BY <1>1 DEF NoJob
<1>4. job[d].by # d
  BY <1>1 DEF WorkInv, HooksRun
<1>5. \A u \in Threads \ {d} : u # job[d].by => pc'[u] = pc[u]
  BY <1>1
<1>6. \A t, c \in Threads : job'[t].by = c => t # d /\ c # d /\ job[t].by = c
  BY <1>2, <1>3, NoThread
<1>7. \A t, c \in Threads : job'[t].by = c => c # job[d].by
  BY <1>6 DEF WorkInv, OneWorkEach
<1>8. NoWorkOnFree'
  BY <1>2, <1>3 DEF WorkInv, NoWorkOnFree
<1>9. ExcHasJobs'
  <2> SUFFICES ASSUME NEW t \in Threads, job'[t].by = Exc
               PROVE  \E i \in 1..Len(excQ') : excQ'[i] = t
    BY DEF ExcHasJobs
  <2>1. t # d /\ job[t].by = Exc
    BY <1>2, <1>3, ExcNotNull
  <2>2. PICK i \in 1..Len(excQ) : excQ[i] = t
    BY <2>1 DEF WorkInv, ExcHasJobs
  <2>3. CASE job[d].by # Exc
    BY <1>1, <2>2, <2>3
  <2>4. CASE job[d].by = Exc
    <3>1. excQ # <<>> /\ Head(excQ) = d /\ excQ' = Tail(excQ)
      BY <1>1, <2>4 DEF WorksOn
    <3>2. excQ[1] = d /\ Len(excQ') = Len(excQ) - 1 /\ Len(excQ) \in Nat
      BY <1>1, <3>1
    <3>3. i # 1 /\ i - 1 \in 1..Len(excQ')
      BY <2>1, <2>2, <3>2
    <3>4. excQ'[i - 1] = excQ[i]
      BY <1>1, <3>1, <3>2, <3>3
    <3> QED BY <2>2, <3>3, <3>4
  <2> QED BY <2>3, <2>4
<1>10. HooksRun'
  BY <1>1, <1>2, <1>5, <1>6, <1>7 DEF WorkInv, HooksRun, IsReady
<1>11. WorkersWork'
  <2> SUFFICES ASSUME NEW t \in Threads, NEW u \in Threads, job'[t].by = u, u # t
               PROVE  pc'[u] = "works" /\ (Over(u)' \/ (u \in table' /\ IsReady(u)'))
    BY DEF WorkersWork
  <2>1. job[t].by = u /\ u # d /\ pc'[u] = pc[u]
    BY <1>5, <1>6, <1>7
  <2>2. pc[u] = "works" /\ (Over(u) \/ (u \in table /\ IsReady(u)))
    BY <2>1 DEF WorkInv, WorkersWork
  <2>3. Over(u) => Over(u)'
    BY <1>2, <2>1 DEF Over
  <2>4. u \in table /\ IsReady(u) => u \in table' /\ IsReady(u)'
    BY <1>1 DEF IsReady
  <2> QED BY <2>1, <2>2, <2>3, <2>4
<1>12. OneWorkEach'
  BY <1>6 DEF WorkInv, OneWorkEach
<1> QED BY <1>8, <1>9, <1>10, <1>11, <1>12 DEF WorkInv

LEMMA NextWork ==
  ASSUME IInv, WorkInv, [Next]_vars
  PROVE  WorkInv'
  BY NextJobs, WorkStill, MarkWork, ExcJobAddWork, WaitDeathWork, ThreadUnlinkWork,
     ThreadReleaseWork DEF Work

LEMMA WorkAlways == ASSUME ForcesAwaited = FALSE PROVE Spec => []WorkInv
<1>1. Init => WorkInv
  <2> SUFFICES ASSUME Init PROVE WorkInv
    OBVIOUS
  <2>1. \A t \in Threads : job[t].stage = "none" /\ job[t].by = Null
    BY DEF Init, NoJob
  <2> QED BY <2>1, NoThread, ExcNotNull
          DEF WorkInv, NoWorkOnFree, ExcHasJobs, HooksRun, WorkersWork, OneWorkEach
<1>2. IInv /\ WorkInv /\ [Next]_vars => WorkInv'
  BY NextWork
<1> QED BY <1>1, <1>2, InvariantAlways, PTL DEF Spec

(* A deletion that has begun goes on, unless the thread that does it is      *)
(* itself over: no exit, deletion, join or detach in between makes the one   *)
(* who does it wait or forget it.                                            *)
THEOREM DeletionGoesOnCorrect == ASSUME ForcesAwaited = FALSE PROVE Spec => []DeletionGoesOn
<1>1. IInv /\ WorkInv => DeletionGoesOn
  <2> SUFFICES ASSUME IInv, WorkInv, NEW t \in Threads, job[t].stage # "none"
               PROVE  GoesOn(t) \/ Abandoned(t)
    BY DEF DeletionGoesOn
  <2>1. job[t].by \in Threads \cup {Null, Exc}
    BY DEF IInv, TypeOK
  <2> QED BY <2>1, NoThread
          DEF WorkInv, ExcHasJobs, HooksRun, WorkersWork, GoesOn, Abandoned, At, Over
<1> QED BY <1>1, InvariantAlways, WorkAlways, PTL

(* A TCB is in one place, and so none is handed out twice: a table, the free *)
(* list, or the hands of a deletion that goes on.  It is in none of them     *)
(* only if the thread that had unlinked it was deleted before it was done.   *)
THEOREM PlaceCorrect == ASSUME ForcesAwaited = FALSE PROVE Spec => []OnePlace
<1>1. IInv /\ WorkInv => OnePlace
  <2> SUFFICES ASSUME IInv, WorkInv, NEW t \in Threads
               PROVE  Cardinality({x \in {"table", "twj", "deletion", "lost"} :
                        \/ x = "table" /\ t \in table
                        \/ x = "twj" /\ t \in twj
                        \/ x = "deletion" /\ job[t].stage = "unlinked" /\ GoesOn(t)
                        \/ x = "lost" /\ Lost(t)}) + freed[t] = 1
    BY DEF OnePlace
  <2> DEFINE P == {x \in {"table", "twj", "deletion", "lost"} :
                     \/ x = "table" /\ t \in table
                     \/ x = "twj" /\ t \in twj
                     \/ x = "deletion" /\ job[t].stage = "unlinked" /\ GoesOn(t)
                     \/ x = "lost" /\ Lost(t)}
  <2>1. /\ t \in table \/ t \in twj \/ job[t].stage = "unlinked" \/ freed[t] = 1
        /\ t \in table => t \notin twj /\ job[t].stage # "unlinked" /\ freed[t] = 0
        /\ t \in twj => job[t].stage # "unlinked" /\ freed[t] = 0
        /\ job[t].stage = "unlinked" => freed[t] = 0
    BY DEF IInv, PlaceInv
  <2>a. job[t].stage = "unlinked" => (GoesOn(t) <=> ~Lost(t))
    <3> SUFFICES ASSUME job[t].stage = "unlinked" PROVE GoesOn(t) <=> ~Abandoned(t)
      BY DEF Lost
    <3>1. job[t].by \in Threads \cup {Null, Exc} /\ job[t].by # t
      BY DEF IInv, TypeOK, WorkInv, HooksRun
    <3>2. GoesOn(t) \/ Abandoned(t)
      BY <3>1, NoThread DEF WorkInv, ExcHasJobs, WorkersWork, GoesOn, Abandoned, At, Over
    <3>3. ASSUME GoesOn(t), Abandoned(t) PROVE FALSE
      <4>1. job[t].by # Exc /\ At(job[t].by, "works")
        BY <3>1, <3>3 DEF GoesOn, Abandoned
      <4>2. job[t].by \in Threads /\ job[t].by \in table /\ usStatus[job[t].by] = {}
        BY <3>1, <4>1 DEF At, IsReady, IInv, TypeOK
      <4> QED BY <3>3, <4>2 DEF Abandoned, IInv, JobInv, PlaceInv
    <3> QED BY <3>2, <3>3
  <2>b. Lost(t) => job[t].stage = "unlinked"
    BY DEF Lost
  <2>2. \/ freed[t] = 1 /\ P = {}
        \/ freed[t] = 0 /\ \E x : P = {x}
    <3>1. CASE t \in table
      <4>1. P = {"table"} BY <2>1, <2>b, <3>1
      <4> QED BY <2>1, <3>1, <4>1
    <3>2. CASE t \notin table /\ t \in twj
      <4>1. P = {"twj"} BY <2>1, <2>b, <3>2
      <4> QED BY <2>1, <3>2, <4>1
    <3>3. CASE t \notin table /\ t \notin twj /\ job[t].stage = "unlinked"
      <4>1. P = {"deletion"} \/ P = {"lost"} BY <2>1, <2>a, <3>3
      <4> QED BY <2>1, <3>3, <4>1
    <3>4. CASE t \notin table /\ t \notin twj /\ job[t].stage # "unlinked"
      <4>1. P = {} BY <2>1, <2>b, <3>4
      <4> QED BY <2>1, <3>4, <4>1
    <3> QED BY <3>1, <3>2, <3>3, <3>4
  <2> HIDE DEF P
  <2>3. Cardinality(P) + freed[t] = 1
    <3>1. CASE freed[t] = 1 /\ P = {}
      <4>1. Cardinality(P) = 0
        BY <3>1, FS_EmptySet
      <4> QED BY <3>1, <4>1
    <3>2. CASE freed[t] = 0 /\ \E x : P = {x}
      <4>1. Cardinality(P) = 1
        BY <3>2, FS_Singleton
      <4> QED BY <3>2, <4>1
    <3> QED BY <2>2, <3>1, <3>2
  <2> QED BY <2>3 DEF P
<1> QED BY <1>1, InvariantAlways, WorkAlways, PTL

(* Every deletion that has begun is somebody's.                              *)
NoOrphan == \A t \in Threads : job[t].stage # "none" => job[t].by # Null

LEMMA NextNoOrphan ==
  ASSUME IInv, WorkInv, NoOrphan, DeletersSpared, [Next]_vars
  PROVE  NoOrphan'
<1>0. job \in [Threads -> Jobs]
  BY DEF IInv, TypeOK, Jobs
<1>1. CASE JobStill
  BY <1>1 DEF JobStill, NoOrphan
<1>2. ASSUME NEW c \in Threads, NEW d \in Threads, Mark(c, d) PROVE NoOrphan'
  BY <1>0, <1>2, NoThread DEF Mark, NoOrphan
<1>3. ASSUME NEW d \in Threads, ExcJobAdd(d) PROVE NoOrphan'
  <2>1. Exc # Null
    BY ExcNotNull
  <2> QED BY <1>0, <1>3, <2>1 DEF ExcJobAdd, NoOrphan, Jobs
<1>4. ASSUME NEW d \in Threads, WaitDeath(d) PROVE NoOrphan'
  BY <1>0, <1>4 DEF WaitDeath, NoOrphan, Jobs
<1>5. ASSUME NEW d \in Threads, ThreadUnlink(d) PROVE NoOrphan'
  BY <1>0, <1>5 DEF ThreadUnlink, NoOrphan
<1>6. ASSUME NEW d \in Threads, ThreadRelease(d) PROVE NoOrphan'
  <2>1. job[d].stage = "unlinked"
    BY <1>6 DEF ThreadRelease
  <2>2. \A t \in Threads \ {d} : job[t].by # d
    BY <2>1 DEF DeletersSpared
  <2>3. job'[d].stage = "none" /\ \A t \in Threads \ {d} : job'[t] = job[t]
    BY <1>0, <1>6, <2>2 DEF ThreadRelease, EndWork, NoJob
  <2> QED BY <2>3 DEF NoOrphan
<1> QED BY <1>1, <1>2, <1>3, <1>4, <1>5, <1>6, NextJobs DEF Work

(* No TCB is lost for good, in any order of exits, joins, detaches and       *)
(* deletions, as long as nobody deletes a thread that is deleting another    *)
(* one: safe mode keeps API_ThreadDelete from it, but for a mark set before, *)
(* and API_ThreadForceDelete does not look at it.                            *)
THEOREM NothingLostCorrect ==
  ASSUME ForcesAwaited = FALSE PROVE Spec /\ []DeletersSpared => []NothingLost
<1>1. Init => NoOrphan
  BY DEF Init, NoJob, NoOrphan
<1>2. IInv /\ WorkInv /\ NoOrphan /\ DeletersSpared /\ [Next]_vars => NoOrphan'
  BY NextNoOrphan
<1>3. IInv /\ WorkInv /\ NoOrphan /\ DeletersSpared => NothingLost
  <2> SUFFICES ASSUME IInv, WorkInv, NoOrphan, DeletersSpared, NEW t \in Threads, Lost(t)
               PROVE  FALSE
    BY DEF NothingLost
  <2>1. job[t].stage = "unlinked" /\ job[t].by # Exc /\ job[t].by # Null /\ job[t].by # t
    BY DEF Lost, Abandoned, NoOrphan, WorkInv, HooksRun
  <2>2. job[t].by \in Threads
    BY <2>1 DEF IInv, TypeOK
  <2>3. job[job[t].by].stage \in {"zombie", "unlinked"}
    BY <2>2 DEF Lost, Abandoned
  <2> QED BY <2>1, <2>2, <2>3 DEF DeletersSpared
<1>4. Spec => []IInv /\ []WorkInv
  BY InvariantAlways, WorkAlways, PTL
<1> QED BY <1>1, <1>2, <1>3, <1>4, PTL DEF Spec
=============================================================================
