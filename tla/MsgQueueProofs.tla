--------------------------- MODULE MsgQueueProofs ---------------------------
(***************************************************************************)
(* Proofs about MsgQueue for every number of threads, messages, priorities  *)
(* and nested interrupts, and every capacity: the buffer, what a receive    *)
(* returns, and that the queue implements Channel.  The wait machinery's    *)
(* part of the invariant is in EventProofs.                                  *)
(***************************************************************************)
EXTENDS MsgQueue, EventProofs, FiniteSetTheorems

-----------------------------------------------------------------------------
(* The inductive invariant.                                                *)

(* The buffer.  Linked is finite, so that its cardinality means something.   *)
BufferInv ==
  /\ ucType \in {"UNUSED", "MSGQUEUE"}
  /\ ulMaxCounter \in Capacities
  /\ ulCounter \in 0 .. ulMaxCounter
  /\ ulOption \in Options
  /\ mono \in [0 .. PrioLow -> Seq(Messages)]
  /\ uiMap \subseteq 0 .. PrioLow
  /\ free \in 0 .. ulMaxCounter
  /\ IsFiniteSet(Linked)
  /\ BufferConsistent

(* A loop knows what it hands out, a handler's send that goes on knows its   *)
(* message.  Delete is called by a thread, so its section is at the bottom.  *)
FrameSays(f) ==
  /\ f.op = "release" => f.n \in Messages
  /\ f.op = "post" => f.n \in Messages \/ (f.n = 0 /\ f.tcb # Null)
  /\ f.op = "flush" => f.ev \in Events

Deleting == nest > 0 /\ frames[1].op = "delete"

SectionInv ==
  /\ \A i \in 1..nest : FrameSays(frames[i])
  /\ \A i \in 1..nest : frames[i].op = "delete" => i = 1
  /\ Deleting => ucType = "UNUSED"
  /\ ucType = "UNUSED" /\ ~Deleting => \A q \in Events : wq[q] = <<>>

(* There are no signals, so no call is restarted.  A receive has a message,  *)
(* or was refused one, exactly when a send has taken it off the queue.       *)
Refused(r) == r.len = 0 /\ r.stMaxByteSize = 0 /\ ~r.noError

Served(c) == c.pc = "pend" /\ c.ev = Q_R /\ c.got = "token"

ReceiveOK(c, r) ==
  /\ c.ret = "NONE" /\ c.pc # "again"
  /\ ~Served(c) => r.msg = None
  /\ Served(c) /\ r.msg = None => Refused(r)
  /\ r.msg # None /\ ~r.noError => r.len = Bytes[r.msg]

SendOK(s) == s = NoSend \/ s.msg \in Messages

ThreadInv ==
  /\ recv \in [Threads -> Recv]
  /\ send \in [Threads -> Send]
  /\ \A t \in Threads : ReceiveOK(call[t], recv[t]) /\ SendOK(send[t])

QueueInv == BufferInv /\ SectionInv /\ ThreadInv /\ NoMessageWithReceiver

IInv == EvInv /\ EvCalls(TRUE) /\ EvHonest /\ QueueInv

-----------------------------------------------------------------------------
(* The places that a list per priority takes up.                             *)

Prios == 0 .. PrioLow
Lists == [Prios -> Seq(Messages)]
InUse(f)  == {q \in Prios : f[q] # <<>>}
Places(f) == UNION {{p} \X (1 .. Len(f[p])) : p \in Prios}

(* Channel's Cardinality is that of FiniteSets.                              *)
LEMMA SameCardinality == \A S : C!Cardinality(S) = Cardinality(S)
  BY Zenon DEF C!Cardinality, Cardinality

(* Linked and the places Channel counts are of this form.                    *)
LEMMA PlacesAre ==
  /\ Linked = Places(mono) /\ Linked' = Places(mono')
  /\ C!Used = Places(Pending)
  BY DEF Linked, Places, Prios, C!Used

(* A place is a priority and a place in its list.                            *)
LEMMA InPlaces ==
  ASSUME NEW f, NEW p, NEW i
  PROVE  <<p, i>> \in Places(f) <=> p \in Prios /\ i \in 1 .. Len(f[p])
  BY DEF Places

(* Places are pairs.                                                         *)
LEMMA PlacesPairs ==
  ASSUME NEW f, NEW x \in Places(f)
  PROVE  \E p \in Prios : \E i \in 1 .. Len(f[p]) : x = <<p, i>>
  BY DEF Places

(* No list has an element.                                                   *)
LEMMA PlacesEmpty ==
  ASSUME NEW f, f = [p \in Prios |-> <<>>]
  PROVE  /\ f \in Lists /\ Places(f) = {}
         /\ IsFiniteSet(Places(f)) /\ Cardinality(Places(f)) = 0
<1>1. \A p \in Prios : f[p] = <<>> /\ Len(f[p]) = 0
  OBVIOUS
<1>2. Places(f) = {}
  BY <1>1, PlacesPairs
<1> QED BY <1>2, FS_EmptySet DEF Lists

(* With no places taken no list has an element.                              *)
LEMMA PlacesZero ==
  ASSUME NEW f \in Lists, IsFiniteSet(Places(f))
  PROVE  /\ Cardinality(Places(f)) \in Nat
         /\ Cardinality(Places(f)) = 0 <=> \A p \in Prios : f[p] = <<>>
<1>1. Cardinality(Places(f)) \in Nat /\ (Cardinality(Places(f)) = 0 <=> Places(f) = {})
  BY FS_CardinalityType, FS_EmptySet
<1>2. ASSUME Places(f) = {}, NEW p \in Prios PROVE f[p] = <<>>
  <2>1. f[p] \in Seq(Messages) /\ Len(f[p]) \in Nat
    BY DEF Lists
  <2>2. <<p, 1>> \notin Places(f)
    BY <1>2
  <2>3. ~(1 \in 1 .. Len(f[p]))
    BY <2>2, InPlaces
  <2>4. Len(f[p]) = 0
    BY <2>1, <2>3
  <2> QED BY <2>1, <2>4, EmptySeq
<1>3. ASSUME \A p \in Prios : f[p] = <<>> PROVE Places(f) = {}
  BY <1>3, PlacesPairs
<1> QED BY <1>1, <1>2, <1>3

(* One more in the list of p.                                                *)
LEMMA PlacesAppend ==
  ASSUME NEW f \in Lists, NEW g, NEW p \in Prios, NEW m \in Messages,
         g = [f EXCEPT ![p] = Append(f[p], m)], IsFiniteSet(Places(f))
  PROVE  /\ g \in Lists /\ IsFiniteSet(Places(g))
         /\ Cardinality(Places(g)) = Cardinality(Places(f)) + 1
         /\ InUse(g) = InUse(f) \cup {p}
<1>1. /\ f[p] \in Seq(Messages) /\ Len(f[p]) \in Nat
      /\ g[p] = Append(f[p], m) /\ Len(g[p]) = Len(f[p]) + 1 /\ g[p] # <<>>
      /\ \A q \in Prios : q # p => g[q] = f[q]
      /\ g \in Lists
  BY DEF Lists
<1>2. Places(g) = Places(f) \cup {<<p, Len(f[p]) + 1>>}
  <2>1. ASSUME NEW x \in Places(g) PROVE x \in Places(f) \cup {<<p, Len(f[p]) + 1>>}
    <3>1. PICK q \in Prios : \E i \in 1 .. Len(g[q]) : x = <<q, i>>
      BY ONLY <2>1, PlacesPairs
    <3>0. PICK i \in 1 .. Len(g[q]) : x = <<q, i>>
      BY <3>1
    <3>2. CASE q = p
      <4>1. i \in 1 .. Len(f[p]) \/ i = Len(f[p]) + 1
        BY <1>1, <3>2
      <4> QED BY <3>0, <3>2, <4>1, InPlaces
    <3>3. CASE q # p
      BY <1>1, <3>0, <3>3, InPlaces
    <3> QED BY <3>2, <3>3
  <2>2. ASSUME NEW x \in Places(f) PROVE x \in Places(g)
    <3>1. PICK q \in Prios : \E i \in 1 .. Len(f[q]) : x = <<q, i>>
      BY PlacesPairs
    <3>0. PICK i \in 1 .. Len(f[q]) : x = <<q, i>>
      BY <3>1
    <3>2. i \in 1 .. Len(g[q])
      BY <1>1
    <3> QED BY <3>0, <3>2, InPlaces
  <2>3. <<p, Len(f[p]) + 1>> \in Places(g)
    <3>1. Len(f[p]) + 1 \in 1 .. Len(g[p])
      BY <1>1
    <3> QED BY <3>1, InPlaces
  <2> QED BY <2>1, <2>2, <2>3
<1>3. <<p, Len(f[p]) + 1>> \notin Places(f)
  <2>1. ~(Len(f[p]) + 1 \in 1 .. Len(f[p]))
    BY <1>1
  <2> QED BY <2>1, InPlaces
<1>4. IsFiniteSet(Places(g)) /\ Cardinality(Places(g)) = Cardinality(Places(f)) + 1
  <2>1. PICK y : y = <<p, Len(f[p]) + 1>>
    OBVIOUS
  <2>2. Places(g) = Places(f) \cup {y} /\ y \notin Places(f)
    BY <1>2, <1>3, <2>1
  <2> QED BY ONLY <2>2, IsFiniteSet(Places(f)), FS_AddElement
<1>5. InUse(g) = InUse(f) \cup {p}
  BY <1>1 DEF InUse
<1> QED BY <1>1, <1>4, <1>5

(* One less in the list of p.                                                *)
LEMMA PlacesTail ==
  ASSUME NEW f \in Lists, NEW g, NEW p \in Prios, Len(f[p]) > 0,
         g = [f EXCEPT ![p] = Tail(f[p])], IsFiniteSet(Places(f))
  PROVE  /\ g \in Lists /\ IsFiniteSet(Places(g))
         /\ Cardinality(Places(g)) = Cardinality(Places(f)) - 1
<1>1. f[p] \in Seq(Messages) /\ Len(f[p]) \in Nat /\ Len(f[p]) > 0
  BY DEF Lists
<1>2. /\ g[p] = Tail(f[p]) /\ Len(g[p]) = Len(f[p]) - 1 /\ g[p] \in Seq(Messages)
      /\ \A q \in Prios : q # p => g[q] = f[q]
  BY <1>1 DEF Lists
<1>0. g \in Lists
  BY <1>2 DEF Lists
<1>3. Places(g) = Places(f) \ {<<p, Len(f[p])>>}
  <2>1. ASSUME NEW x \in Places(g) PROVE x \in Places(f) /\ x # <<p, Len(f[p])>>
    <3>1. PICK q \in Prios : \E i \in 1 .. Len(g[q]) : x = <<q, i>>
      BY ONLY <2>1, PlacesPairs
    <3>0. PICK i \in 1 .. Len(g[q]) : x = <<q, i>>
      BY <3>1
    <3>2. i \in 1 .. Len(f[q]) /\ (q = p => i # Len(f[p]))
      BY <1>1, <1>2
    <3> QED BY <3>0, <3>2, InPlaces
  <2>2. ASSUME NEW x \in Places(f), x # <<p, Len(f[p])>> PROVE x \in Places(g)
    <3>1. PICK q \in Prios : \E i \in 1 .. Len(f[q]) : x = <<q, i>>
      BY PlacesPairs
    <3>0. PICK i \in 1 .. Len(f[q]) : x = <<q, i>>
      BY <3>1
    <3>2. i \in 1 .. Len(g[q])
      BY <1>1, <1>2, <2>2, <3>0
    <3> QED BY <3>0, <3>2, InPlaces
  <2> QED BY <2>1, <2>2
<1>4. <<p, Len(f[p])>> \in Places(f)
  <2>1. Len(f[p]) \in 1 .. Len(f[p])
    BY <1>1
  <2> QED BY <2>1, InPlaces
<1>5. IsFiniteSet(Places(g)) /\ Cardinality(Places(g)) = Cardinality(Places(f)) - 1
  BY <1>3, <1>4, FS_RemoveElement
<1> QED BY <1>0, <1>5

-----------------------------------------------------------------------------
(* The steps of the buffer.                                                  *)

(* The buffer of a queue that exists, by its places.                         *)
LEMMA BufferFacts ==
  ASSUME BufferInv
  PROVE  /\ ulMaxCounter \in Nat \ {0} /\ mono \in Lists /\ IsFiniteSet(Places(mono))
         /\ ulCounter \in 0 .. ulMaxCounter /\ free \in 0 .. ulMaxCounter
         /\ ucType = "MSGQUEUE" =>
              /\ ulCounter = Cardinality(Places(mono)) /\ free = ulMaxCounter - ulCounter
              /\ uiMap = InUse(mono)
<1>1. ulMaxCounter \in Nat \ {0}
  BY MsgQueueAssumption DEF BufferInv
<1> QED BY <1>1, PlacesAre DEF BufferInv, BufferConsistent, Prios, Lists, InUse

(* The other way round, after a step.                                        *)
LEMMA BufferNext ==
  ASSUME ucType' \in {"UNUSED", "MSGQUEUE"}, ulMaxCounter' \in Capacities, ulOption' \in Options,
         mono' \in Lists, IsFiniteSet(Places(mono')), uiMap' \subseteq Prios,
         ulCounter' \in 0 .. ulMaxCounter', free' \in 0 .. ulMaxCounter',
         ucType' = "MSGQUEUE" =>
           /\ ulCounter' = Cardinality(Places(mono')) /\ free' = ulMaxCounter' - ulCounter'
           /\ uiMap' = InUse(mono')
  PROVE  BufferInv'
  BY PlacesAre DEF BufferInv, BufferConsistent, Prios, Lists, InUse

(* What a send stores.                                                       *)
LEMMA PutKeeps ==
  ASSUME BufferInv, NEW m \in Messages, ucType = "MSGQUEUE", ulCounter < ulMaxCounter,
         ulCounter' = ulCounter + 1, MsgQueuePut(m),
         UNCHANGED <<ucType, ulMaxCounter, ulOption>>
  PROVE  BufferInv'
<1>1. PICK p \in Prios : p = Prio[m]
  BY MsgQueueAssumption DEF Prios
<1>2. /\ mono' = [mono EXCEPT ![p] = Append(mono[p], m)]
      /\ uiMap' = uiMap \cup {p} /\ free' = free - 1
  BY <1>1 DEF MsgQueuePut
<1>3. /\ mono' \in Lists /\ IsFiniteSet(Places(mono'))
      /\ Cardinality(Places(mono')) = Cardinality(Places(mono)) + 1
      /\ InUse(mono') = InUse(mono) \cup {p}
  <2>1. PICK f \in Lists : f = mono
    BY BufferFacts
  <2>2. PICK g : g = mono'
    OBVIOUS
  <2>3. g = [f EXCEPT ![p] = Append(f[p], m)] /\ IsFiniteSet(Places(f))
    BY <1>2, <2>1, <2>2, BufferFacts
  <2>4. /\ g \in Lists /\ IsFiniteSet(Places(g))
        /\ Cardinality(Places(g)) = Cardinality(Places(f)) + 1
        /\ InUse(g) = InUse(f) \cup {p}
    BY ONLY <2>3, p \in Prios, m \in Messages, f \in Lists, PlacesAppend
  <2> QED BY <2>1, <2>2, <2>4
<1>4. /\ ulCounter' = Cardinality(Places(mono'))
      /\ ulCounter' \in 0 .. ulMaxCounter' /\ free' \in 0 .. ulMaxCounter'
      /\ free' = ulMaxCounter' - ulCounter'
  BY <1>2, <1>3, BufferFacts
<1>5. uiMap' \subseteq Prios /\ uiMap' = InUse(mono')
  BY <1>2, <1>3, BufferFacts DEF InUse
<1>6. ucType' \in {"UNUSED", "MSGQUEUE"} /\ ulMaxCounter' \in Capacities /\ ulOption' \in Options
  BY DEF BufferInv
<1> QED BY <1>3, <1>4, <1>5, <1>6, BufferNext

(* What a receive takes is the oldest of the most urgent messages.           *)
LEMMA GetKeeps ==
  ASSUME BufferInv, ucType = "MSGQUEUE", ulCounter > 0,
         ulCounter' = ulCounter - 1, MsgQueueGet,
         UNCHANGED <<ucType, ulMaxCounter, ulOption>>
  PROVE  /\ BufferInv'
         /\ \E p \in Prios : /\ mono[p] # <<>> /\ \A q \in Prios : q < p => mono[q] = <<>>
                             /\ mono' = [mono EXCEPT ![p] = Tail(mono[p])]
<1>1. uiMap # {} /\ uiMap \in SUBSET Nat /\ uiMap \subseteq Prios
  <2>1. ~ \A p \in Prios : mono[p] = <<>>
    BY BufferFacts, PlacesZero
  <2> QED BY <2>1, BufferFacts, MsgQueueAssumption DEF Prios, InUse
<1>2. FirstPrio \in uiMap /\ \A q \in uiMap : FirstPrio =< q
  BY <1>1, LeastOf DEF FirstPrio, Min
<1>3. PICK p \in Prios : p = FirstPrio
  BY <1>1, <1>2
<1>4. mono[p] # <<>> /\ \A q \in Prios : q < p => mono[q] = <<>>
  <2>1. ASSUME NEW q \in Prios, q < p, mono[q] # <<>> PROVE FALSE
    <3>1. q \in uiMap
      BY <2>1, BufferFacts DEF InUse
    <3>2. p \in Nat /\ q \in Nat /\ p =< q
      BY <1>1, <1>2, <1>3, <3>1
    <3> QED BY <2>1, <3>2
  <2> QED BY <1>2, <1>3, <2>1, BufferFacts DEF InUse
<1>5. /\ mono' = [mono EXCEPT ![p] = Tail(mono[p])]
      /\ uiMap' = IF mono'[p] = <<>> THEN uiMap \ {p} ELSE uiMap
      /\ free' = free + 1
  BY <1>3 DEF MsgQueueGet
<1>6. /\ mono' \in Lists /\ IsFiniteSet(Places(mono'))
      /\ Cardinality(Places(mono')) = Cardinality(Places(mono)) - 1
  <2>1. PICK f \in Lists : f = mono
    BY BufferFacts
  <2>2. PICK g : g = mono'
    OBVIOUS
  <2>3. g = [f EXCEPT ![p] = Tail(f[p])] /\ IsFiniteSet(Places(f))
    BY <1>5, <2>1, <2>2, BufferFacts
  <2>5. Len(f[p]) > 0
    BY <1>4, <2>1, EmptySeq DEF Lists
  <2>4. /\ g \in Lists /\ IsFiniteSet(Places(g))
        /\ Cardinality(Places(g)) = Cardinality(Places(f)) - 1
    BY <2>3, <2>5, PlacesTail
  <2> QED BY <2>1, <2>2, <2>4
<1>7. /\ ulCounter' = Cardinality(Places(mono'))
      /\ ulCounter' \in 0 .. ulMaxCounter' /\ free' \in 0 .. ulMaxCounter'
      /\ free' = ulMaxCounter' - ulCounter'
  BY <1>5, <1>6, BufferFacts
<1>8. uiMap' \subseteq Prios /\ uiMap' = InUse(mono')
  <2>1. \A q \in Prios : q # p => mono'[q] = mono[q]
    BY <1>5, BufferFacts DEF Lists
  <2>2. uiMap = InUse(mono) /\ mono[p] # <<>>
    BY <1>4, BufferFacts
  <2> QED BY <1>5, <2>1, <2>2 DEF InUse
<1>9. ucType' \in {"UNUSED", "MSGQUEUE"} /\ ulMaxCounter' \in Capacities /\ ulOption' \in Options
  BY DEF BufferInv
<1>10. BufferInv'
  BY <1>6, <1>7, <1>8, <1>9, BufferNext
<1> QED BY <1>4, <1>5, <1>10

(* _MsgQueueClear with a capacity that is in use.                            *)
LEMMA ClearKeeps ==
  ASSUME NEW max \in Capacities, MsgQueueClear(max), ulCounter' = 0, ulMaxCounter' = max,
         ucType' = "MSGQUEUE", ulOption' \in Options
  PROVE  BufferInv' /\ mono' = [p \in Prios |-> <<>>]
<1>1. mono' = [p \in Prios |-> <<>>] /\ uiMap' = {} /\ free' = max /\ max \in Nat
  BY MsgQueueAssumption DEF MsgQueueClear, Prios
<1>2. mono' \in Lists /\ IsFiniteSet(Places(mono')) /\ Cardinality(Places(mono')) = 0
  BY <1>1, PlacesEmpty
<1>3. uiMap' = InUse(mono')
  BY <1>1 DEF InUse
<1>4. ulCounter' \in 0 .. ulMaxCounter' /\ free' \in 0 .. ulMaxCounter'
      /\ free' = ulMaxCounter' - ulCounter'
  BY <1>1
<1> QED BY <1>1, <1>2, <1>3, <1>4, BufferNext

(* Steps that leave the buffer alone, the deletion of the queue among them.  *)
LEMMA BufferSame ==
  ASSUME BufferInv, ucType' \in {ucType, "UNUSED"},
         UNCHANGED <<ulCounter, ulMaxCounter, ulOption, mono, uiMap, free>>
  PROVE  BufferInv'
<1>1. UNCHANGED Linked
  BY DEF Linked
<1> QED BY <1>1 DEF BufferInv, BufferConsistent

-----------------------------------------------------------------------------
(* The steps of Channel.                                                     *)

Simulates == [C!Next]_(C!vars)

Inbox == [t \in Threads |-> recv[t].msg]
NothingPends == [p \in Prios |-> <<>>]

(* What is pending, in terms of the lists.                                   *)
LEMMA PendingIs ==
  /\ ucType = "MSGQUEUE" /\ mono \in Lists => Pending = mono
  /\ ucType' = "MSGQUEUE" /\ mono' \in Lists => Pending' = mono'
  /\ ucType # "MSGQUEUE" => Pending = NothingPends
  /\ ucType' # "MSGQUEUE" => Pending' = NothingPends
  BY DEF Pending, Prios, Lists, NothingPends

(* A step that Channel does not see.                                         *)
LEMMA SimStutter ==
  ASSUME UNCHANGED <<ucType, mono, ulMaxCounter>>,
         \A t \in Threads : recv'[t].msg = recv[t].msg
  PROVE  Simulates
<1>1. Pending' = Pending
  BY DEF Pending
<1>2. Inbox' = Inbox
  BY DEF Inbox
<1> QED BY <1>1, <1>2 DEF Simulates, C!vars, Inbox

(* A message is stored.                                                      *)
LEMMA SimAccept ==
  ASSUME BufferInv, NEW m \in Messages, ucType = "MSGQUEUE", ulCounter < ulMaxCounter,
         MsgQueuePut(m), UNCHANGED <<ucType, ulMaxCounter, recv>>
  PROVE  Simulates
<1>1. Pending = mono
  BY BufferFacts, PendingIs
<1>2. mono' = [mono EXCEPT ![Prio[m]] = Append(mono[Prio[m]], m)]
  BY DEF MsgQueuePut
<1>3. mono' \in Lists
  BY <1>2, BufferFacts, MsgQueueAssumption DEF Lists, Prios
<1>4. Pending' = mono'
  BY <1>3, PendingIs
<1>5. C!Cardinality(C!Used) < ulMaxCounter
  BY <1>1, BufferFacts, PlacesAre, SameCardinality
<1>6. C!Accept(m)
  <2>1. Pending' = [Pending EXCEPT ![Prio[m]] = Append(Pending[Prio[m]], m)]
    BY <1>1, <1>2, <1>4
  <2>2. UNCHANGED <<ulMaxCounter, Inbox>>
    BY DEF Inbox
  <2> QED BY <1>5, <2>1, <2>2 DEF C!Accept, Inbox
<1> QED BY <1>6 DEF Simulates, C!Next

(* A message is taken from the buffer.                                       *)
LEMMA SimTake ==
  ASSUME BufferInv, BufferInv', ucType = "MSGQUEUE", NEW p \in Prios, mono[p] # <<>>,
         \A q \in Prios : q < p => mono[q] = <<>>,
         mono' = [mono EXCEPT ![p] = Tail(mono[p])],
         UNCHANGED <<ucType, ulMaxCounter>>,
         \A t \in Threads : recv'[t].msg = recv[t].msg
  PROVE  Simulates
<1>1. Pending = mono
  BY BufferFacts, PendingIs
<1>2. mono' \in Lists
  BY DEF BufferInv, Lists, Prios
<1>3. Pending' = mono'
  BY <1>2, PendingIs
<1>4. Inbox' = Inbox
  BY DEF Inbox
<1>5. C!Take(p)
  BY <1>1, <1>3, <1>4 DEF C!Take, Prios, Inbox
<1> QED BY <1>5 DEF Simulates, C!Next, Prios

(* A message goes past an empty buffer to a receiver that waits.             *)
LEMMA SimHand ==
  ASSUME NEW m \in Messages, NEW r \in Threads, recv[r].msg = None, recv'[r].msg = m,
         \A t \in Threads : t # r => recv'[t].msg = recv[t].msg,
         Pending = NothingPends, UNCHANGED <<ucType, mono, ulMaxCounter>>
  PROVE  Simulates
<1>1. Pending' = Pending
  BY DEF Pending
<1>2. Inbox' = [Inbox EXCEPT ![r] = m] /\ Inbox[r] = None
  BY DEF Inbox
<1>3. C!Hand(m, r)
  BY <1>1, <1>2 DEF C!Hand, C!Empty, Inbox, NothingPends, Prios
<1> QED BY <1>3 DEF Simulates, C!Next

(* A receive returns.                                                        *)
LEMMA SimReturn ==
  ASSUME NEW r \in Threads, recv'[r].msg = None,
         \A t \in Threads : t # r => recv'[t].msg = recv[t].msg,
         UNCHANGED <<ucType, mono, ulMaxCounter>>
  PROVE  Simulates
<1>1. Pending' = Pending
  BY DEF Pending
<1>2. CASE recv[r].msg = None
  BY <1>2, SimStutter
<1>3. CASE recv[r].msg # None
  <2>1. Inbox' = [Inbox EXCEPT ![r] = None] /\ Inbox[r] # None
    BY <1>3 DEF Inbox
  <2>2. C!Return(r)
    BY <1>1, <2>1 DEF C!Return, Inbox
  <2> QED BY <2>2 DEF Simulates, C!Next
<1> QED BY <1>2, <1>3

(* What pends is given up: the queue is cleared or deleted.                  *)
LEMMA SimDiscard ==
  ASSUME Pending' = NothingPends, UNCHANGED ulMaxCounter,
         \A t \in Threads : recv'[t].msg = recv[t].msg
  PROVE  Simulates
<1>1. Inbox' = Inbox
  BY DEF Inbox
<1>2. C!Discard
  BY <1>1 DEF C!Discard, C!Empty, Inbox, NothingPends, Prios
<1> QED BY <1>2 DEF Simulates, C!Next

(* The queue is created.                                                     *)
LEMMA SimOpen ==
  ASSUME NEW max \in Capacities, Pending = NothingPends, Pending' = NothingPends,
         ulMaxCounter' = max, UNCHANGED recv
  PROVE  Simulates
<1>1. C!Open(max)
  BY DEF C!Open, C!Empty, NothingPends, Prios
<1> QED BY <1>1 DEF Simulates, C!Next

-----------------------------------------------------------------------------
(* Sections and queues.                                                      *)

(* The parts of the invariant that every lemma below takes apart.            *)
LEMMA KernFacts ==
  ASSUME IInv
  PROVE  /\ nest \in 0..MaxNest /\ MaxNest \in Nat \ {0} /\ frames \in [1..MaxNest -> Frame]
         /\ Q_R \in Events /\ Q_S \in Events /\ Q_R # Q_S
         /\ \A q \in Events : q = Q_R \/ q = Q_S
  BY EventAssumption, MsgQueueAssumption DEF IInv, EvInv, EventType, KernType

(* Which section may be on top.                                              *)
LEMMA TopFacts ==
  ASSUME IInv, nest > 0
  PROVE  /\ nest \in 1..MaxNest /\ nest \in 1..nest /\ frames[nest] \in Frame
         /\ FrameSays(frames[nest])
         /\ frames[nest].op = "delete" => nest = 1 /\ Deleting /\ ucType = "UNUSED"
         /\ frames[nest].tcb = Null => AtTop(nest)
<1>1. nest \in 1..MaxNest /\ nest \in 1..nest /\ frames[nest] \in Frame
  BY KernFacts
<1>2. FrameSays(frames[nest]) /\ (frames[nest].op = "delete" => nest = 1)
  BY <1>1 DEF IInv, QueueInv, SectionInv
<1>3. frames[nest].op = "delete" => Deleting /\ ucType = "UNUSED"
  BY <1>2 DEF IInv, QueueInv, SectionInv, Deleting
<1> QED BY <1>1, <1>2, <1>3 DEF AtTop

(* A queue that does not exist has waiters only while it is being deleted.   *)
LEMMA SectionNow ==
  ASSUME IInv
  PROVE  /\ Deleting => ucType = "UNUSED"
         /\ ucType = "UNUSED" /\ ~Deleting => \A q \in Events : wq[q] = <<>>
         /\ ucType \in {"UNUSED", "MSGQUEUE"}
         /\ nest = 0 => ~Deleting
  BY DEF IInv, QueueInv, SectionInv, BufferInv, Deleting

(* A step that takes a waiter off a queue.                                   *)
LEMMA TakeSections ==
  ASSUME IInv, NEW op \in Ops \ {"tick"}, NEW q \in Events, NEW n \in Nat,
         NEW d \in 1..MaxNest, AtTop(d), TakeFirst(op, q, n, d),
         op = "release" => n \in Messages,
         op = "post" => n \in Messages \cup {0},
         d = nest => frames[nest].op = op,
         IF op = "delete" THEN d = 1 /\ ucType' = "UNUSED" ELSE UNCHANGED ucType
  PROVE  SectionInv'
<1>1. PICK t \in Threads :
        /\ wq' = [wq EXCEPT ![q] = Tail(wq[q])]
        /\ nest' = d /\ frames'[d].op = op /\ frames'[d].ev = q /\ frames'[d].tcb = t
        /\ frames'[d].n = n
        /\ \A i \in 1..nest' : i # d => OldFrame(i)
  BY TakeFirstFacts DEF IInv
<1>2. t # Null
  BY EventAssumption
<1>3. ASSUME NEW i \in 1..nest' PROVE FrameSays(frames'[i])
  <2>1. CASE i = d
    BY <1>1, <1>2, <2>1 DEF FrameSays
  <2>2. CASE i # d
    BY <1>1, <2>2 DEF OldFrame, IInv, QueueInv, SectionInv
  <2> QED BY <2>1, <2>2
<1>4. ASSUME NEW i \in 1..nest', frames'[i].op = "delete" PROVE i = 1
  <2>1. CASE i = d
    BY <1>1, <1>4, <2>1
  <2>2. CASE i # d
    BY <1>1, <1>4, <2>2 DEF OldFrame, IInv, QueueInv, SectionInv
  <2> QED BY <2>1, <2>2
<1>5. nest' > 0 /\ 1 \in 1..nest' /\ (d # 1 => nest > 0 /\ frames'[1] = frames[1])
  BY <1>1, KernFacts DEF OldFrame
<1>6. CASE op = "delete"
  <2>1. Deleting' /\ ucType' = "UNUSED"
    BY <1>1, <1>5, <1>6 DEF Deleting
  <2> QED BY <1>3, <1>4, <2>1 DEF SectionInv
<1>7. CASE op # "delete"
  <2>1. Deleting' <=> Deleting
    <3>1. CASE d = 1
      <4>1. ~Deleting'
        BY <1>1, <1>7, <3>1 DEF Deleting
      <4>2. nest = 0 \/ (nest = 1 /\ frames[1].op = op)
        BY <3>1, KernFacts DEF AtTop
      <4> QED BY <1>7, <4>1, <4>2 DEF Deleting
    <3>2. CASE d # 1
      BY <1>5, <3>2 DEF Deleting
    <3> QED BY <3>1, <3>2
  <2>2. wq[q] # <<>>
    BY FirstWaiterFacts DEF TakeFirst, IInv
  <2>3. Deleting' => ucType' = "UNUSED"
    BY <1>7, <2>1, SectionNow
  <2>4. ~(ucType' = "UNUSED" /\ ~Deleting')
    BY <1>7, <2>1, <2>2, SectionNow
  <2> QED BY <1>3, <1>4, <2>3, <2>4 DEF SectionInv
<1> QED BY <1>6, <1>7

(* A section ends.                                                           *)
LEMMA EndSections ==
  ASSUME IInv, nest > 0, EndFrame(nest), UNCHANGED <<wq, ucType>>,
         frames[nest].op = "delete" => \A q \in Events : wq[q] = <<>>
  PROVE  SectionInv'
<1>1. /\ nest' = nest - 1 /\ nest' \in Nat /\ nest \in Nat
      /\ \A i \in 1..nest' : i \in 1..nest /\ frames'[i] = frames[i]
  BY KernFacts DEF EndFrame
<1>2. Deleting' => Deleting
  BY <1>1 DEF Deleting
<1>3. Deleting /\ ~Deleting' => frames[nest].op = "delete"
  <2>1. ASSUME nest # 1, Deleting PROVE Deleting'
    <3>1. nest' > 0 /\ 1 \in 1..nest'
      BY <1>1, <2>1
    <3> QED BY <1>1, <2>1, <3>1 DEF Deleting
  <2> QED BY <2>1 DEF Deleting
<1> QED BY <1>1, <1>2, <1>3 DEF IInv, QueueInv, SectionInv

(* A section goes on without its waiter.                                     *)
LEMMA GoOnSections ==
  ASSUME IInv, nest > 0, NEW g \in Frame, SetFrame(nest, g), g.op = frames[nest].op,
         FrameSays(g), UNCHANGED <<wq, ucType>>
  PROVE  SectionInv'
<1>1. nest' = nest /\ frames'[nest] = g /\ nest \in Nat
      /\ \A i \in 1..nest : i # nest => frames'[i] = frames[i]
  BY KernFacts DEF SetFrame
<1>2. \A i \in 1..nest : frames'[i].op = frames[i].op /\ FrameSays(frames'[i])
  BY <1>1 DEF IInv, QueueInv, SectionInv
<1>3. Deleting' <=> Deleting
  <2>1. 1 \in 1..nest
    BY <1>1
  <2> QED BY <1>1, <1>2, <2>1 DEF Deleting
<1> QED BY <1>1, <1>2, <1>3 DEF IInv, QueueInv, SectionInv

(* Ticks and wakeups.                                                        *)
LEMMA LeavesSections ==
  ASSUME IInv, EvInv', OnlyLeaves, UNCHANGED <<ucType, ulCounter>>
  PROVE  SectionInv' /\ NoMessageWithReceiver'
<1>1. /\ \A i \in 1..nest' : OldFrame(i) \/ frames'[i].op = "tick"
      /\ \A i \in 1..nest : frames[i].op # "tick" => i \in 1..nest' /\ OldFrame(i)
  BY DEF OnlyLeaves, TickFrame
<1>2. nest \in Nat /\ nest' \in Nat
  BY KernFacts DEF EvInv, EventType, KernType
<1>3. \A i \in 1..nest' : FrameSays(frames'[i]) /\ (frames'[i].op = "delete" => i = 1)
  BY <1>1 DEF OldFrame, FrameSays, IInv, QueueInv, SectionInv
<1>4. Deleting' <=> Deleting
  <2>1. ASSUME Deleting PROVE Deleting'
    <3>1. 1 \in 1..nest /\ frames[1].op = "delete"
      BY <1>2, <2>1 DEF Deleting
    <3>2. 1 \in 1..nest' /\ frames'[1] = frames[1]
      BY <1>1, <3>1 DEF OldFrame
    <3> QED BY <1>2, <3>1, <3>2 DEF Deleting
  <2>2. ASSUME Deleting' PROVE Deleting
    <3>1. 1 \in 1..nest' /\ frames'[1].op = "delete"
      BY <1>2, <2>2 DEF Deleting
    <3>2. OldFrame(1)
      BY <1>1, <3>1
    <3> QED BY <1>2, <3>1, <3>2 DEF Deleting, OldFrame
  <2> QED BY <2>1, <2>2
<1>5. \A q \in Events : wq[q] = <<>> => wq'[q] = <<>>
  <2>1. \A q \in Events : wq'[q] \in Seq(Threads) /\ Shrinks(wq'[q], wq[q])
    BY DEF OnlyLeaves, EvInv, EventType, QueueType
  <2> QED BY <2>1, ShrinksEmpty
<1>6. SectionInv'
  BY <1>3, <1>4, <1>5 DEF IInv, QueueInv, SectionInv
<1>7. NoMessageWithReceiver'
  BY <1>5, KernFacts DEF IInv, QueueInv, NoMessageWithReceiver
<1> QED BY <1>6, <1>7

(* Steps that leave stack and queues alone.                                  *)
LEMMA SameSections ==
  ASSUME IInv, UNCHANGED <<nest, frames, wq, ucType>>
  PROVE  SectionInv'
<1>1. Deleting' <=> Deleting
  BY DEF Deleting
<1> QED BY <1>1 DEF IInv, QueueInv, SectionInv

(* No message beside a receiver after a waiter has left its queue.           *)
LEMMA TakeNoMessage ==
  ASSUME IInv, NEW op \in Ops \ {"tick"}, NEW q \in Events, NEW n \in Nat,
         NEW d \in 1..MaxNest, AtTop(d), TakeFirst(op, q, n, d),
         ucType' \in {ucType, "UNUSED"}, ulCounter' \in Nat, ulCounter' =< ulCounter
  PROVE  NoMessageWithReceiver'
<1>1. wq' = [wq EXCEPT ![q] = Tail(wq[q])] /\ wq[q] # <<>>
  <2>1. wq[q] # <<>>
    BY FirstWaiterFacts DEF TakeFirst, IInv
  <2> QED BY <2>1 DEF TakeFirst, EventReadyLowLevel
<1>2. ulCounter \in Nat
  BY BufferFacts DEF IInv, QueueInv
<1>3. ASSUME ucType' = "MSGQUEUE", ulCounter' > 0 PROVE wq'[Q_R] = <<>>
  <2>1. ucType = "MSGQUEUE" /\ ulCounter > 0
    BY <1>2, <1>3
  <2>2. wq[Q_R] = <<>>
    BY <2>1 DEF IInv, QueueInv, NoMessageWithReceiver
  <2>3. q # Q_R
    BY <1>1, <2>2
  <2> QED BY <1>1, <2>2, <2>3, KernFacts
<1> QED BY <1>3 DEF NoMessageWithReceiver

-----------------------------------------------------------------------------
(* Threads.                                                                  *)

(* A thread whose call and receive buffer stay as they are.                  *)
LEMMA ThreadSame ==
  ASSUME ThreadInv, NEW u \in Threads, SameCall(u), recv'[u] = recv[u]
  PROVE  ReceiveOK(call'[u], recv'[u])
  BY DEF ThreadInv, ReceiveOK, Served, Refused, SameCall

(* All of them do.                                                           *)
LEMMA ThreadsSame ==
  ASSUME ThreadInv, \A u \in Threads : SameCall(u), UNCHANGED <<recv, send>>
  PROVE  ThreadInv'
  BY ThreadSame DEF ThreadInv

(* The waiter that is taken off a queue had nothing yet.                     *)
LEMMA TakeThread ==
  ASSUME IInv, NEW op \in Ops \ {"tick"}, NEW q \in Events, NEW n \in Nat,
         NEW d \in 1..MaxNest, AtTop(d), TakeFirst(op, q, n, d)
  PROVE  \E t \in Threads :
           /\ t = FirstWaiter(q) /\ recv[t] \in Recv /\ recv[t].msg = None
           /\ call'[t].pc = "pend" /\ call'[t].ev = q /\ call'[t].ret = "NONE"
           /\ call'[t].got = GotOf(op)
           /\ \A u \in Threads : u # t => SameCall(u)
<1>e. EvInv
  BY DEF IInv
<1>1. PICK t \in Threads :
         /\ t = FirstWaiter(q) /\ waitOn[t] = q /\ "SEM" \in usStatus[t]
         /\ call[t].got = "no" /\ call[t].pc = "pend"
         /\ call'[t].pc = "pend" /\ call'[t].ev = call[t].ev /\ call'[t].ret = call[t].ret
         /\ call'[t].got = GotOf(op)
         /\ \A u \in Threads : u # t => call'[u] = call[u]
         /\ wq' = [wq EXCEPT ![q] = Tail(wq[q])]
         /\ nest' = d /\ frames'[d].op = op /\ frames'[d].ev = q /\ frames'[d].tcb = t
         /\ frames'[d].n = n
         /\ \A i \in 1..nest' : i # d => OldFrame(i) /\ frames[i].tcb # t
         /\ usStatus' = [usStatus EXCEPT ![t] = usStatus[t] \ {DELAY}]
         /\ UNCHANGED <<inRing, waitOn, ucWaitTimeout, ring, ucPriority, ucIsEventDelete,
                        ulSuspendNesting, sig>>
  BY <1>e, TakeFirstFacts
<1>2. call[t].ev = q
  BY <1>1 DEF IInv, EvCalls
<1>3. recv[t] \in Recv /\ recv[t].msg = None /\ call[t].ret = "NONE"
  BY <1>1 DEF IInv, QueueInv, ThreadInv, ReceiveOK, Served
<1> QED BY <1>1, <1>2, <1>3 DEF SameCall

(* A waiter that is woken without a message: a sender, or a receiver that is *)
(* flushed or whose queue is deleted.                                        *)
LEMMA WokenThreads ==
  ASSUME IInv, NEW op \in Ops \ {"tick"}, NEW q \in Events, NEW n \in Nat,
         NEW d \in 1..MaxNest, AtTop(d), TakeFirst(op, q, n, d),
         q = Q_R => op \in {"flush", "delete"},
         \/ UNCHANGED recv
         \/ q = Q_R /\ recv' = [recv EXCEPT ![FirstWaiter(q)].len = 0],
         UNCHANGED send
  PROVE  ThreadInv' /\ \A t \in Threads : recv'[t].msg = recv[t].msg
<1>1. PICK t \in Threads :
           /\ t = FirstWaiter(q) /\ recv[t] \in Recv /\ recv[t].msg = None
           /\ call'[t].pc = "pend" /\ call'[t].ev = q /\ call'[t].ret = "NONE"
           /\ call'[t].got = GotOf(op)
           /\ \A u \in Threads : u # t => SameCall(u)
  BY TakeThread
<1>2. ThreadInv
  BY DEF IInv, QueueInv
<1>3. /\ recv' \in [Threads -> Recv] /\ recv'[t].msg = None
      /\ \A u \in Threads : u # t => recv'[u] = recv[u]
  <2>1. CASE UNCHANGED recv
    BY <1>1, <1>2, <2>1 DEF ThreadInv
  <2>2. CASE recv' = [recv EXCEPT ![FirstWaiter(q)].len = 0]
    <3>1. recv' = [recv EXCEPT ![t] = [recv[t] EXCEPT !.len = 0]]
      BY <1>1, <2>2
    <3>2. [recv[t] EXCEPT !.len = 0] \in Recv /\ [recv[t] EXCEPT !.len = 0].msg = None
      BY <1>1 DEF Recv
    <3> QED BY <1>1, <1>2, <3>1, <3>2 DEF ThreadInv
  <2> QED BY <2>1, <2>2
<1>4. ~Served(call'[t])
  <2>1. CASE q = Q_R
    BY <1>1, <2>1 DEF Served, GotOf
  <2>2. CASE q # Q_R
    BY <1>1, <2>2 DEF Served
  <2> QED BY <2>1, <2>2
<1>5. ReceiveOK(call'[t], recv'[t])
  BY <1>1, <1>3, <1>4 DEF ReceiveOK
<1>6. \A u \in Threads : ReceiveOK(call'[u], recv'[u])
  BY <1>1, <1>2, <1>3, <1>5, ThreadSame
<1>7. ThreadInv'
  BY <1>2, <1>3, <1>6 DEF ThreadInv
<1> QED BY <1>1, <1>3, <1>7

-----------------------------------------------------------------------------
(* The actions.                                                              *)

(* The wait machinery's part of the invariant.                               *)
EventPart == EvInv /\ EvCalls(TRUE) /\ EvHonest

(* A step of the wait machinery that Channel does not see.                   *)
LEMMA QuietStep ==
  ASSUME IInv, EventPart', SectionInv', ThreadInv', NoMessageWithReceiver',
         UNCHANGED <<msgVars, bufVars>>,
         \A t \in Threads : recv'[t].msg = recv[t].msg
  PROVE  IInv' /\ Simulates
<1>1. UNCHANGED <<ucType, ulCounter, ulMaxCounter, ulOption, mono, uiMap, free>>
  BY DEF msgVars, bufVars
<1>2. BufferInv'
  BY <1>1, BufferSame DEF IInv, QueueInv
<1>3. Simulates
  BY <1>1, SimStutter
<1> QED BY <1>2, <1>3 DEF IInv, QueueInv, EventPart

(* Nothing of the wait machinery moves.                                      *)
LEMMA EventStill ==
  ASSUME IInv, UNCHANGED eventVars
  PROVE  /\ EventPart' /\ \A u \in Threads : SameCall(u)
         /\ UNCHANGED <<nest, frames, wq>>
<1>1. UNCHANGED <<nest, frames, wq, usStatus, waitOn, ucWaitTimeout, ucIsEventDelete, call, sig>>
  BY DEF eventVars, kernVars, queueVars, waitVars
<1>2. EvInv' /\ EvCalls(TRUE)' /\ EvHonest'
  <2>1. TRUE \in BOOLEAN
    OBVIOUS
  <2> QED BY <1>1, <2>1, EventSameKeeps, NotKernCalls DEF IInv
<1> QED BY <1>1, <1>2 DEF SameCall, EventPart

(* A section that has nobody in hand ends, and nothing else moves.           *)
LEMMA EndStill ==
  ASSUME IInv, nest > 0, frames[nest].tcb = Null, EndFrame(nest), UNCHANGED notKern
  PROVE  EventPart' /\ (\A u \in Threads : SameCall(u)) /\ UNCHANGED wq
<1>1. UNCHANGED <<wq, usStatus, waitOn, ucWaitTimeout, ucIsEventDelete, call, sig>>
  BY DEF notKern, queueVars, waitVars
<1>2. nest \in 1..MaxNest /\ AtTop(nest)
  BY TopFacts
<1>3. EvInv'
  BY <1>2, TopQuiet, NotKernKeeps DEF IInv
<1>4. EvCalls(TRUE)' /\ EvHonest'
  <2>1. TRUE \in BOOLEAN
    OBVIOUS
  <2> QED BY <1>1, <2>1, NotKernCalls DEF IInv
<1> QED BY <1>1, <1>3, <1>4 DEF SameCall, EventPart

(* A waiter is taken off its queue.                                          *)
LEMMA TakeEvents ==
  ASSUME IInv, NEW op \in Ops \ {"tick"}, NEW q \in Events, NEW n \in Nat,
         NEW d \in 1..MaxNest, AtTop(d), TakeFirst(op, q, n, d)
  PROVE  EventPart'
<1>1. TRUE \in BOOLEAN
  OBVIOUS
<1> QED BY <1>1, TakeFirstKeeps, TakeFirstCalls DEF IInv, EventPart

(* The arguments a send has when it goes back to __re_send.                  *)
LEMMA SendSet ==
  ASSUME ThreadInv, NEW t \in Threads, NEW s,
         \/ s = NoSend
         \/ \E m \in Messages, timeout \in Timeouts : s = [msg |-> m, ulTimeout |-> timeout],
         send' = [send EXCEPT ![t] = s]
  PROVE  send' \in [Threads -> Send] /\ \A u \in Threads : SendOK(send'[u])
<1>1. NoSend \in Send
  BY EventAssumption DEF NoSend, Send, Timeouts, NotWait, Infinite
<1>2. s \in Send /\ SendOK(s)
  BY <1>1 DEF Send, SendOK
<1> QED BY <1>2 DEF ThreadInv

(* The smaller of two numbers.                                               *)
LEMMA MinOfTwo ==
  ASSUME NEW a \in Nat, NEW b \in Nat
  PROVE  Min({a, b}) = IF a =< b THEN a ELSE b
<1>1. PICK z : z = IF a =< b THEN a ELSE b
  OBVIOUS
<1>2. z \in {a, b} /\ \A y \in {a, b} : z =< y
  BY <1>1
<1>3. Min({a, b}) \in {a, b} /\ \A y \in {a, b} : Min({a, b}) =< y
  BY <1>2 DEF Min
<1> QED BY <1>1, <1>3

(* What a receiver gets from a send: the message, or a refusal.              *)
LEMMA HandedIs ==
  ASSUME NEW r \in Recv, r.msg = None, NEW m \in Messages, NEW h, h = Handed(r, m)
  PROVE  /\ h \in Recv
         /\ h.msg = IF Refuses(r, m) THEN None ELSE m
         /\ h.msg = None => Refused(h)
         /\ h.msg # None /\ ~h.noError => h.len = Bytes[h.msg]
<1>1. /\ Bytes[m] \in Nat \ {0} /\ m # None /\ r.stMaxByteSize \in Nat /\ r.noError \in BOOLEAN
      /\ r.stMaxByteSize \in BufferSizes \cup {0}
  <2>1. r.stMaxByteSize \in BufferSizes \cup {0}
    BY DEF Recv
  <2>2. r.noError \in BOOLEAN
    BY DEF Recv
  <2>3. Bytes[m] \in Nat \ {0} /\ m # None
    BY MsgQueueAssumption DEF None
  <2>4. BufferSizes \cup {0} \subseteq Nat
    BY MsgQueueAssumption
  <2>5. r.stMaxByteSize \in Nat
    BY ONLY <2>1, <2>4
  <2> QED BY <2>1, <2>2, <2>3, <2>5
<1>2. CASE Refuses(r, m)
  <2>1. h = [r EXCEPT !.len = 0, !.stMaxByteSize = 0]
    BY <1>2 DEF Handed
  <2>2. h \in Recv /\ h.len = 0 /\ h.stMaxByteSize = 0 /\ h.noError = r.noError /\ h.msg = r.msg
    <3>1. PICK g : g = [r EXCEPT !.len = 0]
      OBVIOUS
    <3>2. g \in Recv /\ g.len = 0 /\ g.noError = r.noError /\ g.msg = r.msg
      BY <3>1 DEF Recv
    <3>3. h = [g EXCEPT !.stMaxByteSize = 0]
      BY <2>1, <3>1
    <3>4. h \in Recv /\ h.len = g.len /\ h.stMaxByteSize = 0 /\ h.noError = g.noError
          /\ h.msg = g.msg
      BY <3>2, <3>3 DEF Recv
    <3> QED BY <3>2, <3>4
  <2> QED BY <1>2, <2>2 DEF Refused, Refuses
<1>3. CASE ~Refuses(r, m)
  <2>1. PICK z \in Nat : z = Min({Bytes[m], r.stMaxByteSize})
    BY <1>1, MinOfTwo
  <2>2. h = [r EXCEPT !.len = z, !.msg = m]
    BY <1>3, <2>1 DEF Handed
  <2>3. h \in Recv /\ h.len = z /\ h.msg = m /\ h.noError = r.noError
    BY <2>2 DEF Recv
  <2>4. ~r.noError => z = Bytes[m]
    BY <1>1, <1>3, <2>1, MinOfTwo DEF Refuses
  <2> QED BY <1>1, <1>3, <2>3, <2>4
<1> QED BY <1>2, <1>3

(* With a receiver in the queue nothing is in the buffer.                    *)
LEMMA NothingBuffered ==
  ASSUME IInv, EventWaitNum(Q_R) > 0
  PROVE  Pending = NothingPends
<1>1. wq[Q_R] # <<>>
  BY KernFacts, FirstWaiterFacts DEF IInv
<1>2. CASE ucType = "MSGQUEUE"
  <2>1. ulCounter = 0
    BY <1>1, <1>2, BufferFacts DEF IInv, QueueInv, NoMessageWithReceiver
  <2>2. mono \in Lists /\ \A p \in Prios : mono[p] = <<>>
    BY <1>2, <2>1, BufferFacts, PlacesZero DEF IInv, QueueInv
  <2>3. mono = NothingPends
    BY <2>2 DEF Lists, NothingPends
  <2> QED BY <1>2, <2>2, <2>3, PendingIs
<1>3. CASE ucType # "MSGQUEUE"
  BY <1>3, PendingIs
<1> QED BY <1>2, <1>3

(* A message is handed to the first receiver, by a send or a broadcast.      *)
LEMMA HandOverKeeps ==
  ASSUME IInv, NEW m \in Messages, NEW op \in {"post", "release"}, NEW n \in Messages \cup {0},
         NEW d \in 1..MaxNest, AtTop(d), HandOver(m, op, n, d),
         op = "release" => n \in Messages, d = nest => frames[nest].op = op,
         send' \in [Threads -> Send], \A u \in Threads : SendOK(send'[u])
  PROVE  IInv' /\ Simulates
<1>0. /\ op \in Ops \ {"tick"} /\ n \in Nat /\ Q_R \in Events /\ TakeFirst(op, Q_R, n, d)
      /\ UNCHANGED <<ucType, ulCounter, ulMaxCounter, ulOption, mono, uiMap, free>>
      /\ op # "delete"
  BY MsgQueueAssumption DEF Ops, HandOver, msgVars, bufVars
<1>1. EventPart'
  BY <1>0, TakeEvents
<1>2. SectionInv'
  BY <1>0, TakeSections
<1>3. NoMessageWithReceiver'
  BY <1>0, TakeNoMessage, BufferFacts DEF IInv, QueueInv
<1>4. BufferInv'
  BY <1>0, BufferSame DEF IInv, QueueInv
<1>5. PICK t \in Threads :
           /\ t = FirstWaiter(Q_R) /\ recv[t] \in Recv /\ recv[t].msg = None
           /\ call'[t].pc = "pend" /\ call'[t].ev = Q_R /\ call'[t].ret = "NONE"
           /\ call'[t].got = GotOf(op)
           /\ \A u \in Threads : u # t => SameCall(u)
  BY <1>0, TakeThread
<1>6. PICK h : h = Handed(recv[t], m)
  OBVIOUS
<1>7. ThreadInv /\ recv' = [recv EXCEPT ![t] = h]
  BY <1>5, <1>6 DEF HandOver, IInv, QueueInv
<1>8. /\ h \in Recv /\ h.msg = IF Refuses(recv[t], m) THEN None ELSE m
      /\ h.msg = None => Refused(h)
      /\ h.msg # None /\ ~h.noError => h.len = Bytes[h.msg]
  BY <1>5, <1>6, HandedIs
<1>9. /\ recv' \in [Threads -> Recv] /\ recv'[t] = h
      /\ \A u \in Threads : u # t => recv'[u] = recv[u]
  BY <1>7, <1>8 DEF ThreadInv
<1>10. Served(call'[t])
  BY <1>5 DEF Served, GotOf
<1>11. ReceiveOK(call'[t], recv'[t])
  BY <1>5, <1>8, <1>9, <1>10 DEF ReceiveOK
<1>12. ThreadInv'
  <2>1. \A u \in Threads : ReceiveOK(call'[u], recv'[u])
    BY <1>5, <1>7, <1>9, <1>11, ThreadSame
  <2> QED BY <1>9, <2>1 DEF ThreadInv
<1>13. Simulates
  <2>1. CASE Refuses(recv[t], m)
    BY <1>0, <1>5, <1>8, <1>9, <2>1, SimStutter
  <2>2. CASE ~Refuses(recv[t], m)
    <3>1. Pending = NothingPends
      BY <1>0, NothingBuffered DEF TakeFirst
    <3> QED BY <1>0, <1>5, <1>8, <1>9, <2>2, <3>1, SimHand
  <2> QED BY <2>1, <2>2
<1> QED BY <1>1, <1>2, <1>3, <1>4, <1>12, <1>13 DEF IInv, QueueInv, EventPart

(* A message is stored, by a thread or by the end of a handler.              *)
LEMMA StoreKeeps ==
  ASSUME IInv, NEW m \in Messages, ucType = "MSGQUEUE", Store(m),
         EventPart', SectionInv', \A u \in Threads : SameCall(u), UNCHANGED wq,
         send' \in [Threads -> Send], \A u \in Threads : SendOK(send'[u])
  PROVE  IInv' /\ Simulates
<1>1. /\ EventWaitNum(Q_R) = 0 /\ ulCounter < ulMaxCounter /\ ulCounter' = ulCounter + 1
      /\ MsgQueuePut(m) /\ UNCHANGED <<ucType, ulMaxCounter, ulOption, recv>>
  BY DEF Store
<1>2. BufferInv'
  BY <1>1, PutKeeps DEF IInv, QueueInv
<1>3. Simulates
  BY <1>1, SimAccept DEF IInv, QueueInv
<1>4. NoMessageWithReceiver'
  <2>1. wq[Q_R] = <<>>
    BY <1>1, KernFacts, NoWaiterFacts DEF IInv
  <2> QED BY <2>1 DEF NoMessageWithReceiver
<1>5. ThreadInv'
  BY <1>1, ThreadSame DEF IInv, QueueInv, ThreadInv
<1> QED BY <1>2, <1>3, <1>4, <1>5 DEF IInv, QueueInv, EventPart

(* A call goes to sleep, on either queue.                                    *)
LEMMA WaitKeeps ==
  ASSUME IInv, NEW t \in Threads, NEW q \in Events, NEW timeout \in Timeouts,
         ThreadEnter, IsReady(t), call[t].pc = "run", ucType = "MSGQUEUE",
         q = Q_R => ulCounter = 0,
         EventWait(q, t, ulOption.prio, timeout # Infinite, ucPriority),
         call' = [call EXCEPT ![t] =
                    [pc |-> "pend", ev |-> q, left |-> timeout,
                     inter |-> ulOption.inter, ret |-> "NONE", got |-> "no"]],
         UNCHANGED <<kernVars, ucPriority, ulSuspendNesting, sig, msgVars, bufVars>>
  PROVE  /\ EventPart' /\ SectionInv' /\ NoMessageWithReceiver'
         /\ call'[t].pc = "pend" /\ call'[t].got = "no" /\ call'[t].ret = "NONE"
         /\ \A u \in Threads : u # t => SameCall(u)
<1> DEFINE c == [pc |-> "pend", ev |-> q, left |-> timeout,
                 inter |-> ulOption.inter, ret |-> "NONE", got |-> "no"]
<1>0. /\ UNCHANGED kernVars /\ UNCHANGED sig /\ UNCHANGED <<kernVars, ulSuspendNesting, sig>>
      /\ UNCHANGED <<nest, frames, ucType, ulCounter>>
      /\ ucPriority' \in [Threads -> Priorities] /\ TRUE \in BOOLEAN
  BY DEF msgVars, kernVars, IInv, EvInv, EventType, PrioType
<1>1. Waiting(c, q)
  <2>1. ulOption \in [prio : BOOLEAN, inter : BOOLEAN]
    BY MsgQueueAssumption DEF IInv, QueueInv, BufferInv
  <2>2. ulOption.inter \in BOOLEAN
    BY <2>1
  <2> QED BY <2>2 DEF Waiting, Call, SchedRets, Got
<1>2. call' = [call EXCEPT ![t] = c]
  OBVIOUS
<1>3. c.pc = "pend" /\ c.ret = "NONE" /\ c.got = "no"
  OBVIOUS
<1> HIDE DEF c
<1>4. (timeout # Infinite) \in BOOLEAN
  OBVIOUS
<1>5. EvInv'
  BY <1>0, <1>1, <1>2, <1>4, EventWaitKeeps DEF IInv
<1>6. EvCalls(TRUE)' /\ EvHonest'
  BY <1>0, <1>1, <1>2, EventWaitCalls DEF IInv
<1>7. call'[t] = c /\ \A u \in Threads : u # t => call'[u] = call[u]
  BY <1>2 DEF IInv, EvInv, EventType, CallType
<1>8. SectionInv'
  <2>1. Deleting' <=> Deleting
    BY <1>0 DEF Deleting
  <2> QED BY <1>0, <2>1 DEF IInv, QueueInv, SectionInv
<1>9. NoMessageWithReceiver'
  <2>1. q # Q_R => wq'[Q_R] = wq[Q_R]
    BY KernFacts DEF EventWait, IInv, EvInv, EventType, QueueType
  <2> QED BY <1>0, <2>1 DEF IInv, QueueInv, NoMessageWithReceiver
<1> QED BY <1>3, <1>5, <1>6, <1>7, <1>8, <1>9 DEF EventPart, SameCall

(* One pass of a thread through a send.                                      *)
LEMMA SendFromKeeps ==
  ASSUME IInv, NEW t \in Threads, NEW m \in Messages, NEW timeout \in Timeouts,
         SendFrom(t, m, timeout)
  PROVE  IInv' /\ Simulates
<1>0. nest = 0 /\ IsReady(t) /\ call[t].pc = "run" /\ ThreadInv /\ ThreadEnter
  BY DEF SendFrom, ThreadEnter, IInv, QueueInv
<1>1. CASE SendFails(t, timeout)
  <2>1. EventPart' /\ (\A u \in Threads : SameCall(u)) /\ UNCHANGED <<nest, frames, wq>>
    BY <1>1, EventStill DEF SendFails
  <2>2. UNCHANGED <<msgVars, bufVars>> /\ UNCHANGED recv /\ UNCHANGED <<ucType, ulCounter>>
    BY <1>1 DEF SendFails, msgVars
  <2>3. send' \in [Threads -> Send] /\ \A u \in Threads : SendOK(send'[u])
    BY <1>0, <1>1, SendSet DEF SendFails
  <2>4. ThreadInv'
    BY <1>0, <2>1, <2>2, <2>3, ThreadSame DEF ThreadInv
  <2>5. SectionInv' /\ NoMessageWithReceiver'
    BY <2>1, <2>2, SameSections DEF IInv, QueueInv, NoMessageWithReceiver
  <2> QED BY <2>1, <2>2, <2>4, <2>5, QuietStep
<1>2. CASE SendHands(t, m, timeout)
  <2>1. HandOver(m, "post", 0, 1)
    BY <1>0, <1>2 DEF SendHands
  <2>2. send' \in [Threads -> Send] /\ \A u \in Threads : SendOK(send'[u])
    <3>1. PICK s : s = IF Refuses(recv[FirstWaiter(Q_R)], m)
                       THEN [msg |-> m, ulTimeout |-> timeout] ELSE NoSend
      OBVIOUS
    <3>2. \/ s = NoSend
          \/ \E mm \in Messages, to \in Timeouts : s = [msg |-> mm, ulTimeout |-> to]
      BY <3>1
    <3>3. send' = [send EXCEPT ![t] = s]
      BY <1>2, <3>1 DEF SendHands
    <3> QED BY <1>0, <3>2, <3>3, SendSet
  <2>3. PICK op \in {"post", "release"} : op = "post"
    OBVIOUS
  <2>4. PICK n \in Messages \cup {0} : n = 0
    OBVIOUS
  <2>5. PICK d \in 1..MaxNest : d = 1
    BY KernFacts
  <2>6. AtTop(d) /\ HandOver(m, op, n, d) /\ d # nest /\ op # "release"
    BY <1>0, <2>1, <2>3, <2>4, <2>5 DEF AtTop
  <2> QED BY <2>2, <2>6, HandOverKeeps
<1>3. CASE SendStores(t, m)
  <2>1. EventPart' /\ (\A u \in Threads : SameCall(u)) /\ UNCHANGED <<nest, frames, wq>>
    BY <1>3, EventStill DEF SendStores
  <2>2. ucType = "MSGQUEUE" /\ Store(m) /\ UNCHANGED ucType
    BY <1>3 DEF SendStores, Store
  <2>3. send' \in [Threads -> Send] /\ \A u \in Threads : SendOK(send'[u])
    BY <1>0, <1>3, SendSet DEF SendStores
  <2>4. SectionInv'
    BY <2>1, <2>2, SameSections
  <2> QED BY <2>1, <2>2, <2>3, <2>4, StoreKeeps
<1>4. CASE SendWaits(t, m, timeout)
  <2>0. /\ Q_S \in Events /\ Q_S # Q_R /\ ucType = "MSGQUEUE"
        /\ EventWait(Q_S, t, ulOption.prio, timeout # Infinite, ucPriority)
        /\ call' = [call EXCEPT ![t] =
                    [pc |-> "pend", ev |-> Q_S, left |-> timeout,
                     inter |-> ulOption.inter, ret |-> "NONE", got |-> "no"]]
        /\ UNCHANGED <<kernVars, ucPriority, ulSuspendNesting, sig, msgVars, bufVars>>
        /\ UNCHANGED recv
        /\ send' = [send EXCEPT ![t] = [msg |-> m, ulTimeout |-> timeout]]
    BY <1>4, KernFacts DEF SendWaits
  <2>1. /\ EventPart' /\ SectionInv' /\ NoMessageWithReceiver'
        /\ call'[t].pc = "pend" /\ call'[t].got = "no" /\ call'[t].ret = "NONE"
        /\ \A u \in Threads : u # t => SameCall(u)
    BY <1>0, <2>0, WaitKeeps
  <2>2. send' \in [Threads -> Send] /\ \A u \in Threads : SendOK(send'[u])
    BY <1>0, <2>0, SendSet
  <2>3. ReceiveOK(call'[t], recv'[t])
    <3>1. recv[t].msg = None
      BY <1>0 DEF ThreadInv, ReceiveOK, Served
    <3> QED BY <2>0, <2>1, <3>1 DEF ReceiveOK, Served
  <2>4. ThreadInv'
    BY <1>0, <2>0, <2>1, <2>2, <2>3, ThreadSame DEF ThreadInv
  <2> QED BY <2>0, <2>1, <2>4, QuietStep
<1> QED BY <1>1, <1>2, <1>3, <1>4 DEF SendFrom

(* A message is taken from the buffer, and a sender that waits is woken.     *)
LEMMA TakesMessageKeeps ==
  ASSUME IInv, IsrEnter, NEW size, NEW noError, TakesMessage(size, noError), UNCHANGED send
  PROVE  IInv' /\ Simulates
<1>0. /\ ucType = "MSGQUEUE" /\ ulCounter > 0 /\ ulCounter' = ulCounter - 1 /\ MsgQueueGet
      /\ UNCHANGED <<ucType, ulMaxCounter, ulOption>> /\ UNCHANGED recv
  BY DEF TakesMessage
<1>1. /\ BufferInv'
      /\ \E p \in Prios : /\ mono[p] # <<>> /\ \A q \in Prios : q < p => mono[q] = <<>>
                          /\ mono' = [mono EXCEPT ![p] = Tail(mono[p])]
  BY <1>0, GetKeeps DEF IInv, QueueInv
<1>2. Simulates
  <2>1. PICK p \in Prios : /\ mono[p] # <<>> /\ \A q \in Prios : q < p => mono[q] = <<>>
                           /\ mono' = [mono EXCEPT ![p] = Tail(mono[p])]
    BY <1>1
  <2> QED BY <1>0, <1>1, <2>1, SimTake DEF IInv, QueueInv
<1>3. CASE TakeFirst("post", Q_S, 0, nest + 1)
  <2>1. PICK op \in Ops \ {"tick"} : op = "post"
    BY DEF Ops
  <2>2. PICK n \in Nat : n = 0
    OBVIOUS
  <2>3. PICK d \in 1..MaxNest : d = nest + 1
    BY KernFacts DEF IsrEnter
  <2>4. /\ Q_S \in Events /\ Q_S # Q_R /\ AtTop(d) /\ TakeFirst(op, Q_S, n, d) /\ d # nest
        /\ op \notin {"release", "delete"} /\ n \in Messages \cup {0}
    BY <1>3, <2>1, <2>2, <2>3, KernFacts DEF AtTop
  <2>5. EventPart'
    BY <2>4, TakeEvents
  <2>6. SectionInv'
    BY <1>0, <2>4, TakeSections
  <2>7. NoMessageWithReceiver'
    <3>1. ulCounter' \in Nat /\ ulCounter' =< ulCounter
      BY <1>0, BufferFacts DEF IInv, QueueInv
    <3> QED BY <1>0, <2>4, <3>1, TakeNoMessage
  <2>8. ThreadInv'
    BY <1>0, <2>4, WokenThreads
  <2> QED BY <1>1, <1>2, <2>5, <2>6, <2>7, <2>8 DEF IInv, QueueInv, EventPart
<1>4. CASE UNCHANGED eventVars
  <2>1. EventPart' /\ (\A u \in Threads : SameCall(u)) /\ UNCHANGED <<nest, frames, wq>>
    BY <1>4, EventStill
  <2>2. SectionInv'
    BY <1>0, <2>1, SameSections
  <2>3. NoMessageWithReceiver'
    BY <1>0, <2>1 DEF IInv, QueueInv, NoMessageWithReceiver
  <2>4. ThreadInv'
    BY <1>0, <2>1, ThreadsSame DEF IInv, QueueInv
  <2> QED BY <1>1, <1>2, <2>1, <2>2, <2>3, <2>4 DEF IInv, QueueInv, EventPart
<1> QED BY <1>3, <1>4 DEF TakesMessage

(* API_MsgQueueReceive.                                                      *)
LEMMA MsgQueueReceiveKeeps ==
  ASSUME IInv, NEW t \in Threads, NEW size \in BufferSizes, NEW noError \in BOOLEAN,
         NEW timeout \in Timeouts, MsgQueueReceive(t, size, noError, timeout)
  PROVE  IInv' /\ Simulates
<1>0. /\ nest = 0 /\ ThreadEnter /\ IsReady(t) /\ call[t].pc = "run" /\ UNCHANGED send
      /\ IsrEnter /\ ThreadInv
  BY KernFacts DEF MsgQueueReceive, ThreadEnter, IsrEnter, IInv, QueueInv
<1>1. CASE TakesMessage(size, noError)
  BY <1>0, <1>1, TakesMessageKeeps
<1>2. CASE ReceiveWaits(t, size, noError, timeout)
  <2>0. /\ Q_R \in Events /\ ucType = "MSGQUEUE" /\ ulCounter = 0
        /\ EventWait(Q_R, t, ulOption.prio, timeout # Infinite, ucPriority)
        /\ call' = [call EXCEPT ![t] =
                    [pc |-> "pend", ev |-> Q_R, left |-> timeout,
                     inter |-> ulOption.inter, ret |-> "NONE", got |-> "no"]]
        /\ UNCHANGED <<kernVars, ucPriority, ulSuspendNesting, sig, msgVars, bufVars>>
    BY <1>2, KernFacts DEF ReceiveWaits
  <2>1. /\ EventPart' /\ SectionInv' /\ NoMessageWithReceiver'
        /\ call'[t].pc = "pend" /\ call'[t].got = "no" /\ call'[t].ret = "NONE"
        /\ \A u \in Threads : u # t => SameCall(u)
    BY <1>0, <2>0, WaitKeeps
  <2>2. PICK r : r = [stMaxByteSize |-> size, noError |-> noError, len |-> 0, msg |-> None]
    OBVIOUS
  <2>3. r \in Recv /\ r.msg = None
    BY <2>2 DEF Recv
  <2>4. recv' = [recv EXCEPT ![t] = r]
    BY <1>2, <2>2 DEF ReceiveWaits
  <2>5. /\ recv' \in [Threads -> Recv] /\ recv'[t] = r
        /\ \A u \in Threads : u # t => recv'[u] = recv[u]
    BY <1>0, <2>3, <2>4 DEF ThreadInv
  <2>6. ReceiveOK(call'[t], recv'[t])
    BY <2>1, <2>3, <2>5 DEF ReceiveOK, Served
  <2>7. ThreadInv'
    <3>1. \A u \in Threads : ReceiveOK(call'[u], recv'[u])
      BY <1>0, <2>1, <2>5, <2>6, ThreadSame
    <3> QED BY <1>0, <2>5, <3>1 DEF ThreadInv
  <2>8. \A u \in Threads : recv'[u].msg = recv[u].msg
    <3>1. recv[t].msg = None
      BY <1>0 DEF ThreadInv, ReceiveOK, Served
    <3> QED BY <2>3, <2>5, <3>1
  <2> QED BY <2>0, <2>1, <2>7, <2>8, QuietStep
<1> QED BY <1>1, <1>2 DEF MsgQueueReceive


(* __re_send and API_MsgQueueSend.                                           *)
LEMMA ResendKeeps ==
  ASSUME IInv, NEW t \in Threads, Resend(t)
  PROVE  IInv' /\ Simulates
<1>1. send[t] # NoSend /\ SendFrom(t, send[t].msg, send[t].ulTimeout)
  BY DEF Resend
<1>2. SendOK(send[t]) /\ send[t] \in Send
  BY DEF IInv, QueueInv, ThreadInv
<1>3. PICK m \in Messages : m = send[t].msg
  BY <1>1, <1>2 DEF SendOK
<1>4. PICK timeout \in Timeouts : timeout = send[t].ulTimeout
  BY <1>2 DEF Send
<1> QED BY <1>1, <1>3, <1>4, SendFromKeeps

(* The end of a receive and of a send that have waited.                      *)
LEMMA MsgQueueReturnKeeps ==
  ASSUME IInv, NEW t \in Threads, MsgQueueReturn(t)
  PROVE  IInv' /\ Simulates
<1>0. PendReturn(t) /\ EvInv /\ EvCalls(TRUE) /\ EvHonest /\ ThreadInv /\ TRUE \in BOOLEAN
  BY DEF MsgQueueReturn, IInv, QueueInv
<1>1. EventPart'
  BY <1>0, PendReturnKeeps, PendReturnCalls DEF EventPart
<1>2. /\ UNCHANGED kernVars /\ UNCHANGED wq /\ GoesOn(t) /\ call'[t] = Running
      /\ call[t].pc = "pend" /\ \A u \in Threads : u # t => call'[u] = call[u]
  <2>1. GoesOn(t)
    BY <1>0 DEF GoesOn, ThreadInv, ReceiveOK
  <2> QED BY <1>0, <2>1, PendReturnCases
<1>3. /\ UNCHANGED <<msgVars, bufVars>> /\ UNCHANGED <<nest, frames, ucType, ulCounter>>
      /\ UNCHANGED <<ulMaxCounter, ulOption, mono, uiMap, free>>
  BY <1>2 DEF MsgQueueReturn, msgVars, bufVars, kernVars
<1>4. SectionInv' /\ NoMessageWithReceiver'
  BY <1>2, <1>3, SameSections DEF IInv, QueueInv, NoMessageWithReceiver
<1>5. \A u \in Threads : u # t => SameCall(u)
  BY <1>2 DEF SameCall
<1>6. ~Served(call'[t]) /\ call'[t].ret = "NONE" /\ call'[t].pc # "again"
  BY <1>2 DEF Served, Running
<1>7. CASE call[t].ev = Q_R
  <2>1. recv' = [recv EXCEPT ![t] = NoRecv] /\ UNCHANGED send
    BY <1>7 DEF MsgQueueReturn
  <2>2. NoRecv \in Recv /\ NoRecv.msg = None
    BY DEF NoRecv, Recv
  <2>3. /\ recv' \in [Threads -> Recv] /\ recv'[t].msg = None
        /\ \A u \in Threads : u # t => recv'[u] = recv[u]
    BY <1>0, <2>1, <2>2 DEF ThreadInv
  <2>4. ReceiveOK(call'[t], recv'[t])
    BY <1>6, <2>3 DEF ReceiveOK
  <2>5. \A u \in Threads : ReceiveOK(call'[u], recv'[u])
    BY <1>0, <1>5, <2>3, <2>4, ThreadSame
  <2>6. ThreadInv'
    BY <1>0, <2>1, <2>3, <2>5 DEF ThreadInv
  <2>7. Simulates
    BY <1>3, <2>3, SimReturn
  <2>8. BufferInv'
    BY <1>3, BufferSame DEF IInv, QueueInv
  <2> QED BY <1>1, <1>4, <2>6, <2>7, <2>8 DEF IInv, QueueInv, EventPart
<1>8. CASE call[t].ev # Q_R
  <2>1. UNCHANGED recv /\ (UNCHANGED send \/ send' = [send EXCEPT ![t] = NoSend])
    BY <1>8 DEF MsgQueueReturn
  <2>2. send' \in [Threads -> Send] /\ \A u \in Threads : SendOK(send'[u])
    <3>1. CASE UNCHANGED send
      BY <1>0, <3>1 DEF ThreadInv
    <3>2. CASE send' = [send EXCEPT ![t] = NoSend]
      BY <1>0, <3>2, SendSet
    <3> QED BY <2>1, <3>1, <3>2
  <2>3. recv[t].msg = None
    BY <1>0, <1>8 DEF ThreadInv, ReceiveOK, Served
  <2>4. ReceiveOK(call'[t], recv'[t])
    BY <1>6, <2>1, <2>3 DEF ReceiveOK
  <2>5. \A u \in Threads : ReceiveOK(call'[u], recv'[u])
    BY <1>0, <1>5, <2>1, <2>4, ThreadSame
  <2>6. ThreadInv'
    BY <1>0, <2>1, <2>2, <2>5 DEF ThreadInv
  <2> QED BY <1>1, <1>3, <1>4, <2>1, <2>6, QuietStep
<1> QED BY <1>7, <1>8

(* A section that has nobody in hand ends.                                   *)
LEMMA EndKeeps ==
  ASSUME IInv, nest > 0, frames[nest].tcb = Null, EndFrame(nest), UNCHANGED notKern,
         UNCHANGED <<msgVars, bufVars>>, UNCHANGED recv, UNCHANGED send,
         frames[nest].op = "delete" => \A q \in Events : wq[q] = <<>>
  PROVE  IInv' /\ Simulates
<1>1. EventPart' /\ (\A u \in Threads : SameCall(u)) /\ UNCHANGED wq
  BY EndStill
<1>2. UNCHANGED <<ucType, ulCounter>> /\ UNCHANGED <<recv, send>>
  BY DEF msgVars
<1>3. SectionInv'
  BY <1>1, <1>2, EndSections
<1>4. NoMessageWithReceiver'
  BY <1>1, <1>2 DEF IInv, QueueInv, NoMessageWithReceiver
<1>5. ThreadInv'
  BY <1>1, <1>2, ThreadsSame DEF IInv, QueueInv
<1> QED BY <1>1, <1>2, <1>3, <1>4, <1>5, QuietStep

(* Nothing but the stack or not even that moves: the wait machinery's part.  *)
LEMMA NotKernStill ==
  ASSUME IInv, UNCHANGED kernVars, UNCHANGED notKern
  PROVE  /\ EventPart' /\ (\A u \in Threads : SameCall(u)) /\ UNCHANGED wq
         /\ UNCHANGED <<nest, frames, wq>>
<1>1. UNCHANGED eventVars
  BY DEF notKern, eventVars, kernVars
<1> QED BY <1>1, EventStill

(* A handler's send, as a new section or going on in its own.                *)
LEMMA IsrSendKeeps ==
  ASSUME IInv, NEW m \in Messages, NEW d \in 1..MaxNest, AtTop(d), IsrSend(m, d),
         d = nest => nest > 0 /\ frames[nest].op = "post" /\ frames[nest].tcb = Null
  PROVE  IInv' /\ Simulates
<1>0. /\ ucType = "MSGQUEUE" /\ UNCHANGED send
      /\ send' \in [Threads -> Send] /\ \A u \in Threads : SendOK(send'[u])
  BY DEF IsrSend, IInv, QueueInv, ThreadInv
<1>1. CASE HandOver(m, "post", IF Refuses(recv[FirstWaiter(Q_R)], m) THEN m ELSE 0, d)
  <2>1. PICK n \in Messages \cup {0} :
          n = IF Refuses(recv[FirstWaiter(Q_R)], m) THEN m ELSE 0
    OBVIOUS
  <2>2. PICK op \in {"post", "release"} : op = "post"
    OBVIOUS
  <2>3. HandOver(m, op, n, d) /\ op # "release" /\ (d = nest => frames[nest].op = op)
    BY <1>1, <2>1, <2>2
  <2> QED BY <1>0, <2>3, HandOverKeeps
<1>2. CASE /\ Store(m)
           /\ IF d = nest THEN EndFrame(d) ELSE UNCHANGED kernVars
           /\ UNCHANGED notKern
  <2>1. UNCHANGED ucType
    BY <1>2 DEF Store
  <2>2. CASE d = nest
    <3>1. EventPart' /\ (\A u \in Threads : SameCall(u)) /\ UNCHANGED wq
      BY <1>2, <2>2, EndStill
    <3>2. SectionInv'
      BY <1>2, <2>1, <2>2, <3>1, EndSections
    <3> QED BY <1>0, <1>2, <3>1, <3>2, StoreKeeps
  <2>3. CASE d # nest
    <3>1. /\ EventPart' /\ (\A u \in Threads : SameCall(u)) /\ UNCHANGED wq
          /\ UNCHANGED <<nest, frames, wq>>
      BY <1>2, <2>3, NotKernStill
    <3>2. SectionInv'
      BY <2>1, <3>1, SameSections
    <3> QED BY <1>0, <1>2, <3>1, <3>2, StoreKeeps
  <2> QED BY <2>2, <2>3
<1>3. CASE /\ d = nest /\ Full /\ EndFrame(d)
           /\ UNCHANGED <<notKern, msgVars, bufVars, recv>>
  BY <1>0, <1>3, EndKeeps
<1> QED BY <1>1, <1>2, <1>3 DEF IsrSend

(* Where a handler's section goes.                                           *)
LEMMA IsrTop ==
  ASSUME IInv, IsrEnter
  PROVE  \E d \in 1..MaxNest : d = nest + 1 /\ d # nest /\ AtTop(d)
<1>1. nest + 1 \in 1..MaxNest /\ nest + 1 # nest
  BY KernFacts DEF IsrEnter
<1> QED BY <1>1 DEF AtTop

(* API_MsgQueueSendEx2 with LW_OPTION_BROADCAST.                             *)
LEMMA BroadcastKeeps ==
  ASSUME IInv, NEW m \in Messages, NEW d \in 1..MaxNest, AtTop(d), BroadcastLoop(m, d),
         d = nest => nest > 0 /\ frames[nest].op = "release" /\ frames[nest].tcb = Null,
         UNCHANGED send
  PROVE  IInv' /\ Simulates
<1>0. send' \in [Threads -> Send] /\ \A u \in Threads : SendOK(send'[u])
  BY DEF IInv, QueueInv, ThreadInv
<1>1. CASE HandOver(m, "release", m, d)
  <2>1. PICK n \in Messages \cup {0} : n = m
    OBVIOUS
  <2>2. PICK op \in {"post", "release"} : op = "release"
    OBVIOUS
  <2>3. /\ HandOver(m, op, n, d) /\ (op = "release" => n \in Messages)
        /\ (d = nest => frames[nest].op = op)
    BY <1>1, <2>1, <2>2
  <2> QED BY <1>0, <2>3, HandOverKeeps
<1>2. CASE /\ d = nest /\ EndFrame(d)
           /\ UNCHANGED <<notKern, msgVars, bufVars, recv>>
  BY <1>2, EndKeeps
<1> QED BY <1>1, <1>2 DEF BroadcastLoop

(* API_MsgQueueClear and the flushes: one pass of their loop.                *)
LEMMA FlushLoopKeeps ==
  ASSUME IInv, NEW q \in Events, NEW d \in 1..MaxNest, AtTop(d), FlushLoop(q, d),
         d = nest => nest > 0 /\ frames[nest].op = "flush" /\ frames[nest].tcb = Null,
         UNCHANGED send, UNCHANGED ucType, ulCounter' \in Nat, ulCounter' =< ulCounter
  PROVE  /\ EventPart' /\ SectionInv' /\ ThreadInv' /\ NoMessageWithReceiver'
         /\ \A t \in Threads : recv'[t].msg = recv[t].msg
<1>1. CASE /\ TakeFirst("flush", q, 0, d)
           /\ recv' = IF q = Q_R THEN [recv EXCEPT ![FirstWaiter(q)].len = 0] ELSE recv
  <2>1. PICK op \in Ops \ {"tick"} : op = "flush"
    BY DEF Ops
  <2>2. PICK n \in Nat : n = 0
    OBVIOUS
  <2>3. /\ TakeFirst(op, q, n, d) /\ op \notin {"release", "post", "delete"}
        /\ (d = nest => frames[nest].op = op)
    BY <1>1, <2>1, <2>2
  <2>4. EventPart'
    BY <2>3, TakeEvents
  <2>5. SectionInv'
    BY <2>3, TakeSections
  <2>6. NoMessageWithReceiver'
    BY <2>3, TakeNoMessage
  <2>7. ThreadInv' /\ \A t \in Threads : recv'[t].msg = recv[t].msg
    <3>1. \/ UNCHANGED recv
          \/ q = Q_R /\ recv' = [recv EXCEPT ![FirstWaiter(q)].len = 0]
      BY <1>1
    <3>2. op \in {"flush", "delete"}
      BY <2>1
    <3> QED BY <2>3, <3>1, <3>2, WokenThreads
  <2> QED BY <2>4, <2>5, <2>6, <2>7
<1>2. CASE /\ IF d = nest THEN EndFrame(d) ELSE UNCHANGED kernVars
           /\ UNCHANGED <<notKern, recv>>
  <2>1. EventPart' /\ (\A u \in Threads : SameCall(u)) /\ UNCHANGED wq /\ SectionInv'
    <3>1. CASE d = nest
      <4>1. EventPart' /\ (\A u \in Threads : SameCall(u)) /\ UNCHANGED wq
        BY <1>2, <3>1, EndStill
      <4>2. SectionInv'
        BY <1>2, <3>1, <4>1, EndSections
      <4> QED BY <4>1, <4>2
    <3>2. CASE d # nest
      <4>1. /\ EventPart' /\ (\A u \in Threads : SameCall(u)) /\ UNCHANGED wq
            /\ UNCHANGED <<nest, frames, wq>>
        BY <1>2, <3>2, NotKernStill
      <4>2. SectionInv'
        BY <4>1, SameSections
      <4> QED BY <4>1, <4>2
    <3> QED BY <3>1, <3>2
  <2>2. ulCounter \in Nat
    BY BufferFacts DEF IInv, QueueInv
  <2>3. NoMessageWithReceiver'
    BY <2>1, <2>2 DEF IInv, QueueInv, NoMessageWithReceiver
  <2>4. ThreadInv'
    BY <1>2, <2>1, ThreadsSame DEF IInv, QueueInv
  <2> QED BY <1>2, <2>1, <2>3, <2>4
<1> QED BY <1>1, <1>2 DEF FlushLoop

(* The flushes leave the buffer alone.                                       *)
LEMMA FlushKeeps ==
  ASSUME IInv, NEW q \in Events, NEW d \in 1..MaxNest, AtTop(d), FlushLoop(q, d),
         d = nest => nest > 0 /\ frames[nest].op = "flush" /\ frames[nest].tcb = Null,
         UNCHANGED <<msgVars, bufVars, send>>
  PROVE  IInv' /\ Simulates
<1>1. UNCHANGED send /\ UNCHANGED ucType /\ ulCounter' \in Nat /\ ulCounter' =< ulCounter
  BY BufferFacts DEF msgVars, IInv, QueueInv
<1>2. /\ EventPart' /\ SectionInv' /\ ThreadInv' /\ NoMessageWithReceiver'
      /\ \A t \in Threads : recv'[t].msg = recv[t].msg
  BY <1>1, FlushLoopKeeps
<1> QED BY <1>2, QuietStep

(* API_MsgQueueClear empties the buffer and wakes the senders.               *)
LEMMA ClearAllKeeps ==
  ASSUME IInv, MsgQueueClearAll
  PROVE  IInv' /\ Simulates
<1>0. /\ IsrEnter /\ ucType = "MSGQUEUE" /\ MsgQueueClear(ulMaxCounter) /\ ulCounter' = 0
      /\ FlushLoop(Q_S, nest + 1) /\ UNCHANGED send /\ UNCHANGED ucType
      /\ UNCHANGED <<ulMaxCounter, ulOption>> /\ Q_S \in Events
  BY KernFacts DEF MsgQueueClearAll
<1>1. PICK d \in 1..MaxNest : d = nest + 1 /\ d # nest /\ AtTop(d)
  BY <1>0, IsrTop
<1>2. /\ EventPart' /\ SectionInv' /\ ThreadInv' /\ NoMessageWithReceiver'
      /\ \A t \in Threads : recv'[t].msg = recv[t].msg
  <2>1. FlushLoop(Q_S, d) /\ ulCounter' \in Nat /\ ulCounter' =< ulCounter
    BY <1>0, <1>1, BufferFacts DEF IInv, QueueInv
  <2> QED BY <1>0, <1>1, <2>1, FlushLoopKeeps
<1>3. BufferInv' /\ mono' = NothingPends
  <2>1. PICK max \in Capacities : max = ulMaxCounter
    BY DEF IInv, QueueInv, BufferInv
  <2>2. ulOption' \in Options
    BY <1>0 DEF IInv, QueueInv, BufferInv
  <2> QED BY <1>0, <2>1, <2>2, ClearKeeps DEF NothingPends
<1>4. Pending' = NothingPends
  <2>1. mono' \in Lists
    BY <1>3 DEF BufferInv, Lists, Prios
  <2> QED BY <1>0, <1>3, <2>1, PendingIs
<1>5. Simulates
  BY <1>0, <1>2, <1>4, SimDiscard
<1> QED BY <1>2, <1>3, <1>5 DEF IInv, QueueInv, EventPart

(* API_MsgQueueDelete: what takes a waiter off one of the queues.            *)
LEMMA DeleteTakes ==
  ASSUME IInv, NEW q \in Events, NEW d \in 1..MaxNest, AtTop(d), d = 1,
         TakeFirst("delete", q, 0, d), d = nest => frames[nest].op = "delete",
         ucType' = "UNUSED", UNCHANGED <<recv, send>>
  PROVE  EventPart' /\ SectionInv' /\ ThreadInv'
<1>1. PICK op \in Ops \ {"tick"} : op = "delete"
  BY DEF Ops
<1>2. PICK n \in Nat : n = 0
  OBVIOUS
<1>3. /\ TakeFirst(op, q, n, d) /\ op \notin {"release", "post"}
      /\ (d = nest => frames[nest].op = op) /\ op \in {"flush", "delete"}
  BY <1>1, <1>2
<1>4. EventPart'
  BY <1>3, TakeEvents
<1>5. SectionInv'
  BY <1>1, <1>3, TakeSections
<1>6. ThreadInv'
  BY <1>3, WokenThreads
<1> QED BY <1>4, <1>5, <1>6

(* API_MsgQueueDelete: one pass of its loops.                                *)
LEMMA DeleteKeeps ==
  ASSUME IInv, NEW d \in 1..MaxNest, AtTop(d), d = 1, DeleteLoop(d),
         IF d = nest THEN frames[nest].op = "delete" /\ frames[nest].tcb = Null ELSE nest = 0,
         ucType' = "UNUSED",
         UNCHANGED <<ulCounter, ulMaxCounter, ulOption, bufVars, recv, send>>
  PROVE  IInv' /\ Simulates
<1>0. Q_R \in Events /\ Q_S \in Events /\ UNCHANGED <<recv, send>> /\ nest \in Nat
      /\ UNCHANGED <<ulCounter, ulMaxCounter, ulOption, mono, uiMap, free>>
  BY KernFacts DEF bufVars
<1>1. BufferInv'
  BY <1>0, BufferSame DEF IInv, QueueInv
<1>2. Simulates
  <2>1. Pending' = NothingPends
    BY PendingIs
  <2> QED BY <1>0, <2>1, SimDiscard
<1>3. NoMessageWithReceiver'
  BY DEF NoMessageWithReceiver
<1>4. CASE TakeFirst("delete", Q_R, 0, d)
  <2>1. EventPart' /\ SectionInv' /\ ThreadInv'
    BY <1>0, <1>4, DeleteTakes
  <2> QED BY <1>1, <1>2, <1>3, <2>1 DEF IInv, QueueInv, EventPart
<1>5. CASE TakeFirst("delete", Q_S, 0, d)
  <2>1. EventPart' /\ SectionInv' /\ ThreadInv'
    BY <1>0, <1>5, DeleteTakes
  <2> QED BY <1>1, <1>2, <1>3, <2>1 DEF IInv, QueueInv, EventPart
<1>6. CASE /\ EventWaitNum(Q_R) = 0 /\ EventWaitNum(Q_S) = 0
           /\ IF d = nest THEN EndFrame(d) ELSE UNCHANGED kernVars
           /\ UNCHANGED notKern
  <2>1. \A q \in Events : wq[q] = <<>>
    BY <1>6, KernFacts, NoWaiterFacts DEF IInv
  <2>2. EventPart' /\ (\A u \in Threads : SameCall(u)) /\ UNCHANGED wq /\ SectionInv'
    <3>1. CASE d = nest
      <4>0. nest > 0 /\ frames[nest].tcb = Null /\ EndFrame(nest) /\ frames[nest].op = "delete"
        BY <1>6, <3>1
      <4>1. EventPart' /\ (\A u \in Threads : SameCall(u)) /\ UNCHANGED wq
        BY <1>6, <4>0, EndStill
      <4>2. UNCHANGED ucType
        BY <4>0, TopFacts
      <4>3. SectionInv'
        BY <2>1, <4>0, <4>1, <4>2, EndSections
      <4> QED BY <4>1, <4>3
    <3>2. CASE d # nest
      <4>1. /\ EventPart' /\ (\A u \in Threads : SameCall(u)) /\ UNCHANGED wq
            /\ UNCHANGED <<nest, frames, wq>> /\ nest = 0
        BY <1>6, <3>2, NotKernStill
      <4>2. SectionInv'
        BY <2>1, <4>1 DEF SectionInv, Deleting
      <4> QED BY <4>1, <4>2
    <3> QED BY <3>1, <3>2
  <2>3. ThreadInv'
    BY <1>0, <2>2, ThreadsSame DEF IInv, QueueInv
  <2> QED BY <1>1, <1>2, <1>3, <2>2, <2>3 DEF IInv, QueueInv, EventPart
<1> QED BY <1>4, <1>5, <1>6 DEF DeleteLoop

(* A call of a handler or of a thread that deletes opens a section.          *)
LEMMA EnterKeeps ==
  ASSUME IInv,
         \/ \E m \in Messages : MsgQueueSendIsr(m) \/ MsgQueueBroadcast(m)
         \/ MsgQueueTryReceive
         \/ MsgQueueClearAll
         \/ \E q \in Events : MsgQueueFlush(q)
         \/ MsgQueueDelete
  PROVE  IInv' /\ Simulates
<1>1. ASSUME NEW m \in Messages, MsgQueueSendIsr(m) PROVE IInv' /\ Simulates
  <2>1. PICK d \in 1..MaxNest : d = nest + 1 /\ d # nest /\ AtTop(d)
    BY <1>1, IsrTop DEF MsgQueueSendIsr
  <2>2. IsrSend(m, d)
    BY <1>1, <2>1 DEF MsgQueueSendIsr
  <2> QED BY <2>1, <2>2, IsrSendKeeps
<1>2. ASSUME NEW m \in Messages, MsgQueueBroadcast(m) PROVE IInv' /\ Simulates
  <2>1. PICK d \in 1..MaxNest : d = nest + 1 /\ d # nest /\ AtTop(d)
    BY <1>2, IsrTop DEF MsgQueueBroadcast
  <2>2. BroadcastLoop(m, d) /\ UNCHANGED send
    BY <1>2, <2>1 DEF MsgQueueBroadcast
  <2> QED BY <2>1, <2>2, BroadcastKeeps
<1>3. ASSUME MsgQueueTryReceive PROVE IInv' /\ Simulates
  BY <1>3, TakesMessageKeeps DEF MsgQueueTryReceive
<1>4. ASSUME NEW q \in Events, MsgQueueFlush(q) PROVE IInv' /\ Simulates
  <2>1. PICK d \in 1..MaxNest : d = nest + 1 /\ d # nest /\ AtTop(d)
    BY <1>4, IsrTop DEF MsgQueueFlush
  <2>2. FlushLoop(q, d) /\ UNCHANGED <<msgVars, bufVars, send>>
    BY <1>4, <2>1 DEF MsgQueueFlush
  <2> QED BY <2>1, <2>2, FlushKeeps
<1>5. ASSUME MsgQueueDelete PROVE IInv' /\ Simulates
  <2>1. PICK d \in 1..MaxNest : d = 1
    BY KernFacts
  <2>2. /\ nest = 0 /\ AtTop(d) /\ DeleteLoop(d) /\ ucType' = "UNUSED" /\ d # nest
        /\ UNCHANGED <<ulCounter, ulMaxCounter, ulOption, bufVars, recv, send>>
    BY <1>5, <2>1 DEF MsgQueueDelete, ThreadEnter, AtTop
  <2> QED BY <2>1, <2>2, DeleteKeeps
<1> QED BY <1>1, <1>2, <1>3, <1>4, <1>5, ClearAllKeeps

(* A section goes on.                                                        *)
LEMMA SectionNextKeeps ==
  ASSUME IInv, SectionNext
  PROVE  IInv' /\ Simulates
<1>0. nest > 0 /\ frames[nest].tcb = Null
  BY DEF SectionNext
<1>1. /\ frames[nest] \in Frame /\ FrameSays(frames[nest]) /\ AtTop(nest)
      /\ frames[nest].op = "delete" => nest = 1 /\ ucType = "UNUSED"
  BY <1>0, TopFacts
<1>2. PICK d \in 1..MaxNest : d = nest
  BY <1>0, TopFacts
<1>3. CASE frames[nest].op = "post" /\ IsrSend(frames[nest].n, nest)
  <2>1. PICK m \in Messages : m = frames[nest].n
    BY <1>0, <1>1, <1>3 DEF FrameSays
  <2> QED BY <1>0, <1>1, <1>2, <1>3, <2>1, IsrSendKeeps
<1>4. CASE frames[nest].op = "release" /\ BroadcastLoop(frames[nest].n, nest) /\ UNCHANGED send
  <2>1. PICK m \in Messages : m = frames[nest].n
    BY <1>1, <1>4 DEF FrameSays
  <2> QED BY <1>0, <1>1, <1>2, <1>4, <2>1, BroadcastKeeps
<1>5. CASE /\ frames[nest].op = "flush" /\ FlushLoop(frames[nest].ev, nest)
           /\ UNCHANGED <<msgVars, bufVars, send>>
  <2>1. PICK q \in Events : q = frames[nest].ev
    BY <1>1, <1>5 DEF FrameSays
  <2> QED BY <1>0, <1>1, <1>2, <1>5, <2>1, FlushKeeps
<1>6. CASE /\ frames[nest].op = "delete" /\ DeleteLoop(nest)
           /\ UNCHANGED <<msgVars, bufVars, recv, send>>
  <2>1. /\ ucType' = "UNUSED" /\ d = 1 /\ DeleteLoop(d) /\ AtTop(d)
        /\ UNCHANGED <<ulCounter, ulMaxCounter, ulOption, bufVars, recv, send>>
    BY <1>1, <1>2, <1>6 DEF msgVars
  <2> QED BY <1>0, <1>2, <1>6, <2>1, DeleteKeeps
<1> QED BY <1>3, <1>4, <1>5, <1>6 DEF SectionNext

(* Out of a window: the waiter in hand becomes ready.                        *)
LEMMA EventHighKeeps ==
  ASSUME IInv, EventHigh
  PROVE  IInv' /\ Simulates
<1>0. PICK f : f = frames[nest]
  OBVIOUS
<1>1. PICK t : t = frames[nest].tcb
  OBVIOUS
<1>2. /\ nest > 0 /\ t # Null /\ EventReadyHighLevel(t) /\ f.tcb = t
      /\ ucIsEventDelete' = IF frames[nest].op = "delete"
                            THEN [ucIsEventDelete EXCEPT ![t] = "DELETE"]
                            ELSE ucIsEventDelete
      /\ UNCHANGED <<queueVars, ring, ucPriority, ulSuspendNesting, call, sig>>
      /\ UNCHANGED <<msgVars, bufVars>> /\ UNCHANGED <<recv, send>>
  BY <1>0, <1>1 DEF EventHigh
<1>3. f \in Frame /\ FrameSays(f) /\ TRUE \in BOOLEAN
  BY <1>0, <1>2, TopFacts
<1>4. \/ f.op = "post" /\ f.n = 0 /\ EndFrame(nest)
      \/ ~(f.op = "post" /\ f.n = 0) /\ SetFrame(nest, [f EXCEPT !.tcb = Null])
  BY <1>0 DEF EventHigh
<1>5. ~(f.op = "post" /\ f.n = 0) =>
         \E g \in Frame : g.tcb = Null /\ g.op = f.op /\ FrameSays(g) /\ SetFrame(nest, g)
  <2> DEFINE g == [f EXCEPT !.tcb = Null]
  <2>1. g \in Frame /\ g.tcb = Null /\ g.op = f.op /\ g.n = f.n /\ g.ev = f.ev
    BY <1>3 DEF Frame
  <2> HIDE DEF g
  <2>2. ~(f.op = "post" /\ f.n = 0) => SetFrame(nest, g)
    BY <1>4 DEF g
  <2>3. ~(f.op = "post" /\ f.n = 0) => FrameSays(g)
    BY <1>3, <2>1 DEF FrameSays
  <2> QED BY <2>1, <2>2, <2>3
<1>6. EvInv'
  <2>1. EndFrame(nest) \/ \E g \in Frame : g.tcb = Null /\ SetFrame(nest, g)
    BY <1>4, <1>5
  <2>2. ucIsEventDelete' \in {[ucIsEventDelete EXCEPT ![t] = "DELETE"], ucIsEventDelete}
    BY <1>2
  <2>3. ucPriority' \in [Threads -> Priorities]
    BY <1>2 DEF IInv, EvInv, EventType, PrioType
  <2> QED BY <1>1, <1>2, <2>1, <2>2, <2>3, HighKeeps DEF IInv
<1>7. EvCalls(TRUE)' /\ EvHonest'
  BY <1>1, <1>2, <1>3, HighCalls DEF IInv
<1>8. (\A u \in Threads : SameCall(u)) /\ UNCHANGED wq /\ UNCHANGED <<ucType, ulCounter>>
  BY <1>2 DEF SameCall, queueVars, msgVars
<1>9. SectionInv'
  <2>1. CASE f.op = "post" /\ f.n = 0
    BY <1>0, <1>2, <1>4, <1>8, <2>1, EndSections
  <2>2. CASE ~(f.op = "post" /\ f.n = 0)
    BY <1>0, <1>2, <1>5, <1>8, <2>2, GoOnSections
  <2> QED BY <2>1, <2>2
<1>10. NoMessageWithReceiver'
  BY <1>8 DEF IInv, QueueInv, NoMessageWithReceiver
<1>11. ThreadInv'
  BY <1>2, <1>8, ThreadsSame DEF IInv, QueueInv
<1> QED BY <1>2, <1>6, <1>7, <1>9, <1>10, <1>11, QuietStep DEF EventPart

(* API_MsgQueueCreate: the control block it takes has nobody queued.         *)
LEMMA MsgQueueCreateKeeps ==
  ASSUME IInv, NEW max \in Capacities, NEW o \in Options, MsgQueueCreate(max, o)
  PROVE  IInv' /\ Simulates
<1>0. /\ nest = 0 /\ ucType = "UNUSED" /\ ucType' = "MSGQUEUE" /\ ulCounter' = 0
      /\ ulMaxCounter' = max /\ ulOption' = o /\ MsgQueueClear(max)
      /\ UNCHANGED recv /\ UNCHANGED <<recv, send>>
  BY DEF MsgQueueCreate, ThreadEnter
<1>1. \A q \in Events : wq[q] = <<>>
  BY <1>0, SectionNow
<1>2. UNCHANGED eventVars
  <2>1. UNCHANGED wq
    BY <1>1 DEF MsgQueueCreate, IInv, EvInv, EventType, QueueType
  <2>2. UNCHANGED wqNum
    BY <1>1 DEF MsgQueueCreate, IInv, EvInv, EventType, QueueType, QueuesAgree
  <2> QED BY <2>1, <2>2 DEF MsgQueueCreate, eventVars, queueVars
<1>3. EventPart' /\ (\A u \in Threads : SameCall(u)) /\ UNCHANGED <<nest, frames, wq>>
  BY <1>2, EventStill
<1>4. SectionInv'
  BY <1>0, <1>3 DEF SectionInv, Deleting
<1>5. NoMessageWithReceiver'
  BY <1>0 DEF NoMessageWithReceiver
<1>6. ThreadInv'
  BY <1>0, <1>3, ThreadsSame DEF IInv, QueueInv
<1>7. BufferInv' /\ mono' = NothingPends
  BY <1>0, ClearKeeps DEF NothingPends
<1>8. Pending = NothingPends /\ Pending' = NothingPends
  <2>1. mono' \in Lists
    BY <1>7 DEF BufferInv, Lists, Prios
  <2> QED BY <1>0, <1>7, <2>1, PendingIs
<1>9. Simulates
  BY <1>0, <1>8, SimOpen
<1> QED BY <1>3, <1>4, <1>5, <1>6, <1>7, <1>9 DEF IInv, QueueInv, EventPart

(* Ticks and wakeups.                                                        *)
LEMMA EnvironmentKeeps ==
  ASSUME IInv, IsrWakesPended = FALSE, Environment
  PROVE  IInv' /\ Simulates
<1>0. /\ EvInv /\ EvCalls(TRUE) /\ EvHonest /\ TRUE \in BOOLEAN
      /\ UNCHANGED <<msgVars, bufVars>> /\ UNCHANGED <<recv, send>>
      /\ UNCHANGED <<ucType, ulCounter>>
  BY DEF Environment, msgVars, IInv
<1>1. EventPart' /\ OnlyLeaves /\ \A u \in Threads : SameCall(u)
  <2>1. CASE Tick \/ TickNext
    BY <1>0, <2>1, TickKeeps, TickCallsKept, TickLeaves, TickCases DEF EventPart
  <2>2. CASE \E t \in Threads, inf \in BOOLEAN : ThreadWakeup(t, inf)
    <3>1. PICK t \in Threads, inf \in BOOLEAN : ThreadWakeup(t, inf)
      BY <2>2
    <3>2. EventPart' /\ OnlyLeaves
      BY <1>0, <3>1, ThreadWakeupKeeps, ThreadWakeupCalls, ThreadWakeupLeaves DEF EventPart
    <3>3. UNCHANGED call
      BY <3>1 DEF ThreadWakeup
    <3> QED BY <3>2, <3>3 DEF SameCall
  <2> QED BY <2>1, <2>2 DEF Environment
<1>2. SectionInv' /\ NoMessageWithReceiver'
  BY <1>0, <1>1, LeavesSections DEF EventPart
<1>3. ThreadInv'
  BY <1>0, <1>1, ThreadsSame DEF IInv, QueueInv
<1> QED BY <1>0, <1>1, <1>2, <1>3, QuietStep

(* Nothing moves.                                                            *)
LEMMA SameKeeps ==
  ASSUME IInv, UNCHANGED vars
  PROVE  IInv' /\ Simulates
<1>0. UNCHANGED eventVars /\ UNCHANGED <<msgVars, bufVars>> /\ UNCHANGED <<recv, send>>
      /\ UNCHANGED <<ucType, ulCounter>>
  BY DEF vars, msgVars
<1>1. EventPart' /\ (\A u \in Threads : SameCall(u)) /\ UNCHANGED <<nest, frames, wq>>
  BY <1>0, EventStill
<1>2. SectionInv' /\ NoMessageWithReceiver'
  BY <1>0, <1>1, SameSections DEF IInv, QueueInv, NoMessageWithReceiver
<1>3. ThreadInv'
  BY <1>0, <1>1, ThreadsSame DEF IInv, QueueInv
<1> QED BY <1>0, <1>1, <1>2, <1>3, QuietStep

-----------------------------------------------------------------------------
(* The invariant always holds, and every step is one of Channel.             *)

(* It holds at first, and the queue starts where Channel does.               *)
LEMMA InitIInv ==
  ASSUME Init
  PROVE  IInv /\ C!Init
<1>1. EventInit /\ TRUE \in BOOLEAN
  BY DEF Init
<1>2. EvInv /\ EvCalls(TRUE) /\ EvHonest
  BY <1>1, EvInit, CallsInit
<1>3. mono \in Lists /\ Places(mono) = {} /\ IsFiniteSet(Places(mono))
      /\ Cardinality(Places(mono)) = 0
  BY PlacesEmpty DEF Init, Prios
<1>4. ulMaxCounter \in Capacities /\ ulMaxCounter \in Nat /\ ulOption \in Options
  BY MsgQueueAssumption DEF Init
<1>5. BufferInv
  <2>1. ulCounter \in 0 .. ulMaxCounter /\ free \in 0 .. ulMaxCounter
    BY <1>4 DEF Init
  <2>2. IsFiniteSet(Linked) /\ mono \in [0 .. PrioLow -> Seq(Messages)]
    BY <1>3, PlacesAre DEF Lists, Prios
  <2>3. ucType = "UNUSED" /\ uiMap \subseteq 0 .. PrioLow /\ BufferConsistent
    BY DEF Init, BufferConsistent
  <2> QED BY <1>4, <2>1, <2>2, <2>3 DEF BufferInv
<1>6. SectionInv
  BY DEF Init, EventInit, SectionInv, Deleting
<1>7. ThreadInv
  <2>1. NoSend \in Send /\ NoRecv \in Recv /\ NoRecv.msg = None
    BY EventAssumption DEF NoSend, Send, Timeouts, NotWait, Infinite, NoRecv, Recv
  <2>2. Running.ret = "NONE" /\ Running.pc = "run"
    BY DEF Running
  <2>3. ReceiveOK(Running, NoRecv) /\ SendOK(NoSend)
    BY <2>1, <2>2 DEF ReceiveOK, Served, SendOK
  <2> QED BY <2>1, <2>3 DEF Init, EventInit, ThreadInv
<1>8. NoMessageWithReceiver
  BY DEF Init, NoMessageWithReceiver
<1>9. C!Init
  <2>1. Pending = NothingPends
    BY PendingIs DEF Init
  <2>2. [t \in Threads |-> recv[t].msg] = [t \in Threads |-> None]
    BY DEF Init, NoRecv
  <2> QED BY <1>4, <2>1, <2>2 DEF C!Init, C!Empty, NothingPends, Prios
<1> QED BY <1>2, <1>5, <1>6, <1>7, <1>8, <1>9 DEF IInv, QueueInv

(* Every step keeps it and is one of Channel.                                *)
LEMMA NextIInv ==
  ASSUME IInv, IsrWakesPended = FALSE, [Next]_vars
  PROVE  IInv' /\ Simulates
<1>1. CASE UNCHANGED vars
  BY <1>1, SameKeeps
<1>2. CASE \E max \in Capacities, o \in Options : MsgQueueCreate(max, o)
  BY <1>2, MsgQueueCreateKeeps
<1>3. CASE \E t \in Threads, m \in Messages, timeout \in Timeouts : MsgQueueSend(t, m, timeout)
  BY <1>3, SendFromKeeps DEF MsgQueueSend
<1>4. CASE \E t \in Threads : Resend(t) \/ MsgQueueReturn(t)
  BY <1>4, ResendKeeps, MsgQueueReturnKeeps
<1>5. CASE \E t \in Threads, size \in BufferSizes, noError \in BOOLEAN, timeout \in Timeouts :
             MsgQueueReceive(t, size, noError, timeout)
  BY <1>5, MsgQueueReceiveKeeps
<1>6. CASE \/ \E m \in Messages : MsgQueueSendIsr(m) \/ MsgQueueBroadcast(m)
           \/ MsgQueueTryReceive
           \/ MsgQueueClearAll
           \/ \E q \in Events : MsgQueueFlush(q)
           \/ MsgQueueDelete
  BY <1>6, EnterKeeps
<1>7. CASE EventHigh \/ SectionNext \/ Environment
  BY <1>7, EventHighKeeps, SectionNextKeeps, EnvironmentKeeps
<1> QED BY <1>1, <1>2, <1>3, <1>4, <1>5, <1>6, <1>7 DEF Next

-----------------------------------------------------------------------------
(* The theorems, while no interrupt handler wakes a thread that waits        *)
(* without a timeout.                                                        *)

(* The inductive invariant holds of every behaviour of the queue.            *)
THEOREM InductiveInvariant == ASSUME IsrWakesPended = FALSE PROVE Spec => []IInv
<1>1. Init => IInv
  BY InitIInv
<1>2. IInv /\ [Next]_vars => IInv'
  BY NextIInv
<1> QED BY <1>1, <1>2, PTL DEF Spec

(* Type correctness: EVENT_ulCounter and the free list stay between 0 and    *)
(* EVENT_ulMaxCounter, and a list holds only messages that were sent.        *)
THEOREM TypeCorrect == ASSUME IsrWakesPended = FALSE PROVE Spec => []TypeOK
<1>1. IInv => TypeOK
  BY DEF IInv, EvInv, QueueInv, BufferInv, ThreadInv, TypeOK
<1> QED BY <1>1, InductiveInvariant, PTL

(* EVENT_ulCounter, MSGQUEUE_uiMap and the free list agree with the lists of *)
(* _MsgQueuePut, _MsgQueueGet and _MsgQueueClear, for every capacity.        *)
THEOREM BufferCorrect == ASSUME IsrWakesPended = FALSE PROVE Spec => []BufferConsistent
<1>1. IInv => BufferConsistent
  BY DEF IInv, QueueInv, BufferInv
<1> QED BY <1>1, InductiveInvariant, PTL

(* No receiver waits beside a message in the buffer, at every step of every  *)
(* send, receive, broadcast, clear and flush.                                *)
THEOREM NoMessageLeft == ASSUME IsrWakesPended = FALSE PROVE Spec => []NoMessageWithReceiver
<1>1. IInv => NoMessageWithReceiver
  BY DEF IInv, QueueInv
<1> QED BY <1>1, InductiveInvariant, PTL

(* A receive that has waited reports success exactly when it has a message,  *)
(* was flushed or was refused one too long, and the whole length of it.      *)
THEOREM HonestReceiveCorrect == ASSUME IsrWakesPended = FALSE PROVE Spec => []HonestReceive
<1>1. ASSUME IInv PROVE HonestReceive
  <2> SUFFICES ASSUME NEW t \in Threads, call[t].pc = "pend", call[t].ev = Q_R, IsReady(t)
               PROVE  LET ok == PendResult(ucWaitTimeout[t], ucIsEventDelete[t]) = "ERROR_NONE"
                          tooBig == recv[t].len = 0 /\ recv[t].stMaxByteSize = 0
                                    /\ ~recv[t].noError
                      IN  /\ recv[t].msg # None <=> ok /\ ~tooBig /\ call[t].got # "flush"
                          /\ recv[t].msg # None /\ ~recv[t].noError =>
                               recv[t].len = Bytes[recv[t].msg]
    BY DEF HonestReceive
  <2>1. ReceiveOK(call[t], recv[t]) /\ recv[t] \in Recv
    BY <1>1 DEF IInv, QueueInv, ThreadInv
  <2>2. HonestCall(t) /\ "SEM" \notin usStatus[t]
    BY <1>1 DEF IInv, EvHonest, IsReady
  <2>3. Honest(call[t], "NONE", ucWaitTimeout[t], ucIsEventDelete[t])
    BY <2>1, <2>2 DEF HonestCall, ReceiveOK
  <2>4. Served(call[t]) <=> /\ PendResult(ucWaitTimeout[t], ucIsEventDelete[t]) = "ERROR_NONE"
                            /\ call[t].got # "flush"
    BY <2>3 DEF Honest, Served, PendResult
  <2>5. recv[t].msg # None => ~Refused(recv[t])
    <3>1. ASSUME recv[t].msg # None, ~recv[t].noError PROVE recv[t].len # 0
      <4>1. recv[t].len = Bytes[recv[t].msg] /\ recv[t].msg \in Messages
        BY <2>1, <3>1 DEF ReceiveOK, Recv
      <4> QED BY <4>1, MsgQueueAssumption
    <3> QED BY <3>1 DEF Refused
  <2>6. Served(call[t]) /\ ~Refused(recv[t]) => recv[t].msg # None
    BY <2>1 DEF ReceiveOK
  <2>7. recv[t].msg # None => Served(call[t])
    BY <2>1 DEF ReceiveOK
  <2>8. recv[t].msg # None /\ ~recv[t].noError => recv[t].len = Bytes[recv[t].msg]
    BY <2>1 DEF ReceiveOK
  <2> QED BY <2>4, <2>5, <2>6, <2>7, <2>8 DEF Refused
<1> QED BY <1>1, InductiveInvariant, PTL

(* The queue implements Channel: messages leave the lists and the hands of   *)
(* API_MsgQueueSend in the order of their priority and of their sends, each  *)
(* once, and never more are held than EVENT_ulMaxCounter.                    *)
THEOREM ImplementsChannel == ASSUME IsrWakesPended = FALSE PROVE Spec => IsChannel
<1>1. Init => IInv /\ C!Init
  BY InitIInv
<1>2. IInv /\ [Next]_vars => IInv' /\ [C!Next]_(C!vars)
  BY NextIInv DEF Simulates
<1> QED BY <1>1, <1>2, PTL DEF Spec, IsChannel, C!Spec
=============================================================================
