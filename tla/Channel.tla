------------------------------ MODULE Channel ------------------------------
(***************************************************************************)
(* What a message queue promises: messages come out in the order of their   *)
(* priority, those of one priority in the order they were accepted in, each *)
(* once.  A receiver that waits is handed a message without delay, which is *)
(* possible only when nothing is pending that should have come first.       *)
(***************************************************************************)
EXTENDS Naturals, Sequences, FiniteSets

CONSTANTS
  Messages,       \* what can be sent
  Prios,          \* priorities, 0 is the most urgent
  Prio,           \* the priority of a message
  Receivers,      \* who may wait for a message
  None,           \* no message
  Limits          \* how many messages a channel may be made to hold

VARIABLES
  pending,        \* pending[p]: accepted with priority p and not yet received, in order
  limit,          \* messages the channel can hold
  inbox           \* what a waiting receiver has been handed

vars == <<pending, limit, inbox>>

Empty == [p \in Prios |-> <<>>]

Init == pending = Empty /\ limit \in Limits /\ inbox = [r \in Receivers |-> None]

(* The places that messages take up.                                         *)
Used == UNION {{p} \X (1 .. Len(pending[p])) : p \in Prios}

Accept(m) ==
  /\ Cardinality(Used) < limit
  /\ pending' = [pending EXCEPT ![Prio[m]] = Append(@, m)]
  /\ UNCHANGED <<limit, inbox>>

(* The oldest of the most urgent.                                            *)
Take(p) ==
  /\ pending[p] # <<>>
  /\ \A q \in Prios : q < p => pending[q] = <<>>
  /\ pending' = [pending EXCEPT ![p] = Tail(@)]
  /\ UNCHANGED <<limit, inbox>>

Hand(m, r) ==
  /\ pending = Empty
  /\ inbox[r] = None
  /\ inbox' = [inbox EXCEPT ![r] = m]
  /\ UNCHANGED <<pending, limit>>

Return(r) ==
  /\ inbox[r] # None
  /\ inbox' = [inbox EXCEPT ![r] = None]
  /\ UNCHANGED <<pending, limit>>

Discard == pending' = Empty /\ UNCHANGED <<limit, inbox>>

(* A channel that is made again, with a limit of its own.                    *)
Open(max) == pending = Empty /\ limit' = max /\ UNCHANGED <<pending, inbox>>

Next ==
  \/ \E m \in Messages : Accept(m)
  \/ \E p \in Prios : Take(p)
  \/ \E m \in Messages, r \in Receivers : Hand(m, r)
  \/ \E r \in Receivers : Return(r)
  \/ Discard
  \/ \E max \in Limits : Open(max)

Spec == Init /\ [][Next]_vars

=============================================================================
