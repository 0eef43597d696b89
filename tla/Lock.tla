-------------------------------- MODULE Lock --------------------------------
(***************************************************************************)
(* What a mutex promises: one thread has it, as often as it took it; while  *)
(* a thread waits nobody else can take it, and giving it up passes it to    *)
(* one that waits, with no moment in between at which nobody has it.        *)
(***************************************************************************)
EXTENDS Naturals

CONSTANTS
  Threads,
  Mutexes,
  Null            \* nobody

VARIABLES
  owner,          \* owner[m]: the thread that has m, or Null
  depth,          \* depth[m]: how often it took m again
  waiters         \* waiters[m]: the threads that wait for m

vars == <<owner, depth, waiters>>

Init ==
  /\ owner = [m \in Mutexes |-> Null]
  /\ depth = [m \in Mutexes |-> 0]
  /\ waiters = [m \in Mutexes |-> {}]

(* A thread that waits does nothing else.                                    *)
Active(t) == \A m \in Mutexes : t \notin waiters[m]

Acquire(m, t) ==
  /\ owner[m] = Null /\ waiters[m] = {} /\ Active(t)
  /\ owner' = [owner EXCEPT ![m] = t]
  /\ UNCHANGED <<depth, waiters>>

Reenter(m) ==
  /\ owner[m] # Null /\ Active(owner[m])
  /\ depth' = [depth EXCEPT ![m] = @ + 1]
  /\ UNCHANGED <<owner, waiters>>

Wait(m, t) ==
  /\ owner[m] # Null /\ Active(t)
  /\ waiters' = [waiters EXCEPT ![m] = @ \cup {t}]
  /\ UNCHANGED <<owner, depth>>

(* A timeout, a wakeup, a signal, or the mutex is being destroyed.           *)
GiveUp(m, t) ==
  /\ t \in waiters[m]
  /\ waiters' = [waiters EXCEPT ![m] = @ \ {t}]
  /\ UNCHANGED <<owner, depth>>

Leave(m) ==
  /\ owner[m] # Null /\ Active(owner[m]) /\ depth[m] > 0
  /\ depth' = [depth EXCEPT ![m] = @ - 1]
  /\ UNCHANGED <<owner, waiters>>

PassOn(m, t) ==
  /\ owner[m] # Null /\ Active(owner[m]) /\ depth[m] = 0
  /\ t \in waiters[m]
  /\ owner' = [owner EXCEPT ![m] = t]
  /\ waiters' = [waiters EXCEPT ![m] = @ \ {t}]
  /\ UNCHANGED depth

Release(m) ==
  /\ owner[m] # Null /\ Active(owner[m]) /\ depth[m] = 0
  /\ waiters[m] = {}
  /\ owner' = [owner EXCEPT ![m] = Null]
  /\ UNCHANGED <<depth, waiters>>

Destroy(m) ==
  /\ waiters[m] = {}
  /\ owner' = [owner EXCEPT ![m] = Null]
  /\ depth' = [depth EXCEPT ![m] = 0]
  /\ UNCHANGED waiters

Next ==
  \E m \in Mutexes :
    \/ Reenter(m)
    \/ Leave(m)
    \/ Release(m)
    \/ Destroy(m)
    \/ \E t \in Threads : Acquire(m, t) \/ Wait(m, t) \/ GiveUp(m, t) \/ PassOn(m, t)

Spec == Init /\ [][Next]_vars

=============================================================================
