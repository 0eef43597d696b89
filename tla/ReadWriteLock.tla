--------------------------- MODULE ReadWriteLock ---------------------------
(***************************************************************************)
(* What a read-write lock promises: many read or one writes, each as often  *)
(* as it took the lock; a thread comes to it past a waiting writer only as a *)
(* reader that waited too, and not even so when writers are preferred; what  *)
(* a thread has it keeps until it gives it up itself.                        *)
(***************************************************************************)
EXTENDS Naturals

CONSTANT Threads

VARIABLES
  has,            \* has[t][m]: how often t has the lock for reading, writing
  waiting,        \* waiting[m]: the threads that wait to read, to write
  preferWriter    \* writers go first

vars == <<has, waiting, preferWriter>>

Modes == {"R", "W"}

Init ==
  /\ has = [t \in Threads |-> [m \in Modes |-> 0]]
  /\ waiting = [m \in Modes |-> {}]
  /\ preferWriter \in BOOLEAN

(* A thread that waits does nothing else.                                    *)
Active(t) == \A m \in Modes : t \notin waiting[m]

NobodyHas(m) == \A t \in Threads : has[t][m] = 0
Free == \A m \in Modes : NobodyHas(m)
NobodyWaits == \A m \in Modes : waiting[m] = {}

Gains(t, m) == has' = [has EXCEPT ![t][m] = @ + 1]

Read(t) ==
  /\ Active(t) /\ NobodyHas("W") /\ waiting["W"] = {}
  /\ Gains(t, "R")
  /\ UNCHANGED <<waiting, preferWriter>>

Write(t) ==
  /\ Active(t) /\ Free
  /\ preferWriter => NobodyWaits
  /\ Gains(t, "W")
  /\ UNCHANGED <<waiting, preferWriter>>

WriteAgain(t) ==
  /\ Active(t) /\ has[t]["W"] > 0
  /\ Gains(t, "W")
  /\ UNCHANGED <<waiting, preferWriter>>

(* Only for a lock that cannot be had.                                       *)
Wait(t, m) ==
  /\ Active(t)
  /\ IF m = "R" THEN ~NobodyHas("W") \/ waiting["W"] # {}
                ELSE ~Free /\ has[t]["W"] = 0
  /\ waiting' = [waiting EXCEPT ![m] = @ \cup {t}]
  /\ UNCHANGED <<has, preferWriter>>

(* A timeout, a wakeup, or the lock is being destroyed.                      *)
GiveUp(t, m) ==
  /\ t \in waiting[m]
  /\ waiting' = [waiting EXCEPT ![m] = @ \ {t}]
  /\ UNCHANGED <<has, preferWriter>>

(* One that waits is let in.                                                 *)
Admit(t, m) ==
  /\ t \in waiting[m]
  /\ NobodyHas("W")
  /\ IF m = "R" THEN preferWriter => waiting["W"] = {}
                ELSE NobodyHas("R")
  /\ Gains(t, m)
  /\ waiting' = [waiting EXCEPT ![m] = @ \ {t}]
  /\ UNCHANGED preferWriter

Leave(t, m) ==
  /\ Active(t) /\ has[t][m] > 0
  /\ has' = [has EXCEPT ![t][m] = @ - 1]
  /\ UNCHANGED <<waiting, preferWriter>>

Create ==
  /\ Free /\ NobodyWaits
  /\ preferWriter' \in BOOLEAN
  /\ UNCHANGED <<has, waiting>>

Destroy ==
  /\ NobodyWaits
  /\ has' = [t \in Threads |-> [m \in Modes |-> 0]]
  /\ UNCHANGED <<waiting, preferWriter>>

Next ==
  \/ Create
  \/ Destroy
  \/ \E t \in Threads : Read(t) \/ Write(t) \/ WriteAgain(t)
  \/ \E t \in Threads, m \in Modes : Wait(t, m) \/ GiveUp(t, m) \/ Admit(t, m) \/ Leave(t, m)

Spec == Init /\ [][Next]_vars

=============================================================================
