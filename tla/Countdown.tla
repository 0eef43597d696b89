----------------------------- MODULE Countdown -----------------------------
(***************************************************************************)
(* What a timer promises: it counts down by one with every tick, its        *)
(* routine is called at zero, before the next tick, and then it stops or     *)
(* starts over.  No list, no scan, no window.                                *)
(***************************************************************************)
EXTENDS Integers

CONSTANTS
  Clocks,         \* the timers
  MaxCount,       \* longest time a timer can be set to
  NoOne

Stopped == -1

VARIABLES
  left,           \* left[t]: ticks until the routine of t is called, or Stopped
  reload,         \* what t starts over with
  auto,           \* does t start over by itself
  handler         \* the timer whose routine is being called

cVars == <<left, reload, auto, handler>>

Armed(t) == left[t] # Stopped

Init ==
  /\ left = [t \in Clocks |-> Stopped]
  /\ reload = [t \in Clocks |-> 0]
  /\ auto = [t \in Clocks |-> FALSE]
  /\ handler = NoOne

Set(t) ==
  /\ \E n, r \in 1 .. MaxCount, a \in BOOLEAN :
       /\ left' = [left EXCEPT ![t] = n]
       /\ reload' = [reload EXCEPT ![t] = r]
       /\ auto' = [auto EXCEPT ![t] = a]
  /\ UNCHANGED handler

StartOver(t) ==
  /\ Armed(t)
  /\ left' = [left EXCEPT ![t] = reload[t]]
  /\ UNCHANGED <<reload, auto, handler>>

Stop(t) ==
  /\ left' = [left EXCEPT ![t] = Stopped]
  /\ UNCHANGED <<reload, auto, handler>>

(* A timer that is new, or is given to somebody else.                        *)
Forget(t) ==
  /\ left' = [left EXCEPT ![t] = Stopped]
  /\ reload' = [reload EXCEPT ![t] = 0]
  /\ auto' = [auto EXCEPT ![t] = FALSE]
  /\ UNCHANGED handler

AfterFiring(t) == IF auto[t] THEN reload[t] ELSE Stopped

CountedDown == [t \in Clocks |-> IF Armed(t) THEN left[t] - 1 ELSE Stopped]

(* Nobody is passed over: a tick comes when no routine is due or running.    *)
Tick ==
  /\ handler = NoOne
  /\ \A t \in Clocks : left[t] # 0
  /\ \/ left' = CountedDown /\ UNCHANGED handler
     \/ \E t \in Clocks :
          /\ CountedDown[t] = 0
          /\ left' = [CountedDown EXCEPT ![t] = AfterFiring(t)]
          /\ handler' = t
  /\ UNCHANGED <<reload, auto>>

Fire(t) ==
  /\ handler = NoOne
  /\ left[t] = 0
  /\ left' = [left EXCEPT ![t] = AfterFiring(t)]
  /\ handler' = t
  /\ UNCHANGED <<reload, auto>>

Return ==
  /\ handler # NoOne
  /\ handler' = NoOne
  /\ UNCHANGED <<left, reload, auto>>

Next ==
  \/ \E t \in Clocks : Set(t) \/ StartOver(t) \/ Stop(t) \/ Forget(t) \/ Fire(t)
  \/ Tick
  \/ Return

Spec == Init /\ [][Next]_cVars

=============================================================================
