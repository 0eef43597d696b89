----------------------------- MODULE TimerEarly -----------------------------
(***************************************************************************)
(* Timer with a history variable, the time each application timer has still *)
(* to wait for: set when it is started, counted down by the clock.           *)
(***************************************************************************)
EXTENDS Timer

VARIABLE due

TimeLeft(t) == IF Running(t) THEN WaitOf(wu["I"], Position(wu["I"], t)) ELSE 0

Called(t) == scan'["I"].t = t /\ scan["I"].t # t

AfterCall(t) == IF autoRestart[t] THEN ulCounterSave[t] ELSE 0

DueInit == Init /\ due = [t \in Timers |-> 0]

DueNext ==
  \/ \E t \in Timers : Call(t) /\ due' = [due EXCEPT ![t] = TimeLeft(t)']
  \/ ThreadStep /\ due' = [t \in Timers |-> IF Called(t) THEN AfterCall(t) ELSE due[t]]
  \/ Clock /\ due' = [t \in Timers |-> Less(due[t], 1)]

DueSpec == DueInit /\ [][DueNext]_<<vars, due>>

(* A routine is never called before the time the timer was started with has  *)
(* gone by.  _ITimerThread does not keep to it.                              *)
NeverEarly == [][\A t \in Timers : Called(t) => due[t] = 0]_<<vars, due>>

(* The arguments of API_TimerStartEx in the run.                             *)
AllStarts == [init : 1 .. MaxCount, repeat : 1 .. MaxCount, auto : BOOLEAN]

=============================================================================
