------------------------------- MODULE Timer -------------------------------
(***************************************************************************)
(* Timers: API_TimerCreate, StartEx, Cancel, Reset, Delete; the high-speed  *)
(* ones (kind "H") are scanned by API_TimerHTicks in a timer interrupt, the  *)
(* application ones (kind "I") by the thread _ITimerThread, which sleeps     *)
(* until the first of them is due.  Both scans call the routine of a due     *)
(* timer with the kernel unlocked, so that anybody may change the line under *)
(* them, and let interrupts in between two timers.                           *)
(***************************************************************************)
EXTENDS WakeupLine, FiniteSets

CONSTANTS
  Timers,         \* the pool of timer control blocks, _K_tmrBuffer
  Kinds,          \* the kinds of timers in use, a subset of {"H", "I"}
  Starts,         \* the arguments API_TimerStartEx is called with
  MaxCount,       \* bound: longest interval of a timer
  IdleTicks,      \* LW_ITIMER_IDLE_TICK
  MaxElapsed      \* bound: time since WU_i64LastTime that is told apart

ASSUME TimerAssumption ==
  /\ Timers = Nodes
  /\ Kinds \subseteq {"H", "I"}
  /\ MaxCount \in Nat \ {0}
  /\ Starts \subseteq [init : 1 .. MaxCount, repeat : 1 .. MaxCount, auto : BOOLEAN]
  /\ IdleTicks \in Nat \ {0}
  /\ MaxElapsed \in Nat \ {0}

VARIABLES
  ucType,         \* TIMER_ucType: "UNUSED", "H" or "I"
  ucStatus,       \* TIMER_ucStatus
  ulCounterSave,  \* TIMER_ulCounterSave
  autoRestart,    \* TIMER_ulOption & LW_OPTION_AUTO_RESTART
  wu,             \* _K_wuHTmr and _K_wuITmr
  scan,           \* where API_TimerHTicks and _ITimerThread are, with ulCounter
  ulDelay,        \* TCB_ulDelay of the timer thread
  bNoTimer        \* its local of that name

vars == <<ucType, ucStatus, ulCounterSave, autoRestart, wu, scan, ulDelay, bNoTimer>>
tmrVars == <<ucType, ucStatus, ulCounterSave, autoRestart>>

Lines == {"H", "I"}

(* idle: API_TimerHTicks is not running; loop, sleep, awake: the timer       *)
(* thread outside its scan; call: the routine of timer t is called, the      *)
(* kernel is unlocked; window: kernel locked, interrupts on.                 *)
Scan == [pc : {"idle", "loop", "sleep", "awake", "call", "window"},
         t : Timers \cup {Null}, ulCounter : Nat]

At(pc) == [pc |-> pc, t |-> Null, ulCounter |-> 0]

ScanRests == [k \in Lines |-> At(IF k = "H" THEN "idle" ELSE "loop")]

Running(t) == ucStatus[t] = "RUNNING"

TypeOK ==
  /\ ucType \in [Timers -> {"UNUSED"} \cup Kinds]
  /\ ucStatus \in [Timers -> {"STOP", "RUNNING"}]
  /\ ulCounterSave \in [Timers -> 0 .. MaxCount]
  /\ autoRestart \in [Timers -> BOOLEAN]
  /\ \A k \in Lines : LineType(wu[k])
  /\ scan \in [Lines -> Scan]
  /\ ulDelay \in 0 .. MaxCount + IdleTicks
  /\ bNoTimer \in BOOLEAN

Init ==
  /\ ucType = [t \in Timers |-> "UNUSED"]
  /\ ucStatus = [t \in Timers |-> "STOP"]
  /\ ulCounterSave = [t \in Timers |-> 0]
  /\ autoRestart = [t \in Timers |-> FALSE]
  /\ wu = [k \in Lines |-> EmptyLine]
  /\ scan = ScanRests
  /\ ulDelay = 0
  /\ bNoTimer = FALSE

-----------------------------------------------------------------------------
(* The calls.  A thread needs the kernel lock; StartEx, Cancel and Reset may *)
(* be called by an interrupt handler, also in a window of a scan.            *)
ThreadEnter == \A k \in Lines : scan[k].pc # "window"

HasWakeup(k) == k = "I"                   \* WU_pfuncWakeup # LW_NULL

Unlinked(t) == WakeupDel(wu[ucType[t]], t, HasWakeup(ucType[t]))

(* _ITimerWakeup: API_ThreadWakeup of a thread that is not asleep fails.     *)
ITimerWakeup == scan' = [scan EXCEPT !["I"] = IF @.pc = "sleep" THEN At("awake") ELSE @]

TimerCreate(t, kind) ==
  /\ ThreadEnter
  /\ ucType[t] = "UNUSED"
  /\ ucType' = [ucType EXCEPT ![t] = kind]
  /\ ucStatus' = [ucStatus EXCEPT ![t] = "STOP"]
  /\ ulCounterSave' = [ulCounterSave EXCEPT ![t] = 0]
  /\ autoRestart' = [autoRestart EXCEPT ![t] = FALSE]
  /\ UNCHANGED <<wu, scan, ulDelay, bNoTimer>>

(* Links t into its line, w being the line without t.                        *)
AddTimer(t, w, c) ==
  LET k == ucType[t]
  IN  /\ wu' = [wu EXCEPT ![k] = WakeupAdd(w, t, c, HasWakeup(k))]
      /\ IF HasWakeup(k) THEN ITimerWakeup ELSE UNCHANGED scan

TimerStartEx(t, init, repeat, auto) ==
  /\ ucType[t] # "UNUSED"
  /\ AddTimer(t, IF Running(t) THEN Unlinked(t) ELSE wu[ucType[t]], init)
  /\ ulCounterSave' = [ulCounterSave EXCEPT ![t] = repeat]
  /\ autoRestart' = [autoRestart EXCEPT ![t] = auto]
  /\ ucStatus' = [ucStatus EXCEPT ![t] = "RUNNING"]
  /\ UNCHANGED <<ucType, ulDelay, bNoTimer>>

TimerReset(t) ==
  /\ ucType[t] # "UNUSED" /\ Running(t)
  /\ AddTimer(t, Unlinked(t), ulCounterSave[t])
  /\ UNCHANGED <<tmrVars, ulDelay, bNoTimer>>

StopTimer(t) ==
  /\ ucStatus' = [ucStatus EXCEPT ![t] = "STOP"]
  /\ wu' = [wu EXCEPT ![ucType[t]] = [Unlinked(t) EXCEPT !.ctr[t] = 0]]

TimerCancel(t) ==
  /\ ucType[t] # "UNUSED" /\ Running(t)
  /\ StopTimer(t)
  /\ UNCHANGED <<ucType, ulCounterSave, autoRestart, scan, ulDelay, bNoTimer>>

TimerDelete(t) ==
  /\ ThreadEnter
  /\ ucType[t] # "UNUSED"
  /\ ucType' = [ucType EXCEPT ![t] = "UNUSED"]
  /\ IF Running(t) THEN StopTimer(t) ELSE UNCHANGED <<ucStatus, wu>>
  /\ UNCHANGED <<ulCounterSave, autoRestart, scan, ulDelay, bNoTimer>>

-----------------------------------------------------------------------------
(* The scans.  w is the line with its cursor set, c the time to apply; one   *)
(* step goes up to the call of a routine or to the end of the scan.          *)
FireTimer(k, w, c) ==
  LET t    == w.op
      gone == WakeupDel(TakeDue(w), t, FALSE)
  IN  /\ scan' = [scan EXCEPT ![k] = [pc |-> "call", t |-> t, ulCounter |-> c - w.ctr[t]]]
      /\ IF autoRestart[t]
         THEN /\ wu' = [wu EXCEPT ![k] = WakeupAdd(gone, t, ulCounterSave[t], FALSE)]
              /\ UNCHANGED ucStatus
         ELSE /\ wu' = [wu EXCEPT ![k] = gone]
              /\ ucStatus' = [ucStatus EXCEPT ![t] = "STOP"]

ScanFrom(k, w, c) ==
  /\ \/ ScanDue(w, c) /\ FireTimer(k, w, c)
     \/ /\ ScanStops(w, c)
        /\ wu' = [wu EXCEPT ![k] = StopScan(w, c)]
        /\ scan' = [scan EXCEPT ![k] = ScanRests[k]]
        /\ UNCHANGED ucStatus
     \/ /\ ScanOver(w)
        /\ wu' = [wu EXCEPT ![k] = w]
        /\ scan' = [scan EXCEPT ![k] = ScanRests[k]]
        /\ UNCHANGED ucStatus
  /\ UNCHANGED <<ucType, ulCounterSave, autoRestart, ulDelay, bNoTimer>>

(* Mutant: a scan goes on from where the one before it stopped.              *)
FromHeader_Stale(w) == w

FromHeader(w) == [w EXCEPT !.op = First(w)]

(* API_TimerHTicks: an interrupt, so it may come in a window of the thread.  *)
HTicks ==
  /\ scan["H"].pc = "idle"
  /\ ScanFrom("H", FromHeader(wu["H"]), 1)

(* The routine returns; the scan takes the kernel lock again and goes        *)
(* through a window to the next node.  An interrupt is over before the       *)
(* thread goes on.                                                           *)
CallReturns(k) ==
  /\ scan[k].pc = "call"
  /\ k = "I" => scan["H"].pc # "window"
  /\ scan' = [scan EXCEPT ![k] = [@ EXCEPT !.pc = "window", !.t = Null]]
  /\ UNCHANGED <<tmrVars, wu, ulDelay, bNoTimer>>

ScanNext(k) ==
  /\ scan[k].pc = "window"
  /\ k = "I" => scan["H"].pc = "idle"
  /\ ScanFrom(k, wu[k], scan[k].ulCounter)

(* The top of the loop of _ITimerThread up to its sleep.                     *)
ITimerLoop ==
  /\ scan["I"].pc = "loop" /\ ThreadEnter
  /\ wu' = [wu EXCEPT !["I"].elapsed = 0]
  /\ bNoTimer' = (wu["I"].nodes = <<>>)
  /\ ulDelay' = IF bNoTimer' THEN IdleTicks ELSE wu["I"].ctr[First(wu["I"])]
  /\ scan' = [scan EXCEPT !["I"] = At("sleep")]
  /\ UNCHANGED tmrVars

(* From the sleep to the first routine, or back to the top.                  *)
ITimerAwake ==
  /\ scan["I"].pc = "awake" /\ ThreadEnter
  /\ \/ /\ bNoTimer
        /\ scan' = [scan EXCEPT !["I"] = At("loop")]
        /\ UNCHANGED <<tmrVars, wu, ulDelay, bNoTimer>>
     \/ /\ ~bNoTimer
        /\ ScanFrom("I", [FromHeader(wu["I"]) EXCEPT !.elapsed = 0], wu["I"].elapsed)

(* The system tick: time goes by, _ThreadTick wakes the timer thread.        *)
Clock ==
  /\ "I" \in Kinds
  /\ wu' = [wu EXCEPT !["I"].elapsed = IF @ < MaxElapsed THEN @ + 1 ELSE @]
  /\ IF scan["I"].pc = "sleep"
     THEN /\ ulDelay' = Less(ulDelay, 1)
          /\ scan' = [scan EXCEPT !["I"] = IF ulDelay' = 0 THEN At("awake") ELSE @]
     ELSE UNCHANGED <<ulDelay, scan>>
  /\ UNCHANGED <<tmrVars, bNoTimer>>

Call(t) ==
  \/ \E k \in Kinds : TimerCreate(t, k)
  \/ \E a \in Starts : TimerStartEx(t, a.init, a.repeat, a.auto)
  \/ TimerReset(t)
  \/ TimerCancel(t)
  \/ TimerDelete(t)

(* What goes on by itself: the interrupts and the timer thread.              *)
ThreadStep == ITimerLoop \/ ITimerAwake \/ CallReturns("I") \/ ScanNext("I")
IntStep    == CallReturns("H") \/ ScanNext("H")
Machine    == HTicks \/ IntStep \/ ThreadStep \/ Clock

Next == (\E t \in Timers : Call(t)) \/ Machine

Spec == Init /\ [][Next]_vars

(* Fairness.  Both interrupts keep coming and run to their end, routines     *)
(* return, and the timer thread is scheduled and gets the kernel lock.       *)
Fairness == WF_vars(HTicks) /\ WF_vars(IntStep) /\ SF_vars(ThreadStep) /\ WF_vars(Clock)

LiveSpec == Spec /\ Fairness

-----------------------------------------------------------------------------
(* Properties.                                                             *)

(* A timer is linked into the line of its kind exactly once while its status *)
(* is RUNNING and otherwise into none, whatever a routine or an interrupt    *)
(* does to the line in the middle of a scan, and the node the scan goes on   *)
(* with is never one that was unlinked.                                      *)
LineConsistent ==
  /\ \A k \in Lines :
       /\ IsInjective(wu[k].nodes)
       /\ ToSet(wu[k].nodes) = {t \in Timers : ucType[t] = k /\ Running(t)}
       /\ wu[k].op # Null => Contains(wu[k].nodes, wu[k].op)
  /\ \A t \in Timers : ucType[t] = "UNUSED" => ~Running(t)

(* Kind H against Countdown: the time left of a timer is the sum of the      *)
(* counters up to it.                                                        *)
HLeft(t) ==
  IF Running(t) /\ ucType[t] = "H" /\ Contains(wu["H"].nodes, t)
  THEN WaitOf(wu["H"], Position(wu["H"], t))
  ELSE -1

IsH(t) == ucType[t] = "H"

HCountdown == INSTANCE Countdown WITH
  Clocks  <- Timers,
  NoOne   <- Null,
  left    <- [t \in Timers |-> HLeft(t)],
  reload  <- [t \in Timers |-> IF IsH(t) THEN ulCounterSave[t] ELSE 0],
  auto    <- [t \in Timers |-> IsH(t) /\ autoRestart[t]],
  handler <- scan["H"].t

(* High-speed timers implement Countdown: however the calls fall into the    *)
(* scan, every call of API_TimerHTicks counts for every timer, the routine   *)
(* of a timer is called at the tick it was set to and at no other, once, and *)
(* no timer is late or skipped because of another one.                       *)
HTimersCountDown == HCountdown!Spec /\ [][HTicks => HCountdown!Tick]_vars

(* If the calls on timers come to an end, every timer that runs has its      *)
(* routine called, although the timer thread loses time between two scans    *)
(* (WU_i64LastTime is set anew) and in _WakeupAdd.                           *)
TimerFires ==
  <>[][Machine]_vars =>
    \A t \in Timers : Running(t) ~> ~Running(t) \/ \E k \in Lines : scan[k].t = t

=============================================================================
