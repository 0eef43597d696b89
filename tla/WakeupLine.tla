----------------------------- MODULE WakeupLine -----------------------------
(***************************************************************************)
(* LW_CLASS_WAKEUP, the list that thread delays, watchdogs and timers wait  *)
(* on.  A node's WUN_ulCounter is the time it has to wait beyond the node   *)
(* before it, so that a tick touches the first node alone.                  *)
(*                                                                         *)
(* A line is a record: nodes, the list; ctr, WUN_ulCounter of every node;   *)
(* op, WU_plineOp, the node a scan looks at next; elapsed, the time since   *)
(* WU_i64LastTime.                                                          *)
(***************************************************************************)
EXTENDS Integers, Sequences, SequencesExt

CONSTANTS
  Nodes,          \* the nodes that can be linked into a line
  Null            \* LW_NULL

ASSUME WakeupLineAssumption == Null \notin Nodes

EmptyLine == [nodes |-> <<>>, ctr |-> [n \in Nodes |-> 0], op |-> Null, elapsed |-> 0]

LineType(w) ==
  /\ w.nodes \in Seq(Nodes)
  /\ w.ctr \in [Nodes -> Nat]
  /\ w.op \in Nodes \cup {Null}
  /\ w.elapsed \in Nat

First(w) == IF w.nodes = <<>> THEN Null ELSE Head(w.nodes)

Position(w, n) == CHOOSE i \in 1 .. Len(w.nodes) : w.nodes[i] = n

(* _list_line_get_next.                                                     *)
NextOf(w, n) ==
  IF Position(w, n) < Len(w.nodes) THEN w.nodes[Position(w, n) + 1] ELSE Null

(* The time the first i nodes wait together: what node i still waits.       *)
WaitOf(w, i) ==
  LET sum[j \in 0 .. i] == IF j = 0 THEN 0 ELSE sum[j - 1] + w.ctr[w.nodes[j]]
  IN  sum[i]

Less(a, b) == IF a > b THEN a - b ELSE 0

(* The time gone by since WU_i64LastTime is taken off one node and no more   *)
(* than that node has: the rest of it is forgotten.                          *)
(* Mutant: all of it is taken off.                                           *)
ProcTime_Unclamped(w, n) ==
  [w EXCEPT !.elapsed = 0,
            !.ctr = IF n = Null THEN w.ctr ELSE [w.ctr EXCEPT ![n] = @ - w.elapsed]]

ProcTime(w, n) ==
  [w EXCEPT !.elapsed = 0,
            !.ctr = IF n = Null THEN w.ctr ELSE [w.ctr EXCEPT ![n] = Less(@, w.elapsed)]]

(* Where _WakeupAdd links a node that is to wait c: before the first that    *)
(* waits longer.                                                             *)
Place(w, c) ==
  CHOOSE i \in 1 .. Len(w.nodes) + 1 :
    /\ WaitOf(w, i - 1) =< c
    /\ i =< Len(w.nodes) => c < WaitOf(w, i)

(* Mutant: the node to the right is not counted down.                        *)
Link_RightUnchanged(w, n, c) ==
  LET i == Place(w, c)
  IN  [w EXCEPT !.nodes = InsertAt(w.nodes, i, n),
                !.ctr = [w.ctr EXCEPT ![n] = c - WaitOf(w, i - 1)]]

Link(w, n, c) ==
  LET i    == Place(w, c)
      own  == c - WaitOf(w, i - 1)
      ctrs == [w.ctr EXCEPT ![n] = own]
  IN  [w EXCEPT !.nodes = InsertAt(w.nodes, i, n),
                !.ctr = IF i > Len(w.nodes) THEN ctrs
                        ELSE [ctrs EXCEPT ![w.nodes[i]] = @ - own]]

(* _WakeupAdd; proc: bProcTime on a line that has WU_pfuncWakeup.            *)
WakeupAdd(w, n, c, proc) == Link(IF proc THEN ProcTime(w, First(w)) ELSE w, n, c)

(* _WakeupDel.                                                              *)
(* Mutant: a scan's next node is unlinked under it.                          *)
WakeupDel_CursorStays(w, n, proc) ==
  LET right == NextOf(w, n)
      w1 == [w EXCEPT !.ctr = IF right = Null THEN w.ctr
                              ELSE [w.ctr EXCEPT ![right] = @ + w.ctr[n]]]
      w2 == IF proc /\ First(w) = n THEN ProcTime(w1, right) ELSE w1
  IN  [w2 EXCEPT !.nodes = RemoveAt(w.nodes, Position(w, n))]

WakeupDel(w, n, proc) ==
  LET right == NextOf(w, n)
      w1 == [w EXCEPT !.op  = IF @ = n THEN right ELSE @,
                      !.ctr = IF right = Null THEN w.ctr
                              ELSE [w.ctr EXCEPT ![right] = @ + w.ctr[n]]]
      w2 == IF proc /\ First(w) = n THEN ProcTime(w1, right) ELSE w1
  IN  [w2 EXCEPT !.nodes = RemoveAt(w.nodes, Position(w, n))]

(* __WAKEUP_PASS_FIRST with the time c still to be applied: a scan that is   *)
(* at its end, one that stops at a node with time left, one that finds a     *)
(* node due and goes on behind it with what is left of c.                    *)
ScanOver(w)     == w.op = Null
ScanStops(w, c) == w.op # Null /\ w.ctr[w.op] > c
ScanDue(w, c)   == w.op # Null /\ w.ctr[w.op] =< c

StopScan(w, c) == [w EXCEPT !.op = NextOf(w, w.op), !.ctr = [w.ctr EXCEPT ![w.op] = @ - c]]

TakeDue(w) == [w EXCEPT !.op = NextOf(w, w.op), !.ctr = [w.ctr EXCEPT ![w.op] = 0]]

=============================================================================
