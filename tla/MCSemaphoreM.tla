---------------------------- MODULE MCSemaphoreM ----------------------------
(* Small instances of SemaphoreM for TLC.                                   *)
EXTENDS SemaphoreM

Option(prio, inherit, kind) ==
  [prio |-> prio, inherit |-> inherit, kind |-> kind, inter |-> TRUE]

PrioInherit  == {Option(TRUE, TRUE, "recursive")}
Restartable  == {[prio |-> FALSE, inherit |-> TRUE, kind |-> k, inter |-> FALSE] :
                   k \in {"recursive", "normal"}}
FifoChecked  == {Option(FALSE, TRUE, "errorcheck")}
PrioChecked  == {Option(TRUE, TRUE, "errorcheck")}
OnePriority  == {0}
TwoPriorities == {0, 1}
Top          == {0}

ThreadSymmetry == Permutations(Threads)
=============================================================================
