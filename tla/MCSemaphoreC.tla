---------------------------- MODULE MCSemaphoreC ----------------------------
(* Small instances of SemaphoreC for TLC.                                   *)
EXTENDS SemaphoreC

FifoOnly     == {[prio |-> FALSE, inter |-> FALSE]}
PrioOnly     == {[prio |-> TRUE,  inter |-> FALSE]}
FifoInter    == {[prio |-> FALSE, inter |-> TRUE]}
PrioInter    == {[prio |-> TRUE,  inter |-> TRUE]}
OnePriority  == {0}
TwoPriorities == {0, 1}

ThreadSymmetry == Permutations(Threads)
=============================================================================
