---------------------------- MODULE MCSemaphoreRW ----------------------------
(* Small instances of SemaphoreRW for TLC.                                  *)
EXTENDS SemaphoreRW, TLC

BothPreferences == {[prio |-> FALSE, inter |-> FALSE, preferWriter |-> w] : w \in BOOLEAN}
PreferReader    == {[prio |-> FALSE, inter |-> FALSE, preferWriter |-> FALSE]}
OnePriority     == {0}

ThreadSymmetry == Permutations(Threads)
=============================================================================
