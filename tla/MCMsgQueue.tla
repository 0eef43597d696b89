----------------------------- MODULE MCMsgQueue -----------------------------
(* Small instances of MsgQueue for TLC.                                     *)
EXTENDS MsgQueue, TLC

FifoOption  == {[prio |-> FALSE, inter |-> FALSE]}
OnePriority == {0}
(* A short urgent message, a longer plain one and a short plain one.        *)
ThreeBytes  == <<1, 2, 1>>
ThreePrios  == <<0, 1, 1>>
OneByte     == <<1>>
PlainPrio   == <<0>>
=============================================================================
