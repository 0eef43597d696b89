------------------------------ MODULE MCTimer ------------------------------
(* Small instances of Timer for TLC.                                        *)
EXTENDS Timer

Start(i, r, a) == [init |-> i, repeat |-> r, auto |-> a]

OnceAndAgain == {Start(1, 1, FALSE), Start(2, 1, TRUE)}
=============================================================================
