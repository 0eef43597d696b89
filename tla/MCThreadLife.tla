---------------------------- MODULE MCThreadLife ----------------------------
(* Small instances of ThreadLife for TLC.                                   *)
EXTENDS ThreadLife, TLC

Options(p, d, i) == [posix |-> p, detached |-> d, init |-> i]

AnyKind == {Options(TRUE, FALSE, TRUE), Options(TRUE, FALSE, FALSE),
            Options(FALSE, FALSE, FALSE), Options(FALSE, TRUE, FALSE)}

ThreadSymmetry == Permutations(Threads)
=============================================================================
