------------------------------ MODULE MCTimers ------------------------------
(* Bounded instance of Timers for TLC. *)
EXTENDS Timers, TLC

CONSTANTS t1, t2, t3

MCTimer == {t1, t2, t3}
MCDelta == {1, 2, 4}

MCSymmetry == Permutations(MCTimer)
=============================================================================
