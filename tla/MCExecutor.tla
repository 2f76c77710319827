----------------------------- MODULE MCExecutor -----------------------------
(* A small instance of the executor. *)
EXTENDS Executor, TLC

CONSTANTS p1, p2

MCPid == {p1, p2}

MCSymmetry == Permutations(MCPid)
=============================================================================
