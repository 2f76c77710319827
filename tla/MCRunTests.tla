----------------------------- MODULE MCRunTests -----------------------------
(* A small instance of the run_tests driver. *)
EXTENDS RunTests

CONSTANTS t1, t2, t3, x1, p1, p2, progA, progB

MCProgramOf == [t \in Test |-> IF t \in {t1, x1} THEN progA ELSE progB]
=============================================================================
