---------------------------- MODULE MCInterrupts ----------------------------
(* Bounded instance of Interrupts for TLC. *)
EXTENDS Interrupts

CONSTANTS p1, p2, p3

MCPid == {p1, p2, p3}
=============================================================================
