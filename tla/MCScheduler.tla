---------------------------- MODULE MCScheduler -----------------------------
(* Bounded instances of Scheduler for TLC. *)
EXTENDS Scheduler

CONSTANTS plain, full, fake, prog
=============================================================================
