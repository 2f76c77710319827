------------------------------ MODULE TestRun -------------------------------
(***************************************************************************)
(* What engine/scheduler.cpp promises to its clients about the tests they  *)
(* spawn: the routines of a test (its body, its cleanup routine and the    *)
(* cleanup of its execution environment) are accounted for one after the   *)
(* other, each adds to the verdict, and the verdict is delivered once,     *)
(* when no routine is owed any more.  After an abrupt termination nothing  *)
(* is accounted for or delivered.                                          *)
(*                                                                         *)
(* Module Scheduler has the code's own steps and implements this one.      *)
(***************************************************************************)
EXTENDS Naturals, FiniteSets

CONSTANTS
  Test,          \* test cases
  WithCleanup,   \* the ones with a cleanup routine
  WithExecenv    \* the ones that run in an execution environment

VARIABLES
  finished,   \* the routines <<t, kind>> accounted for
  verdict,    \* the result of each test so far, or "none"
  delivered,  \* the tests whose verdict the client has been given
  closed      \* abrupt termination has begun

trVars == <<finished, verdict, delivered, closed>>

Kinds == {"body", "cleanup", "execenv"}
Verdicts == {"passed", "skipped", "failed", "broken"}

\* model::test_result::good().
Good(v) == v \in {"passed", "skipped"}

\* The routines that test t runs with verdict v of its body.  A test that was
\* skipped before its body ran has nothing to clean up.
Owed(t, v) ==
  {"body"} \union (IF t \in WithCleanup /\ v # "skipped" THEN {"cleanup"} ELSE {})
           \union (IF t \in WithExecenv /\ v # "skipped" THEN {"execenv"} ELSE {})

Finished(t) == {k \in Kinds : <<t, k>> \in finished}

TRInit ==
  /\ finished = {}
  /\ verdict = [t \in Test |-> "none"]
  /\ delivered = {}
  /\ closed = FALSE

AccountBody(t) ==
  /\ ~closed /\ <<t, "body">> \notin finished
  /\ finished' = finished \union {<<t, "body">>}
  /\ \E v \in Verdicts : verdict' = [verdict EXCEPT ![t] = v]
  /\ UNCHANGED <<delivered, closed>>

\* A failure of the routine turns a good verdict into a broken one.
AccountCleanup(t, k) ==
  /\ ~closed /\ <<t, "body">> \in finished /\ <<t, k>> \notin finished
  /\ k \in Owed(t, verdict[t]) /\ t \notin delivered
  /\ k = "execenv" /\ t \in WithCleanup => <<t, "cleanup">> \in finished
  /\ finished' = finished \union {<<t, k>>}
  /\ \/ verdict' = verdict
     \/ Good(verdict[t]) /\ verdict' = [verdict EXCEPT ![t] = "broken"]
  /\ UNCHANGED <<delivered, closed>>

Deliver(t) ==
  /\ ~closed /\ t \notin delivered /\ Finished(t) = Owed(t, verdict[t])
  /\ delivered' = delivered \union {t}
  /\ UNCHANGED <<finished, verdict, closed>>

Close ==
  /\ ~closed /\ closed' = TRUE
  /\ UNCHANGED <<finished, verdict, delivered>>

TRNext ==
  \/ \E t \in Test : AccountBody(t) \/ Deliver(t)
  \/ \E t \in Test, k \in {"cleanup", "execenv"} : AccountCleanup(t, k)
  \/ Close

TRSpec == TRInit /\ [][TRNext]_trVars
=============================================================================
