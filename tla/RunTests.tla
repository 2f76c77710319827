------------------------------ MODULE RunTests ------------------------------
(***************************************************************************)
(* drivers/run_tests.cpp: drive() fills its slots with the tests that the  *)
(* scanner yields, waits for one at a time, records cases and results in   *)
(* one transaction of the store, and runs the exclusive tests at the end,  *)
(* one by one.                                                             *)
(*                                                                         *)
(* The scheduler appears as its promise (module TestRun): it runs what it  *)
(* is given, returns each test once under the PID of its body, and raises  *)
(* an interrupt at its next check.  PIDs are explicit because drive()      *)
(* finds the row of a result by the PID.                                   *)
(***************************************************************************)
EXTENDS Naturals, Sequences, FiniteSets

CONSTANTS
  Test,          \* the tests that the scanner yields
  Exclusive,     \* the ones with is_exclusive
  WithCleanup,   \* the ones with a cleanup routine, which outlives their body
  ProgramOf,     \* the test program of each test
  Pid, NoPid,    \* process identifiers, and none
  NoTest,        \* not a test
  MaxSlots,      \* bound: the parallelism that the user may ask for
  MaxSignals     \* bound: interrupts

ASSUME RunTestsAssumption ==
  /\ Exclusive \subseteq Test /\ WithCleanup \subseteq Test
  /\ MaxSlots \in Nat \ {0} /\ MaxSignals \in Nat
  /\ NoPid \notin Pid /\ NoTest \notin Test /\ IsFiniteSet(Test)

Verdicts == {"good", "bad"}
Id == 1..Cardinality(Test)   \* rowids of the test_cases table; 0 is none

VARIABLES
  slots,            \* the parallelism
  unscanned,        \* what the scanner has not yielded
  exclusive_tests,  \* the exclusive tests spotted so far
  in_flight,        \* PID |-> the id of its test case, or 0
  ids_cache,        \* the test programs that have a row
  programs, cases, results,  \* the rows of the transaction
  committed,
  announced,        \* the result of each test that the hooks were told
  phase,            \* each test, as the scheduler and the kernel know it
  pid, verdict,     \* the PID of its body, and its result
  fired_signal, signals,
  stage,            \* in the loop over the slots, or past it
  pc, cur, id       \* the step of drive(), its test and its test_case_id

dbVars == <<ids_cache, programs, cases, results, committed>>
testVars == <<phase, pid, verdict>>
sigVars == <<fired_signal, signals>>
loopVars == <<unscanned, exclusive_tests, in_flight, stage>>
vars == <<slots, loopVars, dbVars, announced, testVars, sigVars, pc, cur, id>>

Init ==
  /\ slots \in 1..MaxSlots
  /\ unscanned = Test /\ exclusive_tests = <<>>
  /\ in_flight = [p \in Pid |-> 0]
  /\ ids_cache = {} /\ programs = <<>> /\ cases = <<>>
  /\ results = [i \in Id |-> "none"] /\ committed = FALSE
  /\ announced = [t \in Test |-> "none"]
  /\ phase = [t \in Test |-> "new"]
  /\ pid = [t \in Test |-> NoPid] /\ verdict = [t \in Test |-> "none"]
  /\ fired_signal = FALSE /\ signals = 0
  /\ stage = "slots" /\ pc = "fill" /\ cur = NoTest /\ id = 0

Used == {p \in Pid : in_flight[p] # 0}

-----------------------------------------------------------------------------
(* The loop over the slots. *)

SlotFree == Cardinality(Used) < slots

Postponed(t) == t \in Exclusive

\* scanner.yield() returns t; an exclusive test is kept for later.
Yield(t) ==
  /\ pc = "fill" /\ SlotFree /\ t \in unscanned
  /\ unscanned' = unscanned \ {t}
  /\ IF Postponed(t)
     THEN /\ exclusive_tests' = Append(exclusive_tests, t)
          /\ UNCHANGED <<pc, cur>>
     ELSE /\ pc' = "start" /\ cur' = t
          /\ UNCHANGED exclusive_tests
  /\ UNCHANGED <<in_flight, stage, dbVars, announced, testVars, sigVars, id>>

\* Defect: waits even if no test was started.
FilledWaits ==
  /\ pc = "fill" /\ (~SlotFree \/ unscanned = {})
  /\ pc' = "wait"
  /\ UNCHANGED <<loopVars, dbVars, announced, testVars, sigVars, cur, id>>

\* The slots are full or the scanner has nothing left.
Filled ==
  /\ pc = "fill" /\ (~SlotFree \/ unscanned = {})
  /\ pc' = IF Used # {} THEN "wait" ELSE "loop"
  /\ UNCHANGED <<loopVars, dbVars, announced, testVars, sigVars, cur, id>>

\* Defect: the loop waits for the exclusive tests.
MoreWorkExclusive == Used # {} \/ unscanned # {} \/ exclusive_tests # <<>>

MoreWork == Used # {} \/ unscanned # {}

\* The condition of the do loop.
Loop ==
  /\ pc = "loop"
  /\ pc' = IF MoreWork THEN "fill" ELSE "exclusive"
  /\ stage' = IF MoreWork THEN "slots" ELSE "exclusive"
  /\ UNCHANGED <<unscanned, exclusive_tests, in_flight, dbVars, announced,
                 testVars, sigVars, cur, id>>

NextExclusive ==
  /\ pc = "exclusive" /\ exclusive_tests # <<>>
  /\ cur' = Head(exclusive_tests)
  /\ exclusive_tests' = Tail(exclusive_tests)
  /\ pc' = "start"
  /\ UNCHANGED <<unscanned, in_flight, stage, dbVars, announced, testVars,
                 sigVars, id>>

-----------------------------------------------------------------------------
(* start_test(). *)

Cached(prog) == ids_cache \union {prog}

\* find_test_program_id() and put_test_case().
PutTestCase ==
  LET prog == ProgramOf[cur] IN
  /\ pc = "start"
  /\ programs' = IF prog \in ids_cache THEN programs ELSE Append(programs, prog)
  /\ ids_cache' = Cached(prog)
  /\ cases' = Append(cases, cur)
  /\ id' = Len(cases')
  /\ pc' = "spawn"
  /\ UNCHANGED <<loopVars, results, committed, announced, testVars, sigVars, cur>>

\* The PIDs that fork() cannot return.  The PID of a body is free again once the
\* body was waited for, and that is before its cleanup routine is started.
Busy ==
  {pid[t] : t \in {u \in Test : \/ phase[u] = "running"
                                \/ phase[u] = "ended" /\ u \notin WithCleanup}}

\* spawn_test(), and the insertion into in_flight with its assertion.
Spawn(p) ==
  /\ pc = "spawn" /\ ~fired_signal /\ p \notin Busy
  /\ phase' = [phase EXCEPT ![cur] = "running"]
  /\ pid' = [pid EXCEPT ![cur] = p]
  /\ IF stage = "slots"
     THEN /\ in_flight' = IF in_flight[p] = 0 THEN [in_flight EXCEPT ![p] = id]
                                              ELSE in_flight
          /\ pc' = IF in_flight[p] = 0 THEN "fill" ELSE "aborted_by_assertion"
     ELSE /\ pc' = "wait"
          /\ UNCHANGED in_flight
  /\ UNCHANGED <<unscanned, exclusive_tests, stage, dbVars, announced, verdict,
                 sigVars, cur, id>>

-----------------------------------------------------------------------------
(* wait_any() and finish_test(). *)

\* Defect: the result goes to the test case put last.
RowOfLast(t) == Len(cases)

\* The row of the result: found by PID, or the one just put.
RowOf(t) == IF stage = "slots" THEN in_flight[pid[t]] ELSE id

\* in_flight.erase(), for a test of the loop over the slots.
InFlightWithout(t) ==
  IF stage = "slots" THEN [in_flight EXCEPT ![pid[t]] = 0] ELSE in_flight

\* The scheduler returns a test that is over, and it leaves in_flight.
WaitAny(t) ==
  /\ pc = "wait" /\ ~fired_signal /\ phase[t] = "ended"
  /\ id' = RowOf(t) /\ cur' = t
  /\ in_flight' = InFlightWithout(t)
  /\ pc' = "finish"
  /\ UNCHANGED <<unscanned, exclusive_tests, stage, dbVars, announced, testVars,
                 sigVars>>

\* put_test_result().
PutResult ==
  /\ pc = "finish"
  /\ results' = [results EXCEPT ![id] = verdict[cur]]
  /\ pc' = "clean"
  /\ UNCHANGED <<loopVars, ids_cache, programs, cases, committed, announced,
                 testVars, sigVars, cur, id>>

\* safe_cleanup(), whose result is not used, and got_result().
CleanAndAnnounce ==
  /\ pc = "clean"
  /\ \E p \in {"clean", "dirty"} : phase' = [phase EXCEPT ![cur] = p]
  /\ announced' = [announced EXCEPT ![cur] = verdict[cur]]
  /\ pc' = IF stage = "slots" THEN "loop" ELSE "exclusive"
  /\ UNCHANGED <<loopVars, dbVars, pid, verdict, sigVars, cur, id>>

-----------------------------------------------------------------------------
(* The end. *)

Commit ==
  /\ pc = "exclusive" /\ exclusive_tests = <<>>
  /\ committed' = TRUE
  /\ pc' = "done"
  /\ UNCHANGED <<loopVars, ids_cache, programs, cases, results, announced,
                 testVars, sigVars, cur, id>>

\* ~write_transaction(): what was not committed is rolled back.
Rollback ==
  /\ pc' = "aborted"
  /\ ids_cache' = {} /\ programs' = <<>> /\ cases' = <<>>
  /\ results' = [i \in Id |-> "none"]
  /\ UNCHANGED <<loopVars, committed, announced, testVars, cur, id>>

\* A check throws: in spawn_test(), in wait_any(), or in yield() when it loads the
\* list of tests of a program.
Interrupted ==
  /\ fired_signal
  /\ pc \in {"spawn", "wait"} \/ (pc = "fill" /\ SlotFree /\ unscanned # {})
  /\ fired_signal' = FALSE /\ UNCHANGED signals
  /\ Rollback

\* The store throws.
StoreFails ==
  /\ pc \in {"start", "finish"} \/ (pc = "exclusive" /\ exclusive_tests = <<>>)
  /\ Rollback
  /\ UNCHANGED <<slots, sigVars>>

-----------------------------------------------------------------------------
(* The scheduler, the tests and the user. *)

TestEnds(t) ==
  /\ pc \notin {"done", "aborted", "aborted_by_assertion"}
  /\ \/ phase[t] = "running" /\ t \in WithCleanup
        /\ phase' = [phase EXCEPT ![t] = "cleaning"]
        /\ UNCHANGED verdict
     \/ (phase[t] = "cleaning" \/ (phase[t] = "running" /\ t \notin WithCleanup))
        /\ phase' = [phase EXCEPT ![t] = "ended"]
        /\ \E v \in Verdicts : verdict' = [verdict EXCEPT ![t] = v]
  /\ UNCHANGED <<slots, loopVars, dbVars, announced, pid, sigVars, pc, cur, id>>

Interrupt ==
  /\ pc \notin {"done", "aborted", "aborted_by_assertion"} /\ signals < MaxSignals
  /\ signals' = signals + 1 /\ fired_signal' = TRUE
  /\ UNCHANGED <<slots, loopVars, dbVars, announced, testVars, pc, cur, id>>

Drive ==
  /\ UNCHANGED slots
  /\ \/ \E t \in Test : Yield(t) \/ WaitAny(t)
     \/ \E p \in Pid : Spawn(p)
     \/ Filled \/ Loop \/ NextExclusive \/ PutTestCase
     \/ PutResult \/ CleanAndAnnounce \/ Commit \/ Interrupted

Next ==
  \/ Drive \/ StoreFails \/ Interrupt
  \/ \E t \in Test : TestEnds(t)

Spec == Init /\ [][Next]_vars

\* drive() goes on as long as it can, and the scheduler's deadlines end each test.
FairSpec ==
  /\ Spec /\ WF_vars(Drive)
  /\ \A t \in Test : WF_vars(TestEnds(t))

-----------------------------------------------------------------------------
(* Properties. *)

TypeOK ==
  /\ slots \in 1..MaxSlots
  /\ unscanned \subseteq Test
  /\ \A i \in 1..Len(exclusive_tests) : exclusive_tests[i] \in Exclusive
  /\ in_flight \in [Pid -> Id \union {0}]
  /\ Len(cases) <= Cardinality(Test)
  /\ results \in [Id -> Verdicts \union {"none"}]
  /\ announced \in [Test -> Verdicts \union {"none"}]
  /\ phase \in [Test -> {"new", "running", "cleaning", "ended", "clean", "dirty"}]
  /\ pid \in [Test -> Pid \union {NoPid}]
  /\ id \in Id \union {0}

Active == {t \in Test : phase[t] \in {"running", "cleaning"}}

\* No more tests run at once than there are slots, counting those whose cleanup is
\* running, and an exclusive test runs alone (the loop over the slots and the one
\* over exclusive_tests).
Concurrency ==
  /\ Cardinality(Active) <= slots
  /\ \A t \in Active : t \in Exclusive => Active = {t}

\* drive() waits only when some test is still to be returned, so that wait_any()
\* never fails for want of children (the guard on in_flight).
WaitsForSomething ==
  pc = "wait" => \E t \in Test : phase[t] \in {"running", "cleaning", "ended"}

\* What is committed is complete: every test has one case and every case the result
\* its own test got, which is the one the user saw; every program has one row (the
\* use of in_flight to find the row, ids_cache, and the order of the puts).
CommittedComplete ==
  committed =>
    /\ Len(cases) = Cardinality(Test) /\ {cases[i] : i \in Id} = Test
    /\ \A i \in Id : results[i] = verdict[cases[i]] /\ results[i] # "none"
    /\ \A t \in Test : announced[t] = verdict[t]
    /\ \A i, j \in 1..Len(programs) : programs[i] = programs[j] => i = j
    /\ {programs[i] : i \in 1..Len(programs)} = {ProgramOf[t] : t \in Test}

\* The run always comes to an end (the condition of the do loop and wait_any()).
Terminates == <>(pc \in {"done", "aborted", "aborted_by_assertion"})

\* The assertion "Spawned test has PID of still-tracked process" fails only if the
\* kernel reuses the PID of a body whose cleanup routine is not yet accounted for.
ClashOnlyByReuse ==
  pc = "aborted_by_assertion" =>
    \E t \in WithCleanup \ {cur} :
      pid[t] = pid[cur] /\ phase[t] \in {"cleaning", "ended"}

\* The loop of drive() keeps to its slots, waits only for what will come, and its
\* assertion fails only in the case above.
SlotsRespected == TypeOK /\ Concurrency /\ WaitsForSomething /\ ClashOnlyByReuse
=============================================================================
