----------------------------- MODULE Scheduler ------------------------------
(***************************************************************************)
(* engine/scheduler.cpp: runs test cases in the background, chains the     *)
(* cleanup routine of a test and the cleanup of its execution environment  *)
(* after its body, lists the tests of a program, and when it is torn down  *)
(* abruptly runs the cleanups that are still pending.                      *)
(*                                                                         *)
(* The executor below appears as what it gives this code: children, the    *)
(* set of its handles (which says what its own cleanup kills), and the     *)
(* interrupt that throws once at the next check.  PIDs are left to module  *)
(* Executor.  The client is any one that keeps to the interface and may    *)
(* throw at any time.                                                      *)
(***************************************************************************)
EXTENDS Naturals, FiniteSets

CONSTANTS
  Test,          \* test cases
  WithCleanup,   \* the ones with a cleanup routine
  WithExecenv,   \* the ones that run in an execution environment
  WithFake,      \* the ones whose result is known beforehand
  Program,       \* test programs whose list of tests is asked for
  NoChild,       \* not a child
  CoreDumps,     \* may a child die with a core dump?
  MaxSignals,    \* bound: interrupts
  MaxFailures    \* bound: exceptions of the client and fork(2) failures

ASSUME SchedulerAssumption ==
  /\ WithCleanup \subseteq Test /\ WithExecenv \subseteq Test
  /\ WithFake \subseteq Test /\ (WithFake \intersect (WithCleanup \union WithExecenv)) = {}
  /\ CoreDumps \in BOOLEAN /\ MaxSignals \in Nat /\ MaxFailures \in Nat

\* The subprocesses: the three routines of a test, the two that the destructor
\* runs, and the one that lists the tests of a program.
Routines == {"body", "cleanup", "execenv"}
LateRoutines == {"late_cleanup", "late_execenv"}
TestChild == Test \X (Routines \union LateRoutines)
Child == TestChild \union (Program \X {"list"})

ASSUME NoChildAssumption == NoChild \notin Child

VARIABLES
  child,           \* each child: "none", "running", or how it has ended
  waited,          \* the children that were waited for
  all_exec_data,   \* the children in the map of that name
  handles,         \* the children in the executor's all_exec_handles
  needs_cleanup, needs_execenv_cleanup,  \* the tests with these flags set
  exit_handle,     \* the tests whose test_exec_data has an exit_handle
  result,          \* the result so far that travels with each test
  reported,        \* the tests whose result_handle was returned
  held,            \* the result handles that the client holds
  loaded,          \* the programs whose list is loaded
  fired_signal, signals, failures,
  pc, cur,         \* the call in progress and the child it is about
  pending          \* the tests that the destructor has still to clean up

vars == <<child, waited, all_exec_data, handles, needs_cleanup,
          needs_execenv_cleanup, exit_handle, result, reported, held, loaded,
          fired_signal, signals, failures, pc, cur, pending>>

childVars == <<child, waited>>
mapVars == <<all_exec_data, handles>>
testVars == <<needs_cleanup, needs_execenv_cleanup, exit_handle, result>>
clientVars == <<reported, held, loaded, failures>>
sigVars == <<fired_signal, signals>>

Init ==
  /\ child = [x \in Child |-> "none"] /\ waited = {}
  /\ all_exec_data = {} /\ handles = {}
  /\ needs_cleanup = {} /\ needs_execenv_cleanup = {} /\ exit_handle = {}
  /\ result = [t \in Test |-> "none"]
  /\ reported = {} /\ held = {} /\ loaded = {}
  /\ fired_signal = FALSE /\ signals = 0 /\ failures = 0
  /\ pc = "idle" /\ cur = NoChild /\ pending = {}

Body(t) == <<t, "body">>
Bodies(S) == {Body(t) : t \in S}

Ended(x) == child[x] \notin {"none", "running"}

\* The tests in flight: spawned, and not yet returned by wait_any().
InFlight == {t \in Test : Body(t) \in all_exec_data} \ reported

-----------------------------------------------------------------------------
(* check_interrupt() and the fork that follows one. *)

\* The exception resets the flag: it is thrown once.
CheckClears == fired_signal' = FALSE /\ UNCHANGED signals

\* Defect: the interrupt is noted and the call goes on.
CheckThrowsIgnored ==
  /\ pc \in {"idle", "wait_any", "followup", "listed"} /\ fired_signal
  /\ CheckClears
  /\ UNCHANGED <<childVars, mapVars, testVars, clientVars, pc, cur, pending>>

\* A check that throws up to the client; the scheduler is then destroyed.
CheckThrows ==
  /\ pc \in {"idle", "wait_any", "followup", "listed"} /\ fired_signal
  /\ CheckClears
  /\ pc' = "unwind" /\ cur' = NoChild
  /\ UNCHANGED <<childVars, mapVars, testVars, clientVars, pending>>

\* spawn_test(), up to the fork.
SpawnTest(t) ==
  /\ pc = "idle" /\ ~fired_signal /\ child[Body(t)] = "none"
  /\ pc' = "fork" /\ cur' = Body(t)
  /\ UNCHANGED <<childVars, mapVars, testVars, clientVars, sigVars, pending>>

\* spawn_cleanup() and spawn_execenv_cleanup() from wait_any(), up to the fork.
SpawnFollowup ==
  /\ pc = "followup" /\ ~fired_signal
  /\ pc' = "fork"
  /\ UNCHANGED <<childVars, mapVars, testVars, clientVars, sigVars, cur, pending>>

\* What follows the fork: the calls that are not chained return to the client.
AfterFork(kind) ==
  CASE kind = "body" -> "idle"
    [] kind \in {"cleanup", "execenv"} -> "wait_any"
    [] kind \in LateRoutines -> "late_wait"
    [] OTHER -> "list_wait"

\* The flag is set with the test_exec_data of the body, and reset as soon as the
\* execution environment's cleanup is started.
NeedsExecenv(t, kind) ==
  CASE kind = "body" -> needs_execenv_cleanup \union ({t} \intersect WithExecenv)
    [] kind = "execenv" -> needs_execenv_cleanup \ {t}
    [] OTHER -> needs_execenv_cleanup

\* The second half of all the spawns: the child is running and is recorded.
\* list_tests() does not use all_exec_data.  An interrupt that arrived since the
\* last check does not reach this child.
Fork ==
  LET t == cur[1]  kind == cur[2] IN
  /\ pc = "fork"
  /\ child' = [child EXCEPT ![cur] = "running"]
  /\ handles' = handles \union {cur}
  /\ all_exec_data' = all_exec_data \union ({cur} \intersect TestChild)
  /\ needs_cleanup' = needs_cleanup \union
       (IF kind = "body" THEN {t} \intersect WithCleanup ELSE {})
  /\ needs_execenv_cleanup' = NeedsExecenv(t, kind)
  /\ pc' = AfterFork(kind)
  /\ cur' = IF kind \in LateRoutines \union {"list"} THEN cur ELSE NoChild
  /\ UNCHANGED <<waited, exit_handle, result, clientVars, sigVars, pending>>

\* The fork fails.  The exception reaches the client, except in list_tests() and
\* in the destructor.
ForkFails ==
  /\ pc = "fork" /\ failures < MaxFailures
  /\ failures' = failures + 1
  /\ pc' = CASE cur[2] \in LateRoutines -> cur[2]
             [] cur[2] = "list" -> "listed"
             [] OTHER -> "unwind"
  /\ cur' = NoChild
  /\ loaded' = loaded \union (IF cur[2] = "list" THEN {cur[1]} ELSE {})
  /\ UNCHANGED <<childVars, mapVars, testVars, reported, held, sigVars, pending>>

-----------------------------------------------------------------------------
(* wait_any(). *)

WaitAny ==
  /\ pc = "idle" /\ ~fired_signal /\ InFlight # {}
  /\ pc' = "wait"
  /\ UNCHANGED <<childVars, mapVars, testVars, clientVars, sigVars, cur, pending>>

\* The recursive call, after a followup was spawned.
WaitAnyAgain ==
  /\ pc = "wait_any" /\ ~fired_signal
  /\ pc' = "wait"
  /\ UNCHANGED <<childVars, mapVars, testVars, clientVars, sigVars, cur, pending>>

\* wait(2) returns one of the dead children.
WaitReap(x) ==
  /\ pc = "wait" /\ Ended(x) /\ x \notin waited
  /\ waited' = waited \union {x}
  /\ pc' = IF x \notin all_exec_data THEN "crashed"
           ELSE IF child[x] = "core" THEN "stacktrace" ELSE "process"
  /\ cur' = x
  /\ UNCHANGED <<child, mapVars, testVars, clientVars, sigVars, pending>>

\* dump_stacktrace_if_available(): GDB runs as a followup; or there is none.
Stacktrace ==
  /\ pc = "stacktrace"
  /\ pc' = "process"
  /\ UNCHANGED <<childVars, mapVars, testVars, clientVars, sigVars, cur, pending>>

\* The check in spawn_followup() or wait() throws: the exit handle is lost.
StacktraceThrows ==
  /\ pc = "stacktrace" /\ fired_signal
  /\ CheckClears
  /\ handles' = handles \ {cur}
  /\ pc' = "unwind" /\ cur' = NoChild
  /\ UNCHANGED <<childVars, all_exec_data, testVars, clientVars, pending>>

Good(r) == r \in {"passed", "skipped"}

\* The result of the body from how it ended: one known beforehand, the skipped
\* cookie of a test that could not be run, or the interface's compute_result().
BodyResult(t) ==
  CASE t \in WithFake -> "broken"
    [] t \notin WithFake /\ child[Body(t)] = "skip" -> "skipped"
    [] t \notin WithFake /\ child[Body(t)] = "success" -> "passed"
    [] OTHER -> "failed"

\* Defect: a failing cleanup routine goes unnoticed.
FoldedResultIgnored(t, x) == result[t]

\* A good result becomes broken if the cleanup x did not succeed.
FoldedResult(t, x) ==
  IF Good(result[t]) /\ child[x] # "success" THEN "broken" ELSE result[t]

\* Defect: a test with an execution environment skips its cleanup routine.
ChainExecenvFirst(t, c, e) ==
  /\ pc' = IF t \in c \union e THEN "followup" ELSE "report"
  /\ cur' = CASE t \in e -> <<t, "execenv">>
              [] t \in c \ e -> <<t, "cleanup">>
              [] OTHER -> Body(t)

\* Defect: the last routine is followed by another wait.
ChainWaits(t, c, e) ==
  /\ pc' = IF t \in c \union e THEN "followup" ELSE "wait_any"
  /\ cur' = CASE t \in c -> <<t, "cleanup">>
              [] t \in e \ c -> <<t, "execenv">>
              [] OTHER -> Body(t)

\* What follows a routine of t, with c and e the tests in need of each cleanup.
Chain(t, c, e) ==
  /\ pc' = IF t \in c \union e THEN "followup" ELSE "report"
  /\ cur' = CASE t \in c -> <<t, "cleanup">>
              [] t \in e \ c -> <<t, "execenv">>
              [] OTHER -> Body(t)

ProcessBody ==
  LET t == cur[1]
      skipped == IF BodyResult(t) = "skipped" THEN {t} ELSE {}
  IN
  /\ pc = "process" /\ cur[2] = "body"
  /\ exit_handle' = exit_handle \union {t}
  /\ result' = [result EXCEPT ![t] = BodyResult(t)]
  /\ needs_cleanup' = needs_cleanup \ skipped
  /\ needs_execenv_cleanup' = needs_execenv_cleanup \ skipped
  /\ Chain(t, needs_cleanup \ skipped, needs_execenv_cleanup \ skipped)
  /\ UNCHANGED <<childVars, mapVars, clientVars, sigVars, pending>>

\* needs_cleanup is reset here, and not when the cleanup routine is started.
NeedsCleanupReset(t) == needs_cleanup \ {t}

\* The exit of the cleanup routine: it is untracked, and only now is the flag of
\* its test reset.
ProcessCleanup ==
  LET t == cur[1] IN
  /\ pc = "process" /\ cur[2] = "cleanup"
  /\ result' = [result EXCEPT ![t] = FoldedResult(t, cur)]
  /\ all_exec_data' = all_exec_data \ {cur}
  /\ handles' = handles \ {cur}
  /\ needs_cleanup' = NeedsCleanupReset(t)
  /\ Chain(t, {}, needs_execenv_cleanup)
  /\ UNCHANGED <<childVars, needs_execenv_cleanup, exit_handle, clientVars,
                 sigVars, pending>>

ProcessExecenv ==
  LET t == cur[1] IN
  /\ pc = "process" /\ cur[2] = "execenv"
  /\ result' = [result EXCEPT ![t] = FoldedResult(t, cur)]
  /\ all_exec_data' = all_exec_data \ {cur}
  /\ handles' = handles \ {cur}
  /\ Chain(t, {}, {})
  /\ UNCHANGED <<childVars, needs_cleanup, needs_execenv_cleanup, exit_handle,
                 clientVars, sigVars, pending>>

\* wait_any() returns the result handle, in the name of the body.
Report ==
  /\ pc = "report"
  /\ reported' = reported \union {cur[1]}
  /\ held' = held \union {cur[1]}
  /\ pc' = "idle" /\ cur' = NoChild
  /\ UNCHANGED <<childVars, mapVars, testVars, loaded, failures, sigVars, pending>>

\* The client cleans up and drops a result handle.
Release(t) ==
  /\ pc = "idle" /\ t \in held
  /\ held' = held \ {t}
  /\ all_exec_data' = all_exec_data \ {Body(t)}
  /\ handles' = handles \ {Body(t)}
  /\ UNCHANGED <<childVars, testVars, reported, loaded, failures, sigVars, pc,
                 cur, pending>>

\* The client throws an exception of its own, such as an error of the store.
ClientThrows ==
  /\ pc = "idle" /\ failures < MaxFailures
  /\ failures' = failures + 1
  /\ pc' = "unwind"
  /\ UNCHANGED <<childVars, mapVars, testVars, reported, held, loaded, sigVars,
                 cur, pending>>

-----------------------------------------------------------------------------
(* lazy_test_program::test_cases() and list_tests(). *)

\* The checks before the try block pass.
ListTests(p) ==
  /\ pc = "idle" /\ ~fired_signal /\ p \notin loaded
  /\ pc' = "list_spawn" /\ cur' = <<p, "list">>
  /\ UNCHANGED <<childVars, mapVars, testVars, clientVars, sigVars, pending>>

ListSpawn ==
  /\ pc = "list_spawn" /\ ~fired_signal
  /\ pc' = "fork"
  /\ UNCHANGED <<childVars, mapVars, testVars, clientVars, sigVars, cur, pending>>

ListWait ==
  /\ pc = "list_wait" /\ ~fired_signal
  /\ pc' = "list_blocked"
  /\ UNCHANGED <<childVars, mapVars, testVars, clientVars, sigVars, cur, pending>>

\* The checks in the executor's spawn() and wait() throw inside the try block,
\* which turns the interrupt into a fake list of tests.
ListInterrupted ==
  /\ pc \in {"list_spawn", "list_wait"} /\ fired_signal
  /\ CheckClears
  /\ loaded' = loaded \union {cur[1]}
  /\ pc' = "listed" /\ cur' = NoChild
  /\ UNCHANGED <<childVars, mapVars, testVars, reported, held, failures, pending>>

\* The child is waited for, its output parsed and its directory removed.
ListReap ==
  /\ pc = "list_blocked" /\ Ended(cur)
  /\ waited' = waited \union {cur}
  /\ handles' = handles \ {cur}
  /\ loaded' = loaded \union {cur[1]}
  /\ pc' = "listed" /\ cur' = NoChild
  /\ UNCHANGED <<child, all_exec_data, testVars, reported, held, failures,
                 sigVars, pending>>

\* The check of lazy_test_program after the call passes.
Listed ==
  /\ pc = "listed" /\ ~fired_signal
  /\ pc' = "idle"
  /\ UNCHANGED <<childVars, mapVars, testVars, clientVars, sigVars, cur, pending>>

-----------------------------------------------------------------------------
(* scheduler_handle::cleanup(), and the destructor. *)

\* What is left in all_exec_handles when the executor cleans up is killed and
\* waited for.
ExecutorCleanup(left) ==
  /\ child' = [x \in Child |->
                 IF x \in left /\ child[x] = "running" THEN "failure" ELSE child[x]]
  /\ waited' = waited \union left
  /\ handles' = {}

\* The client is finished with all its tests.
Cleanup ==
  /\ pc = "idle" /\ InFlight = {} /\ held = {}
  /\ ExecutorCleanup(handles)
  /\ pc' = "done"
  /\ UNCHANGED <<all_exec_data, testVars, clientVars, sigVars, cur, pending>>

\* The stack is unwound: the client's result handles go first.
Unwind ==
  /\ pc = "unwind"
  /\ held' = {}
  /\ all_exec_data' = all_exec_data \ Bodies(held)
  /\ handles' = handles \ Bodies(held)
  /\ pc' = "collect"
  /\ UNCHANGED <<childVars, testVars, reported, loaded, failures, sigVars, cur,
                 pending>>

\* Defect: only the tests whose body was not processed are considered.
NeedingUnfinished(needs) ==
  {t \in needs : Body(t) \in all_exec_data /\ t \notin exit_handle}

\* The tests that all_exec_data knows of and that have the given flag.
Needing(needs) == {t \in needs : Body(t) \in all_exec_data}

\* A test without an exit handle is reaped, which makes one out of the executor's
\* own handle, neither killing the body nor waiting for it.
Collect(tests, next) ==
  /\ exit_handle' = exit_handle \union tests
  /\ pending' = tests
  /\ pc' = IF Bodies(tests \ exit_handle) \subseteq handles THEN next ELSE "crashed"

\* tests_needing_cleanup().
CollectCleanup ==
  /\ pc = "collect"
  /\ Collect(Needing(needs_cleanup), "late_cleanup")
  /\ needs_cleanup' = needs_cleanup \ Needing(needs_cleanup)
  /\ UNCHANGED <<childVars, mapVars, needs_execenv_cleanup, result, clientVars,
                 sigVars, cur>>

\* sync_cleanup() and sync_execenv_cleanup() of one test, up to the fork.
LateSpawn(t) ==
  /\ pc \in LateRoutines /\ t \in pending /\ ~fired_signal
  /\ pending' = pending \ {t}
  /\ pc' = "fork" /\ cur' = <<t, pc>>
  /\ UNCHANGED <<childVars, mapVars, testVars, clientVars, sigVars>>

\* The interrupt is caught and this test goes without its cleanup.
LateSpawnThrows(t) ==
  /\ pc \in LateRoutines /\ t \in pending /\ fired_signal
  /\ pending' = pending \ {t}
  /\ CheckClears
  /\ UNCHANGED <<childVars, mapVars, testVars, clientVars, pc, cur>>

LateWait ==
  /\ pc = "late_wait" /\ ~fired_signal
  /\ pc' = "late_blocked"
  /\ UNCHANGED <<childVars, mapVars, testVars, clientVars, sigVars, cur, pending>>

\* The interrupt is caught and the routine is left unattended.
LateWaitThrows ==
  /\ pc = "late_wait" /\ fired_signal
  /\ CheckClears
  /\ pc' = cur[2] /\ cur' = NoChild
  /\ UNCHANGED <<childVars, mapVars, testVars, clientVars, pending>>

LateReap ==
  /\ pc = "late_blocked" /\ Ended(cur)
  /\ waited' = waited \union {cur}
  /\ handles' = handles \ {cur}
  /\ pc' = cur[2] /\ cur' = NoChild
  /\ UNCHANGED <<child, all_exec_data, testVars, clientVars, sigVars, pending>>

\* tests_needing_execenv_cleanup(), once the cleanup routines are through.
CollectExecenv ==
  /\ pc = "late_cleanup" /\ pending = {}
  /\ Collect(Needing(needs_execenv_cleanup), "late_execenv")
  /\ needs_execenv_cleanup' =
       needs_execenv_cleanup \ Needing(needs_execenv_cleanup)
  /\ UNCHANGED <<childVars, mapVars, needs_cleanup, result, clientVars, sigVars, cur>>

\* all_exec_data is destroyed, and with it the exit handles, which leave the
\* executor's map; then the executor, which cleans up implicitly.
Destroy ==
  /\ pc = "late_execenv" /\ pending = {}
  /\ ExecutorCleanup(handles \ Bodies(exit_handle))
  /\ pc' = "done"
  /\ UNCHANGED <<all_exec_data, testVars, clientVars, sigVars, cur, pending>>

-----------------------------------------------------------------------------
(* The environment. *)

\* An ordinary end, the deadline, a core dump, or, for a body, the skipped cookie.
Ends(x) == {"success", "failure"}
           \union (IF x[2] = "body" /\ x[1] \notin WithFake THEN {"skip"} ELSE {})
           \union (IF CoreDumps THEN {"core"} ELSE {})

ChildEnds(x) ==
  /\ pc \notin {"done", "crashed"} /\ child[x] = "running"
  /\ \E s \in Ends(x) : child' = [child EXCEPT ![x] = s]
  /\ UNCHANGED <<waited, mapVars, testVars, clientVars, sigVars, pc, cur, pending>>

\* The interrupt handler kills every child that was not waited for.
Interrupt ==
  /\ pc \notin {"done", "crashed"} /\ signals < MaxSignals
  /\ signals' = signals + 1
  /\ fired_signal' = TRUE
  /\ child' = [x \in Child |-> IF child[x] = "running" THEN "failure" ELSE child[x]]
  /\ UNCHANGED <<waited, mapVars, testVars, clientVars, pc, cur, pending>>

-----------------------------------------------------------------------------
WaitAnyStep ==
  \/ WaitAny \/ WaitAnyAgain
  \/ \E x \in Child : WaitReap(x)
  \/ Stacktrace \/ StacktraceThrows
  \/ ProcessBody \/ ProcessCleanup \/ ProcessExecenv
  \/ SpawnFollowup \/ Report

ListStep ==
  \/ \E p \in Program : ListTests(p)
  \/ ListSpawn \/ ListWait \/ ListInterrupted \/ ListReap \/ Listed

DestructorStep ==
  \/ Unwind \/ CollectCleanup
  \/ \E t \in Test : LateSpawn(t) \/ LateSpawnThrows(t)
  \/ LateWait \/ LateWaitThrows \/ LateReap
  \/ CollectExecenv \/ Destroy

Scheduler ==
  \/ CheckThrows \/ Fork
  \/ WaitAnyStep \/ ListStep \/ DestructorStep
  \/ \E t \in Test : SpawnTest(t) \/ Release(t)
  \/ Cleanup

Environment ==
  \/ ForkFails \/ ClientThrows \/ Interrupt
  \/ \E x \in Child : ChildEnds(x)

Next == Scheduler \/ Environment

\* The deadline of the executor ends every child, unless the destructor has
\* unprogrammed it in reap().
HasDeadline(x) == x \notin Bodies(exit_handle)

Spec == Init /\ [][Next]_vars

\* The program goes on as long as it can: the client spawns all its tests, waits
\* for them and drops the results; children end or are killed by their deadline.
FairSpec ==
  /\ Spec
  /\ WF_vars(Scheduler)
  /\ \A x \in Child : WF_vars(HasDeadline(x) /\ ChildEnds(x))

-----------------------------------------------------------------------------
(* Properties. *)

TypeOK ==
  /\ child \in [Child -> {"none", "running", "success", "failure", "skip", "core"}]
  /\ waited \subseteq Child /\ handles \subseteq Child
  /\ all_exec_data \subseteq TestChild
  /\ needs_cleanup \subseteq WithCleanup
  /\ needs_execenv_cleanup \subseteq WithExecenv
  /\ exit_handle \subseteq Test /\ pending \subseteq Test
  /\ result \in [Test -> {"none", "passed", "skipped", "failed", "broken"}]
  /\ held \subseteq reported /\ reported \subseteq Test /\ loaded \subseteq Program
  /\ fired_signal \in BOOLEAN
  /\ signals \in 0..MaxSignals /\ failures \in 0..MaxFailures
  /\ pc \in {"idle", "fork", "wait_any", "wait", "stacktrace", "process",
             "followup", "report", "list_spawn", "list_wait", "list_blocked",
             "listed", "unwind", "collect", "late_cleanup", "late_execenv",
             "late_wait", "late_blocked", "done", "crashed"}
  /\ cur \in Child \union {NoChild}

\* The routines that test t started, in its own time.
Started(t) == {k \in Routines : child[<<t, k>>] # "none"}

\* A test that wait_any() returns with a good result has had every routine it owes
\* run, waited for and successful, unless it was skipped before its body ran
\* (wait_any(), the body and the two cleanup branches).
GoodMeansClean ==
  \A t \in reported :
    Good(result[t]) =>
      LET owed == {"body"} \union {k \in {"cleanup"} : t \in WithCleanup}
                           \union {k \in {"execenv"} : t \in WithExecenv}
      IN \/ child[Body(t)] = "skip" /\ Started(t) = {"body"}
         \/ \A k \in owed : child[<<t, k>>] = "success" /\ <<t, k>> \in waited

\* The routines of a kind that tests were left without: the test got past its
\* fork, was not found to be skipped, and neither run of the routine was started.
Unattempted ==
  {x \in (WithCleanup \X {"cleanup"}) \union (WithExecenv \X {"execenv"}) :
     /\ child[Body(x[1])] # "none" /\ result[x[1]] # "skipped"
     /\ child[x] = "none"
     /\ child[<<x[1], IF x[2] = "cleanup" THEN "late_cleanup" ELSE "late_execenv">>] = "none"}

\* Each interrupt, fork failure or exception of the client costs at most one
\* cleanup, and the one that starts the abrupt termination costs none: the
\* destructor attempts all the others (~impl() and the catch blocks in it).
CleanupsAttempted ==
  pc = "done" =>
    Cardinality(Unattempted) <= IF signals + failures = 0 THEN 0
                                                         ELSE signals + failures - 1

\* When the scheduler is gone the only processes that may be left behind are
\* bodies whose handle reap() took over; every other child was killed and waited
\* for (wait calls, reap() and the executor's cleanup()).
OnlyReapedSurvive ==
  pc = "done" =>
    {x \in Child : child[x] # "none" /\ x \notin waited} \subseteq
      Bodies(exit_handle \intersect (WithCleanup \union WithExecenv))

\* A body started after an interrupt is one whose fork was already under way: the
\* interrupt is still to be raised at the next check (check_interrupt() calls).
StopsAfterInterrupt ==
  [][\A t \in Test :
       child[Body(t)] = "none" /\ child'[Body(t)] # "none" /\ signals > 0
         => fired_signal]_vars

\* A routine is accounted for when wait_any() has processed its exit.
FinishedRoutines ==
  {x \in Test \X Routines :
     IF x[2] = "body" THEN result[x[1]] # "none" ELSE x \in waited \ all_exec_data}

\* The destructor does not repeat what was done: neither a cleanup routine whose
\* exit wait_any() processed, nor the cleanup of an execution environment that was
\* started at all (where the flags of test_exec_data are reset).
RoutinesNotRepeated ==
  \A t \in Test :
    /\ <<t, "cleanup">> \in FinishedRoutines => child[<<t, "late_cleanup">>] = "none"
    /\ child[<<t, "execenv">>] # "none" => child[<<t, "late_execenv">>] = "none"

\* However it is torn down, the scheduler leaves no cleanup out, no process behind
\* that it could kill, and does nothing twice.
EndsOrderly == TypeOK /\ CleanupsAttempted /\ OnlyReapedSurvive /\ RoutinesNotRepeated

TR == INSTANCE TestRun WITH
  finished <- FinishedRoutines, verdict <- result, delivered <- reported,
  closed <- pc \in {"unwind", "collect", "late_cleanup", "late_execenv",
                    "late_wait", "late_blocked", "done", "crashed"}
                 \/ (pc = "fork" /\ cur[2] \in LateRoutines)

\* The scheduler keeps the promise of TestRun: routines in order, each folded into
\* the verdict, one delivery per test and none after the unwinding has begun.
ImplementsTestRun == TR!TRSpec

\* Every test whose body is started is reported, unless the scheduler is destroyed
\* (wait_any() and the chains of followups in it).
StartedIsReported ==
  \A t \in Test : child[Body(t)] # "none" ~> (t \in reported \/ pc = "done")
=============================================================================
