--------------------------- MODULE Scheduler_proofs ---------------------------
(* What the scheduler promises of a test that passes, of an interrupt, and   *)
(* of its end, for any tests, listings, interrupts, core dumps and failures. *)
(*                                                                           *)
(* GoodMeansClean speaks of the end of a chain body, cleanup routine,        *)
(* environment cleanup, and is not inductive.  It rests on the flags of each *)
(* test (FlagsInv): until the scheduler is destroyed, a cleanup of a test    *)
(* that passed so far is still flagged or was seen to succeed, and the       *)
(* environment is not cleaned while the cleanup routine is flagged.  That in *)
(* turn needs to know what a result says of the children waited for          *)
(* (ResultInv, WaitedInv) and what the call in progress is about (CurInv).   *)
(* From the destructor on, and after a failed assertion, flags are taken away*)
(* for good and nothing more is reported (Late).                             *)
(*                                                                           *)
(* The actions fall in three classes: those that leave all flags and results *)
(* alone (QuietStep, and SteadyStep for those that may also move a child),   *)
(* those that account a routine to its test (AccountStep), and the ones that *)
(* start, reap and report one, which are proved by themselves.               *)
EXTENDS Scheduler, FiniteSetTheorems, TLAPS

(* The scheduler is being destroyed, or has failed an assertion.             *)
Late ==
  \/ pc \in {"unwind", "collect", "late_cleanup", "late_execenv", "late_wait",
             "late_blocked", "done", "crashed"}
  \/ pc = "fork" /\ cur[2] \in LateRoutines

Cleanups == {"cleanup", "execenv"}
Starting == pc \in {"followup", "fork"}
Processing == pc \in {"stacktrace", "process"}
Unstarted(t) == \A k \in Cleanups : child[<<t, k>>] = "none"
Ran(t, k) == child[<<t, k>>] = "success" /\ <<t, k>> \in waited

Types ==
  /\ child \in [Child -> {"none", "running", "success", "failure", "skip", "core"}]
  /\ result \in [Test -> {"none", "passed", "skipped", "failed", "broken"}]
  /\ all_exec_data \subseteq TestChild /\ handles \subseteq Child
  /\ reported \subseteq Test

(* The child that the call in progress is about.                             *)
CurInv ==
  /\ Starting => cur \in Child
  /\ pc = "followup" => cur[2] \in Cleanups
  /\ Starting /\ cur[2] \in Routines => child[cur] = "none"
  /\ Processing => cur \in TestChild /\ cur \in waited
  /\ Processing /\ cur[2] = "body" => result[cur[1]] = "none"
  /\ pc \in {"list_spawn", "list_wait", "list_blocked"} => cur \in Program \X {"list"}
  /\ pc \in {"late_wait", "late_blocked"} => cur \in Test \X LateRoutines

(* Routines that were waited for have ended; what has a handle was started.  *)
WaitedInv ==
  /\ \A t \in Test : \A k \in Routines : <<t, k>> \in waited => Ended(<<t, k>>)
  /\ \A x \in handles : child[x] # "none"

(* What the result so far of a test says of its routines.                    *)
ResultInv ==
  \A t \in Test :
    /\ result[t] # "none" => Body(t) \in waited
    /\ result[t] = "none" => Unstarted(t)
    /\ result[t] = "passed" => Ran(t, "body")
    /\ result[t] = "skipped" => child[Body(t)] = "skip" /\ Unstarted(t)
    /\ Starting /\ cur \in {<<t, k>> : k \in Cleanups} => result[t] \notin {"none", "skipped"}
    /\ t \in needs_execenv_cleanup => child[<<t, "execenv">>] = "none"

(* The flags, until the scheduler is destroyed: which cleanups are yet to be *)
(* started or processed, and in which order.                                 *)
FlagsInv ==
  ~Late =>
  \A t \in Test :
    /\ child[Body(t)] # "none" /\ result[t] = "none" =>
         /\ t \in WithCleanup => t \in needs_cleanup
         /\ t \in WithExecenv => t \in needs_execenv_cleanup
    /\ result[t] = "passed" =>
         /\ t \in WithCleanup => t \in needs_cleanup \/ Ran(t, "cleanup")
         /\ t \in WithExecenv => t \in needs_execenv_cleanup \/ child[<<t, "execenv">>] # "none"
    /\ child[<<t, "execenv">>] # "none" => t \notin needs_cleanup
    /\ Starting /\ cur = <<t, "execenv">> => t \notin needs_cleanup
    /\ Starting /\ cur = <<t, "cleanup">> => t \in needs_cleanup
    /\ child[<<t, "cleanup">>] # "none" /\ <<t, "cleanup">> \notin waited => t \in needs_cleanup
    /\ Processing /\ cur = <<t, "cleanup">> => t \in needs_cleanup

(* GoodMeansClean of one test.                                               *)
Owed(t) ==
  {"body"} \union {k \in {"cleanup"} : t \in WithCleanup}
           \union {k \in {"execenv"} : t \in WithExecenv}
CleanIfGood(t) ==
  Good(result[t]) => \/ child[Body(t)] = "skip" /\ Started(t) = {"body"}
                     \/ \A k \in Owed(t) : Ran(t, k)

ReportInv ==
  /\ \A t \in reported : result[t] # "none" /\ CleanIfGood(t)
  /\ pc = "report" => \E t \in Test : cur = Body(t) /\ result[t] # "none" /\ CleanIfGood(t)

IInv == Types /\ CurInv /\ WaitedInv /\ ResultInv /\ FlagsInv /\ ReportInv

(* The kinds of children are told apart.                                     *)
LEMMA Kinds ==
  /\ \A t \in Test : \A k \in Routines \union LateRoutines : <<t, k>> \in TestChild /\ <<t, k>> \in Child
  /\ \A x \in TestChild : x \in Child /\ x[1] \in Test /\ x[2] \in Routines \union LateRoutines
                          /\ x = <<x[1], x[2]>>
  /\ \A x \in Child : x \in TestChild \/ x[2] = "list"
  /\ \A x \in Child : x[2] \in Routines \union LateRoutines => x \in TestChild
  /\ \A x \in Program \X {"list"} : x \in Child /\ x[2] = "list"
<1> USE DEF TestChild, Child, Routines, LateRoutines
<1>1. \A t \in Test : \A k \in Routines \union LateRoutines : <<t, k>> \in TestChild /\ <<t, k>> \in Child
  OBVIOUS
<1>2. \A x \in TestChild : x \in Child /\ x[1] \in Test /\ x[2] \in Routines \union LateRoutines
                           /\ x = <<x[1], x[2]>>
  OBVIOUS
<1>3. \A x \in Child : x \in TestChild \/ x[2] = "list"
  OBVIOUS
<1>4. \A x \in Child : x[2] \in Routines \union LateRoutines => x \in TestChild
  OBVIOUS
<1>5. \A x \in Program \X {"list"} : x \in Child /\ x[2] = "list"
  OBVIOUS
<1> QED
  BY <1>1, <1>2, <1>3, <1>4, <1>5

(* The invariant holds of a new scheduler.                                   *)
LEMMA InitIInv == Init => IInv
<1> SUFFICES ASSUME Init PROVE IInv
  OBVIOUS
<1>1. Types
  BY DEF Init, Types
<1>2. CurInv
  BY DEF Init, CurInv, Starting, Processing
<1>3. WaitedInv
  BY DEF Init, WaitedInv
<1>4. ResultInv
  BY Kinds DEF Init, ResultInv, Unstarted, Cleanups, Starting, Routines
<1>5. FlagsInv
  BY Kinds DEF Init, FlagsInv, Starting, Processing, Body, Routines
<1>6. ReportInv
  BY DEF Init, ReportInv
<1> QED
  BY <1>1, <1>2, <1>3, <1>4, <1>5, <1>6 DEF IInv

(* A step that starts no routine of a test and accounts for none.            *)
Steady ==
  /\ \A t \in Test : \A k \in Routines :
       \/ child'[<<t, k>>] = child[<<t, k>>]
       \/ child[<<t, k>>] = "running" /\ child'[<<t, k>>] \notin {"none", "running"}
  /\ waited \subseteq waited'
  /\ UNCHANGED <<result, reported>>
  /\ needs_execenv_cleanup' \subseteq needs_execenv_cleanup
  /\ Starting' /\ cur'[2] \in Cleanups => Starting /\ cur' = cur
  /\ pc' = "report" => pc = "report" /\ cur' = cur
  /\ ~Late' => /\ ~Late
               /\ UNCHANGED <<needs_cleanup, needs_execenv_cleanup>>
               /\ \A t \in Test : <<t, "cleanup">> \in waited' => <<t, "cleanup">> \in waited
               /\ Processing' => Processing /\ cur' = cur

(* A test that has been reported keeps its word through any such step.       *)
LEMMA SteadyClean ==
  ASSUME Steady, NEW t \in Test, CleanIfGood(t)
  PROVE  CleanIfGood(t)'
<1> SUFFICES ASSUME Good(result[t]) PROVE CleanIfGood(t)'
  BY DEF Steady, CleanIfGood, Good
<1>1. CASE child[Body(t)] = "skip" /\ Started(t) = {"body"}
  <2>1. child'[Body(t)] = "skip"
    BY <1>1 DEF Steady, Body, Routines
  <2>2. \A k \in Routines : child[<<t, k>>] = "none" <=> child'[<<t, k>>] = "none"
    BY DEF Steady
  <2>3. Started(t)' = {"body"}
    BY <1>1, <2>2 DEF Started
  <2> QED
    BY <2>1, <2>3 DEF CleanIfGood
<1>2. CASE \A k \in Owed(t) : Ran(t, k)
  <2>1. Owed(t) \subseteq Routines
    BY DEF Owed, Routines
  <2>2. \A k \in Owed(t) : Ran(t, k)'
    BY <1>2, <2>1 DEF Steady, Ran
  <2>3. Owed(t)' = Owed(t)
    BY DEF Owed
  <2> QED
    BY <2>2, <2>3 DEF CleanIfGood
<1> QED
  BY <1>1, <1>2 DEF CleanIfGood

(* The invariant is kept by a step that starts and accounts for no routine.  *)
LEMMA SteadyStep ==
  ASSUME IInv, Steady, Types', CurInv', WaitedInv'
  PROVE  IInv'
<1>1. \A t \in Test : \A k \in Routines : child[<<t, k>>] = "none" <=> child'[<<t, k>>] = "none"
  BY DEF Steady
<1>2. \A t \in Test : \A k \in Routines : Ran(t, k) => Ran(t, k)'
  BY DEF Steady, Ran
<1>3. ResultInv'
  <2> SUFFICES ASSUME NEW t \in Test
               PROVE  /\ result'[t] # "none" => Body(t) \in waited'
                      /\ result'[t] = "none" => Unstarted(t)'
                      /\ result'[t] = "passed" => Ran(t, "body")'
                      /\ result'[t] = "skipped" => child'[Body(t)] = "skip" /\ Unstarted(t)'
                      /\ Starting' /\ cur' \in {<<t, k>> : k \in Cleanups}
                           => result'[t] \notin {"none", "skipped"}
                      /\ t \in needs_execenv_cleanup' => child'[<<t, "execenv">>] = "none"
    BY DEF ResultInv, Body
  <2>1. Unstarted(t) => Unstarted(t)'
    BY <1>1 DEF Unstarted, Cleanups, Routines
  <2>2. result'[t] = result[t]
    BY DEF Steady
  <2>3. child[Body(t)] = "skip" => child'[Body(t)] = "skip"
    BY DEF Steady, Body, Routines
  <2>4. Starting' /\ cur' \in {<<t, k>> : k \in Cleanups}
          => Starting /\ cur \in {<<t, k>> : k \in Cleanups}
    BY DEF Steady
  <2>5. t \in needs_execenv_cleanup' => child'[<<t, "execenv">>] = "none"
    BY <1>1 DEF Steady, IInv, ResultInv, Routines
  <2>6. result[t] # "none" => Body(t) \in waited'
    BY DEF Steady, IInv, ResultInv
  <2>7. result[t] = "passed" => Ran(t, "body")'
    BY <1>2 DEF IInv, ResultInv, Routines
  <2> QED
    BY <2>1, <2>2, <2>3, <2>4, <2>5, <2>6, <2>7 DEF IInv, ResultInv
<1>4. FlagsInv'
  <2> SUFFICES ASSUME ~Late', NEW t \in Test
               PROVE  /\ child'[Body(t)] # "none" /\ result'[t] = "none" =>
                           /\ t \in WithCleanup => t \in needs_cleanup'
                           /\ t \in WithExecenv => t \in needs_execenv_cleanup'
                      /\ result'[t] = "passed" =>
                           /\ t \in WithCleanup => t \in needs_cleanup' \/ Ran(t, "cleanup")'
                           /\ t \in WithExecenv => \/ t \in needs_execenv_cleanup'
                                                   \/ child'[<<t, "execenv">>] # "none"
                      /\ child'[<<t, "execenv">>] # "none" => t \notin needs_cleanup'
                      /\ Starting' /\ cur' = <<t, "execenv">> => t \notin needs_cleanup'
                      /\ Starting' /\ cur' = <<t, "cleanup">> => t \in needs_cleanup'
                      /\ child'[<<t, "cleanup">>] # "none" /\ <<t, "cleanup">> \notin waited'
                           => t \in needs_cleanup'
                      /\ Processing' /\ cur' = <<t, "cleanup">> => t \in needs_cleanup'
    BY DEF FlagsInv, Body
  <2>1. /\ ~Late /\ UNCHANGED <<needs_cleanup, needs_execenv_cleanup, result>>
        /\ waited \subseteq waited'
        /\ Processing' => Processing /\ cur' = cur
        /\ Starting' /\ cur'[2] \in Cleanups => Starting /\ cur' = cur
    BY DEF Steady
  <2>2. FlagsInv
    BY DEF IInv
  <2>3. Ran(t, "cleanup") => Ran(t, "cleanup")'
    BY <1>2 DEF Routines
  <2>4. /\ child[Body(t)] = "none" <=> child'[Body(t)] = "none"
        /\ child[<<t, "cleanup">>] = "none" <=> child'[<<t, "cleanup">>] = "none"
        /\ child[<<t, "execenv">>] = "none" <=> child'[<<t, "execenv">>] = "none"
    BY <1>1 DEF Body, Routines
  <2>5. Starting' /\ cur' = <<t, "execenv">> => Starting /\ cur = <<t, "execenv">>
    BY <2>1 DEF Cleanups
  <2>6. Starting' /\ cur' = <<t, "cleanup">> => Starting /\ cur = <<t, "cleanup">>
    BY <2>1 DEF Cleanups
  <2> QED
    BY <2>1, <2>2, <2>3, <2>4, <2>5, <2>6 DEF FlagsInv
<1>5. ReportInv'
  <2>1. \A t \in Test : CleanIfGood(t) => CleanIfGood(t)'
    BY SteadyClean
  <2>2. \A t \in reported' : result'[t] # "none" /\ CleanIfGood(t)'
    BY <2>1 DEF Steady, IInv, ReportInv, Types
  <2>3. ASSUME pc' = "report"
        PROVE  \E t \in Test : cur' = Body(t) /\ result'[t] # "none" /\ CleanIfGood(t)'
    BY <2>1, <2>3 DEF Steady, IInv, ReportInv
  <2> QED
    BY <2>2, <2>3 DEF ReportInv, Body
<1> QED
  BY <1>3, <1>4, <1>5 DEF IInv

(* Steps that only move from one call to another.                            *)
Quiet ==
  /\ UNCHANGED <<childVars, result, reported, needs_cleanup, needs_execenv_cleanup>>
  /\ all_exec_data' \subseteq all_exec_data /\ handles' \subseteq handles
  /\ Starting' /\ cur'[2] \in Cleanups => Starting /\ cur' = cur
  /\ pc' # "report"
  /\ ~Late' => ~Late /\ (Processing' => Processing /\ cur' = cur)

(* ... and by a step that leaves every child alone.                          *)
LEMMA QuietStep ==
  ASSUME IInv, Quiet, CurInv'
  PROVE  IInv'
<1>1. Types'
  BY DEF IInv, Types, Quiet, childVars
<1>2. WaitedInv'
  BY DEF IInv, WaitedInv, Quiet, childVars, Ended
<1>3. Steady
  BY DEF Steady, Quiet, childVars
<1> QED
  BY <1>1, <1>2, <1>3, SteadyStep

(* check_interrupt() throws, or not.                                         *)
LEMMA Checks == ASSUME IInv, CheckThrows PROVE IInv'
<1>1. Quiet
  BY DEF CheckThrows, Quiet, testVars, mapVars, clientVars, Starting, Late
<1>2. CurInv'
  BY DEF CheckThrows, CurInv, Starting, Processing
<1> QED
  BY <1>1, <1>2, QuietStep

(* spawn_test() of t, before its fork.                                       *)
LEMMA SpawnsTest == ASSUME IInv, NEW t \in Test, SpawnTest(t) PROVE IInv'
<1>1. /\ pc = "idle" /\ pc' = "fork" /\ cur' = Body(t) /\ child[Body(t)] = "none"
      /\ Body(t) \in Child /\ Body(t)[2] = "body"
  BY Kinds DEF SpawnTest, Body, Routines
<1>2. Quiet
  BY <1>1 DEF SpawnTest, Quiet, testVars, mapVars, clientVars, Starting, Processing, Late, Cleanups, LateRoutines
<1>3. CurInv'
  BY <1>1 DEF SpawnTest, CurInv, Starting, Processing, childVars
<1> QED
  BY <1>2, <1>3, QuietStep

(* spawn_cleanup() and spawn_execenv_cleanup(), before their fork.           *)
LEMMA SpawnsFollowup == ASSUME IInv, SpawnFollowup PROVE IInv'
<1>1. cur[2] \in Cleanups
  BY DEF IInv, CurInv, SpawnFollowup
<1>2. Quiet
  BY <1>1 DEF SpawnFollowup, Quiet, testVars, mapVars, clientVars, Starting, Processing, Late, Cleanups, LateRoutines
<1>3. CurInv'
  BY DEF IInv, SpawnFollowup, CurInv, Starting, Processing, childVars
<1> QED
  BY <1>2, <1>3, QuietStep

(* fork(2) fails: an exception, and the scheduler is destroyed.              *)
LEMMA FailsFork == ASSUME IInv, ForkFails PROVE IInv'
<1>1. pc = "fork" /\ cur \in Child
  BY DEF ForkFails, IInv, CurInv, Starting
<1>2. pc' \in {"late_cleanup", "late_execenv", "listed", "unwind"}
  BY <1>1 DEF ForkFails, LateRoutines
<1>3. ~Late' => ~Late
  BY <1>1 DEF ForkFails, Late, LateRoutines
<1>4. Quiet
  BY <1>2, <1>3 DEF ForkFails, Quiet, testVars, mapVars, Starting, Processing
<1>5. CurInv'
  BY <1>2 DEF CurInv, Starting, Processing
<1> QED
  BY <1>4, <1>5, QuietStep

(* wait_any() is entered, or entered again after a stray child.              *)
LEMMA Waits == ASSUME IInv, WaitAny \/ WaitAnyAgain PROVE IInv'
<1>1. Quiet
  BY DEF WaitAny, WaitAnyAgain, Quiet, testVars, mapVars, clientVars, Starting, Processing, Late
<1>2. CurInv'
  BY DEF WaitAny, WaitAnyAgain, CurInv, Starting, Processing
<1> QED
  BY <1>1, <1>2, QuietStep

(* dump_stacktrace() returns, or throws an interrupt.                        *)
LEMMA Dumps == ASSUME IInv, Stacktrace \/ StacktraceThrows PROVE IInv'
<1>1. CASE Stacktrace
  <2>1. Quiet
    BY <1>1 DEF Stacktrace, Quiet, testVars, mapVars, clientVars, Starting, Processing, Late
  <2>2. CurInv'
    BY <1>1 DEF IInv, Stacktrace, CurInv, Starting, Processing, childVars, testVars
  <2> QED
    BY <2>1, <2>2, QuietStep
<1>2. CASE StacktraceThrows
  <2>1. Quiet
    BY <1>2 DEF StacktraceThrows, Quiet, testVars, mapVars, clientVars, Starting, Processing, Late
  <2>2. CurInv'
    BY <1>2 DEF StacktraceThrows, CurInv, Starting, Processing
  <2> QED
    BY <2>1, <2>2, QuietStep
<1> QED
  BY <1>1, <1>2

(* The driver throws, or calls cleanup() on a result handle.                 *)
LEMMA Clients == ASSUME IInv, ClientThrows \/ \E t \in Test : Release(t) PROVE IInv'
<1>1. Quiet
  BY DEF ClientThrows, Release, Quiet, testVars, mapVars, Starting, Processing, Late
<1>2. CurInv'
  BY DEF ClientThrows, Release, CurInv, Starting, Processing
<1> QED
  BY <1>1, <1>2, QuietStep

(* The steps of list_tests() that start no child.                            *)
LEMMA ListsQuietly ==
  ASSUME IInv,
         (\E p \in Program : ListTests(p)) \/ ListSpawn \/ ListWait \/ ListInterrupted \/ Listed
  PROVE  IInv'
<1>1. /\ pc \in {"idle", "list_spawn", "list_wait", "listed"}
      /\ pc' \in {"list_spawn", "fork", "list_blocked", "listed", "idle"}
      /\ pc' \in {"list_spawn", "fork", "list_blocked"} => cur' \in Program \X {"list"}
  BY DEF IInv, CurInv, ListTests, ListSpawn, ListWait, ListInterrupted, Listed
<1>2. pc' \in {"list_spawn", "fork", "list_blocked"} => cur' \in Child /\ cur'[2] = "list"
  BY <1>1, Kinds
<1>3. Quiet
  <2>1. UNCHANGED <<childVars, result, reported, needs_cleanup, needs_execenv_cleanup, mapVars>>
    BY DEF ListTests, ListSpawn, ListWait, ListInterrupted, Listed, testVars, clientVars
  <2> QED
    BY <1>1, <1>2, <2>1 DEF Quiet, mapVars, Starting, Processing, Late, LateRoutines, Cleanups
<1>4. CurInv'
  BY <1>1, <1>2 DEF CurInv, Starting, Processing, Routines, Cleanups
<1> QED
  BY <1>3, <1>4, QuietStep

(* The steps of the destructor that start no child and reap none.            *)
LEMMA Unwinds ==
  ASSUME IInv,
         Unwind \/ LateWait \/ LateWaitThrows \/ \E t \in Test : LateSpawn(t) \/ LateSpawnThrows(t)
  PROVE  IInv'
<1>1. UNCHANGED <<childVars, result, reported, needs_cleanup, needs_execenv_cleanup>>
      /\ all_exec_data' \subseteq all_exec_data /\ handles' \subseteq handles
  BY DEF Unwind, LateWait, LateWaitThrows, LateSpawn, LateSpawnThrows, mapVars, testVars, clientVars
<1>2. CASE Unwind \/ LateWait
  <2>1. Quiet
    BY <1>1, <1>2 DEF Unwind, LateWait, Quiet, Starting, Late
  <2>2. CurInv'
    BY <1>2 DEF IInv, Unwind, LateWait, CurInv, Starting, Processing
  <2> QED
    BY <2>1, <2>2, QuietStep
<1>3. CASE LateWaitThrows
  <2>1. pc' \in LateRoutines
    BY <1>3, Kinds DEF IInv, CurInv, LateWaitThrows
  <2>2. Quiet
    BY <1>1, <2>1 DEF Quiet, Starting, Late, LateRoutines
  <2>3. CurInv'
    BY <2>1 DEF CurInv, Starting, Processing, LateRoutines
  <2> QED
    BY <2>2, <2>3, QuietStep
<1>4. ASSUME NEW t \in Test, LateSpawn(t) PROVE IInv'
  <2>1. pc \in LateRoutines /\ pc' = "fork" /\ cur' = <<t, pc>> /\ cur' \in Child /\ cur'[2] \in LateRoutines
    BY <1>4, Kinds DEF LateSpawn
  <2>2. Quiet
    BY <1>1, <2>1 DEF Quiet, Starting, Late, LateRoutines, Cleanups
  <2>3. CurInv'
    BY <2>1 DEF CurInv, Starting, Processing, LateRoutines, Routines
  <2> QED
    BY <2>2, <2>3, QuietStep
<1>5. ASSUME NEW t \in Test, LateSpawnThrows(t) PROVE IInv'
  <2>1. pc' \in LateRoutines
    BY <1>5 DEF LateSpawnThrows
  <2>2. Quiet
    BY <1>1, <2>1 DEF Quiet, Starting, Late, LateRoutines
  <2>3. CurInv'
    BY <2>1 DEF CurInv, Starting, Processing, LateRoutines
  <2> QED
    BY <2>2, <2>3, QuietStep
<1> QED
  BY <1>2, <1>3, <1>4, <1>5

(* The destructor takes flags away: from now on nobody looks at them.        *)
LEMMA Collects == ASSUME IInv, CollectCleanup \/ CollectExecenv PROVE IInv'
<1>1. pc' \in {"late_cleanup", "late_execenv", "crashed"}
  BY DEF CollectCleanup, CollectExecenv, Collect
<1>2. UNCHANGED <<childVars, mapVars, result, reported>>
      /\ needs_execenv_cleanup' \subseteq needs_execenv_cleanup
  BY DEF CollectCleanup, CollectExecenv, clientVars
<1>3. Types' /\ WaitedInv'
  BY <1>2 DEF IInv, Types, WaitedInv, childVars, mapVars, Ended
<1>4. Steady
  BY <1>1, <1>2 DEF Steady, childVars, Starting, Late
<1>5. CurInv'
  BY <1>1 DEF CurInv, Starting, Processing
<1> QED
  BY <1>3, <1>4, <1>5, SteadyStep

(* A listing, or a cleanup of the destructor, is reaped.                     *)
LEMMA Reaps == ASSUME IInv, ListReap \/ LateReap PROVE IInv'
<1>1. /\ cur \in (Program \X {"list"}) \union (Test \X LateRoutines)
      /\ pc' \in {"listed", "late_cleanup", "late_execenv"} /\ (~Late' => ~Late)
  BY Kinds DEF IInv, CurInv, ListReap, LateReap, Late, LateRoutines
<1>2. \A t \in Test : \A k \in Routines : <<t, k>> # cur
  BY <1>1 DEF Routines, LateRoutines
<1>3. /\ UNCHANGED <<child, all_exec_data, result, reported, needs_cleanup, needs_execenv_cleanup>>
      /\ waited' = waited \union {cur} /\ handles' \subseteq handles
  BY DEF ListReap, LateReap, testVars, clientVars
<1>4. Types'
  BY <1>3 DEF IInv, Types
<1>5. WaitedInv'
  BY <1>2, <1>3 DEF IInv, WaitedInv, Ended
<1>6. Steady
  BY <1>1, <1>2, <1>3 DEF Steady, Starting, Processing, Routines
<1>7. CurInv'
  BY <1>1 DEF CurInv, Starting, Processing
<1> QED
  BY <1>4, <1>5, <1>6, <1>7, SteadyStep

(* The destructor kills what still runs.                                     *)
LEMMA Kills ==
  ASSUME IInv, NEW left, left \subseteq handles, ExecutorCleanup(left), pc' = "done",
         UNCHANGED <<all_exec_data, testVars, reported>>
  PROVE  IInv'
<1>1. /\ child' = [x \in Child |->
                     IF x \in left /\ child[x] = "running" THEN "failure" ELSE child[x]]
      /\ waited' = waited \union left /\ handles' = {}
  BY DEF ExecutorCleanup
<1>2. Types'
  BY <1>1 DEF IInv, Types, testVars
<1>3. WaitedInv'
  <2> SUFFICES ASSUME NEW t \in Test, NEW k \in Routines, <<t, k>> \in waited'
               PROVE  Ended(<<t, k>>)'
    BY <1>1 DEF WaitedInv
  <2>1. <<t, k>> \in Child
    BY Kinds
  <2>2. CASE <<t, k>> \in waited
    BY <1>1, <2>1, <2>2 DEF IInv, WaitedInv, Ended
  <2>3. CASE <<t, k>> \in left
    BY <1>1, <2>1, <2>3 DEF IInv, WaitedInv, Ended
  <2> QED
    BY <1>1, <2>2, <2>3
<1>4. Steady
  BY <1>1, Kinds DEF Steady, testVars, Starting, Late
<1>5. CurInv'
  BY DEF CurInv, Starting, Processing
<1> QED
  BY <1>2, <1>3, <1>4, <1>5, SteadyStep

(* cleanup() and the end of the destructor.                                  *)
LEMMA Closes == ASSUME IInv, Cleanup \/ Destroy PROVE IInv'
<1>1. CASE Cleanup
  BY <1>1, Kills DEF Cleanup, clientVars
<1>2. CASE Destroy
  BY <1>2, Kills DEF Destroy, clientVars
<1> QED
  BY <1>1, <1>2

(* An interrupt arrives, a child ends: the scheduler does not move.          *)
LEMMA Outside == ASSUME IInv, Interrupt \/ \E x \in Child : ChildEnds(x) PROVE IInv'
<1>1. \A y \in Child : \/ child'[y] = child[y]
                       \/ child[y] = "running" /\ child'[y] \notin {"none", "running"}
  <2>1. CASE Interrupt
    BY <2>1 DEF Interrupt
  <2>2. ASSUME NEW x \in Child, ChildEnds(x)
        PROVE  \A y \in Child : \/ child'[y] = child[y]
                                \/ child[y] = "running" /\ child'[y] \notin {"none", "running"}
    BY <2>2 DEF ChildEnds, Ends, IInv, Types
  <2> QED
    BY <2>1, <2>2
<1>2. UNCHANGED <<waited, mapVars, result, reported, needs_cleanup, needs_execenv_cleanup, pc, cur>>
  BY DEF Interrupt, ChildEnds, testVars, clientVars
<1>3. Types'
  BY <1>2 DEF IInv, Types, Interrupt, ChildEnds, Ends, mapVars
<1>4. WaitedInv'
  BY <1>1, <1>2, Kinds DEF IInv, Types, WaitedInv, Ended, mapVars
<1>5. Steady
  BY <1>1, <1>2, Kinds DEF Steady, Starting, Processing, Late
<1>6. CurInv'
  BY <1>1, <1>2 DEF IInv, CurInv, Starting, Processing
<1> QED
  BY <1>3, <1>4, <1>5, <1>6, SteadyStep

(* wait(2) returns x: a routine is now being processed.                      *)
LEMMA Reaping == ASSUME IInv, NEW x \in Child, WaitReap(x) PROVE IInv'
<1>1. /\ pc = "wait" /\ Ended(x) /\ x \notin waited /\ waited' = waited \union {x} /\ cur' = x
      /\ UNCHANGED <<child, all_exec_data, handles, result, reported, needs_cleanup,
                     needs_execenv_cleanup>>
      /\ pc' \in {"crashed", "stacktrace", "process"}
      /\ pc' # "crashed" => x \in TestChild
  <2>1. /\ pc = "wait" /\ Ended(x) /\ x \notin waited /\ waited' = waited \union {x} /\ cur' = x
        /\ UNCHANGED <<child, all_exec_data, handles, result, reported, needs_cleanup,
                       needs_execenv_cleanup>>
    BY DEF WaitReap, mapVars, testVars, clientVars
  <2>2. CASE x \notin all_exec_data
    <3>1. pc' = "crashed"
      BY <2>2 DEF WaitReap
    <3> QED
      BY <2>1, <3>1
  <2>3. CASE x \in all_exec_data
    <3>1. x \in TestChild
      BY <2>3 DEF IInv, Types
    <3>2. pc' \in {"stacktrace", "process"}
      BY <2>3 DEF WaitReap
    <3> QED
      BY <2>1, <3>1, <3>2
  <2> QED
    BY <2>2, <2>3
<1>2. Types'
  BY <1>1 DEF IInv, Types
<1>3. WaitedInv'
  BY <1>1 DEF IInv, WaitedInv, Ended
<1>4. ASSUME pc' # "crashed", x[2] = "body" PROVE result[x[1]] = "none"
  <2>1. x[1] \in Test /\ x = Body(x[1])
    BY <1>1, <1>4, Kinds DEF Body
  <2> QED
    BY <1>1, <2>1 DEF IInv, ResultInv
<1>5. CurInv'
  BY <1>1, <1>4 DEF CurInv, Starting, Processing
<1>6. ResultInv'
  BY <1>1 DEF IInv, ResultInv, Starting, Ran, Unstarted, Body
<1>7. FlagsInv'
  <2> SUFFICES ASSUME ~Late', NEW t \in Test
               PROVE  /\ result[t] = "passed" =>
                           (t \in WithCleanup => t \in needs_cleanup \/ Ran(t, "cleanup")')
                      /\ child[<<t, "cleanup">>] # "none" /\ <<t, "cleanup">> \notin waited'
                           => t \in needs_cleanup
                      /\ Processing' /\ cur' = <<t, "cleanup">> => t \in needs_cleanup
    <3>1. ~Starting' /\ (~Late' => ~Late)
      BY <1>1 DEF Starting, Late
    <3> QED
      BY <1>1, <3>1 DEF IInv, FlagsInv, Body
  <2>1. FlagsInv /\ ~Late
    BY <1>1 DEF IInv, Late
  <2>2. Ran(t, "cleanup") => Ran(t, "cleanup")'
    BY <1>1 DEF Ran
  <2>3. Processing' /\ cur' = <<t, "cleanup">> => t \in needs_cleanup
    BY <1>1, <2>1 DEF FlagsInv, Ended
  <2> QED
    BY <1>1, <2>1, <2>2, <2>3 DEF FlagsInv
<1>8. ReportInv'
  <2>1. \A t \in Test : CleanIfGood(t) => CleanIfGood(t)'
    BY <1>1 DEF CleanIfGood, Started, Ran, Owed, Body
  <2> QED
    BY <1>1, <2>1 DEF IInv, ReportInv, Types
<1> QED
  BY <1>2, <1>3, <1>5, <1>6, <1>7, <1>8 DEF IInv

(* The fork of a routine of a test: it was not started before.               *)
LEMMA ForkRoutine == ASSUME IInv, Fork, cur[2] \in Routines PROVE IInv'
<1> DEFINE t == cur[1]
           k == cur[2]
<1>1. /\ pc = "fork" /\ cur \in TestChild /\ t \in Test /\ k \in Routines /\ cur = <<t, k>>
      /\ cur \in Child /\ child[cur] = "none"
  BY Kinds DEF Fork, IInv, CurInv, Starting
<1>2. /\ child' = [child EXCEPT ![cur] = "running"] /\ handles' = handles \union {cur}
      /\ all_exec_data' = all_exec_data \union ({cur} \intersect TestChild)
      /\ needs_cleanup' = needs_cleanup \union (IF k = "body" THEN {t} \intersect WithCleanup ELSE {})
      /\ needs_execenv_cleanup' = NeedsExecenv(t, k)
      /\ UNCHANGED <<waited, result, reported>>
  BY DEF Fork, clientVars
<1>3. pc' \in {"idle", "wait_any"}
  <2>1. pc' = AfterFork(k)
    BY DEF Fork
  <2>2. CASE k = "body"
    BY <2>1, <2>2 DEF AfterFork, LateRoutines
  <2>3. CASE k = "cleanup" \/ k = "execenv"
    BY <2>1, <2>3 DEF AfterFork, LateRoutines
  <2> QED
    BY <1>1, <2>2, <2>3 DEF Routines
<1>4. /\ \A x \in Child : child'[x] = IF x = cur THEN "running" ELSE child[x]
      /\ \A u \in Test : \A l \in Routines :
           child'[<<u, l>>] = IF u = t /\ l = k THEN "running" ELSE child[<<u, l>>]
  BY <1>1, <1>2, Kinds DEF IInv, Types
<1>5. ~Late /\ ~Late' /\ Starting /\ ~Starting' /\ ~Processing' /\ pc' # "report"
  BY <1>1, <1>3 DEF Late, Starting, Processing, Routines, LateRoutines
<1>6. Types'
  BY <1>1, <1>2 DEF IInv, Types
<1>7. CurInv'
  BY <1>3 DEF CurInv, Starting, Processing
<1>8. WaitedInv'
  <2>1. <<t, k>> \notin waited
    BY <1>1 DEF IInv, WaitedInv, Ended
  <2>2. \A u \in Test : \A l \in Routines : <<u, l>> \in waited' => Ended(<<u, l>>)'
    BY <1>2, <1>4, <2>1 DEF IInv, WaitedInv, Ended
  <2>3. \A x \in handles' : child'[x] # "none"
    BY <1>1, <1>2, <1>4 DEF IInv, WaitedInv, Types
  <2> QED
    BY <2>2, <2>3 DEF WaitedInv
<1>9. k = "body" => result[t] = "none" /\ Unstarted(t)
  BY <1>1 DEF IInv, ResultInv, WaitedInv, Ended, Body, Routines
<1>10. k \in Cleanups => result[t] \notin {"none", "skipped"}
  BY <1>1, <1>5 DEF IInv, ResultInv
<1>12. \A u \in Test : \A l \in Routines : Ran(u, l) => Ran(u, l)'
  BY <1>1, <1>2, <1>4 DEF Ran
<1>13. \A u \in Test : Unstarted(u) /\ (u = t => k = "body") => Unstarted(u)'
  BY <1>4 DEF Unstarted, Cleanups, Routines
<1>14. ResultInv'
  <2> SUFFICES ASSUME NEW u \in Test
               PROVE  /\ result[u] # "none" => Body(u) \in waited
                      /\ result[u] = "none" => Unstarted(u)'
                      /\ result[u] = "passed" => Ran(u, "body")'
                      /\ result[u] = "skipped" => child'[Body(u)] = "skip" /\ Unstarted(u)'
                      /\ u \in needs_execenv_cleanup' => child'[<<u, "execenv">>] = "none"
    BY <1>2, <1>5 DEF ResultInv, Body
  <2>1. ResultInv
    BY DEF IInv
  <2>2. k = "body" \/ k \in Cleanups
    BY <1>1 DEF Routines, Cleanups
  <2>3. u = t /\ k # "body" => result[u] \notin {"none", "skipped"}
    BY <1>10, <2>2
  <2>4. child[Body(u)] = "skip" => child'[Body(u)] = "skip"
    BY <1>1, <1>4 DEF Body, Routines
  <2>5. u \in needs_execenv_cleanup' => child'[<<u, "execenv">>] = "none"
    <3>1. CASE k = "body"
      BY <1>2, <1>4, <1>9, <2>1, <3>1 DEF NeedsExecenv, ResultInv, Unstarted, Cleanups, Routines
    <3>2. CASE k = "cleanup"
      BY <1>2, <1>4, <2>1, <3>2 DEF NeedsExecenv, ResultInv, Routines
    <3>3. CASE k = "execenv"
      BY <1>2, <1>4, <2>1, <3>3 DEF NeedsExecenv, ResultInv, Routines
    <3> QED
      BY <1>1, <3>1, <3>2, <3>3 DEF Routines
  <2> QED
    BY <1>12, <1>13, <2>1, <2>3, <2>4, <2>5 DEF ResultInv, Routines
<1>15. FlagsInv'
  <2> SUFFICES ASSUME NEW u \in Test
               PROVE  /\ child'[Body(u)] # "none" /\ result[u] = "none" =>
                           /\ u \in WithCleanup => u \in needs_cleanup'
                           /\ u \in WithExecenv => u \in needs_execenv_cleanup'
                      /\ result[u] = "passed" =>
                           /\ u \in WithCleanup => u \in needs_cleanup' \/ Ran(u, "cleanup")'
                           /\ u \in WithExecenv => \/ u \in needs_execenv_cleanup'
                                                   \/ child'[<<u, "execenv">>] # "none"
                      /\ child'[<<u, "execenv">>] # "none" => u \notin needs_cleanup'
                      /\ child'[<<u, "cleanup">>] # "none" /\ <<u, "cleanup">> \notin waited
                           => u \in needs_cleanup'
    BY <1>2, <1>5 DEF FlagsInv, Body
  <2>1. FlagsInv
    BY DEF IInv
  <2>2. /\ child'[Body(u)] = IF u = t /\ k = "body" THEN "running" ELSE child[Body(u)]
        /\ child'[<<u, "cleanup">>] = IF u = t /\ k = "cleanup" THEN "running" ELSE child[<<u, "cleanup">>]
        /\ child'[<<u, "execenv">>] = IF u = t /\ k = "execenv" THEN "running" ELSE child[<<u, "execenv">>]
    BY <1>4 DEF Body, Routines
  <2>3. Ran(u, "cleanup") => Ran(u, "cleanup")'
    BY <1>12 DEF Routines
  <2>4. CASE k = "body"
    <3>1. /\ needs_cleanup' = needs_cleanup \union ({t} \intersect WithCleanup)
          /\ needs_execenv_cleanup' = needs_execenv_cleanup \union ({t} \intersect WithExecenv)
      BY <1>2, <2>4 DEF NeedsExecenv
    <3>2. u = t => child[<<u, "execenv">>] = "none" /\ result[u] = "none"
      BY <1>9, <2>4 DEF Unstarted, Cleanups
    <3> QED
      BY <1>5, <2>1, <2>2, <2>3, <2>4, <3>1, <3>2 DEF FlagsInv
  <2>5. CASE k = "cleanup"
    <3>1. needs_cleanup' = needs_cleanup /\ needs_execenv_cleanup' = needs_execenv_cleanup
      BY <1>2, <2>5 DEF NeedsExecenv
    <3>2. t \in needs_cleanup
      BY <1>1, <1>5, <2>1, <2>5 DEF FlagsInv
    <3> QED
      BY <1>5, <2>1, <2>2, <2>3, <2>5, <3>1, <3>2 DEF FlagsInv
  <2>6. CASE k = "execenv"
    <3>1. needs_cleanup' = needs_cleanup /\ needs_execenv_cleanup' = needs_execenv_cleanup \ {t}
      BY <1>2, <2>6 DEF NeedsExecenv
    <3>2. t \notin needs_cleanup /\ result[t] # "none"
      BY <1>1, <1>5, <1>10, <2>1, <2>6 DEF FlagsInv, Cleanups
    <3> QED
      BY <1>5, <2>1, <2>2, <2>3, <2>6, <3>1, <3>2 DEF FlagsInv
  <2> QED
    BY <1>1, <2>4, <2>5, <2>6 DEF Routines
<1>16. ReportInv'
  <2> SUFFICES ASSUME NEW u \in reported PROVE CleanIfGood(u)'
    BY <1>2, <1>5 DEF IInv, ReportInv
  <2>1. u \in Test /\ result[u] # "none" /\ CleanIfGood(u)
    BY DEF IInv, ReportInv, Types
  <2> SUFFICES ASSUME Good(result[u]) PROVE CleanIfGood(u)'
    BY <1>2 DEF CleanIfGood, Good
  <2>2. CASE child[Body(u)] = "skip" /\ Started(u) = {"body"}
    <3>1. result[u] = "skipped"
      BY <2>1, <2>2 DEF Good, IInv, ResultInv, Ran, Body
    <3>2. u # t
      BY <1>1, <1>9, <1>10, <3>1 DEF Routines, Cleanups
    <3>3. \A l \in Routines : child'[<<u, l>>] = child[<<u, l>>]
      BY <1>4, <2>1, <3>2
    <3>4. Started(u)' = {"body"} /\ child'[Body(u)] = "skip"
      BY <2>2, <3>3 DEF Started, Body, Routines
    <3> QED
      BY <3>4 DEF CleanIfGood
  <2>3. CASE \A l \in Owed(u) : Ran(u, l)
    <3>1. \A l \in Owed(u) : Ran(u, l)'
      BY <1>12, <2>1, <2>3 DEF Owed, Routines
    <3>2. Owed(u)' = Owed(u)
      BY DEF Owed
    <3> QED
      BY <3>1, <3>2 DEF CleanIfGood
  <2> QED
    BY <2>1, <2>2, <2>3 DEF CleanIfGood
<1> QED
  BY <1>6, <1>7, <1>8, <1>14, <1>15, <1>16 DEF IInv

(* The fork of any child: a routine, a listing or a late cleanup.            *)
LEMMA Forks == ASSUME IInv, Fork PROVE IInv'
<1>1. CASE cur[2] \in Routines
  BY <1>1, ForkRoutine
<1>2. CASE cur[2] \notin Routines
  <2>1. pc = "fork" /\ cur \in Child
    BY DEF Fork, IInv, CurInv, Starting
  <2>2. cur[2] \in LateRoutines \union {"list"}
    BY <1>2, <2>1, Kinds
  <2>3. /\ child' = [child EXCEPT ![cur] = "running"] /\ handles' = handles \union {cur}
        /\ all_exec_data' = all_exec_data \union ({cur} \intersect TestChild)
        /\ needs_cleanup' = needs_cleanup /\ needs_execenv_cleanup' = needs_execenv_cleanup
        /\ UNCHANGED <<waited, result, reported>> /\ cur' = cur
    BY <1>2, <2>2 DEF Fork, clientVars, NeedsExecenv, Routines
  <2>4. pc' = IF cur[2] = "list" THEN "list_wait" ELSE "late_wait"
    BY <2>2 DEF Fork, AfterFork, LateRoutines
  <2>5. \A t \in Test : \A k \in Routines : child'[<<t, k>>] = child[<<t, k>>] /\ <<t, k>> # cur
    <3> SUFFICES ASSUME NEW t \in Test, NEW k \in Routines
                 PROVE  child'[<<t, k>>] = child[<<t, k>>] /\ <<t, k>> # cur
      OBVIOUS
    <3>1. <<t, k>> \in Child
      BY Kinds
    <3>2. <<t, k>> # cur
      BY <1>2
    <3> QED
      BY <2>3, <3>1, <3>2 DEF IInv, Types
  <2>6. Types'
    BY <2>1, <2>3 DEF IInv, Types
  <2>7. WaitedInv'
    <3>1. \A t \in Test : \A k \in Routines : <<t, k>> \in waited' => Ended(<<t, k>>)'
      BY <2>3, <2>5 DEF IInv, WaitedInv, Ended
    <3>2. \A x \in handles' : child'[x] # "none"
      BY <2>1, <2>3 DEF IInv, WaitedInv, Types
    <3> QED
      BY <3>1, <3>2 DEF WaitedInv
  <2>8. Steady
    BY <2>1, <2>2, <2>3, <2>4, <2>5 DEF Steady, Starting, Processing, Late, LateRoutines
  <2>9. CurInv'
    <3>1. cur[2] = "list" => cur \in Program \X {"list"}
      BY <2>1 DEF Child, TestChild, Routines, LateRoutines
    <3>2. cur[2] # "list" => cur \in Test \X LateRoutines
      BY <2>1, <2>2 DEF Child, TestChild, Routines, LateRoutines
    <3> QED
      BY <2>3, <2>4, <3>1, <3>2 DEF CurInv, Starting, Processing
  <2> QED
    BY <2>6, <2>7, <2>8, <2>9, SteadyStep
<1> QED
  BY <1>1, <1>2

(* What Chain decides: a followup, or the report of the body.                *)
LEMMA ChainMoves ==
  ASSUME NEW t, NEW c, NEW e, Chain(t, c, e)
  PROVE  /\ t \in c => pc' = "followup" /\ cur' = <<t, "cleanup">>
         /\ t \notin c /\ t \in e => pc' = "followup" /\ cur' = <<t, "execenv">>
         /\ t \notin c \union e => pc' = "report" /\ cur' = Body(t)
<1>1. t \in c => pc' = "followup" /\ cur' = <<t, "cleanup">>
  BY DEF Chain
<1>2. t \notin c /\ t \in e => pc' = "followup" /\ cur' = <<t, "execenv">>
  BY DEF Chain
<1>3. t \notin c \union e => pc' = "report" /\ cur' = Body(t)
  BY DEF Chain
<1> QED
  BY <1>1, <1>2, <1>3

(* Processing an exit: the result of one test changes, nothing is started.   *)
Account(t, c, e) ==
  /\ t \in Test /\ pc = "process" /\ cur \in Child /\ cur \in waited
  /\ UNCHANGED <<child, waited, reported>>
  /\ all_exec_data' \subseteq all_exec_data /\ handles' \subseteq handles
  /\ result' \in [Test -> {"none", "passed", "skipped", "failed", "broken"}]
  /\ \A u \in Test \ {t} : result'[u] = result[u]
  /\ Chain(t, c, e)
  /\ c \subseteq needs_cleanup' /\ e \subseteq needs_execenv_cleanup'
  /\ t \in c => child[<<t, "cleanup">>] = "none"
  /\ t \notin c => t \notin needs_cleanup'
  /\ t \in c \union e => result'[t] \notin {"none", "skipped"}
  /\ needs_cleanup' \subseteq needs_cleanup /\ needs_cleanup \subseteq needs_cleanup' \union {t}
  /\ needs_execenv_cleanup' \subseteq needs_execenv_cleanup
  /\ needs_execenv_cleanup \subseteq needs_execenv_cleanup' \union {t}

(* The invariant is kept when a reaped routine is accounted to its test.     *)
LEMMA AccountStep ==
  ASSUME IInv, NEW t, NEW c, NEW e, Account(t, c, e),
         result'[t] # "none", Body(t) \in waited,
         result'[t] = "passed" => Ran(t, "body"),
         result'[t] = "skipped" => child[Body(t)] = "skip" /\ Unstarted(t),
         result'[t] = "passed" =>
           /\ t \in WithCleanup => t \in needs_cleanup' \/ Ran(t, "cleanup")
           /\ t \in WithExecenv => t \in needs_execenv_cleanup' \/ child[<<t, "execenv">>] # "none",
         child[<<t, "cleanup">>] # "none" /\ <<t, "cleanup">> \notin waited => t \in needs_cleanup',
         t \notin c \union e => CleanIfGood(t)',
         t \in reported => CleanIfGood(t)'
  PROVE  IInv'
<1> USE DEF Account
<1>1. Types'
  BY DEF IInv, Types
<1>2. /\ pc' \in {"followup", "report"} /\ ~Late /\ ~Late' /\ ~Processing' /\ Processing
      /\ pc' = "followup" => t \in c \union e
      /\ pc' = "followup" /\ cur' = <<t, "cleanup">> => t \in c
      /\ pc' = "followup" /\ cur' = <<t, "execenv">> => t \notin c
      /\ pc' = "followup" => cur' \in {<<t, "cleanup">>, <<t, "execenv">>}
      /\ pc' = "report" => cur' = Body(t) /\ t \notin c \union e
  BY ChainMoves DEF Late, Processing
<1>3. WaitedInv'
  BY DEF IInv, WaitedInv, Ended
<1>4. t \in needs_execenv_cleanup' => child[<<t, "execenv">>] = "none"
  BY DEF IInv, ResultInv
<1>5. CurInv'
  <2>1. pc' = "followup" => cur' \in Child /\ cur'[2] \in Cleanups /\ child'[cur'] = "none"
    BY <1>2, <1>4, Kinds, ChainMoves DEF Routines, Cleanups
  <2> QED
    BY <1>2, <2>1 DEF CurInv, Starting, Processing
<1>6. ResultInv'
  <2> SUFFICES ASSUME NEW u \in Test
               PROVE  /\ result'[u] # "none" => Body(u) \in waited
                      /\ result'[u] = "none" => Unstarted(u)
                      /\ result'[u] = "passed" => Ran(u, "body")
                      /\ result'[u] = "skipped" => child[Body(u)] = "skip" /\ Unstarted(u)
                      /\ Starting' /\ cur' \in {<<u, k>> : k \in Cleanups}
                           => result'[u] \notin {"none", "skipped"}
                      /\ u \in needs_execenv_cleanup' => child[<<u, "execenv">>] = "none"
    BY DEF ResultInv, Body, Unstarted, Ran
  <2>1. Starting' /\ cur' \in {<<u, k>> : k \in Cleanups} => result'[u] \notin {"none", "skipped"}
    BY <1>2 DEF Starting, Cleanups
  <2>2. CASE u = t
    BY <1>4, <2>1, <2>2
  <2>3. CASE u # t
    BY <2>1, <2>3 DEF IInv, ResultInv
  <2> QED
    BY <2>2, <2>3
<1>7. FlagsInv'
  <2> SUFFICES ASSUME NEW u \in Test
               PROVE  /\ child[Body(u)] # "none" /\ result'[u] = "none" =>
                           /\ u \in WithCleanup => u \in needs_cleanup'
                           /\ u \in WithExecenv => u \in needs_execenv_cleanup'
                      /\ result'[u] = "passed" =>
                           /\ u \in WithCleanup => u \in needs_cleanup' \/ Ran(u, "cleanup")
                           /\ u \in WithExecenv => \/ u \in needs_execenv_cleanup'
                                                   \/ child[<<u, "execenv">>] # "none"
                      /\ child[<<u, "execenv">>] # "none" => u \notin needs_cleanup'
                      /\ pc' = "followup" /\ cur' = <<u, "execenv">> => u \notin needs_cleanup'
                      /\ pc' = "followup" /\ cur' = <<u, "cleanup">> => u \in needs_cleanup'
                      /\ child[<<u, "cleanup">>] # "none" /\ <<u, "cleanup">> \notin waited
                           => u \in needs_cleanup'
    BY <1>2 DEF FlagsInv, Body, Ran, Starting
  <2>1. FlagsInv
    BY DEF IInv
  <2>2. CASE u = t
    <3>1. child[<<u, "execenv">>] # "none" => u \notin needs_cleanup'
      BY <1>2, <2>1 DEF FlagsInv
    <3>2. pc' = "followup" /\ cur' = <<u, "execenv">> => u \notin needs_cleanup'
      BY <1>2, <2>2
    <3>3. pc' = "followup" /\ cur' = <<u, "cleanup">> => u \in needs_cleanup'
      BY <1>2, <2>2
    <3> QED
      BY <2>2, <3>1, <3>2, <3>3
  <2>3. CASE u # t
    <3>1. /\ u \in needs_cleanup' <=> u \in needs_cleanup
          /\ u \in needs_execenv_cleanup' <=> u \in needs_execenv_cleanup
          /\ result'[u] = result[u]
      BY <2>3
    <3>2. pc' = "followup" => cur' # <<u, "execenv">> /\ cur' # <<u, "cleanup">>
      BY <1>2, <2>3
    <3> QED
      BY <1>2, <2>1, <3>1, <3>2 DEF FlagsInv
  <2> QED
    BY <2>2, <2>3
<1>8. ReportInv'
  <2>1. \A u \in Test \ {t} : CleanIfGood(u) => CleanIfGood(u)'
    BY DEF CleanIfGood, Started, Ran, Owed, Body
  <2>2. \A u \in reported' : result'[u] # "none" /\ CleanIfGood(u)'
    BY <2>1 DEF IInv, ReportInv, Types
  <2>3. pc' = "report" => \E u \in Test : cur' = Body(u) /\ result'[u] # "none" /\ CleanIfGood(u)'
    BY <1>2
  <2> QED
    BY <2>2, <2>3 DEF ReportInv, Body
<1> QED
  BY <1>1, <1>3, <1>5, <1>6, <1>7, <1>8 DEF IInv

(* The body of a test was reaped: its result, and what follows.              *)
LEMMA ProcessesBody == ASSUME IInv, ProcessBody PROVE IInv'
<1>0. PICK t \in Test : cur = Body(t) /\ cur[1] = t
  BY Kinds DEF ProcessBody, IInv, CurInv, Processing, Body
<1> DEFINE skipped == IF BodyResult(t) = "skipped" THEN {t} ELSE {}
           c == needs_cleanup \ skipped
           e == needs_execenv_cleanup \ skipped
<1>1. /\ pc = "process" /\ cur \in TestChild /\ cur \in Child /\ cur \in waited /\ t \in Test
      /\ cur = Body(t) /\ result[t] = "none" /\ ~Late
  BY <1>0, Kinds DEF ProcessBody, IInv, CurInv, Processing, Late
<1>2. BodyResult(t) \in {"passed", "skipped", "failed", "broken"}
  BY DEF BodyResult
<1>3. /\ UNCHANGED <<child, waited, all_exec_data, handles, reported>>
      /\ result' = [result EXCEPT ![t] = BodyResult(t)]
      /\ needs_cleanup' = c /\ needs_execenv_cleanup' = e
      /\ Chain(t, c, e)
  BY <1>0 DEF ProcessBody, childVars, mapVars, clientVars
<1>4. result'[t] = BodyResult(t) /\ \A u \in Test \ {t} : result'[u] = result[u]
  BY <1>1, <1>3 DEF IInv, Types
<1>5. Unstarted(t)
  BY <1>1 DEF IInv, ResultInv
<1>6. BodyResult(t) = "passed" => Ran(t, "body")
  BY <1>1 DEF BodyResult, Ran, Body
<1>7. BodyResult(t) = "skipped" => child[Body(t)] = "skip"
  BY DEF BodyResult
<1>8. /\ t \in WithCleanup => t \in needs_cleanup
      /\ t \in WithExecenv => t \in needs_execenv_cleanup
  BY <1>1 DEF IInv, FlagsInv, WaitedInv, Ended, Body, Routines
<1>9. Account(t, c, e)
  <2>1. t \in c => child[<<t, "cleanup">>] = "none"
    BY <1>5 DEF Unstarted, Cleanups
  <2>2. result' \in [Test -> {"none", "passed", "skipped", "failed", "broken"}]
    BY <1>1, <1>2, <1>3 DEF IInv, Types
  <2>3. t \in c \union e => result'[t] \notin {"none", "skipped"}
    BY <1>2, <1>4
  <2> QED
    BY <1>1, <1>3, <1>4, <2>1, <2>2, <2>3 DEF Account
<1>10. t \notin reported
  BY <1>1 DEF IInv, ReportInv
<1>11. t \notin c \union e => CleanIfGood(t)'
  <2> SUFFICES ASSUME t \notin c \union e, Good(BodyResult(t)) PROVE CleanIfGood(t)'
    BY <1>4 DEF CleanIfGood, Good
  <2>1. CASE BodyResult(t) = "skipped"
    <3>1. child[Body(t)] = "skip"
      BY <1>7, <2>1
    <3>2. Started(t) = {"body"}
      BY <1>5, <3>1 DEF Started, Unstarted, Cleanups, Routines, Body
    <3>3. Started(t)' = Started(t) /\ child'[Body(t)] = child[Body(t)]
      BY <1>3 DEF Started, Body
    <3> QED
      BY <3>1, <3>2, <3>3 DEF CleanIfGood
  <2>2. CASE BodyResult(t) = "passed"
    <3>1. t \notin WithCleanup /\ t \notin WithExecenv
      BY <1>8, <2>2
    <3>2. Owed(t)' = {"body"}
      BY <3>1 DEF Owed
    <3>3. Ran(t, "body")'
      BY <1>3, <1>6, <2>2 DEF Ran
    <3> QED
      BY <3>2, <3>3 DEF CleanIfGood
  <2> QED
    BY <2>1, <2>2 DEF Good
<1>12. child[<<t, "cleanup">>] = "none"
  BY <1>5 DEF Unstarted, Cleanups
<1>13. result'[t] = "passed" => /\ t \in WithCleanup => t \in needs_cleanup'
                                /\ t \in WithExecenv => t \in needs_execenv_cleanup'
  BY <1>3, <1>4, <1>8
<1> QED
  BY <1>1, <1>2, <1>4, <1>5, <1>6, <1>7, <1>9, <1>10, <1>11, <1>12, <1>13, AccountStep

(* The cleanup routine was reaped: a failure breaks a good result.           *)
LEMMA ProcessesCleanup == ASSUME IInv, ProcessCleanup PROVE IInv'
<1>0. PICK t \in Test : cur = <<t, "cleanup">> /\ cur[1] = t
  BY Kinds DEF ProcessCleanup, IInv, CurInv, Processing
<1>1. pc = "process" /\ cur \in Child /\ cur \in waited /\ ~Late /\ Processing
  BY Kinds DEF ProcessCleanup, IInv, CurInv, Processing, Late
<1>2. child[<<t, "cleanup">>] # "none" /\ <<t, "cleanup">> \in waited
  BY <1>0, <1>1 DEF IInv, WaitedInv, Ended, Routines
<1>3. result[t] \notin {"none", "skipped"} /\ Body(t) \in waited
  BY <1>2 DEF IInv, ResultInv, Unstarted, Cleanups
<1>4. t \in needs_cleanup /\ child[<<t, "execenv">>] = "none"
  BY <1>0, <1>1 DEF IInv, FlagsInv
<1>5. /\ UNCHANGED <<child, waited, reported, needs_execenv_cleanup>>
      /\ all_exec_data' \subseteq all_exec_data /\ handles' \subseteq handles
      /\ result' = [result EXCEPT ![t] = FoldedResult(t, cur)]
      /\ needs_cleanup' = needs_cleanup \ {t}
      /\ Chain(t, {}, needs_execenv_cleanup)
  BY <1>0 DEF ProcessCleanup, NeedsCleanupReset, childVars, clientVars
<1>6. /\ FoldedResult(t, cur) \in {"passed", "failed", "broken"}
      /\ Good(FoldedResult(t, cur)) =>
           result[t] = "passed" /\ FoldedResult(t, cur) = "passed" /\ Ran(t, "cleanup")
  BY <1>0, <1>2, <1>3 DEF FoldedResult, Good, Ran, IInv, Types
<1>7. result'[t] = FoldedResult(t, cur) /\ \A u \in Test \ {t} : result'[u] = result[u]
  BY <1>5 DEF IInv, Types
<1>8. Account(t, {}, needs_execenv_cleanup)
  <2>1. result' \in [Test -> {"none", "passed", "skipped", "failed", "broken"}]
    BY <1>5, <1>6 DEF IInv, Types
  <2>2. result'[t] \notin {"none", "skipped"}
    BY <1>6, <1>7
  <2> QED
    BY <1>1, <1>5, <1>7, <2>1, <2>2 DEF Account
<1>9. result'[t] = "passed" => Ran(t, "body") /\ Ran(t, "cleanup")
  BY <1>6, <1>7 DEF Good, IInv, ResultInv
<1>10. result'[t] = "passed" /\ t \in WithExecenv => t \in needs_execenv_cleanup
  BY <1>1, <1>4, <1>6, <1>7 DEF Good, IInv, FlagsInv
<1>11. t \notin needs_execenv_cleanup => CleanIfGood(t)'
  <2> SUFFICES ASSUME t \notin needs_execenv_cleanup, result'[t] = "passed" PROVE CleanIfGood(t)'
    BY <1>6, <1>7 DEF CleanIfGood, Good
  <2>1. Owed(t)' \subseteq {"body", "cleanup"}
    BY <1>10 DEF Owed
  <2>2. Ran(t, "body")' /\ Ran(t, "cleanup")'
    BY <1>5, <1>9 DEF Ran
  <2> QED
    BY <2>1, <2>2 DEF CleanIfGood
<1>12. t \in reported => CleanIfGood(t)'
  <2> SUFFICES ASSUME t \in reported, result'[t] = "passed" PROVE CleanIfGood(t)'
    BY <1>6, <1>7 DEF CleanIfGood, Good
  <2>1. CleanIfGood(t) /\ result[t] = "passed"
    BY <1>6, <1>7 DEF IInv, ReportInv, Good
  <2>2. child[Body(t)] # "skip"
    BY <1>9 DEF Ran, Body
  <2>3. \A k \in Owed(t) : Ran(t, k)
    BY <2>1, <2>2 DEF CleanIfGood, Good
  <2>4. \A k \in Owed(t)' : Ran(t, k)'
    BY <1>5, <2>3 DEF Owed, Ran
  <2> QED
    BY <2>4 DEF CleanIfGood
<1> QED
  BY <1>2, <1>3, <1>5, <1>6, <1>7, <1>8, <1>9, <1>10, <1>11, <1>12, AccountStep

(* The environment was cleaned: a failure breaks a good result.              *)
LEMMA ProcessesExecenv == ASSUME IInv, ProcessExecenv PROVE IInv'
<1>0. PICK t \in Test : cur = <<t, "execenv">> /\ cur[1] = t
  BY Kinds DEF ProcessExecenv, IInv, CurInv, Processing
<1>1. pc = "process" /\ cur \in Child /\ cur \in waited /\ ~Late /\ Processing
  BY Kinds DEF ProcessExecenv, IInv, CurInv, Processing, Late
<1>2. child[<<t, "execenv">>] # "none" /\ <<t, "execenv">> \in waited
  BY <1>0, <1>1 DEF IInv, WaitedInv, Ended, Routines
<1>3. result[t] \notin {"none", "skipped"} /\ Body(t) \in waited
  BY <1>2 DEF IInv, ResultInv, Unstarted, Cleanups
<1>4. t \notin needs_cleanup
  BY <1>1, <1>2 DEF IInv, FlagsInv
<1>5. /\ UNCHANGED <<child, waited, reported, needs_cleanup, needs_execenv_cleanup>>
      /\ all_exec_data' \subseteq all_exec_data /\ handles' \subseteq handles
      /\ result' = [result EXCEPT ![t] = FoldedResult(t, cur)]
      /\ Chain(t, {}, {})
  BY <1>0 DEF ProcessExecenv, childVars, clientVars
<1>6. /\ FoldedResult(t, cur) \in {"passed", "failed", "broken"}
      /\ Good(FoldedResult(t, cur)) =>
           result[t] = "passed" /\ FoldedResult(t, cur) = "passed" /\ Ran(t, "execenv")
  BY <1>0, <1>2, <1>3 DEF FoldedResult, Good, Ran, IInv, Types
<1>7. result'[t] = FoldedResult(t, cur) /\ \A u \in Test \ {t} : result'[u] = result[u]
  BY <1>5 DEF IInv, Types
<1>8. Account(t, {}, {})
  <2>1. result' \in [Test -> {"none", "passed", "skipped", "failed", "broken"}]
    BY <1>5, <1>6 DEF IInv, Types
  <2> QED
    BY <1>1, <1>4, <1>5, <1>7, <2>1 DEF Account
<1>9. result'[t] = "passed" => /\ Ran(t, "body") /\ Ran(t, "execenv")
                               /\ t \in WithCleanup => Ran(t, "cleanup")
  BY <1>1, <1>4, <1>6, <1>7 DEF Good, IInv, ResultInv, FlagsInv
<1>10. CleanIfGood(t)'
  <2> SUFFICES ASSUME result'[t] = "passed" PROVE CleanIfGood(t)'
    BY <1>6, <1>7 DEF CleanIfGood, Good
  <2>1. \A k \in Owed(t)' : Ran(t, k)'
    BY <1>5, <1>9 DEF Owed, Ran
  <2> QED
    BY <2>1 DEF CleanIfGood
<1>11. child[<<t, "cleanup">>] # "none" /\ <<t, "cleanup">> \notin waited => t \in needs_cleanup'
  BY <1>1, <1>5 DEF IInv, FlagsInv
<1> QED
  BY <1>2, <1>3, <1>6, <1>7, <1>8, <1>9, <1>10, <1>11, AccountStep

(* wait_any() returns the result of a test.                                  *)
LEMMA Reports == ASSUME IInv, Report PROVE IInv'
<1>0. PICK t \in Test : cur = Body(t) /\ cur[1] = t /\ result[t] # "none" /\ CleanIfGood(t)
  BY DEF Report, IInv, ReportInv, Body
<1>1. /\ UNCHANGED <<child, waited, all_exec_data, handles, result, needs_cleanup, needs_execenv_cleanup>>
      /\ reported' = reported \union {t} /\ pc = "report" /\ pc' = "idle"
  BY <1>0 DEF Report, childVars, mapVars, testVars
<1>2. ~Late /\ ~Starting' /\ ~Processing'
  BY <1>1 DEF Late, Starting, Processing
<1>3. Types'
  BY <1>1 DEF IInv, Types
<1>4. WaitedInv'
  BY <1>1 DEF IInv, WaitedInv, Ended
<1>5. CurInv'
  BY <1>1, <1>2 DEF CurInv, Starting, Processing
<1>6. ResultInv'
  BY <1>1, <1>2 DEF IInv, ResultInv, Unstarted, Ran, Body
<1>7. FlagsInv'
  BY <1>1, <1>2 DEF IInv, FlagsInv, Ran, Body
<1>8. ReportInv'
  <2>1. \A u \in Test : CleanIfGood(u) => CleanIfGood(u)'
    BY <1>1 DEF CleanIfGood, Started, Ran, Owed, Body
  <2> QED
    BY <1>0, <1>1, <2>1 DEF IInv, ReportInv, Types
<1> QED
  BY <1>3, <1>4, <1>5, <1>6, <1>7, <1>8 DEF IInv

(* Nothing happens.                                                          *)
LEMMA Stutters == ASSUME IInv, UNCHANGED vars PROVE IInv'
<1>1. Types' /\ CurInv' /\ WaitedInv'
  BY DEF vars, IInv, Types, CurInv, WaitedInv, Ended, Starting, Processing
<1>2. Steady
  BY DEF vars, Steady, Starting, Processing, Late
<1> QED
  BY <1>1, <1>2, SteadyStep

(* Every step of the scheduler and of its environment keeps the invariant.   *)
LEMMA NextIInv == ASSUME IInv, [Next]_vars PROVE IInv'
<1>1. CASE WaitAnyStep
  BY <1>1, Waits, Reaping, Dumps, ProcessesBody, ProcessesCleanup, ProcessesExecenv,
     SpawnsFollowup, Reports DEF WaitAnyStep
<1>2. CASE ListStep
  BY <1>2, ListsQuietly, Reaps DEF ListStep
<1>3. CASE DestructorStep
  BY <1>3, Unwinds, Collects, Reaps, Closes DEF DestructorStep
<1>4. CASE Scheduler
  BY <1>1, <1>2, <1>3, <1>4, Checks, Forks, SpawnsTest, Clients, Closes DEF Scheduler
<1>5. CASE Environment
  BY <1>5, FailsFork, Clients, Outside DEF Environment
<1>6. CASE UNCHANGED vars
  BY <1>6, Stutters
<1> QED
  BY <1>4, <1>5, <1>6 DEF Next

(* The invariant implies the property.                                       *)
LEMMA GoodFromIInv == IInv => GoodMeansClean
<1> SUFFICES ASSUME IInv, NEW t \in reported, Good(result[t])
             PROVE  \/ child[Body(t)] = "skip" /\ Started(t) = {"body"}
                    \/ \A k \in {"body"} \union {k \in {"cleanup"} : t \in WithCleanup}
                                         \union {k \in {"execenv"} : t \in WithExecenv} :
                         child[<<t, k>>] = "success" /\ <<t, k>> \in waited
  BY DEF GoodMeansClean
<1>1. CleanIfGood(t)
  BY DEF IInv, ReportInv
<1> QED
  BY <1>1 DEF CleanIfGood, Owed, Ran

(* A test that wait_any() returns with a good result has had every routine   *)
(* it owes run, waited for and successful, or was skipped with none of its   *)
(* cleanups started: for any tests, programs and bounds, wherever interrupts,*)
(* failures of fork(2), core dumps and exceptions of the client fall.        *)
THEOREM GoodIsClean == Spec => []GoodMeansClean
<1>1. Spec => []IInv
  BY InitIInv, NextIInv, PTL DEF Spec
<1> QED
  BY <1>1, GoodFromIInv, PTL

(* Until the scheduler is destroyed, an interrupt that arrived is still to   *)
(* be raised by the next check.                                              *)
Raised ==
  /\ pc \notin {"list_spawn", "list_wait", "list_blocked"}
  /\ signals \in Nat
  /\ ~Late /\ signals > 0 => fired_signal

(* Without listings, nothing but a check takes the signal away.              *)
LEMMA RaisedNext ==
  ASSUME Program = {}, IInv, Raised, [Next]_vars
  PROVE  Raised'
<1> USE DEF Raised
<1>1. CASE CheckThrows \/ StacktraceThrows
  BY <1>1 DEF CheckThrows, StacktraceThrows, CheckClears, Late
<1>2. CASE Fork
  <2>1. cur \in Child /\ cur[2] # "list" /\ pc = "fork" /\ UNCHANGED sigVars
    BY <1>2 DEF Fork, IInv, CurInv, Starting, Child, TestChild, Routines, LateRoutines
  <2>2. CASE cur[2] \in LateRoutines
    <3>1. pc' = "late_wait"
      BY <1>2, <2>2 DEF Fork, AfterFork, LateRoutines
    <3> QED
      BY <2>1, <3>1 DEF sigVars, Late
  <2>3. CASE cur[2] \in Routines
    <3>1. pc' \in {"idle", "wait_any"}
      BY <1>2, <2>3 DEF Fork, AfterFork, Routines, LateRoutines
    <3> QED
      BY <2>1, <2>3, <3>1 DEF sigVars, Late, Routines, LateRoutines
  <2> QED
    BY <2>1, <2>2, <2>3, Kinds
<1>3. CASE WaitAny \/ WaitAnyAgain \/ Stacktrace \/ Report \/ SpawnFollowup \/ \E x \in Child : WaitReap(x)
  BY <1>3 DEF WaitAny, WaitAnyAgain, Stacktrace, Report, SpawnFollowup, WaitReap, sigVars, Late,
              IInv, CurInv, Cleanups, LateRoutines
<1>4. CASE ProcessBody \/ ProcessCleanup \/ ProcessExecenv
  BY <1>4 DEF ProcessBody, ProcessCleanup, ProcessExecenv, Chain, sigVars, Late
<1>5. CASE ListStep
  BY <1>5 DEF ListStep, ListTests, ListSpawn, ListWait, ListInterrupted, ListReap, Listed, sigVars, Late
<1>6. CASE \E t \in Test : SpawnTest(t) \/ Release(t)
  BY <1>6 DEF SpawnTest, Release, sigVars, Late, Body, LateRoutines
<1>7. CASE Cleanup \/ Unwind \/ Destroy \/ LateWait
  BY <1>7 DEF Cleanup, Unwind, Destroy, LateWait, sigVars, Late
<1>8. CASE CollectCleanup \/ CollectExecenv
  BY <1>8 DEF CollectCleanup, CollectExecenv, Collect, sigVars, Late
<1>9. CASE LateWaitThrows \/ LateReap
  <2>1. pc' \in LateRoutines /\ UNCHANGED signals
    BY <1>9, Kinds DEF LateWaitThrows, LateReap, IInv, CurInv, CheckClears, sigVars
  <2> QED
    BY <2>1 DEF Late, LateRoutines
<1>10. CASE \E t \in Test : LateSpawn(t) \/ LateSpawnThrows(t)
  BY <1>10 DEF LateSpawn, LateSpawnThrows, CheckClears, sigVars, Late, LateRoutines
<1>11. CASE ForkFails
  <2>1. cur \in Child /\ cur[2] # "list" /\ UNCHANGED sigVars
    BY <1>11 DEF ForkFails, IInv, CurInv, Starting, Child, TestChild, Routines, LateRoutines
  <2>2. pc' \in {"late_cleanup", "late_execenv", "unwind"}
    BY <1>11, <2>1 DEF ForkFails, LateRoutines
  <2> QED
    BY <2>1, <2>2 DEF sigVars, Late
<1>12. CASE ClientThrows
  BY <1>12 DEF ClientThrows, sigVars, Late
<1>13. CASE Interrupt \/ \E x \in Child : ChildEnds(x)
  BY <1>13 DEF Interrupt, ChildEnds, sigVars, Late
<1>14. CASE UNCHANGED vars
  BY <1>14 DEF vars, Late
<1> QED
  BY <1>1, <1>2, <1>3, <1>4, <1>5, <1>6, <1>7, <1>8, <1>9, <1>10, <1>11, <1>12, <1>13, <1>14
     DEF Next, Scheduler, Environment, WaitAnyStep, DestructorStep

(* A body that starts after an interrupt leaves the interrupt to be raised.  *)
LEMMA StartsRaised ==
  ASSUME IInv, Raised, Next,
         NEW t \in Test, child[Body(t)] = "none", child'[Body(t)] # "none", signals > 0
  PROVE  fired_signal
<1>1. CASE Fork
  <2>1. cur = Body(t) /\ pc = "fork"
    BY <1>1, Kinds DEF Fork, IInv, Types, Body, Routines
  <2> QED
    BY <2>1 DEF Raised, Late, Body, LateRoutines
<1>2. CASE Cleanup \/ Destroy
  BY <1>2, Kinds DEF Cleanup, Destroy, ExecutorCleanup, Body, Routines
<1>3. CASE Interrupt
  BY <1>3, Kinds DEF Interrupt, Body, Routines
<1>4. CASE \E x \in Child : ChildEnds(x)
  BY <1>4, Kinds DEF ChildEnds, IInv, Types, Body, Routines
<1>5. CASE UNCHANGED child
  BY <1>5
<1>6. ASSUME ~Fork, ~Cleanup, ~Destroy, ~Interrupt, ~(\E x \in Child : ChildEnds(x))
      PROVE  UNCHANGED child
  <2>1. CASE WaitAnyStep
    BY <2>1 DEF WaitAnyStep, WaitAny, WaitAnyAgain, WaitReap, Stacktrace, StacktraceThrows, ProcessBody,
                ProcessCleanup, ProcessExecenv, SpawnFollowup, Report, childVars
  <2>2. CASE ListStep
    BY <2>2 DEF ListStep, ListTests, ListSpawn, ListWait, ListInterrupted, ListReap, Listed, childVars
  <2>3. CASE DestructorStep
    BY <1>6, <2>3 DEF DestructorStep, Unwind, CollectCleanup, CollectExecenv, LateSpawn, LateSpawnThrows,
                LateWait, LateWaitThrows, LateReap, childVars
  <2>4. CASE CheckThrows \/ \E u \in Test : SpawnTest(u) \/ Release(u)
    BY <2>4 DEF CheckThrows, SpawnTest, Release, childVars
  <2>5. CASE ForkFails \/ ClientThrows
    BY <2>5 DEF ForkFails, ClientThrows, childVars
  <2> QED
    BY <1>6, <2>1, <2>2, <2>3, <2>4, <2>5 DEF Next, Scheduler, Environment
<1> QED
  BY <1>1, <1>2, <1>3, <1>4, <1>5, <1>6

(* If no program is listed, a body started after an interrupt is one whose   *)
(* fork was already under way: the interrupt is still to be raised at the    *)
(* next check.  (A listing swallows the interrupt: see ListInterrupted.)     *)
THEOREM InterruptStops == ASSUME Program = {} PROVE Spec => StopsAfterInterrupt
<1>1. Init => IInv /\ Raised
  BY InitIInv DEF Init, Raised
<1>2. IInv /\ Raised /\ [Next]_vars => (IInv /\ Raised)'
  BY NextIInv, RaisedNext
<1>3. IInv /\ Raised /\ [Next]_vars =>
        [\A t \in Test : child[Body(t)] = "none" /\ child'[Body(t)] # "none" /\ signals > 0
                           => fired_signal]_vars
  BY StartsRaised
<1> QED
  BY <1>1, <1>2, <1>3, PTL DEF Spec, StopsAfterInterrupt

-----------------------------------------------------------------------------
(* How the scheduler ends: EndsOrderly.  Besides IInv it needs to know where *)
(* a child that was not waited for is kept (Kept), that the destructor only  *)
(* takes up what was not processed (NotTwice), and who pays for a cleanup    *)
(* that is left out.  Until the destructor runs every routine not attempted  *)
(* is flagged (Marked, NoneGivenUp); it collects all that is flagged         *)
(* (Emptied); and each routine that it then gives up takes an interrupt or a *)
(* failure of its own, besides the one that brought it about (Afforded).     *)

(* What the destructor is at: the cleanup routines or the environments.      *)
Phase == IF pc \in {"fork", "late_wait", "late_blocked"} THEN cur[2] ELSE pc

(* The executor knows every child that was not waited for, and all_exec_data *)
(* every body that was not reported and every cleanup routine; the destructor*)
(* takes over no body of a test that has nothing to clean up.                *)
Kept ==
  /\ pc # "done" => \A x \in Child : child[x] # "none" /\ x \notin waited => x \in handles
  /\ \A t \in Test : child[Body(t)] # "none" /\ Body(t) \notin all_exec_data => t \in reported
  /\ \A t \in Test : child[<<t, "cleanup">>] # "none" /\ <<t, "cleanup">> \notin waited =>
       <<t, "cleanup">> \in all_exec_data
  /\ \A t \in exit_handle : Body(t) \in waited \/ t \in WithCleanup \union WithExecenv
  /\ OnlyReapedSurvive

(* The destructor is about to start the late routine k of the test, and: it  *)
(* was started or is to be.                                                  *)
Aimed(t, k) == Phase = k /\ (t \in pending \/ (pc = "fork" /\ cur[1] = t))
LateRuns(t, k) == child[<<t, k>>] # "none" \/ Aimed(t, k)

NotTwice ==
  \A t \in Test :
    /\ <<t, "cleanup">> \in waited \ all_exec_data =>
         t \notin needs_cleanup /\ ~LateRuns(t, "late_cleanup")
    /\ child[<<t, "execenv">>] # "none" => ~LateRuns(t, "late_execenv")
    /\ ~Late => \A k \in LateRoutines : child[<<t, k>>] = "none"

(* A flag is up until its routine is started or processed, and no flag is up *)
(* once a test is reported.                                                  *)
Marked ==
  /\ \A t \in needs_cleanup \union needs_execenv_cleanup : t \notin reported
  /\ pc = "report" => cur[1] \notin needs_cleanup \union needs_execenv_cleanup
  /\ ~Late => \A t \in Test : result[t] \notin {"none", "skipped"} =>
       /\ t \in WithCleanup => t \in needs_cleanup \/ child[<<t, "cleanup">>] # "none"
       /\ t \in WithExecenv => t \in needs_execenv_cleanup \/ child[<<t, "execenv">>] # "none"

(* The destructor has collected what is flagged.                             *)
Emptied ==
  /\ Phase \in LateRoutines => Needing(needs_cleanup) = {}
  /\ Phase = "late_execenv" => Needing(needs_execenv_cleanup) = {}

(* The routines that the destructor will collect, and those that it has      *)
(* collected and not started.                                                *)
Flagged ==
  {<<t, "cleanup">> : t \in Needing(needs_cleanup)}
    \union {<<t, "execenv">> : t \in Needing(needs_execenv_cleanup)}

LateOf(k) == IF k = "cleanup" THEN "late_cleanup" ELSE "late_execenv"
Collected == {x \in Test \X Cleanups : Aimed(x[1], LateOf(x[2]))}

(* The routines that are left out for good, and the interrupt that is yet to *)
(* be raised.                                                                *)
GivenUp == Unattempted \ (Flagged \union Collected)
Unraised == IF fired_signal THEN 1 ELSE 0

(* The cause of the destruction is paid for, and so is every routine given   *)
(* up, each by an interrupt or a failure of its own.                         *)
Afforded ==
  /\ ~Late => Unraised <= signals + failures
  /\ Late /\ pc \notin {"done", "crashed"} =>
       IsFiniteSet(GivenUp) /\ Cardinality(GivenUp) + Unraised + 1 <= signals + failures
  /\ CleanupsAttempted

EInv == TypeOK /\ Kept /\ NotTwice /\ Marked /\ Emptied /\ Afforded

-----------------------------------------------------------------------------
(* Types. *)

(* The call in progress is about a child where it has to be.                 *)
LEMMA CurShapes ==
  ASSUME IInv
  PROVE  /\ pc = "fork" => cur \in Child
         /\ pc = "fork" /\ cur[2] = "list" => cur[1] \in Program
         /\ cur \in Child /\ cur[2] # "list" => cur \in TestChild /\ cur[1] \in Test
         /\ pc \in {"list_spawn", "list_wait", "list_blocked"} =>
              cur \in Child /\ cur[1] \in Program /\ cur[2] = "list"
         /\ pc \in {"late_wait", "late_blocked"} =>
              cur \in Child /\ cur[1] \in Test /\ cur[2] \in LateRoutines
         /\ pc = "process" => cur \in Child /\ cur[1] \in Test /\ cur[2] \in Routines \union LateRoutines
         /\ pc = "followup" => cur \in Child /\ cur[1] \in Test /\ cur[2] \in Cleanups
         /\ pc = "report" => cur \in Child /\ cur[1] \in Test
  BY Kinds DEF IInv, CurInv, ReportInv, Starting, Processing, Child, TestChild, Routines,
               LateRoutines, Cleanups, Body

(* Steps that leave the tests' data alone, except for what is reaped or      *)
(* dropped.                                                                  *)
LEMMA TypesMove ==
  ASSUME IInv, TypeOK,
         \/ CheckThrows \/ SpawnFollowup \/ WaitAny \/ WaitAnyAgain \/ Stacktrace \/ StacktraceThrows
         \/ Report \/ ListSpawn \/ ListWait \/ ListInterrupted \/ ListReap \/ Listed
         \/ Unwind \/ LateWait \/ LateWaitThrows \/ LateReap \/ ClientThrows \/ ForkFails
  PROVE  TypeOK'
<1> USE CurShapes DEF TypeOK, childVars, mapVars, testVars, clientVars, sigVars
<1>1. CASE CheckThrows \/ SpawnFollowup \/ WaitAny \/ WaitAnyAgain \/ Stacktrace \/ StacktraceThrows
  BY <1>1 DEF CheckThrows, SpawnFollowup, WaitAny, WaitAnyAgain, Stacktrace, StacktraceThrows, CheckClears
<1>2. CASE Report \/ ListSpawn \/ ListWait \/ ListInterrupted \/ ListReap \/ Listed
  BY <1>2 DEF Report, ListSpawn, ListWait, ListInterrupted, ListReap, Listed, CheckClears
<1>3. CASE Unwind \/ LateWait \/ LateWaitThrows \/ LateReap
  BY <1>3 DEF Unwind, LateWait, LateWaitThrows, LateReap, CheckClears, LateRoutines
<1>4. CASE ClientThrows
  BY <1>4, SchedulerAssumption DEF ClientThrows
<1>5. CASE ForkFails
  <2>1. failures' \in 0..MaxFailures
    BY <1>5, SchedulerAssumption DEF ForkFails
  <2>2. loaded' \subseteq Program
    BY <1>5 DEF ForkFails
  <2>3. pc' \in {"late_cleanup", "late_execenv", "listed", "unwind"}
    BY <1>5 DEF ForkFails, LateRoutines
  <2> QED
    BY <1>5, <2>1, <2>2, <2>3 DEF ForkFails
<1> QED
  BY <1>1, <1>2, <1>3, <1>4, <1>5

(* ... steps that are about one test or child, and those of the end.         *)
LEMMA TypesChoose ==
  ASSUME IInv, TypeOK,
         \/ \E t \in Test : SpawnTest(t) \/ Release(t) \/ LateSpawn(t) \/ LateSpawnThrows(t)
         \/ \E p \in Program : ListTests(p)
         \/ \E x \in Child : WaitReap(x) \/ ChildEnds(x)
         \/ Interrupt \/ Cleanup \/ Destroy \/ CollectCleanup \/ CollectExecenv
  PROVE  TypeOK'
<1> USE DEF TypeOK, childVars, mapVars, testVars, clientVars, sigVars
<1>1. ASSUME NEW t \in Test, SpawnTest(t) \/ Release(t) PROVE TypeOK'
  BY <1>1, Kinds DEF SpawnTest, Release, Body, Routines
<1>2. ASSUME NEW t \in Test, LateSpawn(t) \/ LateSpawnThrows(t) PROVE TypeOK'
  BY <1>2, Kinds DEF LateSpawn, LateSpawnThrows, LateRoutines, CheckClears
<1>3. ASSUME NEW p \in Program, ListTests(p) PROVE TypeOK'
  BY <1>3, Kinds DEF ListTests
<1>4. ASSUME NEW x \in Child, WaitReap(x) PROVE TypeOK'
  BY <1>4 DEF WaitReap
<1>5. ASSUME NEW x \in Child, ChildEnds(x) PROVE TypeOK'
  BY <1>5 DEF ChildEnds, Ends
<1>6. CASE Interrupt
  BY <1>6, SchedulerAssumption DEF Interrupt
<1>7. CASE Cleanup \/ Destroy
  BY <1>7 DEF Cleanup, Destroy, ExecutorCleanup
<1>8. CASE CollectCleanup \/ CollectExecenv
  BY <1>8, SchedulerAssumption DEF CollectCleanup, CollectExecenv, Collect, Needing
<1> QED
  BY <1>1, <1>2, <1>3, <1>4, <1>5, <1>6, <1>7, <1>8

(* ... the exit of a routine is processed.                                   *)
LEMMA TypesProcess ==
  ASSUME IInv, TypeOK, ProcessBody \/ ProcessCleanup \/ ProcessExecenv
  PROVE  TypeOK'
<1>1. pc = "process" /\ cur[1] \in Test
  BY CurShapes DEF ProcessBody, ProcessCleanup, ProcessExecenv
<1>2. \A c, e : Chain(cur[1], c, e) => pc' \in {"followup", "report"} /\ cur' \in Child
  BY <1>1, ChainMoves, Kinds DEF Body, Routines
<1>3. CASE ProcessBody
  BY <1>1, <1>2, <1>3 DEF ProcessBody, TypeOK, BodyResult, childVars, mapVars, clientVars, sigVars
<1>4. CASE ProcessCleanup
  BY <1>1, <1>2, <1>4 DEF ProcessCleanup, TypeOK, FoldedResult, NeedsCleanupReset, childVars, clientVars, sigVars
<1>5. CASE ProcessExecenv
  BY <1>1, <1>2, <1>5 DEF ProcessExecenv, TypeOK, FoldedResult, childVars, clientVars, sigVars
<1> QED
  BY <1>3, <1>4, <1>5

(* ... a child is started.                                                   *)
LEMMA TypesFork == ASSUME IInv, TypeOK, Fork PROVE TypeOK'
<1>1. pc = "fork" /\ cur \in Child
  BY CurShapes DEF Fork
<1>2. pc' \in {"idle", "wait_any", "late_wait", "list_wait"}
  BY DEF Fork, AfterFork
<1>3. needs_execenv_cleanup' \subseteq WithExecenv
  BY DEF Fork, NeedsExecenv, TypeOK
<1>4. needs_cleanup' \subseteq WithCleanup
  BY DEF Fork, TypeOK
<1>5. child' \in [Child -> {"none", "running", "success", "failure", "skip", "core"}]
  BY <1>1 DEF Fork, TypeOK
<1> QED
  BY <1>1, <1>2, <1>3, <1>4, <1>5 DEF Fork, TypeOK, clientVars, sigVars

(* The types are kept by every step.                                         *)
LEMMA TypesNext == ASSUME IInv, TypeOK, Next PROVE TypeOK'
  BY TypesMove, TypesChoose, TypesProcess, TypesFork
     DEF Next, Scheduler, Environment, WaitAnyStep, ListStep, DestructorStep

-----------------------------------------------------------------------------
(* Where children are kept. *)

(* Only the two ways to end lead to the end, and nothing leads on.           *)
LEMMA OneEnd ==
  ASSUME IInv, Next
  PROVE  pc # "done" /\ (pc' = "done" => Cleanup \/ Destroy)
<1> USE CurShapes DEF LateRoutines
<1>1. CASE WaitAnyStep
  BY <1>1 DEF WaitAnyStep, WaitAny, WaitAnyAgain, WaitReap, Stacktrace, StacktraceThrows, ProcessBody,
              ProcessCleanup, ProcessExecenv, Chain, SpawnFollowup, Report
<1>2. CASE ListStep
  BY <1>2 DEF ListStep, ListTests, ListSpawn, ListWait, ListInterrupted, ListReap, Listed
<1>3. CASE DestructorStep
  BY <1>3 DEF DestructorStep, Unwind, CollectCleanup, LateSpawn, LateSpawnThrows, LateWait,
              LateWaitThrows, LateReap, CollectExecenv, Collect, Destroy
<1>4. CASE CheckThrows \/ Fork \/ \E t \in Test : SpawnTest(t) \/ Release(t)
  BY <1>4 DEF CheckThrows, Fork, AfterFork, SpawnTest, Release
<1>5. CASE Environment
  BY <1>5 DEF Environment, ForkFails, ClientThrows, Interrupt, ChildEnds
<1>6. CASE Cleanup
  BY <1>6 DEF Cleanup
<1> QED
  BY <1>1, <1>2, <1>3, <1>4, <1>5, <1>6 DEF Next, Scheduler

(* What a step other than a fork may do to the children and the maps.        *)
Keeping ==
  /\ \A x \in Child : child'[x] = "none" <=> child[x] = "none"
  /\ waited \subseteq waited' /\ reported \subseteq reported'
  /\ \A x \in handles \ handles' : x \in waited'
  /\ all_exec_data' \subseteq all_exec_data
  /\ \A x \in all_exec_data \ all_exec_data' :
       /\ x \in waited
       /\ x \in Bodies(reported) \/ (pc = "process" /\ x = cur /\ x[2] \in Cleanups)
  /\ \A t \in exit_handle' \ exit_handle : Body(t) \in waited \/ t \in WithCleanup \union WithExecenv

(* The body of a test that is reported was waited for.                       *)
LEMMA ReportedWaited ==
  ASSUME IInv, NEW t \in reported
  PROVE  t \in Test /\ Body(t) \in waited
  BY DEF IInv, ReportInv, ResultInv, Types

(* The steps that move from one call to another are such.                    *)
LEMMA KeepsMove ==
  ASSUME IInv, TypeOK,
         \/ CheckThrows \/ SpawnFollowup \/ WaitAny \/ WaitAnyAgain \/ Stacktrace \/ StacktraceThrows
         \/ Report \/ ListSpawn \/ ListWait \/ ListInterrupted \/ ListReap \/ Listed
         \/ Unwind \/ LateWait \/ LateWaitThrows \/ LateReap \/ ClientThrows \/ ForkFails
  PROVE  Keeping
<1> USE DEF Keeping, childVars, mapVars, testVars, clientVars, sigVars
<1>1. CASE CheckThrows \/ SpawnFollowup \/ WaitAny \/ WaitAnyAgain \/ Stacktrace \/ Report
  BY <1>1 DEF CheckThrows, SpawnFollowup, WaitAny, WaitAnyAgain, Stacktrace, Report
<1>2. CASE ListSpawn \/ ListWait \/ ListInterrupted \/ Listed \/ LateWait \/ LateWaitThrows
           \/ ClientThrows \/ ForkFails
  BY <1>2 DEF ListSpawn, ListWait, ListInterrupted, Listed, LateWait, LateWaitThrows, ClientThrows,
              ForkFails
<1>3. CASE ListReap \/ LateReap
  BY <1>3 DEF ListReap, LateReap
<1>4. CASE StacktraceThrows
  <2>1. cur \in waited
    BY <1>4 DEF StacktraceThrows, IInv, CurInv, Processing
  <2> QED
    BY <1>4, <2>1 DEF StacktraceThrows
<1>5. CASE Unwind
  <2>1. \A x \in Bodies(held) : x \in waited /\ x \in Bodies(reported)
    BY ReportedWaited DEF Bodies, TypeOK
  <2> QED
    BY <1>5, <2>1 DEF Unwind
<1> QED
  BY <1>1, <1>2, <1>3, <1>4, <1>5

(* ... and those that are about one test or child.                           *)
LEMMA KeepsChoose ==
  ASSUME IInv, TypeOK,
         \/ \E t \in Test : SpawnTest(t) \/ Release(t) \/ LateSpawn(t) \/ LateSpawnThrows(t)
         \/ \E p \in Program : ListTests(p)
         \/ \E x \in Child : WaitReap(x) \/ ChildEnds(x)
         \/ Interrupt \/ CollectCleanup \/ CollectExecenv
  PROVE  Keeping
<1> USE DEF Keeping, childVars, mapVars, testVars, clientVars, sigVars
<1>1. ASSUME NEW t \in Test, SpawnTest(t) \/ LateSpawn(t) \/ LateSpawnThrows(t) PROVE Keeping
  BY <1>1 DEF SpawnTest, LateSpawn, LateSpawnThrows
<1>2. ASSUME NEW t \in Test, Release(t) PROVE Keeping
  <2>1. Body(t) \in waited /\ Body(t) \in Bodies(reported)
    BY <1>2, ReportedWaited DEF Release, Bodies, TypeOK
  <2> QED
    BY <1>2, <2>1 DEF Release
<1>3. ASSUME NEW p \in Program, ListTests(p) PROVE Keeping
  BY <1>3 DEF ListTests
<1>4. ASSUME NEW x \in Child, WaitReap(x) PROVE Keeping
  BY <1>4 DEF WaitReap
<1>5. ASSUME NEW x \in Child, ChildEnds(x) PROVE Keeping
  BY <1>5 DEF ChildEnds, Ends, TypeOK
<1>6. CASE Interrupt
  BY <1>6 DEF Interrupt, TypeOK
<1>7. CASE CollectCleanup \/ CollectExecenv
  BY <1>7 DEF CollectCleanup, CollectExecenv, Collect, Needing, TypeOK
<1> QED
  BY <1>1, <1>2, <1>3, <1>4, <1>5, <1>6, <1>7

(* ... and the processing of an exit.                                        *)
LEMMA KeepsProcess ==
  ASSUME IInv, TypeOK, ProcessBody \/ ProcessCleanup \/ ProcessExecenv
  PROVE  Keeping
<1>1. pc = "process" /\ cur \in waited /\ cur = <<cur[1], cur[2]>>
  BY Kinds DEF IInv, CurInv, Processing, ProcessBody, ProcessCleanup, ProcessExecenv
<1>2. CASE ProcessBody
  BY <1>1, <1>2 DEF ProcessBody, Keeping, Body, childVars, mapVars, clientVars
<1>3. CASE ProcessCleanup \/ ProcessExecenv
  BY <1>1, <1>3 DEF ProcessCleanup, ProcessExecenv, Keeping, Cleanups, childVars, clientVars
<1> QED
  BY <1>2, <1>3

(* They lose no child.                                                       *)
LEMMA KeepingKept ==
  ASSUME TypeOK, Kept, Keeping, pc # "done", pc' # "done"
  PROVE  Kept'
<1>1. \A x \in Child : child'[x] # "none" /\ x \notin waited' => x \in handles'
  BY DEF Kept, Keeping
<1>2. \A t \in Test : child'[Body(t)] # "none" /\ Body(t) \notin all_exec_data' => t \in reported'
  <2> SUFFICES ASSUME NEW t \in Test, child'[Body(t)] # "none", Body(t) \notin all_exec_data'
               PROVE  t \in reported'
    OBVIOUS
  <2>1. child[Body(t)] # "none" /\ Body(t)[2] \notin Cleanups
    BY Kinds DEF Keeping, Body, Routines, Cleanups
  <2>2. CASE Body(t) \in all_exec_data
    BY <2>1, <2>2 DEF Keeping, Bodies, Body
  <2> QED
    BY <2>1, <2>2 DEF Kept, Keeping
<1>3. \A t \in Test : child'[<<t, "cleanup">>] # "none" /\ <<t, "cleanup">> \notin waited' =>
        <<t, "cleanup">> \in all_exec_data'
  BY Kinds DEF Kept, Keeping, Routines
<1>4. \A t \in exit_handle' : Body(t) \in waited' \/ t \in WithCleanup \union WithExecenv
  BY DEF Kept, Keeping
<1> QED
  BY <1>1, <1>2, <1>3, <1>4 DEF Kept, OnlyReapedSurvive, Body

(* A child that is started is recorded.                                      *)
LEMMA KeepsFork == ASSUME IInv, TypeOK, Kept, Fork PROVE Kept'
<1>1. pc = "fork" /\ cur \in Child
  BY CurShapes DEF Fork
<1>2. pc' # "done"
  BY DEF Fork, AfterFork
<1>3. /\ \A x \in Child : x # cur => child'[x] = child[x]
      /\ waited' = waited /\ handles' = handles \union {cur}
      /\ all_exec_data' = all_exec_data \union ({cur} \intersect TestChild)
      /\ reported' = reported /\ exit_handle' = exit_handle
  BY <1>1 DEF Fork, TypeOK, clientVars
<1>4. \A t \in Test : Body(t) \in TestChild /\ <<t, "cleanup">> \in TestChild
                      /\ Body(t) \in Child /\ <<t, "cleanup">> \in Child
  BY Kinds DEF Body, Routines
<1> QED
  BY <1>1, <1>2, <1>3, <1>4 DEF Kept, OnlyReapedSurvive, Body

(* The end: only what reap() took over is not waited for.                    *)
LEMMA KeepsClose == ASSUME IInv, TypeOK, Kept, Cleanup \/ Destroy PROVE Kept'
<1>1. PICK left : /\ ExecutorCleanup(left)
                  /\ left = handles \/ left = handles \ Bodies(exit_handle)
  BY DEF Cleanup, Destroy
<1>2. pc # "done" /\ pc' = "done" /\ UNCHANGED <<all_exec_data, exit_handle, reported>>
  BY DEF Cleanup, Destroy, testVars, clientVars
<1>3. /\ \A x \in Child : child'[x] = "none" <=> child[x] = "none"
      /\ waited' = waited \union left
  BY <1>1 DEF ExecutorCleanup, TypeOK
<1>4. \A t \in Test : Body(t) \in Child /\ <<t, "cleanup">> \in Child
  BY Kinds DEF Body, Routines
<1>5. \A x \in Child : child'[x] # "none" /\ x \notin waited' =>
                         x \in Bodies(exit_handle \intersect (WithCleanup \union WithExecenv))
  <2> SUFFICES ASSUME NEW x \in Child, child'[x] # "none", x \notin waited'
               PROVE  x \in Bodies(exit_handle \intersect (WithCleanup \union WithExecenv))
    OBVIOUS
  <2>1. x \in handles /\ x \notin waited /\ x \notin left
    BY <1>2, <1>3 DEF Kept
  <2>2. PICK t \in exit_handle : x = Body(t)
    BY <1>1, <2>1 DEF Bodies
  <2> QED
    BY <2>1, <2>2 DEF Kept, Bodies
<1>6. OnlyReapedSurvive'
  BY <1>2, <1>5 DEF OnlyReapedSurvive, Bodies, Body
<1> QED
  BY <1>2, <1>3, <1>4, <1>6 DEF Kept, Body

(* No step loses a child.                                                    *)
LEMMA KeptNext == ASSUME IInv, TypeOK, Kept, Next PROVE Kept'
<1>1. CASE Keeping /\ pc # "done" /\ pc' # "done"
  BY <1>1, KeepingKept
<1>2. CASE Fork
  BY <1>2, KeepsFork
<1>3. CASE Cleanup \/ Destroy
  BY <1>3, KeepsClose
<1>4. \/ Fork \/ Cleanup \/ Destroy \/ Keeping
  BY KeepsMove, KeepsChoose, KeepsProcess
     DEF Next, Scheduler, Environment, WaitAnyStep, ListStep, DestructorStep
<1>5. pc # "done" /\ (pc' = "done" => Cleanup \/ Destroy)
  BY OneEnd
<1> QED
  BY <1>1, <1>2, <1>3, <1>4, <1>5

-----------------------------------------------------------------------------
(* What the destructor is about to start. *)

(* The destruction of the scheduler is never called off.                     *)
LEMMA LateStays == ASSUME IInv, Next PROVE Late => Late'
<1> SUFFICES ASSUME Late PROVE Late'
  OBVIOUS
<1> USE CurShapes DEF Late, LateRoutines
<1>1. CASE WaitAnyStep \/ ListStep
  BY <1>1 DEF WaitAnyStep, WaitAny, WaitAnyAgain, WaitReap, Stacktrace, StacktraceThrows, ProcessBody,
              ProcessCleanup, ProcessExecenv, SpawnFollowup, Report,
              ListStep, ListTests, ListSpawn, ListWait, ListInterrupted, ListReap, Listed
<1>2. CASE DestructorStep
  BY <1>2 DEF DestructorStep, Unwind, CollectCleanup, LateSpawn, LateSpawnThrows, LateWait,
              LateWaitThrows, LateReap, CollectExecenv, Collect, Destroy
<1>3. CASE CheckThrows \/ Fork \/ \E t \in Test : SpawnTest(t) \/ Release(t)
  BY <1>3 DEF CheckThrows, Fork, AfterFork, SpawnTest, Release
<1>4. CASE Environment
  BY <1>4 DEF Environment, ForkFails, ClientThrows, Interrupt, ChildEnds
<1>5. CASE Cleanup
  BY <1>5 DEF Cleanup
<1> QED
  BY <1>1, <1>2, <1>3, <1>4, <1>5 DEF Next, Scheduler

(* It comes to be about to start what it collects, ...                       *)
AimsBy(t, k) ==
  \/ CollectCleanup /\ k = "late_cleanup" /\ t \in Needing(needs_cleanup)
  \/ CollectExecenv /\ k = "late_execenv" /\ t \in Needing(needs_execenv_cleanup)

(* ... and is so until it is interrupted, fails to fork, or forks.           *)
AimsUntil(t, k) ==
  \/ LateSpawnThrows(t) /\ pc = k
  \/ (ForkFails \/ Fork) /\ cur = <<t, k>>
  \/ pc' \in {"done", "crashed"}

(* No other step changes what the destructor is about to start.              *)
LEMMA AimsStep ==
  ASSUME IInv, TypeOK, Next, NEW t \in Test, NEW k \in LateRoutines
  PROVE  /\ Aimed(t, k)' => Aimed(t, k) \/ AimsBy(t, k)
         /\ Aimed(t, k) => Aimed(t, k)' \/ AimsUntil(t, k)
<1> USE CurShapes DEF Aimed, Phase, LateRoutines
<1>1. CASE WaitAnyStep
  BY <1>1 DEF WaitAnyStep, WaitAny, WaitAnyAgain, WaitReap, Stacktrace, StacktraceThrows, ProcessBody,
              ProcessCleanup, ProcessExecenv, Chain, SpawnFollowup, Report, Cleanups
<1>2. CASE ListStep
  BY <1>2 DEF ListStep, ListTests, ListSpawn, ListWait, ListInterrupted, ListReap, Listed
<1>3. CASE CheckThrows \/ Cleanup \/ Destroy \/ ClientThrows
  BY <1>3 DEF CheckThrows, Cleanup, Destroy, ClientThrows, AimsUntil
<1>4. CASE Interrupt \/ \E x \in Child : ChildEnds(x)
  BY <1>4 DEF Interrupt, ChildEnds
<1>5. CASE \E u \in Test : SpawnTest(u) \/ Release(u)
  BY <1>5 DEF SpawnTest, Release, Body
<1>6. CASE Fork \/ ForkFails
  BY <1>6, Kinds DEF Fork, AfterFork, ForkFails, AimsUntil
<1>7. CASE Unwind \/ LateWait \/ LateWaitThrows \/ LateReap
  BY <1>7 DEF Unwind, LateWait, LateWaitThrows, LateReap
<1>8. CASE CollectCleanup \/ CollectExecenv
  BY <1>8 DEF CollectCleanup, CollectExecenv, Collect, AimsBy
<1>9. ASSUME NEW u \in Test, LateSpawn(u) \/ LateSpawnThrows(u)
      PROVE  /\ Aimed(t, k)' => Aimed(t, k)
             /\ Aimed(t, k) => Aimed(t, k)' \/ AimsUntil(t, k)
  BY <1>9 DEF LateSpawn, LateSpawnThrows, AimsUntil
<1> QED
  BY <1>1, <1>2, <1>3, <1>6, <1>7, <1>8, <1>9, <1>4, <1>5 DEF Next, Scheduler, Environment, DestructorStep

-----------------------------------------------------------------------------
(* Nothing is done twice. *)

(* What a step other than a fork may do to the flags, and which routines it  *)
(* may wait for and forget.                                                  *)
Lowering ==
  /\ \A x \in Child : child'[x] = "none" <=> child[x] = "none"
  /\ needs_cleanup' \subseteq needs_cleanup
  /\ needs_execenv_cleanup' \subseteq needs_execenv_cleanup
  /\ \A x \in waited' \ waited : child[x] # "none"
  /\ \A t \in Test : <<t, "cleanup">> \in all_exec_data \ all_exec_data' =>
       /\ <<t, "cleanup">> \in waited /\ t \notin needs_cleanup'
       /\ ~Late /\ pc' \in {"followup", "report"}

(* Every step but a fork is such.                                            *)
LEMMA LowersStep == ASSUME IInv, TypeOK, Next, ~Fork PROVE Lowering
<1> USE DEF Lowering, childVars, mapVars, testVars, clientVars, sigVars
<1>1. CASE CheckThrows \/ SpawnFollowup \/ WaitAny \/ WaitAnyAgain \/ Stacktrace \/ StacktraceThrows
           \/ Report
  BY <1>1 DEF CheckThrows, SpawnFollowup, WaitAny, WaitAnyAgain, Stacktrace, StacktraceThrows, Report
<1>2. CASE ListSpawn \/ ListWait \/ ListInterrupted \/ Listed \/ LateWait \/ LateWaitThrows
           \/ ClientThrows \/ ForkFails \/ \E p \in Program : ListTests(p)
  BY <1>2 DEF ListSpawn, ListWait, ListInterrupted, Listed, LateWait, LateWaitThrows, ClientThrows,
              ForkFails, ListTests
<1>3. CASE ListReap \/ LateReap \/ \E x \in Child : WaitReap(x)
  BY <1>3 DEF ListReap, LateReap, WaitReap, Ended
<1>4. CASE Unwind \/ \E t \in Test : Release(t)
  BY <1>4 DEF Unwind, Release, Bodies, Body
<1>5. CASE \E t \in Test : SpawnTest(t) \/ LateSpawn(t) \/ LateSpawnThrows(t)
  BY <1>5 DEF SpawnTest, LateSpawn, LateSpawnThrows
<1>6. CASE Interrupt \/ \E x \in Child : ChildEnds(x)
  BY <1>6 DEF Interrupt, ChildEnds, Ends, TypeOK
<1>7. CASE CollectCleanup \/ CollectExecenv
  BY <1>7 DEF CollectCleanup, CollectExecenv, Collect, Needing
<1>8. CASE Cleanup \/ Destroy
  <2>1. \A x \in handles : child[x] # "none"
    BY DEF IInv, WaitedInv
  <2> QED
    BY <1>8, <2>1 DEF Cleanup, Destroy, ExecutorCleanup, TypeOK
<1>9. CASE ProcessBody
  BY <1>9 DEF ProcessBody
<1>10. CASE ProcessCleanup \/ ProcessExecenv
  <2>1. pc = "process" /\ cur \in waited
    BY <1>10 DEF IInv, CurInv, Processing, ProcessCleanup, ProcessExecenv
  <2>2. ~Late
    BY <2>1 DEF Late
  <2>3. \A c, e : Chain(cur[1], c, e) => pc' \in {"followup", "report"}
    BY DEF Chain
  <2> QED
    BY <1>10, <2>1, <2>2, <2>3 DEF ProcessCleanup, ProcessExecenv, NeedsCleanupReset
<1> QED
  BY <1>1, <1>2, <1>3, <1>4, <1>5, <1>6, <1>7, <1>8, <1>9, <1>10
     DEF Next, Scheduler, Environment, WaitAnyStep, ListStep, DestructorStep

(* NotTwice is kept by a step that starts nothing.                           *)
LEMMA LowersNotTwice ==
  ASSUME IInv, TypeOK, Kept, NotTwice, Next, ~Fork
  PROVE  NotTwice'
<1> SUFFICES ASSUME NEW t \in Test
             PROVE  /\ <<t, "cleanup">> \in waited' \ all_exec_data' =>
                         t \notin needs_cleanup' /\ ~LateRuns(t, "late_cleanup")'
                    /\ child'[<<t, "execenv">>] # "none" => ~LateRuns(t, "late_execenv")'
                    /\ ~Late' => \A k \in LateRoutines : child'[<<t, k>>] = "none"
  BY DEF NotTwice
<1>1. Lowering
  BY LowersStep
<1>2. /\ <<t, "cleanup">> \in Child /\ <<t, "execenv">> \in Child
      /\ \A k \in LateRoutines : <<t, k>> \in Child
  BY Kinds DEF Routines
<1>3. /\ "late_cleanup" \in LateRoutines /\ "late_execenv" \in LateRoutines
      /\ \A k \in LateRoutines : LateRuns(t, k)' => LateRuns(t, k) \/ AimsBy(t, k)
  <2>1. \A k \in LateRoutines : Aimed(t, k)' => Aimed(t, k) \/ AimsBy(t, k)
    BY AimsStep
  <2> QED
    BY <1>1, <1>2, <2>1 DEF LateRuns, Lowering, LateRoutines
<1>4. ~Late' => \A k \in LateRoutines : child'[<<t, k>>] = "none"
  BY <1>1, <1>2, LateStays DEF NotTwice, Lowering
<1>5. ASSUME child'[<<t, "execenv">>] # "none" PROVE ~LateRuns(t, "late_execenv")'
  <2>1. child[<<t, "execenv">>] # "none" /\ t \notin needs_execenv_cleanup
    BY <1>1, <1>2, <1>5 DEF Lowering, IInv, ResultInv
  <2>2. ~AimsBy(t, "late_execenv")
    BY <2>1 DEF AimsBy, Needing
  <2> QED
    BY <1>3, <2>1, <2>2 DEF NotTwice
<1>6. ASSUME <<t, "cleanup">> \in waited' \ all_exec_data'
      PROVE  t \notin needs_cleanup' /\ ~LateRuns(t, "late_cleanup")'
  <2>1. CASE <<t, "cleanup">> \in waited \ all_exec_data
    <3>1. t \notin needs_cleanup /\ ~LateRuns(t, "late_cleanup")
      BY <2>1 DEF NotTwice
    <3>2. ~AimsBy(t, "late_cleanup")
      BY <3>1 DEF AimsBy, Needing
    <3> QED
      BY <1>1, <1>3, <3>1, <3>2 DEF Lowering
  <2>2. CASE <<t, "cleanup">> \in all_exec_data
    <3>1. t \notin needs_cleanup' /\ ~Late /\ pc' \in {"followup", "report"}
      BY <1>1, <1>6, <2>2 DEF Lowering
    <3>2. child'[<<t, "late_cleanup">>] = "none"
      BY <1>1, <1>2, <1>3, <3>1 DEF NotTwice, Lowering
    <3>3. ~Aimed(t, "late_cleanup")'
      BY <3>1 DEF Aimed, Phase
    <3> QED
      BY <3>1, <3>2, <3>3 DEF LateRuns
  <2>3. <<t, "cleanup">> \notin waited => <<t, "cleanup">> \in all_exec_data
    BY <1>1, <1>6 DEF Lowering, Kept
  <2> QED
    BY <2>1, <2>2, <2>3
<1> QED
  BY <1>4, <1>5, <1>6

(* A body about to be started: nothing of its test was.                      *)
LEMMA NewBody ==
  ASSUME IInv, pc = "fork", cur[2] = "body"
  PROVE  /\ cur = Body(cur[1]) /\ cur[1] \in Test /\ result[cur[1]] = "none"
         /\ cur[1] \notin reported /\ Unstarted(cur[1])
         /\ \A k \in Cleanups : <<cur[1], k>> \notin waited
<1>1. cur \in Child /\ cur[1] \in Test /\ cur = <<cur[1], "body">> /\ child[cur] = "none"
  BY Kinds DEF IInv, CurInv, Starting, Routines
<1>2. result[cur[1]] = "none"
  BY <1>1 DEF IInv, ResultInv, WaitedInv, Body, Routines, Ended
<1>3. Unstarted(cur[1]) /\ cur[1] \notin reported
  BY <1>1, <1>2 DEF IInv, ResultInv, ReportInv
<1>4. \A k \in Cleanups : <<cur[1], k>> \notin waited
  BY <1>1, <1>3 DEF IInv, WaitedInv, Unstarted, Ended, Cleanups, Routines
<1> QED
  BY <1>1, <1>2, <1>3, <1>4 DEF Body

(* What a fork does.                                                         *)
LEMMA ForkDoes ==
  ASSUME IInv, TypeOK, Fork
  PROVE  /\ pc = "fork" /\ cur \in Child /\ child'[cur] # "none"
         /\ cur \in TestChild => cur = <<cur[1], cur[2]>> /\ cur[1] \in Test
         /\ \A x \in Child : x # cur => child'[x] = child[x]
         /\ needs_cleanup' \subseteq needs_cleanup \union {t \in {cur[1]} : cur[2] = "body"}
         /\ needs_cleanup \subseteq needs_cleanup'
         /\ needs_execenv_cleanup' \subseteq
              needs_execenv_cleanup \union {t \in {cur[1]} : cur[2] = "body"}
         /\ needs_execenv_cleanup \subseteq
              needs_execenv_cleanup' \union {t \in {cur[1]} : cur[2] = "execenv"}
         /\ all_exec_data \subseteq all_exec_data'
         /\ \A t \in Test : Body(t) \in all_exec_data' /\ Body(t) \notin all_exec_data => cur = Body(t)
         /\ UNCHANGED <<waited, result, reported, held, failures, fired_signal, signals, pending>>
         /\ cur[2] \in Routines => ~Late /\ pc' \in {"idle", "wait_any"}
         /\ cur[2] \in LateRoutines => pc' = "late_wait" /\ cur' = cur /\ cur \in TestChild
<1>1. pc = "fork" /\ cur \in Child
  BY CurShapes DEF Fork
<1>2. /\ cur \in TestChild => cur = <<cur[1], cur[2]>> /\ cur[1] \in Test
      /\ cur[2] \in LateRoutines => cur \in TestChild
  BY <1>1, Kinds
<1>3. child'[cur] # "none" /\ \A x \in Child : x # cur => child'[x] = child[x]
  BY <1>1 DEF Fork, TypeOK
<1>4. /\ needs_cleanup' \subseteq needs_cleanup \union {t \in {cur[1]} : cur[2] = "body"}
      /\ needs_cleanup \subseteq needs_cleanup'
      /\ needs_execenv_cleanup' \subseteq
           needs_execenv_cleanup \union {t \in {cur[1]} : cur[2] = "body"}
      /\ needs_execenv_cleanup \subseteq
           needs_execenv_cleanup' \union {t \in {cur[1]} : cur[2] = "execenv"}
  BY DEF Fork, NeedsExecenv
<1>5. cur[2] \in Routines => ~Late /\ pc' \in {"idle", "wait_any"}
  BY <1>1 DEF Fork, AfterFork, Late, Routines, LateRoutines
<1>6. cur[2] \in LateRoutines => pc' = "late_wait" /\ cur' = cur
  BY DEF Fork, AfterFork, LateRoutines
<1> QED
  BY <1>1, <1>2, <1>3, <1>4, <1>5, <1>6 DEF Fork, clientVars, sigVars

(* NotTwice is kept by a fork, which was aimed at before.                    *)
LEMMA ForkNotTwice ==
  ASSUME IInv, TypeOK, Kept, NotTwice, Fork
  PROVE  NotTwice'
<1> SUFFICES ASSUME NEW t \in Test
             PROVE  /\ <<t, "cleanup">> \in waited' \ all_exec_data' =>
                         t \notin needs_cleanup' /\ ~LateRuns(t, "late_cleanup")'
                    /\ child'[<<t, "execenv">>] # "none" => ~LateRuns(t, "late_execenv")'
                    /\ ~Late' => \A k \in LateRoutines : child'[<<t, k>>] = "none"
  BY DEF NotTwice
<1>1. Next
  BY DEF Next, Scheduler
<1>2. /\ <<t, "cleanup">> \in Child /\ <<t, "execenv">> \in Child
      /\ \A k \in LateRoutines : <<t, k>> \in Child
  BY Kinds DEF Routines
<1>3. \A k \in LateRoutines : LateRuns(t, k)' => LateRuns(t, k)
  <2> SUFFICES ASSUME NEW k \in LateRoutines, LateRuns(t, k)' PROVE LateRuns(t, k)
    OBVIOUS
  <2>1. Aimed(t, k)' => Aimed(t, k)
    BY <1>1, AimsStep DEF AimsBy, CollectCleanup, CollectExecenv, Fork
  <2>2. cur = <<t, k>> => Aimed(t, k)
    BY ForkDoes DEF Aimed, Phase
  <2> QED
    BY <1>2, <2>1, <2>2, ForkDoes DEF LateRuns
<1>4. ~Late' => \A k \in LateRoutines : child'[<<t, k>>] = "none"
  <2>1. ~Late' => cur[2] \notin LateRoutines /\ ~Late
    BY ForkDoes, <1>1, LateStays DEF Late
  <2> QED
    BY <1>2, <2>1, ForkDoes DEF NotTwice
<1>5. ASSUME child'[<<t, "execenv">>] # "none" PROVE ~LateRuns(t, "late_execenv")'
  <2>1. CASE cur = <<t, "execenv">>
    <3>1. ~Late /\ pc' \in {"idle", "wait_any"}
      BY <2>1, ForkDoes DEF Routines
    <3>2. child'[<<t, "late_execenv">>] = "none"
      BY <1>2, <2>1, <3>1, ForkDoes DEF NotTwice, LateRoutines
    <3> QED
      BY <3>1, <3>2 DEF LateRuns, Aimed, Phase
  <2>2. CASE cur # <<t, "execenv">>
    BY <1>2, <1>3, <1>5, <2>2, ForkDoes DEF NotTwice, LateRoutines
  <2> QED
    BY <2>1, <2>2
<1>6. ASSUME <<t, "cleanup">> \in waited' \ all_exec_data'
      PROVE  t \notin needs_cleanup' /\ ~LateRuns(t, "late_cleanup")'
  <2>1. <<t, "cleanup">> \in waited \ all_exec_data
    BY <1>6, ForkDoes
  <2>2. ~(cur[1] = t /\ cur[2] = "body")
    BY <2>1, NewBody, ForkDoes DEF Cleanups
  <2> QED
    BY <1>3, <2>1, <2>2, ForkDoes DEF NotTwice, LateRoutines
<1> QED
  BY <1>4, <1>5, <1>6

-----------------------------------------------------------------------------
(* The flags. *)

Processes == ProcessBody \/ ProcessCleanup \/ ProcessExecenv

(* Steps that process no exit and start nothing.                             *)
Passing ==
  /\ result' = result
  /\ pc' = "report" => pc = "report" /\ cur' = cur
  /\ reported' = reported \/ (pc = "report" /\ pc' # "report" /\ reported' = reported \union {cur[1]})
  /\ ~Late' => needs_cleanup' = needs_cleanup /\ needs_execenv_cleanup' = needs_execenv_cleanup

(* The steps of all actions but these are such.                              *)
LEMMA PassesStep == ASSUME IInv, TypeOK, Next, ~Fork, ~Processes PROVE Passing
<1> USE DEF Passing, testVars, clientVars
<1>1. CASE CheckThrows \/ SpawnFollowup \/ WaitAny \/ WaitAnyAgain \/ Stacktrace \/ StacktraceThrows
           \/ Report
  BY <1>1 DEF CheckThrows, SpawnFollowup, WaitAny, WaitAnyAgain, Stacktrace, StacktraceThrows, Report
<1>2. CASE ListSpawn \/ ListWait \/ ListInterrupted \/ Listed \/ ListReap
           \/ ClientThrows \/ ForkFails \/ \E p \in Program : ListTests(p)
  BY <1>2 DEF ListSpawn, ListWait, ListInterrupted, Listed, ListReap, ClientThrows, ForkFails, ListTests,
              LateRoutines
<1>3. CASE \E x \in Child : WaitReap(x)
  BY <1>3 DEF WaitReap
<1>4. CASE \E t \in Test : SpawnTest(t) \/ Release(t) \/ LateSpawn(t) \/ LateSpawnThrows(t)
  BY <1>4 DEF SpawnTest, Release, LateSpawn, LateSpawnThrows, LateRoutines
<1>5. CASE Interrupt \/ \E x \in Child : ChildEnds(x)
  BY <1>5 DEF Interrupt, ChildEnds
<1>6. CASE Unwind \/ LateWait \/ LateWaitThrows \/ LateReap \/ Cleanup \/ Destroy
  BY <1>6, CurShapes DEF Unwind, LateWait, LateWaitThrows, LateReap, Cleanup, Destroy, LateRoutines
<1>7. CASE CollectCleanup \/ CollectExecenv
  BY <1>7 DEF CollectCleanup, CollectExecenv, Collect, Late
<1> QED
  BY <1>1, <1>2, <1>3, <1>4, <1>5, <1>6, <1>7
     DEF Next, Scheduler, Environment, WaitAnyStep, ListStep, DestructorStep, Processes

(* They keep the flags in order.                                             *)
LEMMA PassesMarked == ASSUME IInv, TypeOK, Marked, Next, ~Fork, ~Processes PROVE Marked'
<1>1. Passing /\ Lowering /\ (Late => Late')
  BY PassesStep, LowersStep, LateStays
<1>2. \A t \in needs_cleanup' \union needs_execenv_cleanup' : t \notin reported'
  BY <1>1 DEF Passing, Lowering, Marked
<1>3. pc' = "report" => cur'[1] \notin needs_cleanup' \union needs_execenv_cleanup'
  BY <1>1 DEF Passing, Lowering, Marked
<1>4. \A t \in Test : /\ child'[<<t, "cleanup">>] = "none" <=> child[<<t, "cleanup">>] = "none"
                      /\ child'[<<t, "execenv">>] = "none" <=> child[<<t, "execenv">>] = "none"
  BY <1>1, Kinds DEF Lowering, Routines
<1> QED
  BY <1>1, <1>2, <1>3, <1>4 DEF Passing, Marked

(* A fork of an environment's cleanup takes its flag down.                   *)
LEMMA ForkMarked == ASSUME IInv, TypeOK, Marked, Fork PROVE Marked'
<1>1. Next
  BY DEF Next, Scheduler
<1>2. \A t \in needs_cleanup' \union needs_execenv_cleanup' : t \notin reported'
  BY ForkDoes, NewBody DEF Marked
<1>3. pc' # "report"
  BY DEF Fork, AfterFork
<1>4. ASSUME ~Late', NEW t \in Test, result'[t] \notin {"none", "skipped"}
      PROVE  /\ t \in WithCleanup => t \in needs_cleanup' \/ child'[<<t, "cleanup">>] # "none"
             /\ t \in WithExecenv => t \in needs_execenv_cleanup' \/ child'[<<t, "execenv">>] # "none"
  <2>1. ~Late
    BY <1>1, <1>4, LateStays
  <2>2. <<t, "cleanup">> \in Child /\ <<t, "execenv">> \in Child
    BY Kinds DEF Routines
  <2>3. /\ child[<<t, "cleanup">>] # "none" => child'[<<t, "cleanup">>] # "none"
        /\ child[<<t, "execenv">>] # "none" => child'[<<t, "execenv">>] # "none"
    BY <2>2, ForkDoes
  <2>4. t = cur[1] /\ cur[2] = "execenv" => child'[<<t, "execenv">>] # "none"
    BY ForkDoes, Kinds DEF Routines
  <2> QED
    BY <1>4, <2>1, <2>3, <2>4, ForkDoes DEF Marked
<1> QED
  BY <1>2, <1>3, <1>4 DEF Marked

(* The exit of a routine takes its own flag down, and the test is only       *)
(* reported with no flag up.                                                 *)
LEMMA ProcessMarked == ASSUME IInv, TypeOK, Marked, Processes PROVE Marked'
<1>1. PICK t \in Test : t = cur[1]
  BY CurShapes DEF Processes, ProcessBody, ProcessCleanup, ProcessExecenv
<1>2. /\ pc = "process" /\ ~Late /\ cur = <<t, cur[2]>> /\ cur \in waited
      /\ cur[2] = "body" => result[t] = "none"
      /\ cur[2] \in Routines => child[cur] # "none"
  <2>1. pc = "process" /\ cur \in TestChild /\ cur \in waited /\ (cur[2] = "body" => result[t] = "none")
    BY <1>1 DEF Processes, ProcessBody, ProcessCleanup, ProcessExecenv, IInv, CurInv, Processing
  <2>2. cur = <<t, cur[2]>>
    BY <1>1, <2>1, Kinds
  <2>3. cur[2] \in Routines => child[cur] # "none"
    BY <2>1, <2>2 DEF IInv, WaitedInv, Ended
  <2> QED
    BY <2>1, <2>2, <2>3 DEF Late
<1>3. child' = child /\ reported' = reported
  BY DEF Processes, ProcessBody, ProcessCleanup, ProcessExecenv, childVars, clientVars
<1>4. needs_cleanup' \subseteq needs_cleanup /\ needs_execenv_cleanup' \subseteq needs_execenv_cleanup
  BY DEF Processes, ProcessBody, ProcessCleanup, ProcessExecenv, NeedsCleanupReset
<1>5. \A u \in needs_cleanup' \union needs_execenv_cleanup' : u \notin reported'
  BY <1>3, <1>4 DEF Marked
<1>6. \A u \in Test : u # t => /\ result'[u] = result[u]
                               /\ u \in needs_cleanup <=> u \in needs_cleanup'
                               /\ u \in needs_execenv_cleanup <=> u \in needs_execenv_cleanup'
  BY <1>1 DEF Processes, ProcessBody, ProcessCleanup, ProcessExecenv, NeedsCleanupReset, TypeOK
<1>7. ASSUME ProcessBody
      PROVE  /\ pc' = "report" => cur'[1] \notin needs_cleanup' \union needs_execenv_cleanup'
             /\ result'[t] # "skipped" =>
                  /\ t \in WithCleanup => t \in needs_cleanup'
                  /\ t \in WithExecenv => t \in needs_execenv_cleanup'
  <2>1. cur = Body(t) /\ child[Body(t)] # "none" /\ result[t] = "none"
    BY <1>2, <1>7 DEF ProcessBody, Body, Routines
  <2>2. /\ t \in WithCleanup => t \in needs_cleanup
        /\ t \in WithExecenv => t \in needs_execenv_cleanup
    BY <1>2, <2>1 DEF IInv, FlagsInv
  <2>3. result'[t] = BodyResult(t)
    BY <1>1, <1>7 DEF ProcessBody, TypeOK
  <2>4. Chain(t, needs_cleanup', needs_execenv_cleanup')
    BY <1>1, <1>7 DEF ProcessBody
  <2>5. pc' = "report" => cur'[1] \notin needs_cleanup' \union needs_execenv_cleanup'
    BY <2>4 DEF Chain, Body
  <2> QED
    BY <1>1, <1>7, <2>2, <2>3, <2>5 DEF ProcessBody
<1>8. ASSUME ProcessCleanup \/ ProcessExecenv
      PROVE  /\ pc' = "report" => cur'[1] \notin needs_cleanup' \union needs_execenv_cleanup'
             /\ t \in WithCleanup => t \in needs_cleanup' \/ child'[<<t, "cleanup">>] # "none"
             /\ t \in WithExecenv => t \in needs_execenv_cleanup' \/ child'[<<t, "execenv">>] # "none"
  <2>1. cur[2] \in Cleanups /\ child[cur] # "none"
    BY <1>2, <1>8 DEF ProcessCleanup, ProcessExecenv, Cleanups, Routines
  <2>2. result[t] \notin {"none", "skipped"}
    BY <1>2, <2>1 DEF IInv, ResultInv, Unstarted
  <2>3. /\ t \in WithCleanup => t \in needs_cleanup \/ child[<<t, "cleanup">>] # "none"
        /\ t \in WithExecenv => t \in needs_execenv_cleanup \/ child[<<t, "execenv">>] # "none"
    BY <1>2, <2>2 DEF Marked
  <2>4. CASE ProcessCleanup
    <3>1. Chain(t, {}, needs_execenv_cleanup') /\ needs_execenv_cleanup' = needs_execenv_cleanup
          /\ t \notin needs_cleanup' /\ cur = <<t, "cleanup">>
      BY <1>1, <1>2, <2>4 DEF ProcessCleanup, NeedsCleanupReset
    <3>2. pc' = "report" => cur'[1] = t /\ t \notin needs_execenv_cleanup'
      BY <3>1 DEF Chain, Body
    <3> QED
      BY <1>3, <2>1, <2>3, <3>1, <3>2
  <2>5. CASE ProcessExecenv
    <3>1. Chain(t, {}, {}) /\ cur = <<t, "execenv">> /\ needs_cleanup' = needs_cleanup
          /\ needs_execenv_cleanup' = needs_execenv_cleanup
      BY <1>1, <1>2, <2>5 DEF ProcessExecenv
    <3>2. t \notin needs_cleanup /\ t \notin needs_execenv_cleanup
      BY <1>2, <2>1, <3>1 DEF IInv, FlagsInv, ResultInv
    <3>3. cur'[1] = t
      BY <3>1 DEF Chain, Body
    <3> QED
      BY <1>3, <2>3, <3>1, <3>2, <3>3
  <2> QED
    BY <1>8, <2>4, <2>5
<1>9. \A u \in Test : result'[u] \notin {"none", "skipped"} =>
        /\ u \in WithCleanup => u \in needs_cleanup' \/ child'[<<u, "cleanup">>] # "none"
        /\ u \in WithExecenv => u \in needs_execenv_cleanup' \/ child'[<<u, "execenv">>] # "none"
  BY <1>2, <1>3, <1>6, <1>7, <1>8 DEF Marked, Processes
<1> QED
  BY <1>5, <1>7, <1>8, <1>9 DEF Marked, Processes

-----------------------------------------------------------------------------
(* What the destructor has collected. *)

(* The destructor enters its two phases by collecting.                       *)
LEMMA PhaseStep ==
  ASSUME IInv, TypeOK, Next, Phase' \in LateRoutines
  PROVE  \/ Phase' = Phase
         \/ CollectCleanup /\ Phase' = "late_cleanup"
         \/ CollectExecenv /\ Phase = "late_cleanup" /\ Phase' = "late_execenv"
<1> USE CurShapes DEF Phase, LateRoutines
<1>1. CASE WaitAnyStep
  BY <1>1 DEF WaitAnyStep, WaitAny, WaitAnyAgain, WaitReap, Stacktrace, StacktraceThrows, ProcessBody,
              ProcessCleanup, ProcessExecenv, Chain, SpawnFollowup, Report, Cleanups
<1>2. CASE ListStep
  BY <1>2 DEF ListStep, ListTests, ListSpawn, ListWait, ListInterrupted, ListReap, Listed
<1>3. CASE CheckThrows \/ Cleanup \/ Destroy \/ ClientThrows
  BY <1>3 DEF CheckThrows, Cleanup, Destroy, ClientThrows
<1>4. CASE Interrupt \/ \E x \in Child : ChildEnds(x)
  BY <1>4 DEF Interrupt, ChildEnds
<1>5. CASE \E u \in Test : SpawnTest(u) \/ Release(u)
  BY <1>5 DEF SpawnTest, Release, Body
<1>6. CASE Fork \/ ForkFails
  BY <1>6 DEF Fork, AfterFork, ForkFails
<1>7. CASE Unwind \/ LateWait \/ LateWaitThrows \/ LateReap
  BY <1>7 DEF Unwind, LateWait, LateWaitThrows, LateReap
<1>8. CASE CollectCleanup \/ CollectExecenv
  BY <1>8 DEF CollectCleanup, CollectExecenv, Collect
<1>9. CASE \E u \in Test : LateSpawn(u) \/ LateSpawnThrows(u)
  BY <1>9 DEF LateSpawn, LateSpawnThrows
<1> QED
  BY <1>1, <1>2, <1>3, <1>4, <1>5, <1>6, <1>7, <1>8, <1>9 DEF Next, Scheduler, Environment, DestructorStep

(* What is collected is no longer flagged, and nothing is flagged again.     *)
LEMMA EmptiedNext == ASSUME IInv, TypeOK, Emptied, Next PROVE Emptied'
<1> SUFFICES ASSUME Phase' \in LateRoutines
             PROVE  /\ Needing(needs_cleanup)' = {}
                    /\ Phase' = "late_execenv" => Needing(needs_execenv_cleanup)' = {}
  BY DEF Emptied, LateRoutines
<1>1. /\ needs_cleanup' \subseteq needs_cleanup
      /\ needs_execenv_cleanup' \subseteq needs_execenv_cleanup
      /\ \A t \in Test : Body(t) \in all_exec_data' => Body(t) \in all_exec_data
  <2>1. CASE Fork
    <3>1. cur[2] # "body"
      BY <2>1, ForkDoes DEF Routines, Phase, LateRoutines
    <3> QED
      BY <2>1, <3>1, ForkDoes DEF Body
  <2>2. CASE ~Fork
    <3>1. all_exec_data' \subseteq all_exec_data
      <4>1. CASE Cleanup \/ Destroy
        BY <4>1 DEF Cleanup, Destroy
      <4>2. CASE ~(Cleanup \/ Destroy)
        BY <2>2, <4>2, KeepsMove, KeepsChoose, KeepsProcess
           DEF Next, Scheduler, Environment, WaitAnyStep, ListStep, DestructorStep, Keeping
      <4> QED
        BY <4>1, <4>2
    <3> QED
      BY <2>2, <3>1, LowersStep DEF Lowering
  <2> QED
    BY <2>1, <2>2
<1>2. /\ needs_cleanup \subseteq Test /\ needs_execenv_cleanup \subseteq Test
      /\ Needing(needs_cleanup)' \subseteq Needing(needs_cleanup)
      /\ Needing(needs_execenv_cleanup)' \subseteq Needing(needs_execenv_cleanup)
  <2>1. needs_cleanup \subseteq Test /\ needs_execenv_cleanup \subseteq Test
    BY SchedulerAssumption DEF TypeOK
  <2> QED
    BY <1>1, <2>1 DEF Needing, Body
<1>3. CASE Phase' = Phase
  BY <1>2, <1>3 DEF Emptied
<1>4. CASE CollectCleanup /\ Phase' = "late_cleanup"
  <2>1. Needing(needs_cleanup)' = {}
    BY <1>4 DEF CollectCleanup, Needing, mapVars, Body
  <2> QED
    BY <1>4, <2>1
<1>5. CASE CollectExecenv /\ Phase = "late_cleanup" /\ Phase' = "late_execenv"
  <2>1. Needing(needs_execenv_cleanup)' = {}
    BY <1>5 DEF CollectExecenv, Needing, mapVars, Body
  <2> QED
    BY <1>2, <1>5, <2>1 DEF Emptied, LateRoutines
<1> QED
  BY <1>3, <1>4, <1>5, PhaseStep

-----------------------------------------------------------------------------
(* What is given up, and what it costs. *)

(* Until the scheduler is destroyed every routine not attempted is flagged.  *)
LEMMA NoneGivenUp ==
  ASSUME IInv, TypeOK, Kept, Marked, ~Late
  PROVE  Unattempted \subseteq Flagged
<1> SUFFICES ASSUME NEW x \in Unattempted PROVE x \in Flagged
  OBVIOUS
<1>1. PICK t \in Test : /\ x[1] = t /\ x = <<t, x[2]>> /\ x[2] \in Cleanups
                        /\ x[2] = "cleanup" => t \in WithCleanup
                        /\ x[2] = "execenv" => t \in WithExecenv
  BY SchedulerAssumption DEF Unattempted, Cleanups
<1>2. child[Body(t)] # "none" /\ result[t] # "skipped" /\ child[<<t, x[2]>>] = "none"
  BY <1>1 DEF Unattempted
<1>3. /\ x[2] = "cleanup" => t \in needs_cleanup
      /\ x[2] = "execenv" => t \in needs_execenv_cleanup
  BY <1>1, <1>2 DEF IInv, FlagsInv, Marked
<1>4. Body(t) \in all_exec_data
  BY <1>1, <1>2, <1>3 DEF Kept, Marked, Cleanups
<1> QED
  BY <1>1, <1>3, <1>4 DEF Flagged, Needing, Cleanups

(* What a step does to the interrupt that is yet to be raised and to the     *)
(* counts, and which steps pay.                                              *)
Pays ==
  \/ ForkFails \/ ClientThrows \/ CheckThrows \/ StacktraceThrows
  \/ \E t \in Test : LateSpawnThrows(t)

(* No step gets by cheaper.                                                  *)
LEMMA TollStep ==
  ASSUME IInv, TypeOK, Next
  PROVE  /\ signals \in Nat /\ failures \in Nat /\ signals' \in Nat /\ failures' \in Nat
         /\ Unraised' + signals + failures <= Unraised + signals' + failures'
         /\ Pays => Unraised' + signals + failures + 1 <= Unraised + signals' + failures'
<1>1. /\ signals \in Nat /\ failures \in Nat /\ signals' \in Nat /\ failures' \in Nat
      /\ fired_signal \in BOOLEAN /\ fired_signal' \in BOOLEAN
  BY TypesNext, SchedulerAssumption DEF TypeOK
<1>2. CASE Pays
  BY <1>1, <1>2 DEF Pays, ForkFails, ClientThrows, CheckThrows, StacktraceThrows, LateSpawnThrows,
                    CheckClears, Unraised, sigVars, clientVars
<1>3. CASE Interrupt
  <2>1. signals' = signals + 1 /\ failures' = failures
    BY <1>3 DEF Interrupt, clientVars
  <2>2. ~Pays
    BY <1>1, <2>1 DEF Pays, ForkFails, ClientThrows, CheckThrows, StacktraceThrows, LateSpawnThrows,
                      CheckClears, sigVars, clientVars
  <2> QED
    BY <1>1, <2>1, <2>2 DEF Unraised
<1>4. CASE ~Pays /\ ~Interrupt
  <2>1. signals' = signals /\ failures' = failures /\ (fired_signal' => fired_signal)
    <3> USE DEF sigVars, clientVars, CheckClears
    <3>1. CASE WaitAnyStep
      BY <1>4, <3>1 DEF Pays, WaitAnyStep, WaitAny, WaitAnyAgain, WaitReap, Stacktrace, ProcessBody,
                        ProcessCleanup, ProcessExecenv, SpawnFollowup, Report
    <3>2. CASE ListStep
      BY <3>2 DEF ListStep, ListTests, ListSpawn, ListWait, ListInterrupted, ListReap, Listed
    <3>3. CASE DestructorStep
      BY <1>4, <3>3 DEF Pays, DestructorStep, Unwind, CollectCleanup, LateSpawn, LateWait,
                        LateWaitThrows, LateReap, CollectExecenv, Destroy
    <3>4. CASE Fork \/ Cleanup \/ \E t \in Test : SpawnTest(t) \/ Release(t)
      BY <3>4 DEF Fork, Cleanup, SpawnTest, Release
    <3>5. CASE \E x \in Child : ChildEnds(x)
      BY <3>5 DEF ChildEnds
    <3> QED
      BY <1>4, <3>1, <3>2, <3>3, <3>4, <3>5 DEF Next, Scheduler, Environment, Pays
  <2> QED
    BY <1>1, <1>4, <2>1 DEF Unraised
<1> QED
  BY <1>1, <1>2, <1>3, <1>4

(* The scheduler starts to be destroyed by a step that pays, and no flag is  *)
(* touched by it.                                                            *)
LEMMA GoesLate ==
  ASSUME IInv, TypeOK, Next, ~Late, Late'
  PROVE  \/ Pays /\ pc' = "unwind" /\ UNCHANGED <<child, result, all_exec_data, needs_cleanup,
                                                  needs_execenv_cleanup>>
         \/ Cleanup \/ pc' = "crashed"
<1> USE CurShapes DEF Late, Pays, LateRoutines, childVars, testVars, mapVars
<1>1. CASE WaitAnyStep
  BY <1>1 DEF WaitAnyStep, WaitAny, WaitAnyAgain, WaitReap, Stacktrace, StacktraceThrows, ProcessBody,
              ProcessCleanup, ProcessExecenv, Chain, SpawnFollowup, Report, Cleanups
<1>2. CASE ListStep
  BY <1>2 DEF ListStep, ListTests, ListSpawn, ListWait, ListInterrupted, ListReap, Listed
<1>3. CASE DestructorStep
  BY <1>3 DEF DestructorStep, Unwind, CollectCleanup, LateSpawn, LateSpawnThrows, LateWait,
              LateWaitThrows, LateReap, CollectExecenv, Destroy
<1>4. CASE CheckThrows \/ ClientThrows \/ ForkFails
  BY <1>4 DEF CheckThrows, ClientThrows, ForkFails
<1>5. CASE Fork
  <2>1. pc = "fork" /\ cur[2] \notin LateRoutines
    BY <1>5 DEF Fork
  <2>2. pc' \in {"idle", "wait_any", "list_wait"}
    BY <1>5, <2>1 DEF Fork, AfterFork
  <2> QED
    BY <2>2
<1>6. CASE \E t \in Test : SpawnTest(t) \/ Release(t)
  BY <1>6 DEF SpawnTest, Release, Body
<1>7. CASE Interrupt \/ \E x \in Child : ChildEnds(x)
  BY <1>7 DEF Interrupt, ChildEnds
<1> QED
  BY <1>1, <1>2, <1>3, <1>4, <1>5, <1>6, <1>7 DEF Next, Scheduler, Environment

(* The children that a routine not attempted is about.                       *)
LEMMA UnattemptedShape ==
  ASSUME NEW x \in (WithCleanup \X {"cleanup"}) \union (WithExecenv \X {"execenv"})
  PROVE  /\ x[1] \in Test /\ x[2] \in Cleanups /\ x = <<x[1], x[2]>>
         /\ x \in Child /\ Body(x[1]) \in Child /\ <<x[1], LateOf(x[2])>> \in Child
         /\ x[2] \in Routines /\ LateOf(x[2]) \in LateRoutines
<1>1. x[1] \in Test /\ x[2] \in {"cleanup", "execenv"} /\ x = <<x[1], x[2]>>
  BY SchedulerAssumption
<1>2. x[2] \in Routines /\ "body" \in Routines /\ LateOf(x[2]) \in LateRoutines
  BY <1>1 DEF Routines, LateRoutines, LateOf
<1>3. \A k \in Routines \union LateRoutines : <<x[1], k>> \in Child
  BY <1>1, Kinds
<1> QED
  BY <1>1, <1>2, <1>3 DEF Body, Cleanups

(* A step that starts none of them leaves the routines not attempted alone.  *)
LEMMA UnattemptedStays ==
  ASSUME \A x \in Child : child'[x] = "none" <=> child[x] = "none", result' = result
  PROVE  Unattempted' = Unattempted
<1>1. \A x \in (WithCleanup \X {"cleanup"}) \union (WithExecenv \X {"execenv"}) :
        /\ child'[Body(x[1])] = "none" <=> child[Body(x[1])] = "none"
        /\ child'[x] = "none" <=> child[x] = "none"
        /\ child'[<<x[1], LateOf(x[2])>>] = "none" <=> child[<<x[1], LateOf(x[2])>>] = "none"
  BY UnattemptedShape
<1> QED
  BY <1>1 DEF Unattempted, Body, LateOf

(* The routine of a test that the destructor drops in this step.             *)
Dropped(x) ==
  \/ LateSpawnThrows(x[1]) /\ pc = LateOf(x[2])
  \/ ForkFails /\ cur = <<x[1], LateOf(x[2])>>

(* A step drops one routine at most, and pays for it.                        *)
LEMMA DropsOne ==
  ASSUME IInv, TypeOK, Next, NEW x \in Test \X Cleanups, NEW y \in Test \X Cleanups, Dropped(x), Dropped(y)
  PROVE  x = y /\ Pays
<1>1. x = <<x[1], x[2]>> /\ x[2] \in Cleanups /\ y = <<y[1], y[2]>> /\ y[2] \in Cleanups
  OBVIOUS
<1>2. Pays
  BY DEF Dropped, Pays
<1>3. x[1] = y[1] /\ LateOf(x[2]) = LateOf(y[2])
  <2>1. CASE pc = "fork"
    BY <2>1 DEF Dropped, LateSpawnThrows, LateRoutines
  <2>2. CASE pc # "fork"
    <3>1. LateSpawnThrows(x[1]) /\ LateSpawnThrows(y[1]) /\ pc = LateOf(x[2]) /\ pc = LateOf(y[2])
      BY <2>2 DEF Dropped, ForkFails
    <3>2. x[1] \in pending /\ pending' = pending \ {x[1]} /\ y[1] \in pending /\ pending' = pending \ {y[1]}
      BY <3>1 DEF LateSpawnThrows
    <3> QED
      BY <3>1, <3>2
  <2> QED
    BY <2>1, <2>2
<1>4. x[2] = y[2]
  BY <1>1, <1>3 DEF LateOf, Cleanups
<1> QED
  BY <1>1, <1>2, <1>3, <1>4

(* While the scheduler is destroyed flags only go where they are collected.  *)
LEMMA FlagsCollected ==
  ASSUME IInv, TypeOK, Marked, Next, Late, Late', pc' \notin {"done", "crashed"}
  PROVE  Flagged \subseteq Flagged' \union Collected'
<1> SUFFICES ASSUME NEW x \in Flagged, x \notin Flagged' PROVE x \in Collected'
  OBVIOUS
<1>1. PICK t \in Test : /\ x[1] = t /\ x[2] \in Cleanups /\ x = <<t, x[2]>> /\ Body(t) \in all_exec_data
                        /\ x[2] = "cleanup" => t \in needs_cleanup
                        /\ x[2] = "execenv" => t \in needs_execenv_cleanup
  BY SchedulerAssumption DEF Flagged, Needing, TypeOK, Cleanups
<1>2. \/ Body(t) \notin all_exec_data'
      \/ x[2] = "cleanup" /\ t \notin needs_cleanup'
      \/ x[2] = "execenv" /\ t \notin needs_execenv_cleanup'
  BY <1>1 DEF Flagged, Needing, Body, Cleanups
<1>3. CASE CollectCleanup
  <2>1. x[2] = "cleanup" /\ pc' = "late_cleanup" /\ t \in pending'
    BY <1>1, <1>2, <1>3 DEF CollectCleanup, Collect, Needing, mapVars, Cleanups
  <2> QED
    BY <1>1, <2>1 DEF Collected, Aimed, Phase, LateOf
<1>4. CASE CollectExecenv
  <2>1. x[2] = "execenv" /\ pc' = "late_execenv" /\ t \in pending'
    BY <1>1, <1>2, <1>4 DEF CollectExecenv, Collect, Needing, mapVars, Cleanups
  <2> QED
    BY <1>1, <2>1 DEF Collected, Aimed, Phase, LateOf
<1>5. CASE Fork
  <2>1. cur[2] \in LateRoutines \/ cur[2] = "list"
    BY <1>5, ForkDoes, Kinds
  <2> QED
    BY <1>1, <1>2, <1>5, <2>1, ForkDoes DEF LateRoutines
<1>6. CASE Unwind
  <2>1. t \notin reported
    BY <1>1 DEF Marked, Cleanups
  <2>2. Body(t) \notin Bodies(held)
    BY <2>1 DEF Bodies, Body, TypeOK
  <2> QED
    BY <1>1, <1>2, <1>6, <2>2 DEF Unwind, testVars
<1>7. CASE ~(CollectCleanup \/ CollectExecenv \/ Fork \/ Unwind)
  <2>1. UNCHANGED <<all_exec_data, needs_cleanup, needs_execenv_cleanup>>
    <3> USE DEF Late, mapVars, testVars
    <3>1. CASE WaitAnyStep
      BY <3>1 DEF WaitAnyStep, WaitAny, WaitAnyAgain, WaitReap, Stacktrace, StacktraceThrows, ProcessBody,
                  ProcessCleanup, ProcessExecenv, SpawnFollowup, Report
    <3>2. CASE ListStep
      BY <3>2 DEF ListStep, ListTests, ListSpawn, ListWait, ListInterrupted, ListReap, Listed
    <3>3. CASE DestructorStep
      BY <1>7, <3>3 DEF DestructorStep, LateSpawn, LateSpawnThrows, LateWait, LateWaitThrows, LateReap,
                        Destroy
    <3>4. CASE CheckThrows \/ Cleanup \/ \E u \in Test : SpawnTest(u) \/ Release(u)
      BY <3>4 DEF CheckThrows, Cleanup, SpawnTest, Release
    <3>5. CASE Environment
      BY <3>5 DEF Environment, ForkFails, ClientThrows, Interrupt, ChildEnds
    <3> QED
      BY <1>7, <3>1, <3>2, <3>3, <3>4, <3>5 DEF Next, Scheduler
  <2> QED
    BY <1>1, <1>2, <2>1
<1> QED
  BY <1>3, <1>4, <1>5, <1>6, <1>7

(* ... and the only routines given up are those dropped.                     *)
LEMMA GivenUpStep ==
  ASSUME IInv, TypeOK, Marked, Next, Late, pc' \notin {"done", "crashed"}
  PROVE  \A x \in GivenUp' \ GivenUp : x \in Test \X Cleanups /\ Dropped(x)
<1> SUFFICES ASSUME NEW x \in GivenUp', x \notin GivenUp
             PROVE  x \in Test \X Cleanups /\ Dropped(x)
  OBVIOUS
<1>1. Late'
  BY LateStays
<1>2. x \in Unattempted' /\ x \notin Flagged' /\ x \notin Collected'
  BY DEF GivenUp
<1>3. PICK t \in Test : x[1] = t /\ x[2] \in Cleanups /\ x = <<t, x[2]>>
  BY <1>2, SchedulerAssumption DEF Unattempted, Cleanups
<1>4. Unattempted' \subseteq Unattempted
  <2>1. CASE ~Fork
    <3>1. result' = result
      BY <2>1, PassesStep DEF Passing, Processes, ProcessBody, ProcessCleanup, ProcessExecenv, Late
    <3> QED
      BY <2>1, <3>1, LowersStep, UnattemptedStays DEF Lowering
  <2>2. CASE Fork
    <3>1. cur[2] \notin Routines
      BY <2>2, ForkDoes
    <3>2. \A y \in (WithCleanup \X {"cleanup"}) \union (WithExecenv \X {"execenv"}) :
            /\ child'[Body(y[1])] = child[Body(y[1])] /\ child'[y] = child[y]
            /\ child'[<<y[1], LateOf(y[2])>>] = "none" => child[<<y[1], LateOf(y[2])>>] = "none"
      <4> SUFFICES ASSUME NEW y \in (WithCleanup \X {"cleanup"}) \union (WithExecenv \X {"execenv"})
                   PROVE  /\ child'[Body(y[1])] = child[Body(y[1])] /\ child'[y] = child[y]
                          /\ child'[<<y[1], LateOf(y[2])>>] = "none" =>
                               child[<<y[1], LateOf(y[2])>>] = "none"
        OBVIOUS
      <4>1. cur # Body(y[1]) /\ cur # y
        BY <3>1, UnattemptedShape DEF Body, Routines
      <4> QED
        BY <2>2, <4>1, ForkDoes, UnattemptedShape
    <3> QED
      BY <2>2, <3>2, ForkDoes DEF Unattempted, LateOf, Body
  <2> QED
    BY <2>1, <2>2
<1>5. x \in Collected
  BY <1>1, <1>2, <1>4, FlagsCollected DEF GivenUp
<1>6. Aimed(t, LateOf(x[2])) /\ ~Aimed(t, LateOf(x[2]))' /\ LateOf(x[2]) \in LateRoutines
  BY <1>2, <1>3, <1>5 DEF Collected, LateOf, LateRoutines
<1>7. AimsUntil(t, LateOf(x[2]))
  BY <1>6, AimsStep
<1>8. ~(Fork /\ cur = <<t, LateOf(x[2])>>)
  BY <1>2, <1>3, ForkDoes DEF Unattempted, LateOf
<1> QED
  BY <1>3, <1>7, <1>8 DEF AimsUntil, Dropped

(* A failed assertion ends the program.                                      *)
LEMMA CrashStays == ASSUME IInv, Next, pc = "crashed" PROVE FALSE
  BY DEF Next, Scheduler, Environment, WaitAnyStep, ListStep, DestructorStep, CheckThrows, Fork, WaitAny,
         WaitAnyAgain, WaitReap, Stacktrace, StacktraceThrows, ProcessBody, ProcessCleanup, ProcessExecenv,
         SpawnFollowup, Report, ListTests, ListSpawn, ListWait, ListInterrupted, ListReap, Listed, Unwind,
         CollectCleanup, LateSpawn, LateSpawnThrows, LateWait, LateWaitThrows, LateReap, CollectExecenv,
         Destroy, SpawnTest, Release, Cleanup, ForkFails, ClientThrows, Interrupt, ChildEnds, LateRoutines

(* Every step is paid for.                                                   *)
LEMMA AffordedNext == ASSUME IInv, TypeOK, Kept, Marked, Emptied, Afforded, Next PROVE Afforded'
<1>1. PICK s \in Nat, f \in Nat, u \in Nat, s2 \in Nat, f2 \in Nat, u2 \in Nat :
        /\ signals = s /\ failures = f /\ Unraised = u
        /\ signals' = s2 /\ failures' = f2 /\ Unraised' = u2
        /\ u2 + s + f <= u + s2 + f2
        /\ Pays => u2 + s + f + 1 <= u + s2 + f2
  <2>1. Unraised \in Nat /\ Unraised' \in Nat
    BY DEF Unraised
  <2> QED
    BY <2>1, TollStep
<1>2. ASSUME ~Late' PROVE Unraised' <= signals' + failures'
  <2>1. u <= s + f
    BY <1>1, <1>2, LateStays DEF Afforded
  <2>2. u2 <= s2 + f2
    BY <1>1, <2>1
  <2> QED
    BY <1>1, <2>2
<1>3. ASSUME Late', pc' \notin {"done", "crashed"}
      PROVE  IsFiniteSet(GivenUp') /\ Cardinality(GivenUp') + Unraised' + 1 <= signals' + failures'
  <2>1. CASE ~Late
    <3>1. ~Cleanup
      BY <1>3 DEF Cleanup
    <3>2. /\ Pays /\ UNCHANGED <<child, result, all_exec_data, needs_cleanup, needs_execenv_cleanup>>
      BY <1>3, <2>1, <3>1, GoesLate
    <3>3. Unattempted' = Unattempted /\ Flagged' = Flagged
      BY <3>2 DEF Unattempted, Flagged, Needing, Body
    <3>4. GivenUp' = {}
      BY <2>1, <3>3, NoneGivenUp DEF GivenUp
    <3>5. u <= s + f
      BY <1>1, <2>1 DEF Afforded
    <3>6. u2 + 1 <= s2 + f2
      BY <1>1, <3>2, <3>5
    <3>7. IsFiniteSet(GivenUp') /\ Cardinality(GivenUp') = 0
      BY <3>4, FS_EmptySet
    <3> QED
      BY <1>1, <3>6, <3>7
  <2>2. CASE Late
    <3>1. IsFiniteSet(GivenUp) /\ Cardinality(GivenUp) + u + 1 <= s + f
      <4>1. pc # "done" /\ pc # "crashed"
        BY <1>3, OneEnd, CrashStays
      <4> QED
        BY <1>1, <2>2, <4>1 DEF Afforded
    <3>2. PICK k \in Nat : k = Cardinality(GivenUp)
      BY <3>1, FS_CardinalityType
    <3>3. IsFiniteSet(GivenUp') /\ \E n \in Nat : n = Cardinality(GivenUp') /\ n + u2 + 1 <= s2 + f2
      <4>1. CASE GivenUp' \subseteq GivenUp
        <5>1. IsFiniteSet(GivenUp') /\ Cardinality(GivenUp') <= k
          BY <3>1, <3>2, <4>1, FS_Subset
        <5>2. PICK n \in Nat : n = Cardinality(GivenUp')
          BY <5>1, FS_CardinalityType
        <5> QED
          BY <1>1, <3>1, <3>2, <5>1, <5>2
      <4>2. CASE ~(GivenUp' \subseteq GivenUp)
        <5>1. PICK x \in GivenUp' : x \notin GivenUp
          BY <4>2
        <5>2. \A y \in GivenUp' \ GivenUp : y \in Test \X Cleanups /\ Dropped(y)
          BY <1>3, <2>2, GivenUpStep
        <5>3. Pays /\ \A y \in GivenUp' \ GivenUp : y = x
          BY <5>1, <5>2, DropsOne
        <5>4. GivenUp' \subseteq GivenUp \union {x}
          BY <5>3
        <5>5. IsFiniteSet(GivenUp \union {x}) /\ Cardinality(GivenUp \union {x}) = k + 1
          BY <3>1, <3>2, <5>1, FS_AddElement
        <5>6. IsFiniteSet(GivenUp') /\ Cardinality(GivenUp') <= k + 1
          BY <5>4, <5>5, FS_Subset
        <5>7. PICK n \in Nat : n = Cardinality(GivenUp')
          BY <5>6, FS_CardinalityType
        <5> QED
          BY <1>1, <3>1, <3>2, <5>3, <5>6, <5>7
      <4> QED
        BY <4>1, <4>2
    <3> QED
      BY <1>1, <3>3
  <2> QED
    BY <2>1, <2>2
<1>4. ASSUME pc' = "done"
      PROVE  Cardinality(Unattempted') <= IF signals' + failures' = 0 THEN 0 ELSE signals' + failures' - 1
  <2>1. Cleanup \/ Destroy
    BY <1>4, OneEnd
  <2>2. /\ UNCHANGED <<result, signals, failures>>
        /\ \A x \in Child : child'[x] = "none" <=> child[x] = "none"
    BY <2>1 DEF Cleanup, Destroy, ExecutorCleanup, testVars, clientVars, sigVars, TypeOK
  <2>3. Unattempted' = Unattempted
    BY <2>2, UnattemptedStays
  <2>4. CASE Cleanup
    <3>1. ~Late /\ InFlight = {}
      BY <2>4 DEF Cleanup, Late
    <3>2. needs_cleanup \subseteq Test /\ needs_execenv_cleanup \subseteq Test
      BY SchedulerAssumption DEF TypeOK
    <3>3. Flagged = {}
      BY <3>1, <3>2 DEF Flagged, Needing, InFlight, Marked
    <3>4. Unattempted' = {}
      BY <2>3, <3>1, <3>3, NoneGivenUp
    <3>5. Cardinality(Unattempted') = 0
      BY <3>4, FS_EmptySet
    <3>6. 0 <= IF s2 + f2 = 0 THEN 0 ELSE s2 + f2 - 1
      OBVIOUS
    <3> QED
      BY <1>1, <3>5, <3>6
  <2>5. CASE Destroy
    <3>1. pc = "late_execenv" /\ pending = {}
      BY <2>5 DEF Destroy
    <3>2. Flagged = {}
      BY <3>1 DEF Emptied, Phase, Flagged, LateRoutines
    <3>3. Collected = {}
      BY <3>1 DEF Collected, Aimed
    <3>4. GivenUp = Unattempted
      BY <3>2, <3>3 DEF GivenUp
    <3>5. IsFiniteSet(GivenUp) /\ Cardinality(GivenUp) + u + 1 <= s + f
      BY <1>1, <3>1 DEF Afforded, Late
    <3>6. PICK n \in Nat : n = Cardinality(GivenUp)
      BY <3>5, FS_CardinalityType
    <3>7. n <= s + f - 1 /\ s + f # 0
      BY <3>5, <3>6
    <3> QED
      BY <1>1, <2>2, <2>3, <3>4, <3>6, <3>7
  <2> QED
    BY <2>1, <2>4, <2>5
<1> QED
  BY <1>2, <1>3, <1>4 DEF Afforded, CleanupsAttempted

-----------------------------------------------------------------------------
(* It holds of a new scheduler.                                              *)
LEMMA InitEInv == Init => EInv
<1> SUFFICES ASSUME Init PROVE EInv
  OBVIOUS
<1>1. TypeOK
  <2>1. signals \in 0..MaxSignals /\ failures \in 0..MaxFailures
    BY SchedulerAssumption DEF Init
  <2>2. /\ child \in [Child -> {"none", "running", "success", "failure", "skip", "core"}]
        /\ result \in [Test -> {"none", "passed", "skipped", "failed", "broken"}]
    BY DEF Init
  <2> QED
    BY <2>1, <2>2 DEF Init, TypeOK
<1>2. Kept
  BY Kinds DEF Init, Kept, OnlyReapedSurvive, Body, Routines
<1>3. NotTwice
  BY Kinds DEF Init, NotTwice, Routines
<1>4. Marked
  BY DEF Init, Marked
<1>5. Emptied
  BY DEF Init, Emptied, Phase, LateRoutines
<1>6. Afforded
  BY DEF Init, Afforded, CleanupsAttempted, Late, Unraised
<1> QED
  BY <1>1, <1>2, <1>3, <1>4, <1>5, <1>6 DEF EInv

(* Every step keeps the invariant of the end.                                *)
LEMMA NextEInv == ASSUME IInv, EInv, [Next]_vars PROVE EInv'
<1>1. CASE Next
  <2>1. TypeOK' /\ Kept' /\ Emptied' /\ Afforded'
    BY <1>1, TypesNext, KeptNext, EmptiedNext, AffordedNext DEF EInv
  <2>2. NotTwice'
    BY <1>1, LowersNotTwice, ForkNotTwice DEF EInv
  <2>3. Marked'
    BY <1>1, PassesMarked, ForkMarked, ProcessMarked DEF EInv
  <2> QED
    BY <2>1, <2>2, <2>3 DEF EInv
<1>2. CASE UNCHANGED vars
  <2>1. TypeOK' /\ Marked'
    BY <1>2 DEF vars, EInv, TypeOK, Marked, Late
  <2>2. Kept' /\ NotTwice'
    BY <1>2 DEF vars, EInv, Kept, OnlyReapedSurvive, NotTwice, LateRuns, Aimed, Phase, Late
  <2>3. Emptied' /\ Flagged' = Flagged /\ Collected' = Collected /\ Unattempted' = Unattempted
    BY <1>2 DEF vars, EInv, Emptied, Needing, Phase, Flagged, Collected, Aimed, Unattempted
  <2>4. Afforded'
    BY <1>2, <2>3 DEF vars, EInv, Afforded, GivenUp, Unraised, CleanupsAttempted, Late
  <2> QED
    BY <2>1, <2>2, <2>3, <2>4 DEF EInv
<1> QED
  BY <1>1, <1>2

(* However the scheduler is torn down, it attempts every cleanup but one for *)
(* each interrupt or failure after the one that started the destruction, it  *)
(* leaves no process behind other than bodies that reap() took over, and it  *)
(* repeats no cleanup (~impl(), reap() and cleanup() of scheduler.cpp): for  *)
(* any tests, programs, bounds and placement of interrupts and failures.     *)
THEOREM SchedulerEndsOrderly == Spec => []EndsOrderly
<1>1. EInv => EndsOrderly
  <2> SUFFICES ASSUME EInv PROVE RoutinesNotRepeated
    BY DEF EInv, EndsOrderly, Afforded, Kept
  <2>1. \A t \in Test : <<t, "cleanup">> \in FinishedRoutines => <<t, "cleanup">> \in waited \ all_exec_data
    BY DEF FinishedRoutines
  <2> QED
    BY <2>1 DEF EInv, NotTwice, LateRuns, RoutinesNotRepeated
<1> QED
  BY <1>1, InitIInv, NextIInv, InitEInv, NextEInv, PTL DEF Spec
-----------------------------------------------------------------------------
(* The scheduler implements TestRun, step by step.                           *)
(*                                                                           *)
(* Most steps are hidden: they account for no routine and deliver nothing    *)
(* (Hidden), and at most close the abstract run.  The exits of a body and of *)
(* the two cleanups are its account steps, the report is its delivery.       *)
(*                                                                           *)
(* To IInv the mapping adds RInv: FinishedRoutines calls                     *)
(* a cleanup done that was waited for and has left all_exec_data, so one that*)
(* was started must be in the map until its exit is processed (Followed);    *)
(* that a test is delivered when, and only when, nothing more is owed needs  *)
(* that only what it asks for is started (Asked), and that all of it is      *)
(* flagged, under way or done, in order (Chained).                           *)


(* Accounted for, as FinishedRoutines has it.                                *)
Fin(t, k) == <<t, k>> \in waited /\ <<t, k>> \notin all_exec_data

(* A cleanup that was started is in the map until its exit is processed.     *)
Followed ==
  /\ \A t \in Test : \A k \in Cleanups :
       /\ child[<<t, k>>] # "none" => <<t, k>> \in all_exec_data \/ <<t, k>> \in waited
       /\ <<t, k>> \in handles => <<t, k>> \in all_exec_data
  /\ Processing /\ cur[2] \in Cleanups => cur \in all_exec_data

(* Only what a test asks for is flagged, about to be started, or started.    *)
Asked ==
  /\ needs_cleanup \subseteq WithCleanup /\ needs_execenv_cleanup \subseteq WithExecenv
  /\ \A t \in Test :
       /\ child[<<t, "cleanup">>] # "none" => t \in WithCleanup
       /\ child[<<t, "execenv">>] # "none" => t \in WithExecenv
       /\ Starting /\ cur = <<t, "cleanup">> => t \in WithCleanup
       /\ Starting /\ cur = <<t, "execenv">> => t \in WithExecenv

(* What a test that was not skipped owes is flagged, under way or done.      *)
Chained ==
  ~Late =>
  \A t \in Test : result[t] \notin {"none", "skipped"} =>
    /\ t \in WithCleanup => t \in needs_cleanup \/ Fin(t, "cleanup")
    /\ t \in WithExecenv => t \in needs_execenv_cleanup \/ child[<<t, "execenv">>] # "none"

(* A test is delivered once, when all it owes is accounted for.              *)
DeliveredOnce ==
  /\ \A t \in reported : \A k \in Cleanups : child[<<t, k>>] # "none" => Fin(t, k)
  /\ \A t \in Test :
       /\ Starting /\ cur[2] \in Cleanups /\ cur[1] = t => t \notin reported
       /\ pc = "report" /\ cur = Body(t) =>
            /\ t \notin reported
            /\ \A k \in Cleanups : Fin(t, k) <=> k \in TR!Owed(t, result[t])

RInv == Followed /\ Asked /\ Chained /\ DeliveredOnce

(* A step that is not seen outside, except that the scheduler may be closed. *)
Hidden ==
  /\ UNCHANGED <<result, reported>>
  /\ \A t \in Test : \A k \in Cleanups :
       /\ child'[<<t, k>>] # "none" <=> child[<<t, k>>] # "none"
       /\ <<t, k>> \in all_exec_data' <=> <<t, k>> \in all_exec_data
       /\ <<t, k>> \in waited => <<t, k>> \in waited'
       /\ <<t, k>> \in waited' => <<t, k>> \in waited \/ <<t, k>> \in all_exec_data
       /\ <<t, k>> \in handles' => <<t, k>> \in handles
  /\ needs_cleanup' \subseteq needs_cleanup \union WithCleanup
  /\ needs_execenv_cleanup' \subseteq needs_execenv_cleanup \union WithExecenv
  /\ Starting' /\ cur'[2] \in Cleanups => Starting /\ cur' = cur
  /\ Processing' /\ cur'[2] \in Cleanups => cur' \in all_exec_data
  /\ pc' = "report" => pc = "report" /\ cur' = cur
  /\ ~Late' => /\ ~Late /\ needs_cleanup \subseteq needs_cleanup'
               /\ needs_execenv_cleanup \subseteq needs_execenv_cleanup'

(* The invariant holds of a new scheduler.                                   *)
LEMMA InitRInv == Init => RInv
<1> SUFFICES ASSUME Init PROVE RInv
  OBVIOUS
<1>1. \A t \in Test : \A k \in Cleanups : child[<<t, k>>] = "none"
  BY Kinds DEF Init, Cleanups, Routines
<1>2. Followed
  BY <1>1 DEF Init, Followed, Processing
<1>3. Asked
  BY <1>1 DEF Init, Asked, Starting, Cleanups
<1>4. Chained
  BY DEF Init, Chained
<1>5. DeliveredOnce
  BY DEF Init, DeliveredOnce, Starting
<1> QED
  BY <1>2, <1>3, <1>4, <1>5 DEF RInv

(* What was accounted for stays so, and nothing else is.                     *)
LEMMA HiddenFin ==
  ASSUME Hidden
  PROVE  /\ \A t \in Test : \A k \in Cleanups : Fin(t, k)' <=> Fin(t, k)
         /\ FinishedRoutines' = FinishedRoutines
<1>1. \A t \in Test : \A k \in Cleanups : Fin(t, k)' <=> Fin(t, k)
  BY DEF Hidden, Fin
<1>2. \A x \in Test \X Routines : x \in FinishedRoutines' <=> x \in FinishedRoutines
  <2> SUFFICES ASSUME NEW t \in Test, NEW k \in Routines
               PROVE  <<t, k>> \in FinishedRoutines' <=> <<t, k>> \in FinishedRoutines
    OBVIOUS
  <2>1. CASE k = "body"
    BY <2>1 DEF FinishedRoutines, Hidden
  <2>2. CASE k # "body"
    <3>1. k \in Cleanups
      BY <2>2 DEF Cleanups, Routines
    <3> QED
      BY <1>1, <2>2, <3>1 DEF FinishedRoutines, Fin
  <2> QED
    BY <2>1, <2>2
<1>3. FinishedRoutines \subseteq Test \X Routines /\ FinishedRoutines' \subseteq Test \X Routines
  BY DEF FinishedRoutines
<1> QED
  BY <1>1, <1>2, <1>3

(* A hidden step keeps the invariant.                                        *)
LEMMA HiddenRInv == ASSUME IInv', RInv, Hidden PROVE RInv'
<1>1. Followed'
  <2>1. \A t \in Test : \A k \in Cleanups :
          /\ child'[<<t, k>>] # "none" => <<t, k>> \in all_exec_data' \/ <<t, k>> \in waited'
          /\ <<t, k>> \in handles' => <<t, k>> \in all_exec_data'
    BY DEF RInv, Followed, Hidden
  <2>2. Processing' /\ cur'[2] \in Cleanups => cur' \in all_exec_data'
    <3> SUFFICES ASSUME Processing', cur'[2] \in Cleanups PROVE cur' \in all_exec_data'
      OBVIOUS
    <3>1. cur'[1] \in Test /\ cur' = <<cur'[1], cur'[2]>>
      BY Kinds DEF IInv, CurInv
    <3> QED
      BY <3>1 DEF Hidden
  <2> QED
    BY <2>1, <2>2 DEF Followed
<1>2. Asked'
  BY DEF RInv, Asked, Hidden, Cleanups
<1>3. Chained'
  <2> SUFFICES ASSUME ~Late', NEW t \in Test, result'[t] \notin {"none", "skipped"}
               PROVE  /\ t \in WithCleanup => t \in needs_cleanup' \/ Fin(t, "cleanup")'
                      /\ t \in WithExecenv => t \in needs_execenv_cleanup'
                                               \/ child'[<<t, "execenv">>] # "none"
    BY DEF Chained
  <2>1. ~Late /\ result[t] \notin {"none", "skipped"}
    BY DEF Hidden
  <2> QED
    BY <2>1, HiddenFin DEF RInv, Chained, Hidden, Cleanups
<1>4. DeliveredOnce'
  <2>1. \A t \in reported' : \A k \in Cleanups : child'[<<t, k>>] # "none" => Fin(t, k)'
    BY HiddenFin DEF RInv, DeliveredOnce, Hidden, IInv, Types
  <2>2. ASSUME NEW t \in Test, Starting', cur'[2] \in Cleanups, cur'[1] = t
        PROVE  t \notin reported'
    BY <2>2 DEF RInv, DeliveredOnce, Hidden
  <2>3. ASSUME NEW t \in Test, pc' = "report", cur' = Body(t)
        PROVE  /\ t \notin reported'
               /\ \A k \in Cleanups : Fin(t, k)' <=> k \in TR!Owed(t, result'[t])
    <3>1. pc = "report" /\ cur = Body(t) /\ result' = result /\ reported' = reported
      BY <2>3 DEF Hidden
    <3> QED
      BY <3>1, HiddenFin DEF RInv, DeliveredOnce
  <2> QED
    BY <2>1, <2>2, <2>3 DEF DeliveredOnce
<1> QED
  BY <1>1, <1>2, <1>3, <1>4 DEF RInv

(* A hidden step is a step of TestRun that closes it, or none.               *)
LEMMA HiddenRefines == ASSUME Hidden PROVE [TR!TRNext]_(TR!trVars)
<1>1. UNCHANGED <<FinishedRoutines, result, reported>>
  BY HiddenFin DEF Hidden
<1>2. CASE Late' <=> Late
  BY <1>1, <1>2 DEF TR!trVars, Late
<1>3. CASE Late' /\ ~Late
  <2>1. TR!Close
    BY <1>1, <1>3 DEF TR!Close, Late
  <2> QED
    BY <2>1 DEF TR!TRNext
<1> QED
  BY <1>2, <1>3 DEF Hidden

(* Steps that move from one call to another, or drop bodies from the maps.   *)
LEMMA MovesHidden ==
  ASSUME RInv,
         UNCHANGED <<childVars, needs_cleanup, needs_execenv_cleanup, result, reported>>,
         handles' \subseteq handles, all_exec_data' \subseteq all_exec_data,
         \A x \in all_exec_data \ all_exec_data' : x[2] = "body",
         Starting' /\ cur'[2] \in Cleanups => Starting /\ cur' = cur,
         Processing' => Processing /\ cur' = cur, pc' # "report", ~Late' => ~Late
  PROVE  Hidden
<1>1. \A t \in Test : \A k \in Cleanups :
         <<t, k>> \in all_exec_data' <=> <<t, k>> \in all_exec_data
  BY DEF Cleanups
<1> QED
  BY <1>1 DEF Hidden, RInv, Followed, childVars

(* The calls of the client up to their waits and forks, and the unwinding.   *)
LEMMA CallsHidden ==
  ASSUME IInv, RInv,
         \/ CheckThrows \/ SpawnFollowup \/ WaitAny \/ WaitAnyAgain \/ Stacktrace
         \/ StacktraceThrows \/ ClientThrows \/ Unwind
         \/ \E t \in Test : SpawnTest(t) \/ Release(t)
  PROVE  Hidden
<1> DEFINE Calm == /\ UNCHANGED <<childVars, needs_cleanup, needs_execenv_cleanup, result, reported>>
                   /\ handles' \subseteq handles /\ all_exec_data' \subseteq all_exec_data
                   /\ \A x \in all_exec_data \ all_exec_data' : x[2] = "body"
           Moved == /\ Starting' /\ cur'[2] \in Cleanups => Starting /\ cur' = cur
                    /\ Processing' => Processing /\ cur' = cur
                    /\ pc' # "report"
                    /\ ~Late' => ~Late
<1>1. CASE CheckThrows \/ WaitAny \/ WaitAnyAgain \/ ClientThrows
  <2>1. Calm
    BY <1>1 DEF CheckThrows, WaitAny, WaitAnyAgain, ClientThrows, testVars, clientVars, mapVars
  <2>2. Moved
    BY <1>1 DEF CheckThrows, WaitAny, WaitAnyAgain, ClientThrows, Starting, Processing, Late
  <2> QED
    BY <2>1, <2>2, MovesHidden
<1>2. CASE SpawnFollowup \/ Stacktrace \/ StacktraceThrows
  <2>1. Calm
    BY <1>2 DEF SpawnFollowup, Stacktrace, StacktraceThrows, testVars, clientVars, mapVars
  <2>2. Moved
    BY <1>2 DEF SpawnFollowup, Stacktrace, StacktraceThrows, Starting, Processing, Late
  <2> QED
    BY <2>1, <2>2, MovesHidden
<1>3. CASE Unwind
  <2>1. Calm
    BY <1>3 DEF Unwind, testVars, Bodies, Body
  <2>2. Moved
    BY <1>3 DEF Unwind, Starting, Processing, Late
  <2> QED
    BY <2>1, <2>2, MovesHidden
<1>4. ASSUME NEW t \in Test, SpawnTest(t) \/ Release(t)
      PROVE  Hidden
  <2>1. Calm
    BY <1>4 DEF SpawnTest, Release, testVars, clientVars, mapVars, Body
  <2>2. Moved
    BY <1>4 DEF SpawnTest, Release, Starting, Processing, Late, Body, Cleanups
  <2> QED
    BY <2>1, <2>2, MovesHidden
<1> QED
  BY <1>1, <1>2, <1>3, <1>4

(* list_tests(), a fork that fails, and the destructor between its forks.    *)
LEMMA OthersHidden ==
  ASSUME IInv, RInv,
         \/ ForkFails \/ ListSpawn \/ ListWait \/ ListInterrupted \/ Listed
         \/ LateWait \/ LateWaitThrows \/ UNCHANGED vars
         \/ \E p \in Program : ListTests(p)
         \/ \E t \in Test : LateSpawn(t) \/ LateSpawnThrows(t)
  PROVE  Hidden
<1>1. /\ UNCHANGED <<childVars, mapVars, needs_cleanup, needs_execenv_cleanup, result, reported>>
  BY DEF ForkFails, ListSpawn, ListWait, ListInterrupted, Listed, LateWait, LateWaitThrows,
     ListTests, LateSpawn, LateSpawnThrows, vars, testVars, clientVars, childVars, mapVars
<1>2. CASE UNCHANGED vars
  BY <1>1, <1>2 DEF Hidden, RInv, Followed, vars, childVars, mapVars, Starting, Processing, Late
<1>3. CASE ~UNCHANGED vars
  <2>1. pc \in {"list_spawn", "list_wait"} => cur[2] = "list"
    BY Kinds DEF IInv, CurInv
  <2>2. pc = "late_wait" => cur[2] \in LateRoutines
    BY DEF IInv, CurInv
  <2>3. CASE ForkFails
    BY <2>3, <1>1, MovesHidden DEF ForkFails, mapVars, Starting, Processing, Late, LateRoutines
  <2>4. CASE ListSpawn \/ ListWait \/ ListInterrupted \/ Listed \/ \E p \in Program : ListTests(p)
    <3>1. /\ Starting' /\ cur'[2] \in Cleanups => Starting /\ cur' = cur
          /\ ~Processing' /\ pc' # "report"
          /\ ~Late' => ~Late
      BY <2>1, <2>4 DEF ListSpawn, ListWait, ListInterrupted, Listed, ListTests, Starting,
         Processing, Late, LateRoutines, Cleanups
    <3> QED
      BY <1>1, <3>1, MovesHidden DEF mapVars
  <2>5. CASE LateWait \/ LateWaitThrows \/ \E t \in Test : LateSpawn(t) \/ LateSpawnThrows(t)
    <3>1. /\ Starting' /\ cur'[2] \in Cleanups => Starting /\ cur' = cur
          /\ ~Processing' /\ pc' # "report"
          /\ Late'
      BY <2>2, <2>5 DEF LateWait, LateWaitThrows, LateSpawn, LateSpawnThrows, Starting,
         Processing, Late, LateRoutines, Cleanups
    <3> QED
      BY <1>1, <3>1, MovesHidden DEF mapVars
  <2> QED
    BY <1>3, <2>3, <2>4, <2>5
<1> QED
  BY <1>2, <1>3

(* The waits: a cleanup that is reaped is still in the map.                  *)
LEMMA ReapsHidden ==
  ASSUME IInv, RInv, ListReap \/ LateReap \/ \E x \in Child : WaitReap(x)
  PROVE  Hidden
<1>1. PICK x : /\ waited' = waited \union {x} /\ child' = child
               /\ child[x] # "none"
               /\ x[2] \in Cleanups => x \in all_exec_data \/ x \in waited
               /\ \/ WaitReap(x)
                  \/ pc' \notin {"followup", "fork", "stacktrace", "process", "report"}
               /\ ~Late' => ~Late
  <2>1. ASSUME NEW x \in Child, x[2] \in Cleanups, child[x] # "none"
        PROVE  x \in all_exec_data \/ x \in waited
    <3>1. x[1] \in Test /\ x = <<x[1], x[2]>>
      BY <2>1, Kinds DEF Cleanups, Routines
    <3> QED
      BY <2>1, <3>1 DEF RInv, Followed
  <2>2. CASE \E x \in Child : WaitReap(x)
    BY <2>1, <2>2 DEF WaitReap, Ended, Late
  <2>3. CASE ListReap
    <3>1. cur[2] = "list"
      BY <2>3, Kinds DEF ListReap, IInv, CurInv
    <3> QED
      BY <2>3, <3>1 DEF ListReap, Ended, Late, Cleanups
  <2>4. CASE LateReap
    <3>1. cur[2] \in LateRoutines
      BY <2>4 DEF LateReap, IInv, CurInv
    <3> QED
      BY <2>4, <3>1 DEF LateReap, Ended, Late, Cleanups, LateRoutines
  <2> QED
    BY <2>2, <2>3, <2>4
<1>2. /\ UNCHANGED <<all_exec_data, needs_cleanup, needs_execenv_cleanup, result, reported>>
      /\ handles' \subseteq handles
  BY DEF ListReap, LateReap, WaitReap, mapVars, testVars, clientVars
<1>3. \A t \in Test : \A k \in Cleanups :
        <<t, k>> \in waited' => <<t, k>> \in waited \/ <<t, k>> \in all_exec_data
  BY <1>1
<1>4. CASE WaitReap(x)
  <2>1. /\ pc' \in {"crashed", "stacktrace", "process"} /\ cur' = x
        /\ pc' # "crashed" => x \in all_exec_data
    BY <1>4 DEF WaitReap
  <2> QED
    BY <1>1, <1>2, <1>3, <2>1 DEF Hidden, Starting, Processing
<1>5. CASE pc' \notin {"followup", "fork", "stacktrace", "process", "report"}
  BY <1>1, <1>2, <1>3, <1>5 DEF Hidden, Starting, Processing
<1> QED
  BY <1>1, <1>4, <1>5

(* The destructor takes flags away once it is late.                          *)
LEMMA CollectsHidden == ASSUME IInv, RInv, CollectCleanup \/ CollectExecenv PROVE Hidden
<1>1. /\ UNCHANGED <<childVars, mapVars, result, reported>>
      /\ needs_cleanup' \subseteq needs_cleanup
      /\ needs_execenv_cleanup' \subseteq needs_execenv_cleanup
  BY DEF CollectCleanup, CollectExecenv, clientVars
<1>2. pc' \in {"late_cleanup", "late_execenv", "crashed"}
  BY DEF CollectCleanup, CollectExecenv, Collect
<1> QED
  BY <1>1, <1>2 DEF Hidden, childVars, mapVars, Starting, Processing, Late

(* What the executor waits for at the end, if it is a cleanup, is in the map.*)
LEMMA ClosesHidden == ASSUME IInv, RInv, Cleanup \/ Destroy PROVE Hidden
<1>1. PICK left : left \subseteq handles /\ ExecutorCleanup(left)
  BY DEF Cleanup, Destroy
<1>2. /\ UNCHANGED <<all_exec_data, needs_cleanup, needs_execenv_cleanup, result, reported>>
      /\ pc' = "done"
  BY DEF Cleanup, Destroy, testVars, clientVars
<1>3. waited' = waited \union left /\ handles' = {}
  BY <1>1 DEF ExecutorCleanup
<1>4. \A x \in Child : child'[x] # "none" <=> child[x] # "none"
  BY <1>1 DEF ExecutorCleanup
<1>5. ASSUME NEW t \in Test, NEW k \in Cleanups
      PROVE  /\ child'[<<t, k>>] # "none" <=> child[<<t, k>>] # "none"
             /\ <<t, k>> \in waited' => <<t, k>> \in waited \/ <<t, k>> \in all_exec_data
  <2>1. <<t, k>> \in Child
    BY Kinds DEF Cleanups, Routines
  <2> QED
    BY <1>1, <1>3, <1>4, <2>1 DEF RInv, Followed
<1> QED
  BY <1>2, <1>3, <1>5 DEF Hidden, Starting, Processing, Late

(* An interrupt arrives, a child ends: the scheduler does not move.          *)
LEMMA OutsideHidden ==
  ASSUME IInv, RInv, Interrupt \/ \E x \in Child : ChildEnds(x)
  PROVE  Hidden
<1>1. UNCHANGED <<waited, mapVars, needs_cleanup, needs_execenv_cleanup, result, reported, pc, cur>>
  BY DEF Interrupt, ChildEnds, testVars, clientVars
<1>2. \A x \in Child : child'[x] # "none" <=> child[x] # "none"
  <2>1. CASE Interrupt
    BY <2>1 DEF Interrupt
  <2>2. ASSUME NEW y \in Child, ChildEnds(y)
        PROVE  \A x \in Child : child'[x] # "none" <=> child[x] # "none"
    <3>1. PICK s : s # "none" /\ child' = [child EXCEPT ![y] = s]
      BY <2>2 DEF ChildEnds, Ends
    <3> QED
      BY <2>2, <3>1 DEF ChildEnds, IInv, Types
  <2> QED
    BY <2>1, <2>2
<1>3. \A t \in Test : \A k \in Cleanups : child'[<<t, k>>] # "none" <=> child[<<t, k>>] # "none"
  BY <1>2, Kinds DEF Cleanups, Routines
<1> QED
  BY <1>1, <1>3 DEF Hidden, mapVars, Starting, Processing, Late, RInv, Followed

(* The fork of a body, a listing or a late cleanup.                          *)
LEMMA ForksHidden == ASSUME IInv, RInv, Fork, cur[2] \notin Cleanups PROVE Hidden
<1>1. pc = "fork" /\ cur \in Child
  BY DEF Fork, IInv, CurInv, Starting
<1>2. /\ child' = [child EXCEPT ![cur] = "running"] /\ handles' = handles \union {cur}
      /\ all_exec_data' = all_exec_data \union ({cur} \intersect TestChild)
      /\ UNCHANGED <<waited, result, reported>>
  BY DEF Fork, clientVars
<1>3. /\ needs_cleanup \subseteq needs_cleanup'
      /\ needs_cleanup' \subseteq needs_cleanup \union WithCleanup
  BY DEF Fork
<1>4. /\ needs_execenv_cleanup \subseteq needs_execenv_cleanup'
      /\ needs_execenv_cleanup' \subseteq needs_execenv_cleanup \union WithExecenv
  BY DEF Fork, NeedsExecenv, Cleanups
<1>5. pc' \in {"idle", "late_wait", "list_wait"} /\ (pc' # "late_wait" => cur[2] \notin LateRoutines)
  BY DEF Fork, AfterFork, Cleanups, LateRoutines
<1>6. \A t \in Test : \A k \in Cleanups : <<t, k>> # cur /\ child'[<<t, k>>] = child[<<t, k>>]
  <2> SUFFICES ASSUME NEW t \in Test, NEW k \in Cleanups
               PROVE  <<t, k>> # cur /\ child'[<<t, k>>] = child[<<t, k>>]
    OBVIOUS
  <2>1. <<t, k>> \in Child /\ <<t, k>> # cur
    BY Kinds DEF Cleanups, Routines
  <2> QED
    BY <1>2, <2>1 DEF IInv, Types
<1> QED
  BY <1>1, <1>2, <1>3, <1>4, <1>5, <1>6 DEF Hidden, Starting, Processing, Late

(* The fork of a cleanup moves it into the map before it can be waited for.  *)
LEMMA ForkFollowed ==
  ASSUME IInv, IInv', RInv, Fork, cur[2] \in Cleanups
  PROVE  RInv' /\ [TR!TRNext]_(TR!trVars)
<1> DEFINE t == cur[1]
           k == cur[2]
<1>1. /\ pc = "fork" /\ cur \in TestChild /\ t \in Test /\ cur = <<t, k>>
      /\ cur \in Child /\ child[cur] = "none"
  BY Kinds DEF Fork, IInv, CurInv, Starting, Cleanups, Routines
<1>2. /\ child' = [child EXCEPT ![cur] = "running"] /\ handles' = handles \union {cur}
      /\ all_exec_data' = all_exec_data \union {cur}
      /\ UNCHANGED <<waited, result, reported, needs_cleanup>>
      /\ pc' = "wait_any"
  <2>1. pc' = "wait_any"
    BY DEF Fork, AfterFork, Cleanups, LateRoutines
  <2>2. needs_cleanup' = needs_cleanup
    BY DEF Fork, Cleanups
  <2>3. all_exec_data' = all_exec_data \union {cur}
    BY <1>1 DEF Fork
  <2> QED
    BY <2>1, <2>2, <2>3 DEF Fork, clientVars
<1>3. needs_execenv_cleanup' = IF k = "execenv" THEN needs_execenv_cleanup \ {t}
                                               ELSE needs_execenv_cleanup
  BY DEF Fork, NeedsExecenv, Cleanups
<1>4. cur \notin waited
  BY <1>1 DEF IInv, WaitedInv, Ended, Cleanups, Routines
<1>5. \A u \in Test : \A j \in Cleanups :
        child'[<<u, j>>] = IF <<u, j>> = cur THEN "running" ELSE child[<<u, j>>]
  <2> SUFFICES ASSUME NEW u \in Test, NEW j \in Cleanups
               PROVE  child'[<<u, j>>] = IF <<u, j>> = cur THEN "running" ELSE child[<<u, j>>]
    OBVIOUS
  <2>1. <<u, j>> \in Child
    BY Kinds DEF Cleanups, Routines
  <2> QED
    BY <1>1, <1>2, <2>1 DEF IInv, Types
<1>6. \A u \in Test : \A j \in Cleanups : Fin(u, j)' <=> Fin(u, j)
  BY <1>2, <1>4 DEF Fin
<1>7. Followed'
  BY <1>1, <1>2, <1>5 DEF RInv, Followed, Processing
<1>8. Asked'
  <2>1. Starting
    BY <1>1 DEF Starting
  <2> QED
    BY <1>1, <1>2, <1>3, <1>5, <2>1 DEF RInv, Asked, Starting, Cleanups
<1>9. Chained'
  <2>1. ~Late
    BY <1>1 DEF Late, Cleanups, LateRoutines
  <2>2. \A u \in Test : child'[<<u, "execenv">>] # "none" <=>
                          child[<<u, "execenv">>] # "none" \/ <<u, "execenv">> = cur
    BY <1>5 DEF Cleanups
  <2>3. \A u \in Test : u \in needs_execenv_cleanup /\ u \notin needs_execenv_cleanup'
                          => <<u, "execenv">> = cur
    BY <1>1, <1>3
  <2> QED
    BY <1>2, <1>6, <2>1, <2>2, <2>3 DEF RInv, Chained, Cleanups
<1>10. DeliveredOnce'
  <2>1. t \notin reported
    BY <1>1 DEF RInv, DeliveredOnce, Starting
  <2>2. \A u \in reported' : \A j \in Cleanups : child'[<<u, j>>] # "none" => Fin(u, j)'
    BY <1>1, <1>2, <1>5, <1>6, <2>1 DEF RInv, DeliveredOnce, IInv, Types
  <2> QED
    BY <1>2, <2>2 DEF DeliveredOnce, Starting
<1>11. FinishedRoutines' = FinishedRoutines
  <2>1. \A x \in Test \X Routines :
          x[2] # "body" => (x \in waited' \ all_exec_data' <=> x \in waited \ all_exec_data)
    BY <1>2, <1>4
  <2> QED
    BY <1>2, <2>1 DEF FinishedRoutines
<1>12. UNCHANGED TR!trVars
  BY <1>1, <1>2, <1>11 DEF TR!trVars, Cleanups, LateRoutines
<1> QED
  BY <1>7, <1>8, <1>9, <1>10, <1>12 DEF RInv

(* wait_any() returns the result of a test: TestRun delivers it.             *)
LEMMA ReportDelivers ==
  ASSUME IInv, IInv', RInv, Report
  PROVE  RInv' /\ [TR!TRNext]_(TR!trVars)
<1>1. PICK t \in Test : cur = Body(t) /\ result[t] # "none"
  BY DEF Report, IInv, ReportInv
<1>2. /\ UNCHANGED <<childVars, mapVars, needs_cleanup, needs_execenv_cleanup, result>>
      /\ reported' = reported \union {t} /\ pc = "report" /\ pc' = "idle"
  BY <1>1 DEF Report, testVars, Body
<1>3. t \notin reported /\ \A k \in Cleanups : Fin(t, k) <=> k \in TR!Owed(t, result[t])
  BY <1>1, <1>2 DEF RInv, DeliveredOnce
<1>4. \A u \in Test : \A k \in Cleanups : Fin(u, k)' <=> Fin(u, k)
  BY <1>2 DEF Fin, childVars, mapVars
<1>5. Followed' /\ Asked'
  BY <1>2 DEF RInv, Followed, Asked, Starting, Processing, childVars, mapVars
<1>6. Chained'
  BY <1>2, <1>4 DEF RInv, Chained, Late, childVars, Cleanups
<1>7. DeliveredOnce'
  <2>1. ASSUME NEW k \in Cleanups, child[<<t, k>>] # "none"
        PROVE  Fin(t, k)
    <3>1. result[t] # "skipped"
      BY <2>1 DEF IInv, ResultInv, Unstarted
    <3>2. k = "cleanup" => t \in WithCleanup
      BY <2>1 DEF RInv, Asked
    <3>3. k = "execenv" => t \in WithExecenv
      BY <2>1 DEF RInv, Asked
    <3>4. k \in TR!Owed(t, result[t])
      BY <3>1, <3>2, <3>3 DEF TR!Owed, Cleanups
    <3> QED
      BY <1>3, <3>4
  <2>2. \A u \in reported' : \A k \in Cleanups : child'[<<u, k>>] # "none" => Fin(u, k)'
    BY <1>2, <1>4, <2>1 DEF RInv, DeliveredOnce, childVars, IInv, Types
  <2> QED
    BY <1>2, <2>2 DEF DeliveredOnce, Starting
<1>8. FinishedRoutines' = FinishedRoutines
  BY <1>2 DEF FinishedRoutines, childVars, mapVars
<1>9. TR!Finished(t) = TR!Owed(t, result[t])
  <2>1. TR!Finished(t) = {"body"} \union {k \in Cleanups : Fin(t, k)}
    BY <1>1 DEF TR!Finished, TR!Kinds, FinishedRoutines, Fin, Cleanups, Routines
  <2>2. TR!Owed(t, result[t]) = {"body"} \union {k \in Cleanups : k \in TR!Owed(t, result[t])}
    BY DEF TR!Owed, Cleanups
  <2> QED
    BY <1>3, <2>1, <2>2
<1>10. TR!Deliver(t)
  BY <1>2, <1>3, <1>8, <1>9 DEF TR!Deliver, TR!Finished
<1> QED
  BY <1>5, <1>6, <1>7, <1>10 DEF RInv, TR!TRNext

(* The exit of a body is accounted for.                                      *)
LEMMA BodyAccounts ==
  ASSUME IInv, IInv', RInv, ProcessBody
  PROVE  RInv' /\ [TR!TRNext]_(TR!trVars)
<1> DEFINE t == cur[1]
           r == BodyResult(t)
           skipped == IF r = "skipped" THEN {t} ELSE {}
<1>1. /\ pc = "process" /\ cur = Body(t) /\ t \in Test /\ result[t] = "none"
      /\ child[Body(t)] # "none"
  <2>1. pc = "process" /\ cur \in TestChild /\ cur[2] = "body" /\ cur \in waited /\ result[t] = "none"
    BY DEF ProcessBody, IInv, CurInv, Processing
  <2>2. t \in Test /\ cur = Body(t)
    BY <2>1, Kinds DEF Body
  <2> QED
    BY <2>1, <2>2 DEF IInv, WaitedInv, Ended, Body, Routines
<1>2. /\ UNCHANGED <<childVars, mapVars, reported>>
      /\ result' = [result EXCEPT ![t] = r]
      /\ needs_cleanup' = needs_cleanup \ skipped
      /\ needs_execenv_cleanup' = needs_execenv_cleanup \ skipped
      /\ Chain(t, needs_cleanup', needs_execenv_cleanup')
  BY DEF ProcessBody, clientVars
<1>3. /\ t \in needs_cleanup' => pc' = "followup" /\ cur' = <<t, "cleanup">>
      /\ t \notin needs_cleanup' /\ t \in needs_execenv_cleanup' =>
           pc' = "followup" /\ cur' = <<t, "execenv">>
      /\ t \notin needs_cleanup' /\ t \notin needs_execenv_cleanup' =>
           pc' = "report" /\ cur' = Body(t)
  BY <1>2, ChainMoves
<1>4. r \in {"passed", "skipped", "failed", "broken"}
  BY DEF BodyResult
<1>5. result'[t] = r /\ \A u \in Test : u # t => result'[u] = result[u]
  BY <1>1, <1>2 DEF IInv, Types
<1>6. pc' \in {"followup", "report"} /\ ~Late /\ ~Late' /\ ~Processing'
  BY <1>1, <1>3 DEF Late, Processing
<1>7. \A u \in Test : \A k \in Cleanups : Fin(u, k)' <=> Fin(u, k)
  BY <1>2 DEF Fin, childVars, mapVars
<1>8. \A k \in Cleanups : child[<<t, k>>] = "none" /\ ~Fin(t, k)
  <2>1. Unstarted(t)
    BY <1>1 DEF IInv, ResultInv
  <2> QED
    BY <1>1, <2>1 DEF Unstarted, Fin, IInv, WaitedInv, Ended, Cleanups, Routines
<1>9. r # "skipped" => /\ t \in WithCleanup => t \in needs_cleanup'
                       /\ t \in WithExecenv => t \in needs_execenv_cleanup'
  <2>1. /\ t \in WithCleanup => t \in needs_cleanup
        /\ t \in WithExecenv => t \in needs_execenv_cleanup
    BY <1>1, <1>6 DEF IInv, FlagsInv
  <2> QED
    BY <1>2, <2>1
<1>10. r = "skipped" => t \notin needs_cleanup' /\ t \notin needs_execenv_cleanup'
  BY <1>2
<1>11. Followed'
  BY <1>2, <1>6 DEF RInv, Followed, childVars, mapVars
<1>12. Asked'
  BY <1>2, <1>3, <1>6, SchedulerAssumption DEF RInv, Asked, childVars, Starting
<1>13. Chained'
  <2> SUFFICES ASSUME NEW u \in Test, result'[u] \notin {"none", "skipped"}
               PROVE  /\ u \in WithCleanup => u \in needs_cleanup' \/ Fin(u, "cleanup")'
                      /\ u \in WithExecenv => u \in needs_execenv_cleanup'
                                               \/ child'[<<u, "execenv">>] # "none"
    BY DEF Chained
  <2>1. CASE u = t
    BY <1>5, <1>9, <2>1
  <2>2. CASE u # t
    BY <1>2, <1>5, <1>6, <1>7, <2>2 DEF RInv, Chained, Cleanups, childVars
  <2> QED
    BY <2>1, <2>2
<1>14. t \notin reported
  BY <1>1 DEF IInv, ReportInv
<1>15. DeliveredOnce'
  <2>1. \A u \in reported' : \A k \in Cleanups : child'[<<u, k>>] # "none" => Fin(u, k)'
    BY <1>2, <1>7 DEF RInv, DeliveredOnce, childVars, IInv, Types
  <2>2. Starting' => cur'[1] = t
    BY <1>3 DEF Starting
  <2>3. ASSUME pc' = "report" PROVE \A k \in Cleanups : k \notin TR!Owed(t, result'[t])
    <3>1. t \notin needs_cleanup' /\ t \notin needs_execenv_cleanup'
      BY <1>3, <2>3
    <3> QED
      BY <1>5, <1>9, <3>1 DEF TR!Owed, Cleanups
  <2>4. pc' = "report" => cur' = Body(t)
    BY <1>3
  <2>5. ASSUME NEW u \in Test, Starting', cur'[1] = u
        PROVE  u \notin reported'
    BY <1>2, <1>14, <2>2, <2>5
  <2>6. ASSUME NEW u \in Test, pc' = "report", cur' = Body(u)
        PROVE  /\ u \notin reported'
               /\ \A k \in Cleanups : Fin(u, k)' <=> k \in TR!Owed(u, result'[u])
    <3>1. u = t
      BY <2>4, <2>6 DEF Body
    <3> QED
      BY <1>1, <1>2, <1>7, <1>8, <1>14, <2>3, <2>6, <3>1
  <2> QED
    BY <2>1, <2>5, <2>6 DEF DeliveredOnce
<1>16. FinishedRoutines' = FinishedRoutines \union {<<t, "body">>}
  <2>1. \A x \in Test \X Routines :
          x \in FinishedRoutines' <=> x \in FinishedRoutines \/ x = <<t, "body">>
    <3> SUFFICES ASSUME NEW u \in Test, NEW k \in Routines
                 PROVE  <<u, k>> \in FinishedRoutines' <=>
                          <<u, k>> \in FinishedRoutines \/ <<u, k>> = <<t, "body">>
      OBVIOUS
    <3>1. CASE k = "body"
      BY <1>4, <1>5, <3>1 DEF FinishedRoutines
    <3>2. CASE k # "body"
      BY <1>2, <3>2 DEF FinishedRoutines, childVars, mapVars
    <3> QED
      BY <3>1, <3>2
  <2>2. <<t, "body">> \in Test \X Routines
    BY <1>1 DEF Routines
  <2>3. FinishedRoutines \subseteq Test \X Routines /\ FinishedRoutines' \subseteq Test \X Routines
    BY DEF FinishedRoutines
  <2> QED
    BY <2>1, <2>2, <2>3
<1>17. <<t, "body">> \notin FinishedRoutines
  BY <1>1 DEF FinishedRoutines
<1>18. TR!AccountBody(t)
  <2>1. \E v \in TR!Verdicts : result' = [result EXCEPT ![t] = v]
    BY <1>2, <1>4 DEF TR!Verdicts
  <2> QED
    BY <1>2, <1>6, <1>16, <1>17, <2>1 DEF TR!AccountBody, Late
<1> QED
  BY <1>1, <1>11, <1>12, <1>13, <1>15, <1>18 DEF RInv, TR!TRNext

(* What the exit of a cleanup of t changes, whichever of the two it is.      *)
Folds(t, k) ==
  /\ pc = "process" /\ cur = <<t, k>>
  /\ result' = [result EXCEPT ![t] = FoldedResult(t, cur)]
  /\ all_exec_data' = all_exec_data \ {cur} /\ handles' = handles \ {cur}
  /\ UNCHANGED <<childVars, needs_execenv_cleanup, reported>>
  /\ needs_cleanup' = IF k = "cleanup" THEN needs_cleanup \ {t} ELSE needs_cleanup
  /\ Chain(t, {}, IF k = "cleanup" THEN needs_execenv_cleanup ELSE {})

(* The exit of a cleanup is accounted for, in its turn.                      *)
LEMMA FoldsAccount ==
  ASSUME IInv, IInv', RInv, NEW t \in Test, NEW k \in Cleanups, Folds(t, k)
  PROVE  RInv' /\ [TR!TRNext]_(TR!trVars)
<1>1. /\ cur \in waited /\ cur \in all_exec_data /\ child[cur] # "none"
      /\ result[t] \notin {"none", "skipped"}
  <2>1. cur \in waited /\ cur \in all_exec_data
    BY DEF Folds, IInv, CurInv, RInv, Followed, Processing
  <2>2. child[<<t, k>>] # "none"
    BY <2>1 DEF Folds, IInv, WaitedInv, Ended, Cleanups, Routines
  <2> QED
    BY <2>1, <2>2 DEF Folds, IInv, ResultInv, Unstarted
<1>2. /\ k = "cleanup" => t \in WithCleanup /\ t \in needs_cleanup /\ child[<<t, "execenv">>] = "none"
      /\ k = "execenv" => t \in WithExecenv /\ t \notin needs_cleanup
  <2>1. ~Late
    BY DEF Folds, Late
  <2>2. k = "cleanup" => t \in needs_cleanup
    BY <2>1 DEF Folds, IInv, FlagsInv, Processing
  <2>3. k = "execenv" => t \notin needs_cleanup
    BY <1>1, <2>1 DEF Folds, IInv, FlagsInv
  <2>4. child[<<t, "execenv">>] # "none" => t \notin needs_cleanup
    BY <2>1 DEF IInv, FlagsInv
  <2> QED
    BY <1>1, <2>2, <2>3, <2>4 DEF Folds, RInv, Asked
<1>3. /\ result'[t] \notin {"none", "skipped"}
      /\ result' = result \/ (Good(result[t]) /\ result' = [result EXCEPT ![t] = "broken"])
      /\ \A u \in Test : u # t => result'[u] = result[u]
  <2>1. result \in [Test -> {"none", "passed", "skipped", "failed", "broken"}]
    BY DEF IInv, Types
  <2>2. CASE Good(result[t]) /\ child[cur] # "success"
    BY <2>1, <2>2 DEF Folds, FoldedResult
  <2>3. CASE ~(Good(result[t]) /\ child[cur] # "success")
    <3>1. result' = result
      BY <2>1, <2>3 DEF Folds, FoldedResult
    <3> QED
      BY <1>1, <3>1
  <2> QED
    BY <2>2, <2>3
<1>4. \A u \in Test : \A j \in Cleanups : Fin(u, j)' <=> Fin(u, j) \/ <<u, j>> = cur
  BY <1>1 DEF Fin, Folds, childVars
<1>5. ~Fin(t, k) /\ Fin(t, k)'
  BY <1>1, <1>4 DEF Fin, Folds
<1>6. t \notin reported
  BY <1>1, <1>5 DEF RInv, DeliveredOnce, Folds
<1>7. /\ k = "cleanup" /\ t \in needs_execenv_cleanup => pc' = "followup" /\ cur' = <<t, "execenv">>
      /\ ~(k = "cleanup" /\ t \in needs_execenv_cleanup) => pc' = "report" /\ cur' = Body(t)
  BY ChainMoves DEF Folds
<1>8. pc' \in {"followup", "report"} /\ ~Late /\ ~Late' /\ ~Processing'
  BY <1>7 DEF Folds, Late, Processing
<1>9. Followed'
  BY <1>1, <1>8 DEF RInv, Followed, Folds, childVars
<1>10. Asked'
  BY <1>7, <1>8 DEF RInv, Asked, Folds, childVars, Starting
<1>11. Chained'
  <2> SUFFICES ASSUME NEW u \in Test, result'[u] \notin {"none", "skipped"}
               PROVE  /\ u \in WithCleanup => u \in needs_cleanup' \/ Fin(u, "cleanup")'
                      /\ u \in WithExecenv => u \in needs_execenv_cleanup'
                                               \/ child'[<<u, "execenv">>] # "none"
    BY DEF Chained
  <2>1. result[u] \notin {"none", "skipped"}
    BY <1>1, <1>3
  <2>2. /\ u \in WithCleanup => u \in needs_cleanup \/ Fin(u, "cleanup")
        /\ u \in WithExecenv => u \in needs_execenv_cleanup \/ child[<<u, "execenv">>] # "none"
    BY <1>8, <2>1 DEF RInv, Chained
  <2>3. u \in needs_cleanup /\ u \notin needs_cleanup' => Fin(u, "cleanup")'
    BY <1>5 DEF Folds
  <2>4. Fin(u, "cleanup") => Fin(u, "cleanup")'
    BY <1>4 DEF Cleanups
  <2> QED
    BY <2>2, <2>3, <2>4 DEF Folds, childVars
<1>12. k = "execenv" /\ t \in WithCleanup => Fin(t, "cleanup")
  BY <1>1, <1>2, <1>8 DEF RInv, Chained
<1>13. ASSUME pc' = "report"
       PROVE  \A j \in Cleanups : Fin(t, j)' <=> j \in TR!Owed(t, result'[t])
  <2>1. \A j \in Cleanups : j \in TR!Owed(t, result'[t]) <=>
          (j = "cleanup" /\ t \in WithCleanup) \/ (j = "execenv" /\ t \in WithExecenv)
    BY <1>3 DEF TR!Owed, Cleanups
  <2>2. \A j \in Cleanups : Fin(t, j) => child[<<t, j>>] # "none"
    BY DEF Fin, IInv, WaitedInv, Ended, Cleanups, Routines
  <2>3. \A j \in Cleanups : Fin(t, j) => j \in TR!Owed(t, result'[t])
    BY <2>1, <2>2 DEF RInv, Asked, Cleanups
  <2>4. CASE k = "cleanup"
    <3>1. t \notin needs_execenv_cleanup
      BY <1>7, <1>13, <2>4
    <3>2. t \notin WithExecenv
      BY <1>1, <1>2, <1>8, <2>4, <3>1 DEF RInv, Chained
    <3> QED
      BY <1>2, <1>4, <1>5, <2>1, <2>3, <2>4, <3>2 DEF Folds, Cleanups
  <2>5. CASE k = "execenv"
    BY <1>2, <1>4, <1>5, <1>12, <2>1, <2>3, <2>5 DEF Folds, Cleanups
  <2> QED
    BY <2>4, <2>5 DEF Cleanups
<1>14. DeliveredOnce'
  <2>1. \A u \in reported' : \A j \in Cleanups : child'[<<u, j>>] # "none" => Fin(u, j)'
    BY <1>4 DEF RInv, DeliveredOnce, Folds, childVars, IInv, Types
  <2>2. ASSUME NEW u \in Test, Starting', cur'[1] = u
        PROVE  u \notin reported'
    BY <1>6, <1>7, <2>2 DEF Folds, Starting
  <2>3. ASSUME NEW u \in Test, pc' = "report", cur' = Body(u)
        PROVE  /\ u \notin reported'
               /\ \A j \in Cleanups : Fin(u, j)' <=> j \in TR!Owed(u, result'[u])
    <3>1. u = t
      BY <1>7, <2>3 DEF Body
    <3> QED
      BY <1>6, <1>13, <2>3, <3>1 DEF Folds
  <2> QED
    BY <2>1, <2>2, <2>3 DEF DeliveredOnce
<1>15. FinishedRoutines' = FinishedRoutines \union {<<t, k>>}
  <2>1. \A x \in Test \X Routines :
          x \in FinishedRoutines' <=> x \in FinishedRoutines \/ x = <<t, k>>
    <3> SUFFICES ASSUME NEW u \in Test, NEW j \in Routines
                 PROVE  <<u, j>> \in FinishedRoutines' <=>
                          <<u, j>> \in FinishedRoutines \/ <<u, j>> = <<t, k>>
      OBVIOUS
    <3>1. CASE j = "body"
      <4>1. <<u, j>> # <<t, k>> /\ (result'[u] # "none" <=> result[u] # "none")
        BY <1>1, <1>3, <3>1 DEF Cleanups
      <4> QED
        BY <3>1, <4>1 DEF FinishedRoutines
    <3>2. CASE j # "body"
      BY <1>1, <3>2 DEF FinishedRoutines, Folds, childVars
    <3> QED
      BY <3>1, <3>2
  <2>2. <<t, k>> \in Test \X Routines
    BY DEF Cleanups, Routines
  <2>3. FinishedRoutines \subseteq Test \X Routines /\ FinishedRoutines' \subseteq Test \X Routines
    BY DEF FinishedRoutines
  <2> QED
    BY <2>1, <2>2, <2>3
<1>16. /\ <<t, "body">> \in FinishedRoutines /\ <<t, k>> \notin FinishedRoutines
       /\ k = "execenv" /\ t \in WithCleanup => <<t, "cleanup">> \in FinishedRoutines
  BY <1>1, <1>5, <1>12 DEF FinishedRoutines, Fin, Cleanups, Routines
<1>17. k \in TR!Owed(t, result[t])
  BY <1>1, <1>2 DEF TR!Owed, Cleanups
<1>18. TR!AccountCleanup(t, k)
  <2>1. Good(result[t]) <=> TR!Good(result[t])
    BY DEF Good, TR!Good
  <2> QED
    BY <1>3, <1>6, <1>8, <1>15, <1>16, <1>17, <2>1 DEF TR!AccountCleanup, Late, Folds
<1> QED
  BY <1>9, <1>10, <1>11, <1>14, <1>18 DEF RInv, TR!TRNext, Cleanups

(* The two cleanups of a test.                                               *)
LEMMA CleanupsAccount ==
  ASSUME IInv, IInv', RInv, ProcessCleanup \/ ProcessExecenv
  PROVE  RInv' /\ [TR!TRNext]_(TR!trVars)
<1>1. /\ cur[1] \in Test /\ cur = <<cur[1], cur[2]>> /\ cur[2] \in Cleanups /\ pc = "process"
  BY Kinds DEF ProcessCleanup, ProcessExecenv, IInv, CurInv, Processing, Cleanups
<1>2. CASE ProcessCleanup
  <2>1. Folds(cur[1], "cleanup")
    BY <1>1, <1>2 DEF ProcessCleanup, Folds, NeedsCleanupReset, clientVars
  <2> QED
    BY <1>1, <2>1, FoldsAccount DEF Cleanups
<1>3. CASE ProcessExecenv
  <2>1. Folds(cur[1], "execenv")
    BY <1>1, <1>3 DEF ProcessExecenv, Folds, clientVars
  <2> QED
    BY <1>1, <2>1, FoldsAccount DEF Cleanups
<1> QED
  BY <1>2, <1>3

(* Every step keeps the invariant and maps to a step of TestRun or to none.  *)
LEMMA NextRefines ==
  ASSUME IInv, IInv', RInv, [Next]_vars
  PROVE  RInv' /\ [TR!TRNext]_(TR!trVars)
<1>1. ASSUME Hidden PROVE RInv' /\ [TR!TRNext]_(TR!trVars)
  BY <1>1, HiddenRInv, HiddenRefines
<1>2. CASE Fork
  BY <1>1, <1>2, ForksHidden, ForkFollowed
<1>3. CASE WaitAnyStep
  BY <1>1, <1>3, CallsHidden, ReapsHidden, BodyAccounts, CleanupsAccount, ReportDelivers
     DEF WaitAnyStep
<1>4. CASE ListStep
  BY <1>1, <1>4, OthersHidden, ReapsHidden DEF ListStep
<1>5. CASE DestructorStep
  BY <1>1, <1>5, CallsHidden, CollectsHidden, OthersHidden, ReapsHidden, ClosesHidden
     DEF DestructorStep
<1>6. CASE Scheduler
  BY <1>1, <1>2, <1>3, <1>4, <1>5, <1>6, CallsHidden, ClosesHidden DEF Scheduler
<1>7. CASE Environment
  BY <1>1, <1>7, OthersHidden, CallsHidden, OutsideHidden DEF Environment
<1>8. CASE UNCHANGED vars
  BY <1>1, <1>8, OthersHidden
<1> QED
  BY <1>6, <1>7, <1>8 DEF Next

(* A new scheduler is a new run of tests.                                    *)
LEMMA InitRefines == Init => TR!TRInit
<1> SUFFICES ASSUME Init PROVE TR!TRInit
  OBVIOUS
<1>1. FinishedRoutines = {}
  BY DEF Init, FinishedRoutines
<1> QED
  BY <1>1 DEF Init, TR!TRInit

(* The scheduler implements TestRun for any tests, programs and bounds: the  *)
(* routines of a test are accounted for in order and once, each folded into  *)
(* its verdict, which is delivered once, when the test owes nothing more;    *)
(* and nothing is accounted for or delivered once the scheduler unwinds.     *)
THEOREM SchedulerRefines == Spec => ImplementsTestRun
<1>1. Spec => []IInv
  BY InitIInv, NextIInv, PTL DEF Spec
<1>2. Init => RInv
  BY InitRInv
<1>3. IInv /\ IInv' /\ RInv /\ [Next]_vars => RInv' /\ [TR!TRNext]_(TR!trVars)
  BY NextRefines
<1> QED
  BY <1>1, <1>2, <1>3, InitRefines, PTL DEF Spec, ImplementsTestRun, TR!TRSpec
=============================================================================
