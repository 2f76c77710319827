------------------------------ MODULE Isolation ------------------------------
(* What the child processes of a test do between fork(2) and execv(2): they  *)
(* isolate themselves (utils/process/isolation.cpp), check the requirements  *)
(* (engine/scheduler.cpp), and enter the test's execution environment, which *)
(* is the host or a jail (engine/execenv, os/freebsd).  The body, the        *)
(* cleanup routine and the removal of the jail are three such children.      *)
(* System calls and jail(8) are external; any of them may fail, and a child  *)
(* may time out at any point.                                                *)
EXTENDS Integers, Sequences, FiniteSets

CONSTANTS
  Cases,       \* test cases
  Defs,        \* what they may be: functions from test cases to
               \* [path, case, iface, jail, unprivileged, cleanup, fake, unmet]
  User,        \* the unprivileged user: [uid, gid]
  Special,     \* characters of names that are not alphanumeric
  Limit,       \* length of the name of a jail, without its prefix
  CoreLimit,   \* the hard limit on the size of core files
  MaxFaults    \* bound: system calls that fail, and timeouts

(* A test case with a faked result stands for a list that could not be had,  *)
(* and has no metadata.                                                      *)
ASSUME IsolationAssumption ==
  /\ MaxFaults \in Nat /\ Limit \in Nat
  /\ \A d \in Defs : \A t \in Cases :
       /\ d[t].path \in Seq(STRING) /\ d[t].case \in Seq(STRING)
       /\ d[t].fake => ~d[t].cleanup

VARIABLES
  def,         \* the metadata of each test case, one of Defs
  is_root,     \* the program runs as root
  stage,       \* of each test: new, body, cleanup, execenv or done
  step,        \* what its child does next, running, or ended
  proc,        \* the attributes of that child: [uid, gid, groups, cwd, env, jail,
               \* out (where it writes), held (signals not at their default), core]
  owner,       \* who owns the work directory of the test
  ended,      \* how its last child ended
  cookie,      \* tests with a skipped.txt
  good_tests,        \* tests whose result is good so far
  jails,       \* the jails that exist: name -> test that created it
  creating,    \* tests whose "jail -c" is at work
  faults

isolation_vars ==
  <<def, is_root, stage, step, proc, owner, ended, cookie, good_tests, jails, creating, faults>>
machine == <<jails, creating>>

Self == IF is_root THEN [uid |-> 0, gid |-> 0] ELSE [uid |-> 5, gid |-> 5]
Locale == {"LANG", "LC_ALL"}
Inherited == [uid |-> Self.uid, gid |-> Self.gid, groups |-> {Self.gid, 7},
              cwd |-> "elsewhere", jail |-> <<>>,
              env |-> [v \in Locale \cup {"HOME", "TERM"} |-> "inherited"],
              out |-> "inherited", held |-> {"INT", "ALRM", "THR"},
              core |-> [soft |-> 0, hard |-> CoreLimit]]

IsolationInit ==
  /\ def \in Defs /\ is_root \in BOOLEAN
  /\ stage = [t \in Cases |-> "new"] /\ step = [t \in Cases |-> "ended"]
  /\ proc = [t \in Cases |-> Inherited] /\ owner = [t \in Cases |-> Self.uid]
  /\ ended = [t \in Cases |-> "none"] /\ cookie = {} /\ good_tests = {}
  /\ jails = [n \in {} |-> n] /\ creating = {} /\ faults = 0

exit_isolation_failure == "exit 124"
exit_skipped == "exit 84"
Success == "exit 0"
Failure == "exit 1"
Aborted == "SIGABRT"
Killed == "SIGKILL"

Fault == faults < MaxFaults /\ faults' = faults + 1
At(t, s) == stage[t] \in {"body", "cleanup", "execenv"} /\ step[t] = s

Exit(t, how) ==
  /\ ended' = [ended EXCEPT ![t] = how] /\ step' = [step EXCEPT ![t] = "ended"]
  /\ UNCHANGED <<stage, good_tests>>

GoOn(t, s) == step' = [step EXCEPT ![t] = s] /\ UNCHANGED <<stage, ended, good_tests>>
Goto(t, s) == GoOn(t, s) /\ UNCHANGED faults

(* fork_files() and fork_capture(): what the hook of a child throws ends it. *)
HookThrows(t) == Exit(t, Aborted)

(* spawn() and spawn_followup(): a child starts with what it inherits.       *)
Spawn(t, next) ==
  /\ stage' = [stage EXCEPT ![t] = next]
  /\ step' = [step EXCEPT ![t] = IF next = "done" THEN "ended" ELSE "redirect"]
  /\ proc' = [proc EXCEPT ![t] = Inherited]
-----------------------------------------------------------------------------
(* open_for_append() and safe_dup(): the files are those of the test for all *)
(* of its children, and what the earlier ones wrote stays.                   *)
Redirect(t) ==
  /\ At(t, "redirect")
  /\ \/ proc' = [proc EXCEPT ![t].out = t] /\ Goto(t, "isolate_path")
     \/ Fault /\ Exit(t, Aborted) /\ UNCHANGED proc
  /\ UNCHANGED <<owner, cookie, machine>>

(* The child gives up its privileges if it has any.                          *)
Drops(t) == is_root /\ def[t].unprivileged

(* Of the control and of the work directory.                                 *)
IsolatePath(t) ==
  /\ At(t, "isolate_path")
  /\ \/ /\ owner' = [owner EXCEPT ![t] = IF Drops(t) THEN User.uid ELSE @]
        /\ Goto(t, "chdir")
     \/ Drops(t) /\ Fault /\ Exit(t, exit_isolation_failure) /\ UNCHANGED owner
  /\ UNCHANGED <<proc, cookie, machine>>

Chdir(t) ==
  /\ At(t, "chdir")
  /\ \/ proc' = [proc EXCEPT ![t].cwd = "work"] /\ Goto(t, "signals")
     \/ Fault /\ Exit(t, exit_isolation_failure) /\ UNCHANGED proc
  /\ UNCHANGED <<owner, cookie, machine>>

(* Some signals are refused by sigaction(2); the others are still reset.     *)
reset(held, signo, refused) == IF signo \in refused THEN held ELSE held \ {signo}
reset_all(held, refused) == {s \in held : s \in reset(held, s, refused)}

unlimit_core_size(core) == IF core.hard = 0 THEN core ELSE [core EXCEPT !.soft = core.hard]

(* What fails here is only logged; libthr never lets go of SIGTHR.           *)
ResetLimitsAndSignals(t) ==
  /\ At(t, "signals")
  /\ \E refused \in {{"THR"}, {"THR", "ALRM"}} :
       /\ proc' = [proc EXCEPT ![t].core = unlimit_core_size(@), ![t].held = reset_all(@, refused)]
       /\ IF refused = {"THR"} THEN UNCHANGED faults ELSE Fault
  /\ GoOn(t, "environment")
  /\ UNCHANGED <<owner, cookie, machine>>

setenv(env, name, val) == [v \in DOMAIN env \cup {name} |-> IF v = name THEN val ELSE env[v]]
unsetenv(env, name) == [v \in DOMAIN env \ {name} |-> env[v]]

prepare_environment(env) ==
  LET bare == unsetenv(unsetenv(env, "LANG"), "LC_ALL")
  IN setenv(setenv(setenv(bare, "HOME", "work"), "TMPDIR", "work"), "TZ", "UTC")

PrepareEnvironment(t) ==
  /\ At(t, "environment")
  /\ \/ proc' = [proc EXCEPT ![t].env = prepare_environment(@)] /\ Goto(t, "user")
     \/ Fault /\ HookThrows(t) /\ UNCHANGED proc
  /\ UNCHANGED <<owner, cookie, machine>>

(* setgid(2), setgroups(2) and setuid(2), each only if there is a change.    *)
SwitchUser(t) ==
  /\ At(t, "user")
  /\ LET new_group == User.gid # proc[t].gid
     IN IF ~Drops(t) THEN Goto(t, "hook") /\ UNCHANGED proc
        ELSE \/ /\ proc' = [proc EXCEPT ![t].gid = User.gid, ![t].uid = User.uid,
                                        ![t].groups = IF new_group THEN {User.gid} ELSE @]
                /\ Goto(t, "hook")
             \/ Fault /\ Exit(t, exit_isolation_failure) /\ UNCHANGED proc
  /\ UNCHANGED <<owner, cookie, machine>>
-----------------------------------------------------------------------------
(* jail::make_name(): what is not alphanumeric becomes "_", and a name that  *)
(* is too long loses its beginning.                                          *)
make_name(t) ==
  LET name == def[t].path \o <<"_">> \o def[t].case
      plain == [i \in DOMAIN name |-> IF name[i] \in Special THEN "_" ELSE name[i]]
  IN <<"kyua">> \o SubSeq(plain, IF Len(plain) > Limit THEN Len(plain) - Limit + 1 ELSE 1, Len(plain))

has_execenv(t) == def[t].jail

(* googletest_interface does not ask for the execution environment.          *)
UsesExecenv(t) == has_execenv(t) /\ def[t].iface # "googletest"

(* What is done for the body, init() and exec() of the environment, and for  *)
(* the cleanup routine, exec() alone: the jail is there already.             *)
exec_test(t) == IF UsesExecenv(t) THEN "create" ELSE "exec"
exec_cleanup(t) == IF has_execenv(t) THEN "attach" ELSE "exec"

(* run_test_program: the requirements are checked by the isolated child.     *)
RunTestProgram(t) ==
  /\ At(t, "hook") /\ stage[t] = "body"
  /\ CASE def[t].fake -> Exit(t, Success) /\ UNCHANGED <<cookie, faults>>
       [] ~def[t].fake /\ def[t].unmet ->
          \/ cookie' = cookie \cup {t} /\ Exit(t, exit_skipped) /\ UNCHANGED faults
          \/ Fault /\ HookThrows(t) /\ UNCHANGED cookie
       [] OTHER -> Goto(t, exec_test(t)) /\ UNCHANGED cookie
  /\ UNCHANGED <<proc, owner, machine>>

RunTestCleanup(t) ==
  /\ At(t, "hook") /\ stage[t] = "cleanup"
  /\ Goto(t, exec_cleanup(t))
  /\ UNCHANGED <<proc, owner, cookie, machine>>
-----------------------------------------------------------------------------
(* jail::create() runs jail(8) as a child in a session of its own.           *)
CreateJail(t) ==
  /\ At(t, "create")
  /\ creating' = creating \cup {t} /\ Goto(t, "creating")
  /\ UNCHANGED <<proc, owner, cookie, jails>>

(* "jail -c" ends.  Whoever waits for it may be gone.                        *)
JailCreates(t) ==
  /\ t \in creating
  /\ creating' = creating \ {t}
  /\ LET name == make_name(t)
         waits == At(t, "creating")
     IN \/ /\ name \notin DOMAIN jails /\ is_root /\ ~Drops(t)
           /\ jails' = [n \in DOMAIN jails \cup {name} |-> IF n = name THEN t ELSE jails[n]]
           /\ IF waits THEN Goto(t, "attach")
              ELSE UNCHANGED <<stage, step, ended, good_tests, faults>>
        \/ /\ name \in DOMAIN jails \/ ~is_root \/ Drops(t)
           /\ IF waits THEN Exit(t, Failure) ELSE UNCHANGED <<stage, step, ended, good_tests>>
           /\ UNCHANGED <<jails, faults>>
  /\ UNCHANGED <<proc, owner, cookie>>

(* Defect: the working directory is left to the jail.                        *)
AttachToJailOnly(t) ==
  /\ At(t, "attach")
  /\ IF make_name(t) \in DOMAIN jails
     THEN /\ proc' = [proc EXCEPT ![t].jail = make_name(t), ![t].cwd = "root of the jail"]
          /\ Goto(t, "exec")
     ELSE Exit(t, Failure) /\ UNCHANGED <<proc, faults>>
  /\ UNCHANGED <<owner, cookie, machine>>

(* jail::exec() up to the second chdir(2).                                   *)
AttachToJail(t) ==
  /\ At(t, "attach")
  /\ IF make_name(t) \in DOMAIN jails
     THEN /\ proc' = [proc EXCEPT ![t].jail = make_name(t), ![t].cwd = "root of the jail"]
          /\ Goto(t, "chdir back")
     ELSE Exit(t, Failure) /\ UNCHANGED <<proc, faults>>
  /\ UNCHANGED <<owner, cookie, machine>>

ChdirBack(t) ==
  /\ At(t, "chdir back")
  /\ \/ proc' = [proc EXCEPT ![t].cwd = "work"] /\ Goto(t, "exec")
     \/ Fault /\ Exit(t, Failure) /\ UNCHANGED proc
  /\ UNCHANGED <<owner, cookie, machine>>

(* jail::remove(): all who live in the jail die.                             *)
RemoveJail(t) ==
  /\ LET name == make_name(t)
         inside == {u \in Cases : proc[u].jail = name /\ step[u] # "ended"}
     IN \/ /\ name \in DOMAIN jails /\ is_root /\ ~Drops(t)
           /\ jails' = [n \in DOMAIN jails \ {name} |-> jails[n]]
           /\ ended' = [u \in Cases |-> IF u = t THEN Success
                                         ELSE IF u \in inside THEN Killed ELSE ended[u]]
           /\ step' = [u \in Cases |-> IF u \in inside \cup {t} THEN "ended" ELSE step[u]]
           /\ UNCHANGED <<stage, good_tests, faults>>
        \/ /\ name \notin DOMAIN jails \/ ~is_root \/ Drops(t)
           /\ Exit(t, Failure) /\ UNCHANGED <<jails, faults>>
        \/ Fault /\ Exit(t, Failure) /\ UNCHANGED jails
  /\ UNCHANGED <<proc, owner, cookie, creating>>

RunExecenvCleanup(t) == At(t, "hook") /\ stage[t] = "execenv" /\ RemoveJail(t)
-----------------------------------------------------------------------------
(* process::exec(): an error has nowhere to go.                              *)
Exec(t) ==
  /\ At(t, "exec")
  /\ \/ Goto(t, "running")
     \/ Fault /\ Exit(t, Aborted)
  /\ UNCHANGED <<proc, owner, cookie, machine>>

(* The program may exit as if it had been skipped.                           *)
ProgramEnds(t) ==
  /\ At(t, "running")
  /\ \E how \in {Success, Failure, exit_skipped} : Exit(t, how)
  /\ UNCHANGED <<proc, owner, cookie, machine, faults>>

(* The deadline_killer kills the process group of the child.                 *)
TimesOut(t) ==
  /\ stage[t] \in {"body", "cleanup", "execenv"} /\ step[t] # "ended"
  /\ Fault /\ Exit(t, Killed)
  /\ UNCHANGED <<proc, owner, cookie, machine>>

(* Defect: the exit code alone tells that the requirements were not met.     *)
SkippedByCode(t) == ended[t] = exit_skipped

(* wait_any(): the child never ran the program only if the cookie exists.    *)
Skipped(t) == ended[t] = exit_skipped /\ t \in cookie

(* The result, and the child that follows.  A body that exits with success   *)
(* stands for one with a good result; faked results report a broken list.    *)
WaitAny(t) ==
  /\ step[t] = "ended"
  /\ LET skipped == stage[t] = "body" /\ Skipped(t)
     IN \/ stage[t] = "new" /\ Spawn(t, "body") /\ good_tests' = good_tests
        \/ /\ stage[t] = "body"
           /\ Spawn(t, CASE ~skipped /\ def[t].cleanup -> "cleanup"
                         [] ~skipped /\ ~def[t].cleanup /\ has_execenv(t) -> "execenv"
                         [] OTHER -> "done")
           /\ good_tests' = IF skipped \/ (ended[t] = Success /\ ~def[t].fake) THEN good_tests \cup {t} ELSE good_tests
        \/ /\ stage[t] \in {"cleanup", "execenv"}
           /\ Spawn(t, IF stage[t] = "cleanup" /\ has_execenv(t) THEN "execenv" ELSE "done")
           /\ good_tests' = IF ended[t] = Success THEN good_tests ELSE good_tests \ {t}
  /\ UNCHANGED <<owner, ended, cookie, machine, faults>>

IsolationNext ==
  /\ UNCHANGED <<def, is_root>>
  /\ \E t \in Cases :
       \/ Redirect(t) \/ IsolatePath(t) \/ Chdir(t) \/ ResetLimitsAndSignals(t)
       \/ PrepareEnvironment(t) \/ SwitchUser(t)
       \/ RunTestProgram(t) \/ RunTestCleanup(t)
       \/ CreateJail(t) \/ JailCreates(t) \/ AttachToJail(t) \/ ChdirBack(t)
       \/ RunExecenvCleanup(t) \/ Exec(t) \/ ProgramEnds(t) \/ TimesOut(t) \/ WaitAny(t)

IsolationSpec == IsolationInit /\ [][IsolationNext]_isolation_vars
-----------------------------------------------------------------------------
Clashes(t) == \E u \in Cases \ {t} : def[u].jail /\ make_name(u) = make_name(t)

(* Whatever fails on the way, a test program runs as the right user in a     *)
(* work directory that it owns, with a clean environment, signals at their   *)
(* defaults unless one was refused, and its output in the files of its own   *)
(* test, only if its requirements are met (or the child that was to check    *)
(* them failed, and this is the cleanup routine that follows it); and if it  *)
(* asked for a jail, then in its own, which stays while it runs, unless the  *)
(* name of its jail is that of another test.  (googletest programs are not   *)
(* put into jails: see UsesExecenv.)                                         *)
RunsIsolated ==
  \A t \in Cases : At(t, "running") =>
    LET who == IF Drops(t) THEN User ELSE Self
    IN /\ proc[t].uid = who.uid /\ proc[t].gid = who.gid /\ owner[t] = who.uid
       /\ proc[t].cwd = "work" /\ proc[t].out = t /\ proc[t].core.soft = CoreLimit
       /\ DOMAIN proc[t].env \cap Locale = {} /\ proc[t].env["HOME"] = "work"
       /\ proc[t].held \subseteq {"THR"} \/ faults > 0
       /\ ~def[t].fake /\ (def[t].unmet => stage[t] = "cleanup" /\ faults > 0)
       /\ UsesExecenv(t) =>
            /\ proc[t].jail = make_name(t) /\ make_name(t) \in DOMAIN jails
            /\ Clashes(t) \/ jails[make_name(t)] = t

(* A jail that is left behind once all tests are through never hides behind  *)
(* good results, although "jail -c" may outlive the test that started it.    *)
NoJailForgotten ==
  (\A t \in Cases : stage[t] = "done") /\ creating = {} =>
    \A name \in DOMAIN jails : \E t \in Cases : make_name(t) = name /\ t \notin good_tests
=============================================================================
