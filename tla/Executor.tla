------------------------------ MODULE Executor ------------------------------
(***************************************************************************)
(* utils/process/executor.cpp: subprocesses that run in control            *)
(* directories of their own, each with a deadline, followup subprocesses   *)
(* that run in the directory of one that has exited, and the clean up of   *)
(* whatever is left.                                                       *)
(*                                                                         *)
(* The client is any caller that keeps to the interface: it may hold exit  *)
(* handles for as long as it likes, and once it starts tearing down it     *)
(* only runs followups, waits for those, and releases its handles.  The    *)
(* process table and the interrupts are those of ProcessTable.             *)
(***************************************************************************)
EXTENDS ProcessTable

CONSTANTS
  NoPid,          \* not a PID
  MaxExecs,       \* bound: subprocesses started
  MaxDirs,        \* bound: control directories created
  MaxForkFails,   \* bound: fork(2) failures
  MaxRmFails      \* bound: rm_r() failures

ASSUME NoPidAssumption == NoPid \notin Pid

ASSUME ExecutorBounds ==
  /\ MaxExecs \in Nat /\ MaxDirs \in Nat
  /\ MaxForkFails \in Nat /\ MaxRmFails \in Nat

Exec == 1..MaxExecs   \* exec_handle objects, in the order of their creation
Dir == 1..MaxDirs     \* control directories, named after last_subprocess

VARIABLES
  nexec,             \* exec_handle objects created so far
  last_subprocess,
  epid, edir,        \* impl::pid and impl::control_directory of each exec
  phase,             \* the life of each exec, see Phases
  timed_out,         \* the execs in the map whose deadline_killer has fired
  all_exec_handles,  \* PID |-> exec, or 0
  stale_exec_handles,
  lost,              \* history: the execs whose entry another's cleanup erased
  state_owners,      \* the reference count that the execs of a directory share
  disk,              \* the control directories that exist
  pc, base, cur,     \* the call in progress, and the handle or PID it is about
  tearing_down,      \* the client only finishes what it has started
  fork_fails, rm_fails

execVars == <<nexec, last_subprocess, epid, edir, phase, timed_out>>
mapVars == <<all_exec_handles, stale_exec_handles, lost>>
dirVars == <<state_owners, disk>>
callVars == <<pc, base, cur>>
failVars == <<fork_fails, rm_fails>>
exVars == <<execVars, mapVars, dirVars, callVars, tearing_down, failVars>>
vars == <<ptVars, exVars>>

\* "running": started and not waited for; "exited": its exit_handle is held;
\* "failing": the explicit cleanup of that handle threw; "abandoned": so did the
\* implicit one; "cleaned": released; "killed": by the executor's own cleanup.
Phases == {"none", "running", "exited", "failing", "abandoned", "cleaned",
           "killed"}

NoExec == 0

Init ==
  /\ PTInit
  /\ nexec = 0
  /\ last_subprocess = 0
  /\ epid = [i \in Exec |-> NoPid]
  /\ edir = [i \in Exec |-> 0]
  /\ phase = [i \in Exec |-> "none"]
  /\ timed_out = {}
  /\ all_exec_handles = [p \in Pid |-> NoExec]
  /\ stale_exec_handles = {} /\ lost = {}
  /\ state_owners = [d \in Dir |-> 0]
  /\ disk = {}
  /\ pc = "idle" /\ base = NoExec /\ cur = NoPid
  /\ tearing_down = FALSE
  /\ fork_fails = 0 /\ rm_fails = 0

-----------------------------------------------------------------------------
(* spawn() and spawn_followup(). *)

\* check_interrupt() at the head of every call.
CheckThrows ==
  /\ pc = "idle"
  /\ RaiseInterrupt
  /\ UNCHANGED exVars

\* spawn_pre(): creates a control directory.
SpawnPre ==
  /\ pc = "idle" /\ ~tearing_down /\ ~fired_signal
  /\ nexec < MaxExecs /\ last_subprocess < MaxDirs
  /\ last_subprocess' = last_subprocess + 1
  /\ disk' = disk \union {last_subprocess + 1}
  /\ pc' = "fork" /\ base' = NoExec
  /\ UNCHANGED <<ptVars, nexec, epid, edir, phase, timed_out, mapVars,
                 state_owners, cur, tearing_down, failVars>>

\* spawn_followup_pre(): will run in the directory of the exit handle b.
SpawnFollowupPre(b) ==
  /\ pc = "idle" /\ ~fired_signal
  /\ nexec < MaxExecs /\ phase[b] = "exited"
  /\ pc' = "fork" /\ base' = b
  /\ UNCHANGED <<ptVars, execVars, mapVars, dirVars, cur, tearing_down,
                 failVars>>

ForkFails ==
  /\ pc = "fork" /\ fork_fails < MaxForkFails
  /\ fork_fails' = fork_fails + 1
  /\ pc' = "idle" /\ base' = NoExec
  /\ UNCHANGED <<ptVars, execVars, mapVars, dirVars, cur, tearing_down,
                 rm_fails>>

\* The client holds the exit handle of i.
Held(i) == phase[i] \in {"exited", "failing"}

WorkDir == IF base = NoExec THEN last_subprocess ELSE edir[base]

\* exec_handle::impl::impl(): a fresh counter, or the one of the base, plus one.
OwnersAfterSpawn(d) == IF base = NoExec THEN 1 ELSE state_owners[d] + 1

HandlesAfterSpawn(p, i) == [all_exec_handles EXCEPT ![p] = i]

\* fork_files() and spawn_post() or spawn_followup_post().  An entry left under
\* the same PID moves to stale_exec_handles.
SpawnPost(p) ==
  LET i == nexec + 1 IN
  /\ pc = "fork"
  /\ ForkChild(p)
  /\ nexec' = i
  /\ epid' = [epid EXCEPT ![i] = p]
  /\ edir' = [edir EXCEPT ![i] = WorkDir]
  /\ phase' = [phase EXCEPT ![i] = "running"]
  /\ state_owners' = [state_owners EXCEPT ![WorkDir] = OwnersAfterSpawn(WorkDir)]
  /\ all_exec_handles' = HandlesAfterSpawn(p, i)
  /\ stale_exec_handles' =
       stale_exec_handles \union ({all_exec_handles[p]} \ {NoExec})
  /\ pc' = "idle" /\ base' = NoExec
  /\ UNCHANGED <<last_subprocess, timed_out, lost, disk, cur, tearing_down,
                 failVars>>

-----------------------------------------------------------------------------
(* wait() and wait_any(). *)

\* While the client tears down it only waits for subprocesses it has started and
\* for which it has no exit handle yet.
MayReap(p) ==
  tearing_down => \E i \in Exec : all_exec_handles[p] = i /\ phase[i] = "running"

WaitEnter ==
  /\ pc = "idle" /\ ~fired_signal
  /\ pc' = "wait"
  /\ UNCHANGED <<ptVars, execVars, mapVars, dirVars, base, cur, tearing_down,
                 failVars>>

\* The system call returns the PID of a dead child.
WaitReap(p) ==
  /\ pc = "wait" /\ MayReap(p)
  /\ ReapChild(p)
  /\ pc' = "waited" /\ cur' = p
  /\ UNCHANGED <<execVars, mapVars, dirVars, base, tearing_down, failVars>>

\* The system call fails: there is nothing to wait for.
WaitFails ==
  /\ pc = "wait" /\ \A p \in Pid : ~(IsChild(p) /\ MayReap(p))
  /\ pc' = "idle"
  /\ UNCHANGED <<ptVars, execVars, mapVars, dirVars, base, cur, tearing_down,
                 failVars>>

\* remove_pid_to_kill() and post_wait(): kills what is left of the process group,
\* unprograms the timer, whose late callback would only do the same, and hands out
\* the exit handle.  That it has no status if the timer fired is left to the
\* Scheduler.
PostWait ==
  LET i == all_exec_handles[cur] IN
  /\ pc = "waited" /\ i # NoExec
  /\ pids_to_kill' = pids_to_kill \ {cur}
  /\ TerminateGroups({cur})
  /\ timed_out' = timed_out \ {i}
  /\ phase' = [phase EXCEPT ![i] = "exited"]
  /\ pc' = "idle" /\ cur' = NoPid
  /\ UNCHANGED <<fired_signal, signals, foreigns, nexec, last_subprocess, epid,
                 edir, mapVars, dirVars, base, tearing_down, failVars>>

\* post_wait() dereferences the end of all_exec_handles.
PostWaitUnknown ==
  /\ pc = "waited" /\ all_exec_handles[cur] = NoExec
  /\ pc' = "crashed"
  /\ UNCHANGED <<ptVars, execVars, mapVars, dirVars, base, cur, tearing_down,
                 failVars>>

\* deadline_killer::callback(), from the SIGALRM handler.
DeadlineFires(i) ==
  /\ phase[i] \in {"running", "killed"} /\ i \notin timed_out
  /\ pc \notin {"done", "crashed"}
  /\ timed_out' = timed_out \union {i}
  /\ TerminateGroups({epid[i]})
  /\ UNCHANGED <<pids_to_kill, fired_signal, signals, foreigns, nexec,
                 last_subprocess, epid, edir, phase, mapVars, dirVars, callVars,
                 tearing_down, failVars>>

-----------------------------------------------------------------------------
(* exit_handle::cleanup(), explicit or from the destructor. *)

\* The last owner removes the directory.
LastOwner(i) == state_owners[edir[i]] = 1

\* Defect: any owner removes the directory.
DiskAfterCleanupAlways(i) == disk \ {edir[i]}

DiskAfterCleanup(i) == IF LastOwner(i) THEN disk \ {edir[i]} ELSE disk

\* The entry under the PID goes, whatever it is by now.
HandlesAfterCleanup(i) == [all_exec_handles EXCEPT ![epid[i]] = NoExec]

ExitCleanup(i) ==
  /\ pc = "idle" /\ Held(i)
  /\ disk' = DiskAfterCleanup(i)
  /\ state_owners' = [state_owners EXCEPT ![edir[i]] = @ - 1]
  /\ all_exec_handles' = HandlesAfterCleanup(i)
  /\ lost' = lost \union ({all_exec_handles[epid[i]]} \ {NoExec, i})
  /\ phase' = [phase EXCEPT ![i] = "cleaned"]
  /\ UNCHANGED <<ptVars, nexec, last_subprocess, epid, edir, timed_out,
                 stale_exec_handles, callVars, tearing_down, failVars>>

\* rm_r() throws: the destructor tries once more and then gives up.
ExitCleanupFails(i) ==
  /\ pc = "idle" /\ Held(i) /\ LastOwner(i)
  /\ rm_fails < MaxRmFails
  /\ rm_fails' = rm_fails + 1
  /\ phase' = [phase EXCEPT ![i] =
                 IF @ = "exited" THEN "failing" ELSE "abandoned"]
  /\ UNCHANGED <<ptVars, nexec, last_subprocess, epid, edir, timed_out, mapVars,
                 dirVars, callVars, tearing_down, fork_fails>>

-----------------------------------------------------------------------------
(* Tearing down. *)

TearDown ==
  /\ pc = "idle" /\ ~tearing_down
  /\ tearing_down' = TRUE
  /\ UNCHANGED <<ptVars, execVars, mapVars, dirVars, callVars, failVars>>

\* reap(): an exit handle without a wait, whether the process is dead or not.  Its
\* deadline is unprogrammed, which runs the callback if it is late.
Reap(p) ==
  LET i == all_exec_handles[p] IN
  /\ pc = "idle" /\ tearing_down
  /\ i # NoExec /\ phase[i] = "running"
  /\ UNCHANGED <<proc, stray>> \/ (i \notin timed_out /\ TerminateGroups({p}))
  /\ timed_out' = timed_out \ {i}
  /\ phase' = [phase EXCEPT ![i] = "exited"]
  /\ UNCHANGED <<pids_to_kill, fired_signal, signals, foreigns, nexec,
                 last_subprocess, epid, edir, mapVars, dirVars, callVars,
                 tearing_down, failVars>>

\* executor_handle::cleanup() starts once no exit handle is held.
CleanupEnter ==
  /\ pc = "idle" /\ tearing_down
  /\ \A i \in Exec : ~Held(i)
  /\ pc' = "cleanup"
  /\ UNCHANGED <<ptVars, execVars, mapVars, dirVars, base, cur, tearing_down,
                 failVars>>

\* rm_r(d) in executor_handle::cleanup(), where a failure is only logged.
RemoveDir(d) ==
  \/ disk' = disk \ {d} /\ UNCHANGED rm_fails
  \/ rm_fails < MaxRmFails /\ rm_fails' = rm_fails + 1 /\ UNCHANGED disk

\* The loop over all_exec_handles: kill, wait (which blocks until the process is
\* dead and does not unregister its PID) and remove the directory.
CleanupHandle(p) ==
  LET i == all_exec_handles[p] IN
  /\ pc = "cleanup" /\ i # NoExec
  /\ Terminated({p})[p] # "running"
  /\ proc' = [Terminated({p}) EXCEPT ![p] = IF @ = "zombie" THEN "free" ELSE @]
  /\ stray' = (stray \/ Strays({p}))
  /\ RemoveDir(edir[i])
  /\ phase' = [phase EXCEPT ![i] = "killed"]
  /\ all_exec_handles' = [all_exec_handles EXCEPT ![p] = NoExec]
  /\ UNCHANGED <<pids_to_kill, fired_signal, signals, foreigns, nexec,
                 last_subprocess, epid, edir, timed_out, stale_exec_handles,
                 lost, state_owners, callVars, tearing_down, fork_fails>>

\* The loop over stale_exec_handles.
CleanupStale(i) ==
  /\ pc = "cleanup" /\ i \in stale_exec_handles
  /\ \A p \in Pid : all_exec_handles[p] = NoExec
  /\ RemoveDir(edir[i])
  /\ stale_exec_handles' = stale_exec_handles \ {i}
  /\ UNCHANGED <<ptVars, execVars, all_exec_handles, lost, state_owners,
                 callVars, tearing_down, fork_fails>>

\* rmdir of the root directory, and the interrupt handlers are uninstalled.
CleanupFinish ==
  /\ pc = "cleanup" /\ stale_exec_handles = {}
  /\ \A p \in Pid : all_exec_handles[p] = NoExec
  /\ pc' = "done"
  /\ fired_signal' = FALSE
  /\ UNCHANGED <<proc, pids_to_kill, signals, foreigns, stray, execVars,
                 mapVars, dirVars, base, cur, tearing_down, failVars>>

-----------------------------------------------------------------------------
Signal == pc \notin {"done", "crashed"} /\ Interrupt /\ UNCHANGED exVars

Process == pc \notin {"done", "crashed"} /\ Environment /\ UNCHANGED exVars

Spawn ==
  \/ SpawnPre \/ (\E b \in Exec : SpawnFollowupPre(b))
  \/ ForkFails \/ (\E p \in Pid : SpawnPost(p))

Wait == WaitEnter \/ (\E p \in Pid : WaitReap(p)) \/ WaitFails
        \/ PostWait \/ PostWaitUnknown

Cleanup ==
  \/ CleanupEnter \/ (\E p \in Pid : CleanupHandle(p))
  \/ (\E i \in Exec : CleanupStale(i)) \/ CleanupFinish

Next ==
  \/ CheckThrows \/ Spawn \/ Wait
  \/ \E i \in Exec : DeadlineFires(i) \/ ExitCleanup(i) \/ ExitCleanupFails(i)
  \/ TearDown \/ (\E p \in Pid : Reap(p)) \/ Cleanup
  \/ Signal \/ Process

Spec == Init /\ [][Next]_vars

\* A wait goes on once a child is dead, and every deadline comes as long as its
\* exec_handle is in the map.  No fairness for the subprocesses: a test may hang.
Fairness ==
  /\ WF_vars(Wait)
  /\ \A i \in Exec : WF_vars(i \notin lost /\ DeadlineFires(i))
  /\ WF_vars(Cleanup)

LiveSpec == Spec /\ Fairness

-----------------------------------------------------------------------------
(* Properties. *)

TypeOK ==
  /\ PTTypeOK
  /\ nexec \in 0..MaxExecs /\ last_subprocess \in 0..MaxDirs
  /\ epid \in [Exec -> Pid \union {NoPid}] /\ edir \in [Exec -> 0..MaxDirs]
  /\ phase \in [Exec -> Phases]
  /\ timed_out \subseteq Exec
  /\ all_exec_handles \in [Pid -> 0..MaxExecs]
  /\ stale_exec_handles \subseteq Exec /\ lost \subseteq Exec
  /\ state_owners \in [Dir -> Nat]
  /\ disk \subseteq Dir
  /\ pc \in {"idle", "fork", "wait", "waited", "cleanup", "done", "crashed"}
  /\ base \in 0..MaxExecs /\ cur \in Pid \union {NoPid}
  /\ tearing_down \in BOOLEAN
  /\ fork_fails \in Nat /\ rm_fails \in Nat

\* The execs that own directory d: those whose exit handle was not released.
Owners(d) ==
  {i \in Exec : edir[i] = d /\ phase[i] \notin {"none", "cleaned"}}

\* exit_handle::cleanup() relies on the shared counter to tell whether it is the
\* last one: it always equals the number of handles not yet released.
OwnersCounted == \A d \in Dir : state_owners[d] = Cardinality(Owners(d))

\* control_directory(): "a directory that exists until cleanup() is called".  No
\* order of cleanups of a process and its followups removes it too early.
DirectoryOutlivesOwners ==
  pc \notin {"cleanup", "done"} =>
    \A d \in Dir : Owners(d) # {} => d \in disk

\* A subprocess that was not waited for is found under its PID by post_wait() and
\* by the executor's cleanup.  The one exception: the kernel reused the PID of an
\* exit handle still held, whose cleanup then erased the new entry.
Tracked ==
  /\ \A i \in Exec : phase[i] = "running" => all_exec_handles[epid[i]] = i \/ i \in lost
  /\ pc = "crashed" => lost # {}

\* After executor_handle::cleanup() every subprocess was waited for, reaped or
\* killed, and no control directory is left unless a system call failed (or, as
\* above, an entry was lost).
CleanEnd ==
  pc = "done" =>
    /\ \A i \in Exec \ lost :
         phase[i] # "running" /\ (phase[i] = "killed" => proc[epid[i]] # "running")
    /\ (fork_fails = 0 /\ rm_fails = 0 /\ lost = {}) => disk = {}

\* What the executor keeps adds up: the counters, the directories on disk, the
\* map of handles, and what is left at the end.
Accounted ==
  TypeOK /\ OwnersCounted /\ DirectoryOutlivesOwners /\ Tracked /\ CleanEnd

\* Every subprocess has a deadline, so a wait returns even if a test hangs, and
\* tearing down always comes to an end.
WaitsEnd ==
  /\ (pc = "wait") ~> (pc # "wait" \/ lost # {})
  /\ (pc = "cleanup") ~> (pc = "done")
=============================================================================
