--------------------------- MODULE Executor_proofs ---------------------------
(* Proofs about the executor, for any number of subprocesses, directories,   *)
(* PIDs, interrupts and failures.  What its properties need besides          *)
(* themselves is below: how the handles, the map, the reference counts and   *)
(* the disk hang together between any two steps.                             *)
EXTENDS Executor, FiniteSetTheorems, TLAPS

Entered == {"running", "exited", "failing", "abandoned"}
Ending == pc \in {"cleanup", "done"}

(* Each subprocess has its PID and a directory that was created.             *)
Numbered ==
  /\ \A i \in Exec : phase[i] # "none" <=> i <= nexec
  /\ \A i \in Exec : i <= nexec => epid[i] \in Pid /\ edir[i] \in 1..last_subprocess
  /\ disk \subseteq 1..last_subprocess

(* The map leads from a PID to one of its subprocesses, not yet released.    *)
Mapped ==
  \A p \in Pid : all_exec_handles[p] # NoExec =>
    epid[all_exec_handles[p]] = p /\ phase[all_exec_handles[p]] \in Entered

(* What the calls in progress rely on.                                       *)
Calling ==
  /\ base # NoExec => pc = "fork" /\ phase[base] = "exited"
  /\ pc = "fork" => nexec < MaxExecs
  /\ pc = "fork" /\ base = NoExec =>
       last_subprocess \in disk /\ \A i \in Exec : i <= nexec => edir[i] # last_subprocess
  /\ pc = "waited" =>
       cur \in Pid /\ ~IsChild(cur) /\ (lost # {} \/ all_exec_handles[cur] # NoExec)
  /\ Ending => tearing_down

(* What is not waited for stays registered, so its PID is not used again;    *)
(* and a child has its entry until the client tears down.                    *)
Registered ==
  /\ \A i \in Exec : phase[i] = "running" /\ i \notin lost => epid[i] \in pids_to_kill
  /\ ~tearing_down => \A p \in Pid : IsChild(p) =>
       lost # {} \/ (all_exec_handles[p] # NoExec /\ phase[all_exec_handles[p]] = "running")
  /\ \A i \in Exec : phase[i] = "killed" => Ending /\ proc[epid[i]] # "running"

Listed(i) == all_exec_handles[epid[i]] = i \/ i \in stale_exec_handles

(* No directory is forgotten: it has an owner, and every owner is in one of  *)
(* the two lists that the executor's own cleanup goes through.               *)
Remembered ==
  /\ ~Ending /\ lost = {} => \A i \in Exec : phase[i] \in Entered => Listed(i)
  /\ ~Ending /\ fork_fails = 0 => \A d \in disk :
       Owners(d) # {} \/ (pc = "fork" /\ base = NoExec /\ d = last_subprocess)
  /\ Ending /\ fork_fails = 0 /\ rm_fails = 0 /\ lost = {} =>
       \A d \in disk : \E i \in Exec : i <= nexec /\ edir[i] = d /\ Listed(i)

IInv == Accounted /\ Numbered /\ Mapped /\ Calling /\ Registered /\ Remembered
-----------------------------------------------------------------------------
USE DEF NoExec

(* The owners of a directory can be counted (state_owners).                  *)
LEMMA OwnersFinite == \A d : IsFiniteSet(Owners(d)) /\ Cardinality(Owners(d)) \in Nat
  <1>1. IsFiniteSet(Exec)
    BY ExecutorBounds, FS_Interval DEF Exec
  <1>2. TAKE d
  <1>3. Owners(d) \subseteq Exec
    BY DEF Owners
  <1>. QED  BY <1>1, <1>3, FS_Subset, FS_CardinalityType

(* What changes neither the directories of the subprocesses nor which of     *)
(* them are released leaves all owners.                                      *)
LEMMA OwnersStay ==
  ASSUME edir' = edir,
         \A i \in Exec : phase'[i] \in {"none", "cleaned"} <=> phase[i] \in {"none", "cleaned"}
  PROVE  \A d : Owners(d)' = Owners(d)
  BY DEF Owners

LEMMA InitOK == Init => IInv
  <1>. SUFFICES ASSUME Init PROVE IInv
    OBVIOUS
  <1>. USE DEF Init, PTInit
  <1>1. TypeOK
    <2>1. PTTypeOK
      BY DEF PTTypeOK
    <2>2. /\ 0 \in 0..MaxExecs /\ 0 \in 0..MaxDirs /\ 0 \in Nat
      BY ExecutorBounds
    <2>. QED  BY <2>1, <2>2 DEF TypeOK, Phases
  <1>2. \A d : Owners(d) = {}
    BY DEF Owners
  <1>3. OwnersCounted
    BY <1>2, FS_EmptySet DEF OwnersCounted
  <1>4. DirectoryOutlivesOwners /\ Tracked /\ CleanEnd
    BY <1>2 DEF DirectoryOutlivesOwners, Tracked, CleanEnd
  <1>5. Numbered /\ Mapped /\ Calling /\ Registered
    BY DEF Numbered, Mapped, Calling, Registered, Exec, IsChild, Ending
  <1>6. Remembered
    BY DEF Remembered, Entered, Ending
  <1>. QED  BY <1>1, <1>3, <1>4, <1>5, <1>6 DEF IInv, Accounted
-----------------------------------------------------------------------------
(* Steps of the processes and of the signal handlers: children die, and at   *)
(* most a deadline is noted.                                                 *)
LEMMA Quiet ==
  ASSUME IInv, PTTypeOK',
         pids_to_kill' = pids_to_kill, timed_out' \subseteq Exec,
         \A p \in Pid : proc'[p] = "running" => proc[p] = "running",
         \A p \in Pid : IsChild(p)' => IsChild(p),
         UNCHANGED <<nexec, last_subprocess, epid, edir, phase, mapVars, dirVars, callVars,
                     tearing_down, failVars>>
  PROVE  IInv'
  <1>. USE DEF IInv, Accounted, mapVars, dirVars, callVars, failVars
  <1>1. TypeOK'
    BY DEF TypeOK
  <1>2. \A d : Owners(d)' = Owners(d)
    BY OwnersStay
  <1>3. OwnersCounted' /\ DirectoryOutlivesOwners'
    BY <1>2 DEF OwnersCounted, DirectoryOutlivesOwners
  <1>4. Numbered' /\ Mapped' /\ Calling'
    BY DEF Numbered, Mapped, Calling, Ending
  <1>5. Tracked' /\ CleanEnd'
    BY <1>4 DEF Tracked, CleanEnd, TypeOK, Numbered
  <1>6. Registered'
    BY DEF Registered, Numbered, TypeOK, Ending
  <1>7. Remembered'
    BY <1>2 DEF Remembered, Ending, Listed
  <1>. QED  BY <1>1, <1>3, <1>4, <1>5, <1>6, <1>7

LEMMA TerminatedFacts ==
  ASSUME PTTypeOK, NEW S
  PROVE  /\ Terminated(S) \in [Pid -> {"free", "running", "zombie", "foreign"}]
         /\ \A p \in Pid : Terminated(S)[p] = "running" => proc[p] = "running" /\ p \notin S
         /\ \A p \in Pid : Terminated(S)[p] \in {"running", "zombie"} => IsChild(p)
  BY DEF PTTypeOK, Terminated, IsChild

LEMMA TerminateQuiet ==
  ASSUME PTTypeOK, NEW S, TerminateGroups(S)
  PROVE  /\ proc' \in [Pid -> {"free", "running", "zombie", "foreign"}]
         /\ stray' \in BOOLEAN
         /\ \A p \in Pid : proc'[p] = "running" => proc[p] = "running"
         /\ \A p \in Pid : IsChild(p)' => IsChild(p)
  <1>1. proc' = Terminated(S) /\ stray' \in BOOLEAN
    BY DEF TerminateGroups, PTTypeOK
  <1>. QED  BY <1>1, TerminatedFacts DEF IsChild

(* check_interrupt(), signal_handler(), the processes themselves, and        *)
(* deadline_killer::callback().                                              *)
LEMMA CheckThrowsOK == IInv /\ CheckThrows => IInv'
  <1>. SUFFICES ASSUME IInv, CheckThrows PROVE IInv'
    OBVIOUS
  <1>1. PTTypeOK /\ timed_out \subseteq Exec
    BY DEF IInv, Accounted, TypeOK
  <1>2. PTTypeOK' /\ pids_to_kill' = pids_to_kill /\ proc' = proc
    BY <1>1 DEF CheckThrows, RaiseInterrupt, PTTypeOK
  <1>. QED  BY <1>1, <1>2, Quiet DEF CheckThrows, exVars, execVars, IsChild

LEMMA SignalOK == IInv /\ Signal => IInv'
  <1>. SUFFICES ASSUME IInv, Signal PROVE IInv'
    OBVIOUS
  <1>1. PTTypeOK /\ timed_out \subseteq Exec
    BY DEF IInv, Accounted, TypeOK
  <1>2. TerminateGroups(pids_to_kill)
    BY DEF Signal, Interrupt
  <1>3. PTTypeOK' /\ pids_to_kill' = pids_to_kill
    BY <1>1, <1>2, TerminateQuiet DEF Signal, Interrupt, PTTypeOK
  <1>. QED  BY <1>1, <1>2, <1>3, TerminateQuiet, Quiet DEF Signal, exVars, execVars

LEMMA ProcessOK == IInv /\ Process => IInv'
  <1>. SUFFICES ASSUME IInv, Process PROVE IInv'
    OBVIOUS
  <1>1. PTTypeOK /\ timed_out \subseteq Exec
    BY DEF IInv, Accounted, TypeOK
  <1>2. /\ PTTypeOK' /\ pids_to_kill' = pids_to_kill
        /\ \A p \in Pid : proc'[p] = "running" => proc[p] = "running"
        /\ \A p \in Pid : IsChild(p)' => IsChild(p)
    <2>. PICK q \in Pid : ChildExit(q) \/ ForeignStart(q) \/ ForeignExit(q)
      BY DEF Process, Environment
    <2>. QED  BY <1>1 DEF ChildExit, ForeignStart, ForeignExit, PTTypeOK, IsChild
  <1>. QED  BY <1>1, <1>2, Quiet DEF Process, exVars, execVars

LEMMA DeadlineFiresOK == ASSUME NEW i \in Exec, IInv, DeadlineFires(i) PROVE IInv'
  <1>1. PTTypeOK /\ timed_out \subseteq Exec
    BY DEF IInv, Accounted, TypeOK
  <1>2. TerminateGroups({epid[i]})
    BY DEF DeadlineFires
  <1>3. PTTypeOK' /\ pids_to_kill' = pids_to_kill /\ timed_out' \subseteq Exec
    BY <1>1, <1>2, TerminateQuiet DEF DeadlineFires, PTTypeOK
  <1>. QED  BY <1>1, <1>2, <1>3, TerminateQuiet, Quiet DEF DeadlineFires

LEMMA StutterOK == IInv /\ UNCHANGED vars => IInv'
  <1>. SUFFICES ASSUME IInv, UNCHANGED vars PROVE IInv'
    OBVIOUS
  <1>1. PTTypeOK /\ timed_out \subseteq Exec
    BY DEF IInv, Accounted, TypeOK
  <1>2. PTTypeOK' /\ pids_to_kill' = pids_to_kill /\ proc' = proc
    BY <1>1 DEF vars, ptVars, PTTypeOK
  <1>. QED  BY <1>1, <1>2, Quiet DEF vars, exVars, execVars, IsChild
-----------------------------------------------------------------------------
(* Steps of calls that neither start nor release a subprocess.               *)
LEMMA SpawnPreOK == IInv /\ SpawnPre => IInv'
  <1>. SUFFICES ASSUME IInv, SpawnPre PROVE IInv'
    OBVIOUS
  <1>. USE DEF IInv, Accounted, SpawnPre, ptVars, mapVars, failVars
  <1>1. TypeOK'
    BY ExecutorBounds DEF TypeOK, PTTypeOK, Dir
  <1>2. \A d : Owners(d)' = Owners(d)
    BY OwnersStay
  <1>3. OwnersCounted' /\ DirectoryOutlivesOwners'
    BY <1>2 DEF OwnersCounted, DirectoryOutlivesOwners
  <1>4. Numbered' /\ Mapped'
    BY DEF Numbered, Mapped, TypeOK
  <1>5. Calling'
    BY DEF Calling, Ending, Numbered, TypeOK
  <1>6. Tracked' /\ CleanEnd'
    BY DEF Tracked, CleanEnd
  <1>7. Registered'
    BY DEF Registered, Ending, IsChild
  <1>8. Remembered'
    BY <1>2 DEF Remembered, Ending, Listed
  <1>. QED  BY <1>1, <1>3, <1>4, <1>5, <1>6, <1>7, <1>8

(* The others leave the directories too.                                     *)
LEMMA CallStep ==
  ASSUME IInv, PTTypeOK',
         pc' \in {"idle", "fork", "wait", "waited", "crashed"}, ~Ending,
         cur' \in Pid \union {NoPid}, base' \in 0..MaxExecs, fork_fails' \in Nat,
         fork_fails' # 0 \/ (fork_fails' = fork_fails /\ (pc = "fork" /\ base = NoExec => pc' = "fork" /\ base' = NoExec)),
         tearing_down' \in BOOLEAN, tearing_down => tearing_down',
         pids_to_kill' = pids_to_kill,
         \A p \in Pid : proc'[p] = "running" => proc[p] = "running",
         \A p \in Pid : IsChild(p)' => IsChild(p),
         Calling', pc' = "crashed" => lost # {},
         UNCHANGED <<execVars, mapVars, dirVars, rm_fails>>
  PROVE  IInv'
  <1>. USE DEF IInv, Accounted, execVars, mapVars, dirVars
  <1>1. TypeOK'
    BY DEF TypeOK
  <1>2. \A d : Owners(d)' = Owners(d)
    BY OwnersStay
  <1>3. OwnersCounted' /\ DirectoryOutlivesOwners'
    BY <1>2 DEF OwnersCounted, DirectoryOutlivesOwners, Ending
  <1>4. Numbered' /\ Mapped'
    BY DEF Numbered, Mapped
  <1>5. Tracked' /\ CleanEnd'
    BY DEF Tracked, CleanEnd, Ending
  <1>6. Registered'
    BY DEF Registered, Ending, Numbered, TypeOK
  <1>7. Remembered'
    BY <1>2 DEF Remembered, Ending, Listed, TypeOK
  <1>. QED  BY <1>1, <1>3, <1>4, <1>5, <1>6, <1>7

LEMMA SpawnFollowupPreOK == ASSUME NEW b \in Exec, IInv, SpawnFollowupPre(b) PROVE IInv'
  <1>. USE DEF SpawnFollowupPre
  <1>1. TypeOK /\ Calling /\ ~Ending /\ b \in 0..MaxExecs
    BY ExecutorBounds DEF IInv, Accounted, Ending, Exec
  <1>2. Calling' /\ PTTypeOK'
    BY <1>1 DEF Calling, ptVars, execVars, TypeOK, PTTypeOK, Ending, Exec
  <1>. QED  BY <1>1, <1>2, CallStep DEF ptVars, failVars, IsChild, TypeOK

LEMMA ForkFailsOK == IInv /\ ForkFails => IInv'
  <1>. SUFFICES ASSUME IInv, ForkFails PROVE IInv'
    OBVIOUS
  <1>. USE DEF ForkFails
  <1>1. TypeOK /\ Calling /\ ~Ending /\ 0 \in 0..MaxExecs
    BY ExecutorBounds DEF IInv, Accounted, Ending
  <1>2. Calling' /\ PTTypeOK'
    BY <1>1 DEF Calling, ptVars, TypeOK, PTTypeOK, Ending
  <1>3. fork_fails' \in Nat /\ fork_fails' # 0
    BY <1>1 DEF TypeOK
  <1>. QED  BY <1>1, <1>2, <1>3, CallStep DEF ptVars, IsChild, TypeOK

LEMMA WaitEnterOK == IInv /\ WaitEnter => IInv'
  <1>. SUFFICES ASSUME IInv, WaitEnter PROVE IInv'
    OBVIOUS
  <1>. USE DEF WaitEnter
  <1>1. TypeOK /\ Calling /\ ~Ending
    BY DEF IInv, Accounted, Ending
  <1>2. Calling' /\ PTTypeOK'
    BY <1>1 DEF Calling, ptVars, TypeOK, PTTypeOK, Ending
  <1>. QED  BY <1>1, <1>2, CallStep DEF ptVars, failVars, IsChild, TypeOK

(* A child that is waited for has its entry, or one was lost.                *)
LEMMA WaitReapOK == ASSUME NEW p \in Pid, IInv, WaitReap(p) PROVE IInv'
  <1>. USE DEF WaitReap, ReapChild
  <1>1. TypeOK /\ Calling /\ Registered /\ ~Ending
    BY DEF IInv, Accounted, Ending
  <1>2. lost # {} \/ all_exec_handles[p] # NoExec
    BY <1>1 DEF Registered, MayReap, IsChild, Exec
  <1>3. PTTypeOK' /\ proc' = [proc EXCEPT ![p] = "free"]
    BY <1>1 DEF TypeOK, PTTypeOK
  <1>4. /\ \A q \in Pid : proc'[q] = "running" => proc[q] = "running"
        /\ \A q \in Pid : IsChild(q)' => IsChild(q)
        /\ ~IsChild(p)'
    BY <1>1, <1>3 DEF TypeOK, PTTypeOK, IsChild
  <1>5. Calling'
    BY <1>1, <1>2, <1>4 DEF Calling, Ending, execVars, mapVars
  <1>. QED  BY <1>1, <1>3, <1>4, <1>5, CallStep DEF failVars, TypeOK

LEMMA WaitFailsOK == IInv /\ WaitFails => IInv'
  <1>. SUFFICES ASSUME IInv, WaitFails PROVE IInv'
    OBVIOUS
  <1>. USE DEF WaitFails
  <1>1. TypeOK /\ Calling /\ ~Ending
    BY DEF IInv, Accounted, Ending
  <1>2. Calling' /\ PTTypeOK'
    BY <1>1 DEF Calling, ptVars, TypeOK, PTTypeOK, Ending
  <1>. QED  BY <1>1, <1>2, CallStep DEF ptVars, failVars, IsChild, TypeOK

LEMMA PostWaitUnknownOK == IInv /\ PostWaitUnknown => IInv'
  <1>. SUFFICES ASSUME IInv, PostWaitUnknown PROVE IInv'
    OBVIOUS
  <1>. USE DEF PostWaitUnknown
  <1>1. TypeOK /\ Calling /\ ~Ending
    BY DEF IInv, Accounted, Ending
  <1>2. Calling' /\ PTTypeOK' /\ lost # {}
    BY <1>1 DEF Calling, ptVars, TypeOK, PTTypeOK, Ending
  <1>. QED  BY <1>1, <1>2, CallStep DEF ptVars, failVars, IsChild, TypeOK

LEMMA TearDownOK == IInv /\ TearDown => IInv'
  <1>. SUFFICES ASSUME IInv, TearDown PROVE IInv'
    OBVIOUS
  <1>. USE DEF TearDown, callVars
  <1>1. TypeOK /\ Calling /\ ~Ending
    BY DEF IInv, Accounted, Ending
  <1>2. Calling' /\ PTTypeOK'
    BY <1>1 DEF Calling, ptVars, TypeOK, PTTypeOK, Ending
  <1>. QED  BY <1>1, <1>2, CallStep DEF ptVars, failVars, IsChild, TypeOK

(* Every directory has an owner, and every owner is listed.                  *)
LEMMA CleanupEnterOK == IInv /\ CleanupEnter => IInv'
  <1>. SUFFICES ASSUME IInv, CleanupEnter PROVE IInv'
    OBVIOUS
  <1>. USE DEF IInv, Accounted, CleanupEnter, ptVars, execVars, mapVars, dirVars, failVars
  <1>1. TypeOK'
    BY DEF TypeOK, PTTypeOK
  <1>2. \A d : Owners(d)' = Owners(d)
    BY OwnersStay
  <1>3. OwnersCounted' /\ DirectoryOutlivesOwners'
    BY <1>2 DEF OwnersCounted, DirectoryOutlivesOwners
  <1>4. Numbered' /\ Mapped' /\ Calling'
    BY DEF Numbered, Mapped, Calling, Ending
  <1>5. Tracked' /\ CleanEnd'
    BY DEF Tracked, CleanEnd
  <1>6. Registered'
    BY DEF Registered, Ending, IsChild
  <1>7. Remembered'
    <2>. SUFFICES ASSUME lost = {}, fork_fails = 0, NEW d \in disk
                  PROVE  \E i \in Exec : i <= nexec /\ edir[i] = d /\ Listed(i)
      BY DEF Remembered, Ending, Listed
    <2>1. PICK i \in Owners(d) : TRUE
      BY DEF Remembered, Ending
    <2>2. i \in Exec /\ edir[i] = d /\ phase[i] \notin {"none", "cleaned", "killed"}
      BY <2>1 DEF Owners, Registered, Ending
    <2>3. phase[i] \in Entered /\ i <= nexec
      BY <2>2 DEF TypeOK, Phases, Entered, Numbered
    <2>. QED  BY <2>2, <2>3 DEF Remembered, Ending
  <1>. QED  BY <1>1, <1>3, <1>4, <1>5, <1>6, <1>7

LEMMA CleanupFinishOK == IInv /\ CleanupFinish => IInv'
  <1>. SUFFICES ASSUME IInv, CleanupFinish PROVE IInv'
    OBVIOUS
  <1>. USE DEF IInv, Accounted, CleanupFinish, execVars, mapVars, dirVars, failVars
  <1>1. TypeOK'
    BY DEF TypeOK, PTTypeOK
  <1>2. \A d : Owners(d)' = Owners(d)
    BY OwnersStay
  <1>3. OwnersCounted' /\ DirectoryOutlivesOwners'
    BY <1>2 DEF OwnersCounted, DirectoryOutlivesOwners
  <1>4. Numbered' /\ Mapped' /\ Calling'
    BY DEF Numbered, Mapped, Calling, Ending
  <1>5. Tracked'
    BY DEF Tracked
  <1>6. Registered' /\ Remembered'
    BY DEF Registered, Remembered, Ending, IsChild, Listed
  <1>7. CleanEnd'
    <2>1. \A i \in Exec : i <= nexec => ~Listed(i)
      BY DEF Listed, Numbered, Exec
    <2>2. (fork_fails = 0 /\ rm_fails = 0 /\ lost = {}) => disk = {}
      BY <2>1 DEF Remembered, Ending
    <2>3. \A i \in Exec \ lost : phase[i] # "running"
      BY <2>1 DEF Tracked, Numbered, Listed
    <2>. QED  BY <2>2, <2>3 DEF CleanEnd, Registered
  <1>. QED  BY <1>1, <1>3, <1>4, <1>5, <1>6, <1>7
-----------------------------------------------------------------------------
(* fork_files() and spawn_post(): one more owner of the directory, and the   *)
(* entry that the PID may still have belongs to a process already waited for.*)
LEMMA SpawnPostOK == ASSUME NEW p \in Pid, IInv, SpawnPost(p) PROVE IInv'
  <1>a. PICK i : i = nexec + 1
    OBVIOUS
  <1>b. PICK d : d = WorkDir
    OBVIOUS
  <1>c. PICK old : old = all_exec_handles[p]
    OBVIOUS
  <1>. USE DEF IInv, Accounted
  <1>1. /\ TypeOK /\ ~Ending /\ pc = "fork" /\ nexec < MaxExecs
        /\ i \in Exec /\ phase[i] = "none" /\ d \in 1..last_subprocess /\ d \in Dir /\ d \in disk
    <2>1. TypeOK /\ ~Ending /\ pc = "fork" /\ nexec < MaxExecs
      BY DEF SpawnPost, Calling, Ending
    <2>2. i \in Exec /\ phase[i] = "none"
      BY <1>a, <2>1, ExecutorBounds DEF TypeOK, Exec, Numbered
    <2>3. d \in 1..last_subprocess /\ d \in Dir
      <3>1. d \in 1..last_subprocess
        BY <1>b, <2>1, ExecutorBounds DEF TypeOK, Numbered, Calling, WorkDir, Exec
      <3>. QED  BY <3>1, <2>1, ExecutorBounds DEF TypeOK, Dir
    <2>4. d \in disk
      <3>1. CASE base = NoExec
        BY <1>b, <2>1, <3>1 DEF Calling, WorkDir
      <3>2. CASE base # NoExec
        <4>1. base \in Owners(d)
          BY <1>b, <2>1, <3>2 DEF Calling, WorkDir, Owners, TypeOK, Exec
        <4>. QED  BY <4>1, <2>1, <2>3 DEF DirectoryOutlivesOwners, Ending
      <3>. QED  BY <3>1, <3>2
    <2>. QED  BY <2>1, <2>2, <2>3, <2>4
  <1>2. /\ nexec' = i /\ epid' = [epid EXCEPT ![i] = p] /\ edir' = [edir EXCEPT ![i] = d]
        /\ phase' = [phase EXCEPT ![i] = "running"]
        /\ state_owners' = [state_owners EXCEPT ![d] = OwnersAfterSpawn(d)]
        /\ all_exec_handles' = [all_exec_handles EXCEPT ![p] = i]
        /\ stale_exec_handles' = stale_exec_handles \union ({old} \ {NoExec})
        /\ pc' = "idle" /\ base' = NoExec
        /\ UNCHANGED <<last_subprocess, timed_out, lost, disk, cur, tearing_down, fork_fails, rm_fails>>
    BY <1>a, <1>b, <1>c DEF SpawnPost, HandlesAfterSpawn, failVars
  <1>3. /\ PTTypeOK' /\ pids_to_kill' = pids_to_kill \union {p} /\ p \notin pids_to_kill
        /\ \A q \in Pid \ {p} : proc'[q] = proc[q]
    BY <1>1 DEF SpawnPost, ForkChild, TypeOK, PTTypeOK
  <1>4. old # NoExec => old \in Exec /\ old <= nexec /\ epid[old] = p /\ (phase[old] # "running" \/ old \in lost)
    BY <1>1, <1>3, <1>c DEF TypeOK, Mapped, Registered, Numbered, Exec, Entered
  <1>5. Owners(d)' = Owners(d) \union {i} /\ i \notin Owners(d)
    BY <1>1, <1>2 DEF Owners, TypeOK
  <1>6. \A e : e # d => Owners(e)' = Owners(e)
    BY <1>1, <1>2 DEF Owners, TypeOK
  <1>7. OwnersAfterSpawn(d) = Cardinality(Owners(d)')
    <2>1. Cardinality(Owners(d)') = Cardinality(Owners(d)) + 1
      BY <1>5, OwnersFinite, FS_AddElement
    <2>2. CASE base = NoExec
      <3>1. Owners(d) = {}
        BY <1>1, <1>b, <2>2 DEF Owners, Calling, WorkDir, Numbered
      <3>. QED  BY <2>1, <2>2, <3>1, FS_EmptySet DEF OwnersAfterSpawn
    <2>3. CASE base # NoExec
      BY <1>1, <2>1, <2>3 DEF OwnersAfterSpawn, OwnersCounted
    <2>. QED  BY <2>2, <2>3
  <1>8. TypeOK'
    <2>1. OwnersAfterSpawn(d) \in Nat
      BY <1>1 DEF OwnersAfterSpawn, TypeOK
    <2>2. i \in 0..MaxExecs /\ d \in 0..MaxDirs
      BY <1>1, ExecutorBounds DEF Exec, Dir
    <2>3. stale_exec_handles' \subseteq Exec
      BY <1>1, <1>2, <1>4 DEF TypeOK
    <2>4. state_owners' \in [Dir -> Nat]
      BY <1>1, <1>2, <2>1 DEF TypeOK
    <2>5. /\ epid' \in [Exec -> Pid \union {NoPid}] /\ edir' \in [Exec -> 0..MaxDirs]
          /\ phase' \in [Exec -> Phases] /\ all_exec_handles' \in [Pid -> 0..MaxExecs]
      BY <1>1, <1>2, <2>2 DEF TypeOK, Phases
    <2>6. base' \in 0..MaxExecs
      BY <1>2, ExecutorBounds
    <2>. QED  BY <1>1, <1>2, <1>3, <2>2, <2>3, <2>4, <2>5, <2>6 DEF TypeOK
  <1>9. OwnersCounted'
    BY <1>1, <1>2, <1>6, <1>7 DEF OwnersCounted, TypeOK
  <1>10. DirectoryOutlivesOwners'
    BY <1>1, <1>2, <1>6 DEF DirectoryOutlivesOwners, Ending
  <1>11. Numbered'
    BY <1>1, <1>2, <1>a DEF Numbered, TypeOK, Exec
  <1>12. Mapped'
    BY <1>1, <1>2 DEF Mapped, TypeOK, Numbered, Entered, Exec
  <1>13. Calling'
    BY <1>2 DEF Calling, Ending
  <1>14. Tracked' /\ CleanEnd'
    BY <1>1, <1>2, <1>3, <1>4 DEF Tracked, CleanEnd, TypeOK, Numbered, Registered, Ending
  <1>15. Registered'
    <2>1. \A j \in Exec : phase'[j] = "running" /\ j \notin lost => epid'[j] \in pids_to_kill'
      BY <1>1, <1>2, <1>3 DEF Registered, TypeOK
    <2>2. ~tearing_down => \A q \in Pid : IsChild(q)' =>
             lost # {} \/ (all_exec_handles'[q] # NoExec /\ phase'[all_exec_handles'[q]] = "running")
      <3>. SUFFICES ASSUME ~tearing_down, NEW q \in Pid, IsChild(q)', lost = {}
                    PROVE  all_exec_handles'[q] # NoExec /\ phase'[all_exec_handles'[q]] = "running"
        OBVIOUS
      <3>1. CASE q = p
        BY <1>1, <1>2, <3>1 DEF TypeOK, Exec
      <3>2. CASE q # p
        <4>1. all_exec_handles[q] # NoExec /\ phase[all_exec_handles[q]] = "running"
          BY <1>3, <3>2 DEF Registered, IsChild
        <4>. QED  BY <1>1, <1>2, <3>2, <4>1 DEF TypeOK, Exec
      <3>. QED  BY <3>1, <3>2
    <2>3. \A j \in Exec : phase'[j] # "killed"
      BY <1>1, <1>2 DEF Registered, TypeOK
    <2>. QED  BY <1>2, <2>1, <2>2, <2>3 DEF Registered
  <1>16. Remembered'
    <2>1. ~Ending'
      BY <1>2 DEF Ending
    <2>2. lost = {} => \A j \in Exec : phase'[j] \in Entered => Listed(j)'
      <3>. SUFFICES ASSUME lost = {}, NEW j \in Exec, phase'[j] \in Entered PROVE Listed(j)'
        OBVIOUS
      <3>1. CASE j = i
        BY <1>1, <1>2, <3>1 DEF Listed, TypeOK
      <3>2. CASE j # i
        <4>1. phase[j] \in Entered /\ epid'[j] = epid[j] /\ epid[j] \in Pid
          BY <1>1, <1>2, <3>2 DEF TypeOK, Numbered, Entered
        <4>2. Listed(j)
          BY <1>1, <4>1 DEF Remembered
        <4>. QED  BY <1>1, <1>2, <1>c, <4>1, <4>2 DEF Listed, TypeOK, Exec
      <3>. QED  BY <3>1, <3>2
    <2>3. fork_fails = 0 => \A e \in disk : Owners(e)' # {}
      BY <1>1, <1>b, <1>5, <1>6 DEF Remembered, WorkDir
    <2>. QED  BY <1>2, <2>1, <2>2, <2>3 DEF Remembered
  <1>. QED  BY <1>8, <1>9, <1>10, <1>11, <1>12, <1>13, <1>14, <1>15, <1>16
-----------------------------------------------------------------------------
(* An exit handle is handed out for the entry of a PID, which may be         *)
(* unregistered then: nothing else that is not waited for has it.            *)
LEMMA HandOut ==
  ASSUME IInv, NEW p \in Pid, NEW i, i = all_exec_handles[p], i # NoExec,
         PTTypeOK', ~Ending, pc # "fork", base = NoExec,
         tearing_down \/ ~IsChild(p)',
         pids_to_kill' \in {pids_to_kill, pids_to_kill \ {p}},
         \A q \in Pid : IsChild(q)' => IsChild(q),
         timed_out' = timed_out \ {i}, phase' = [phase EXCEPT ![i] = "exited"],
         pc' = "idle", cur' \in Pid \union {NoPid},
         UNCHANGED <<nexec, last_subprocess, epid, edir, mapVars, dirVars, base,
                     tearing_down, failVars>>
  PROVE  IInv'
  <1>. USE DEF IInv, Accounted, mapVars, dirVars, failVars
  <1>1. TypeOK /\ i \in Exec /\ i <= nexec /\ epid[i] = p /\ phase[i] \in Entered
    BY DEF TypeOK, Mapped, Exec, Numbered, Entered
  <1>2. TypeOK'
    BY <1>1 DEF TypeOK, Phases
  <1>3. \A d : Owners(d)' = Owners(d)
    <2>1. \A j \in Exec : phase'[j] \in {"none", "cleaned"} <=> phase[j] \in {"none", "cleaned"}
      BY <1>1 DEF TypeOK, Entered
    <2>. QED  BY <2>1, OwnersStay
  <1>4. OwnersCounted' /\ DirectoryOutlivesOwners'
    BY <1>3 DEF OwnersCounted, DirectoryOutlivesOwners, Ending
  <1>5. Numbered' /\ Mapped'
    BY <1>1 DEF Numbered, Mapped, TypeOK, Entered
  <1>6. Calling'
    BY DEF Calling, Ending
  <1>7. Tracked' /\ CleanEnd'
    BY <1>1 DEF Tracked, CleanEnd, TypeOK
  <1>8. Registered'
    <2>1. \A j \in Exec : phase'[j] = "running" /\ j \notin lost => epid[j] \in pids_to_kill'
      <3>. SUFFICES ASSUME NEW j \in Exec, phase'[j] = "running", j \notin lost
                    PROVE  epid[j] \in pids_to_kill'
        OBVIOUS
      <3>1. j # i /\ phase[j] = "running"
        BY <1>1 DEF TypeOK
      <3>2. epid[j] # p
        BY <3>1 DEF Tracked
      <3>. QED  BY <3>1, <3>2 DEF Registered
    <2>2. ~tearing_down => \A q \in Pid : IsChild(q)' =>
             lost # {} \/ (all_exec_handles[q] # NoExec /\ phase'[all_exec_handles[q]] = "running")
      <3>. SUFFICES ASSUME ~tearing_down, NEW q \in Pid, IsChild(q)', lost = {}
                    PROVE  all_exec_handles[q] # NoExec /\ phase'[all_exec_handles[q]] = "running"
        OBVIOUS
      <3>1. q # p
        OBVIOUS
      <3>2. all_exec_handles[q] # NoExec /\ phase[all_exec_handles[q]] = "running"
        BY DEF Registered
      <3>3. all_exec_handles[q] # i
        BY <1>1, <3>1, <3>2 DEF Mapped
      <3>. QED  BY <1>1, <3>2, <3>3 DEF TypeOK, Exec
    <2>3. \A j \in Exec : phase'[j] # "killed"
      BY <1>1 DEF Registered, TypeOK
    <2>. QED  BY <2>1, <2>2, <2>3 DEF Registered
  <1>9. Remembered'
    BY <1>1, <1>3 DEF Remembered, Ending, Listed, TypeOK, Entered
  <1>. QED  BY <1>2, <1>4, <1>5, <1>6, <1>7, <1>8, <1>9

LEMMA PostWaitOK == IInv /\ PostWait => IInv'
  <1>. SUFFICES ASSUME IInv, PostWait PROVE IInv'
    OBVIOUS
  <1>1. TypeOK /\ PTTypeOK /\ Calling
    BY DEF IInv, Accounted, TypeOK
  <1>2. pc = "waited" /\ cur \in Pid /\ ~IsChild(cur) /\ base = NoExec /\ ~Ending
    BY <1>1 DEF PostWait, Calling, Ending
  <1>3. PICK p \in Pid : p = cur
    BY <1>2
  <1>4. PICK i : i = all_exec_handles[p]
    OBVIOUS
  <1>5. TerminateGroups({cur})
    BY DEF PostWait
  <1>6. /\ PTTypeOK' /\ pids_to_kill' = pids_to_kill \ {p}
        /\ \A q \in Pid : IsChild(q)' => IsChild(q)
        /\ ~IsChild(p)'
    BY <1>1, <1>2, <1>3, <1>5, TerminateQuiet DEF PostWait, PTTypeOK
  <1>. QED  BY <1>2, <1>3, <1>4, <1>6, HandOut DEF PostWait

LEMMA ReapOK == ASSUME NEW p \in Pid, IInv, Reap(p) PROVE IInv'
  <1>1. TypeOK /\ PTTypeOK /\ Calling
    BY DEF IInv, Accounted, TypeOK
  <1>2. pc = "idle" /\ base = NoExec /\ ~Ending /\ tearing_down
    BY <1>1 DEF Reap, Calling, Ending
  <1>3. PICK i : i = all_exec_handles[p]
    OBVIOUS
  <1>4. PTTypeOK' /\ \A q \in Pid : IsChild(q)' => IsChild(q)
    <2>1. CASE UNCHANGED <<proc, stray>>
      BY <1>1, <2>1 DEF Reap, PTTypeOK, IsChild
    <2>2. CASE TerminateGroups({p})
      BY <1>1, <2>2, TerminateQuiet DEF Reap, PTTypeOK
    <2>. QED  BY <2>1, <2>2 DEF Reap
  <1>. QED  BY <1>1, <1>2, <1>3, <1>4, HandOut DEF Reap, callVars, TypeOK
-----------------------------------------------------------------------------
(* exit_handle::cleanup(): one owner less, and the last one is the only one  *)
(* who sees a count of one.                                                  *)
LEMMA ExitCleanupOK == ASSUME NEW i \in Exec, IInv, ExitCleanup(i) PROVE IInv'
  <1>a. PICK d : d = edir[i]
    OBVIOUS
  <1>b. PICK p : p = epid[i]
    OBVIOUS
  <1>c. PICK old : old = all_exec_handles[p]
    OBVIOUS
  <1>. USE DEF IInv, Accounted
  <1>1. /\ TypeOK /\ pc = "idle" /\ base = NoExec /\ ~Ending /\ phase[i] \in {"exited", "failing"}
        /\ i <= nexec /\ p \in Pid /\ d \in 1..last_subprocess /\ d \in Dir
    <2>1. TypeOK /\ pc = "idle" /\ base = NoExec /\ ~Ending /\ phase[i] \in {"exited", "failing"}
      BY DEF ExitCleanup, Held, Calling, Ending
    <2>2. i <= nexec /\ p \in Pid /\ d \in 1..last_subprocess
      BY <2>1, <1>a, <1>b DEF Numbered
    <2>. QED  BY <2>1, <2>2, ExecutorBounds DEF TypeOK, Dir
  <1>2. /\ disk' = (IF state_owners[d] = 1 THEN disk \ {d} ELSE disk)
        /\ state_owners' = [state_owners EXCEPT ![d] = @ - 1]
        /\ all_exec_handles' = [all_exec_handles EXCEPT ![p] = NoExec]
        /\ lost' = lost \union ({old} \ {NoExec, i})
        /\ phase' = [phase EXCEPT ![i] = "cleaned"]
        /\ UNCHANGED <<proc, pids_to_kill, fired_signal, signals, foreigns, stray, nexec,
                       last_subprocess, epid, edir, timed_out, stale_exec_handles, pc, base, cur,
                       tearing_down, fork_fails, rm_fails>>
    BY <1>a, <1>b, <1>c DEF ExitCleanup, DiskAfterCleanup, LastOwner, HandlesAfterCleanup, ptVars,
      callVars, failVars
  <1>3. Owners(d)' = Owners(d) \ {i} /\ i \in Owners(d)
    BY <1>1, <1>2, <1>a DEF Owners, TypeOK
  <1>4. \A e : e # d => Owners(e)' = Owners(e)
    BY <1>1, <1>2, <1>a DEF Owners, TypeOK
  <1>5. /\ state_owners[d] = Cardinality(Owners(d)) /\ state_owners[d] \in Nat \ {0}
        /\ Cardinality(Owners(d)') = state_owners[d] - 1
    <2>1. state_owners[d] = Cardinality(Owners(d)) /\ state_owners[d] \in Nat
      BY <1>1 DEF OwnersCounted, TypeOK
    <2>2. Cardinality(Owners(d)) # 0
      BY <1>3, OwnersFinite, FS_EmptySet
    <2>3. Cardinality(Owners(d)') = Cardinality(Owners(d)) - 1
      BY <1>3, OwnersFinite, FS_RemoveElement
    <2>. QED  BY <2>1, <2>2, <2>3
  <1>6. state_owners[d] = 1 <=> Owners(d)' = {}
    <2>1. IsFiniteSet(Owners(d)')
      BY <1>3, OwnersFinite, FS_RemoveElement
    <2>. QED  BY <2>1, <1>5, FS_EmptySet
  <1>7. old # NoExec => old \in Exec /\ epid[old] = p
    BY <1>1, <1>c DEF TypeOK, Mapped, Exec
  <1>8. TypeOK'
    <2>1. state_owners' \in [Dir -> Nat]
      BY <1>1, <1>2, <1>5 DEF TypeOK
    <2>2. all_exec_handles' \in [Pid -> 0..MaxExecs] /\ lost' \subseteq Exec /\ disk' \subseteq Dir
      BY <1>1, <1>2, <1>7, ExecutorBounds DEF TypeOK
    <2>3. phase' \in [Exec -> Phases]
      BY <1>1, <1>2 DEF TypeOK, Phases
    <2>. QED  BY <1>1, <1>2, <2>1, <2>2, <2>3 DEF TypeOK, PTTypeOK
  <1>9. OwnersCounted'
    BY <1>1, <1>2, <1>4, <1>5 DEF OwnersCounted, TypeOK
  <1>10. DirectoryOutlivesOwners'
    BY <1>1, <1>2, <1>3, <1>4, <1>6 DEF DirectoryOutlivesOwners, Ending
  <1>11. Numbered' /\ Calling'
    BY <1>1, <1>2 DEF Numbered, Calling, TypeOK, Ending
  <1>12. Mapped'
    BY <1>1, <1>2, <1>b DEF Mapped, TypeOK
  <1>13. Tracked' /\ CleanEnd'
    BY <1>1, <1>2, <1>b, <1>c DEF Tracked, CleanEnd, TypeOK, Numbered
  <1>14. Registered'
    <2>1. \A j \in Exec : phase'[j] = "running" /\ j \notin lost' => epid[j] \in pids_to_kill
      BY <1>1, <1>2 DEF Registered, TypeOK
    <2>2. ~tearing_down => \A q \in Pid : IsChild(q) =>
             lost' # {} \/ (all_exec_handles'[q] # NoExec /\ phase'[all_exec_handles'[q]] = "running")
      <3>. SUFFICES ASSUME ~tearing_down, NEW q \in Pid, IsChild(q), lost' = {}
                    PROVE  all_exec_handles'[q] # NoExec /\ phase'[all_exec_handles'[q]] = "running"
        OBVIOUS
      <3>1. all_exec_handles[q] # NoExec /\ phase[all_exec_handles[q]] = "running"
        BY <1>2 DEF Registered
      <3>2. all_exec_handles[q] # i
        BY <1>1, <3>1
      <3>3. q # p
        BY <1>2, <1>c, <3>1, <3>2
      <3>. QED  BY <1>1, <1>2, <3>1, <3>2, <3>3 DEF TypeOK, Exec
    <2>3. \A j \in Exec : phase'[j] # "killed"
      BY <1>1, <1>2 DEF Registered, TypeOK
    <2>. QED  BY <1>2, <2>1, <2>2, <2>3 DEF Registered, IsChild
  <1>15. Remembered'
    <2>1. ~Ending'
      BY <1>1, <1>2 DEF Ending
    <2>2. lost' = {} => \A j \in Exec : phase'[j] \in Entered => Listed(j)'
      <3>. SUFFICES ASSUME lost' = {}, NEW j \in Exec, phase'[j] \in Entered PROVE Listed(j)'
        OBVIOUS
      <3>1. j # i /\ phase[j] \in Entered /\ epid[j] \in Pid
        BY <1>1, <1>2 DEF TypeOK, Entered, Numbered
      <3>2. Listed(j) /\ old \in {NoExec, i}
        BY <1>1, <1>2, <3>1 DEF Remembered
      <3>3. all_exec_handles[epid[j]] = j => epid[j] # p
        BY <1>c, <3>1, <3>2, <1>1 DEF Exec
      <3>. QED  BY <1>1, <1>2, <3>1, <3>2, <3>3 DEF Listed, TypeOK
    <2>3. fork_fails = 0 => \A e \in disk' : Owners(e)' # {}
      BY <1>1, <1>2, <1>3, <1>4, <1>6 DEF Remembered
    <2>. QED  BY <1>2, <2>1, <2>2, <2>3 DEF Remembered
  <1>. QED  BY <1>8, <1>9, <1>10, <1>11, <1>12, <1>13, <1>14, <1>15

(* The handle stays an owner if rm_r() throws.                               *)
LEMMA ExitCleanupFailsOK == ASSUME NEW i \in Exec, IInv, ExitCleanupFails(i) PROVE IInv'
  <1>. USE DEF IInv, Accounted
  <1>1. TypeOK /\ pc = "idle" /\ ~Ending /\ phase[i] \in {"exited", "failing"}
    BY DEF ExitCleanupFails, Held, Ending
  <1>2. PICK new \in {"failing", "abandoned"} :
          /\ phase' = [phase EXCEPT ![i] = new]
          /\ rm_fails' = rm_fails + 1
          /\ UNCHANGED <<proc, pids_to_kill, fired_signal, signals, foreigns, stray, nexec,
                         last_subprocess, epid, edir, timed_out, all_exec_handles,
                         stale_exec_handles, lost, state_owners, disk, pc, base, cur,
                         tearing_down, fork_fails>>
    BY <1>1 DEF ExitCleanupFails, ptVars, mapVars, dirVars, callVars, TypeOK
  <1>3. TypeOK'
    BY <1>1, <1>2 DEF TypeOK, PTTypeOK, Phases
  <1>4. \A d : Owners(d)' = Owners(d)
    <2>1. \A j \in Exec : phase'[j] \in {"none", "cleaned"} <=> phase[j] \in {"none", "cleaned"}
      BY <1>1, <1>2 DEF TypeOK
    <2>. QED  BY <1>2, <2>1, OwnersStay
  <1>5. OwnersCounted' /\ DirectoryOutlivesOwners'
    BY <1>2, <1>4 DEF OwnersCounted, DirectoryOutlivesOwners
  <1>6. Numbered' /\ Mapped'
    BY <1>1, <1>2 DEF Numbered, Mapped, TypeOK, Entered
  <1>7. Calling'
    BY <1>1, <1>2 DEF Calling, Ending, TypeOK
  <1>8. Tracked' /\ CleanEnd'
    BY <1>1, <1>2 DEF Tracked, CleanEnd, TypeOK
  <1>9. Registered'
    BY <1>1, <1>2 DEF Registered, TypeOK, IsChild, Ending, Exec
  <1>10. Remembered'
    BY <1>1, <1>2, <1>4 DEF Remembered, Ending, Listed, TypeOK, Entered
  <1>. QED  BY <1>3, <1>5, <1>6, <1>7, <1>8, <1>9, <1>10
-----------------------------------------------------------------------------
(* executor_handle::cleanup(): every entry goes with its directory, unless   *)
(* rm_r() fails.                                                             *)
LEMMA RemoveDirFacts ==
  ASSUME TypeOK, NEW d, RemoveDir(d)
  PROVE  /\ disk' \subseteq disk /\ rm_fails' \in Nat
         /\ rm_fails' = 0 => rm_fails = 0 /\ d \notin disk'
  BY DEF RemoveDir, TypeOK

LEMMA CleanupHandleOK == ASSUME NEW p \in Pid, IInv, CleanupHandle(p) PROVE IInv'
  <1>a. PICK i : i = all_exec_handles[p]
    OBVIOUS
  <1>. USE DEF IInv, Accounted
  <1>1. /\ TypeOK /\ PTTypeOK /\ pc = "cleanup" /\ Ending /\ tearing_down
        /\ i \in Exec /\ i <= nexec /\ epid[i] = p /\ phase[i] \in Entered
    <2>1. TypeOK /\ PTTypeOK /\ pc = "cleanup" /\ Ending /\ tearing_down /\ i # NoExec
      BY <1>a DEF CleanupHandle, Calling, Ending, TypeOK
    <2>2. i \in Exec /\ epid[i] = p /\ phase[i] \in Entered
      BY <1>a, <2>1 DEF TypeOK, Mapped, Exec
    <2>. QED  BY <2>1, <2>2 DEF Numbered, Entered
  <1>2. /\ phase' = [phase EXCEPT ![i] = "killed"]
        /\ all_exec_handles' = [all_exec_handles EXCEPT ![p] = NoExec]
        /\ RemoveDir(edir[i])
        /\ UNCHANGED <<pids_to_kill, fired_signal, signals, foreigns, nexec, last_subprocess,
                       epid, edir, timed_out, stale_exec_handles, lost, state_owners, pc, base,
                       cur, tearing_down, fork_fails>>
    BY <1>a DEF CleanupHandle, callVars
  <1>3. /\ PTTypeOK' /\ proc'[p] # "running"
        /\ \A q \in Pid : proc'[q] = "running" => proc[q] = "running"
    <2>1. proc' \in [Pid -> {"free", "running", "zombie", "foreign"}] /\ stray' \in BOOLEAN
      BY <1>1, TerminatedFacts DEF CleanupHandle, PTTypeOK
    <2>2. proc'[p] # "running" /\ \A q \in Pid : proc'[q] = "running" => proc[q] = "running"
      BY <1>1, TerminatedFacts DEF CleanupHandle
    <2>. QED  BY <1>1, <1>2, <2>1, <2>2 DEF PTTypeOK
  <1>4. TypeOK'
    <2>1. phase' \in [Exec -> Phases] /\ all_exec_handles' \in [Pid -> 0..MaxExecs]
      BY <1>1, <1>2, ExecutorBounds DEF TypeOK, Phases
    <2>2. disk' \subseteq Dir /\ rm_fails' \in Nat
      BY <1>1, <1>2, RemoveDirFacts DEF TypeOK
    <2>. QED  BY <1>1, <1>2, <1>3, <2>1, <2>2 DEF TypeOK
  <1>5. \A d : Owners(d)' = Owners(d)
    <2>1. \A j \in Exec : phase'[j] \in {"none", "cleaned"} <=> phase[j] \in {"none", "cleaned"}
      BY <1>1, <1>2 DEF TypeOK, Entered
    <2>. QED  BY <1>2, <2>1, OwnersStay
  <1>6. OwnersCounted' /\ DirectoryOutlivesOwners'
    BY <1>1, <1>2, <1>5 DEF OwnersCounted, DirectoryOutlivesOwners
  <1>7. Numbered' /\ Mapped'
    <2>1. Numbered'
      BY <1>1, <1>2, RemoveDirFacts DEF Numbered, TypeOK, Entered
    <2>2. \A q \in Pid \ {p} : all_exec_handles[q] # NoExec => all_exec_handles[q] # i
      BY <1>1 DEF Mapped
    <2>3. Mapped'
      BY <1>1, <1>2, <2>2 DEF Mapped, TypeOK, Exec
    <2>. QED  BY <2>1, <2>3
  <1>8. Calling'
    BY <1>1, <1>2 DEF Calling, Ending, TypeOK
  <1>9. Tracked' /\ CleanEnd'
    BY <1>1, <1>2, <1>a DEF Tracked, CleanEnd, TypeOK, Numbered
  <1>10. Registered'
    BY <1>1, <1>2, <1>3 DEF Registered, TypeOK, Ending, Numbered
  <1>11. Remembered'
    <2>1. Ending'
      BY <1>1, <1>2 DEF Ending
    <2>. SUFFICES ASSUME fork_fails = 0, rm_fails' = 0, lost = {}, NEW d \in disk'
                  PROVE  \E j \in Exec : j <= nexec /\ edir[j] = d /\ Listed(j)'
      BY <1>2, <2>1 DEF Remembered
    <2>2. rm_fails = 0 /\ d # edir[i] /\ d \in disk
      BY <1>1, <1>2, RemoveDirFacts
    <2>3. PICK j \in Exec : j <= nexec /\ edir[j] = d /\ Listed(j)
      BY <1>1, <2>2 DEF Remembered
    <2>4. j # i /\ (all_exec_handles[epid[j]] = j => epid[j] # p)
      BY <1>a, <2>2, <2>3
    <2>. QED  BY <1>1, <1>2, <2>3, <2>4 DEF Listed, TypeOK, Numbered
  <1>. QED  BY <1>4, <1>6, <1>7, <1>8, <1>9, <1>10, <1>11

LEMMA CleanupStaleOK == ASSUME NEW i \in Exec, IInv, CleanupStale(i) PROVE IInv'
  <1>. USE DEF IInv, Accounted
  <1>1. /\ TypeOK /\ pc = "cleanup" /\ RemoveDir(edir[i])
        /\ stale_exec_handles' = stale_exec_handles \ {i}
        /\ UNCHANGED <<proc, pids_to_kill, fired_signal, signals, foreigns, stray, nexec,
                       last_subprocess, epid, edir, phase, timed_out, all_exec_handles, lost,
                       state_owners, pc, base, cur, tearing_down, fork_fails>>
    BY DEF CleanupStale, ptVars, execVars, callVars
  <1>2. disk' \subseteq disk /\ rm_fails' \in Nat
    BY <1>1, RemoveDirFacts
  <1>3. TypeOK'
    BY <1>1, <1>2 DEF TypeOK, PTTypeOK
  <1>4. \A d : Owners(d)' = Owners(d)
    BY <1>1, OwnersStay
  <1>5. OwnersCounted' /\ DirectoryOutlivesOwners'
    BY <1>1, <1>4 DEF OwnersCounted, DirectoryOutlivesOwners
  <1>6. Numbered' /\ Mapped' /\ Calling' /\ Tracked' /\ CleanEnd' /\ Registered'
    BY <1>1, <1>2 DEF Numbered, Mapped, Calling, Tracked, CleanEnd, Registered, Ending, IsChild
  <1>7. Remembered'
    <2>. SUFFICES ASSUME fork_fails = 0, rm_fails' = 0, lost = {}, NEW d \in disk'
                  PROVE  \E j \in Exec : j <= nexec /\ edir[j] = d /\ Listed(j)'
      BY <1>1 DEF Remembered, Ending
    <2>1. rm_fails = 0 /\ d # edir[i] /\ d \in disk
      BY <1>1, RemoveDirFacts
    <2>2. PICK j \in Exec : j <= nexec /\ edir[j] = d /\ Listed(j)
      BY <1>1, <2>1 DEF Remembered, Ending
    <2>. QED  BY <1>1, <2>1, <2>2 DEF Listed
  <1>. QED  BY <1>3, <1>5, <1>6, <1>7
-----------------------------------------------------------------------------
(* IInv is inductive: no step of the client, of the executor, of a process   *)
(* or of a signal handler breaks it.                                         *)
LEMMA StepOK == IInv /\ [Next]_vars => IInv'
  <1>. SUFFICES ASSUME IInv, [Next]_vars PROVE IInv'
    OBVIOUS
  <1>1. CASE CheckThrows
    BY <1>1, CheckThrowsOK
  <1>2. CASE Spawn
    BY <1>2, SpawnPreOK, SpawnFollowupPreOK, ForkFailsOK, SpawnPostOK DEF Spawn
  <1>3. CASE Wait
    BY <1>3, WaitEnterOK, WaitReapOK, WaitFailsOK, PostWaitOK, PostWaitUnknownOK DEF Wait
  <1>4. CASE \E i \in Exec : DeadlineFires(i) \/ ExitCleanup(i) \/ ExitCleanupFails(i)
    BY <1>4, DeadlineFiresOK, ExitCleanupOK, ExitCleanupFailsOK
  <1>5. CASE TearDown \/ \E p \in Pid : Reap(p)
    BY <1>5, TearDownOK, ReapOK
  <1>6. CASE Cleanup
    BY <1>6, CleanupEnterOK, CleanupHandleOK, CleanupStaleOK, CleanupFinishOK DEF Cleanup
  <1>7. CASE Signal \/ Process \/ UNCHANGED vars
    BY <1>7, SignalOK, ProcessOK, StutterOK
  <1>. QED  BY <1>1, <1>2, <1>3, <1>4, <1>5, <1>6, <1>7 DEF Next

(* Whatever the order of spawns, followups, waits, cleanups, deadlines and   *)
(* interrupts, what executor.cpp keeps adds up: the shared counters equal    *)
(* the handles not released, no directory goes before its last owner,        *)
(* post_wait() finds whatever was not waited for, and executor_handle's own  *)
(* cleanup leaves nothing behind unless a system call failed or the kernel   *)
(* reused the PID of a handle still held.                                    *)
THEOREM ExecutorAccounts == Spec => []Accounted
  <1>1. Init => IInv
    BY InitOK
  <1>2. IInv /\ [Next]_vars => IInv'
    BY StepOK
  <1>3. IInv => Accounted
    BY DEF IInv
  <1>. QED  BY <1>1, <1>2, <1>3, PTL DEF Spec
=============================================================================
