------------------------- MODULE Interrupts_proofs --------------------------
(***************************************************************************)
(* Proofs about utils/signals/interrupts.cpp and the fork and wait code of *)
(* utils/process (module Interrupts), for any set of PIDs and any bounds.  *)
(***************************************************************************)
EXTENDS Interrupts, TLAPS

(***************************************************************************)
(* The inductive invariant.  That every child is registered whenever the   *)
(* handler can run rests on two facts: the only unregistered child is the  *)
(* one between fork() and add_pid_to_kill(), and there the signals are     *)
(* blocked because exactly one section is open.  Conversely, a registered  *)
(* PID is a child or the one between wait(2) and remove_pid_to_kill().     *)
(***************************************************************************)

\* The sections that are open in each call.
SectionInv ==
  /\ masked <=> inhibiters > 0
  /\ pc \in {"spawn", "wait", "waited"} => inhibiters = 0
  /\ pc \in {"fork", "register", "remove", "leave"} => inhibiters = 1

Forked(p) == pc = "register" /\ p = cur
Waited(p) == pc \in {"waited", "remove"} /\ p = cur

RegistryInv ==
  /\ \A p \in Pid : p \in pids_to_kill \/ Forked(p) <=> IsChild(p) \/ Waited(p)
  /\ pc \in {"register", "waited", "remove"} => cur \in Pid
  /\ pc = "register" => cur \notin pids_to_kill
  /\ pc \in {"waited", "remove"} => ~IsChild(cur)

IInv == TypeOK /\ SectionInv /\ RegistryInv /\ InterruptUnblocksWait

-----------------------------------------------------------------------------
(* The invariant, action by action. *)

LEMMA InitIInv == Init => IInv
<1> SUFFICES ASSUME Init  PROVE IInv
  OBVIOUS
<1>1. TypeOK
  BY DEF Init, PTInit, TypeOK, PTTypeOK
<1>2. SectionInv
  BY DEF Init, SectionInv
<1>3. RegistryInv /\ InterruptUnblocksWait
  BY DEF Init, PTInit, RegistryInv, InterruptUnblocksWait, Forked, Waited, IsChild
<1> QED
  BY <1>1, <1>2, <1>3 DEF IInv

\* Sections of other code, and the ends of the ones modelled here.
LEMMA SectionsIInv ==
  ASSUME IInv, SectionEnter \/ SectionLeave \/ Leave
  PROVE  IInv'
<1> USE DEF IInv
<1>1. UNCHANGED ptVars /\ UNCHANGED <<pending, raised>>
  BY DEF SectionEnter, SectionLeave, Leave
<1>2. TypeOK' /\ SectionInv'
  <2>1. inhibiters' \in Nat /\ masked' \in BOOLEAN /\ (masked' <=> inhibiters' > 0)
    <3>1. CASE SectionEnter
      BY <3>1 DEF SectionEnter, EnterSection, TypeOK
    <3>2. CASE SectionLeave \/ Leave
      <4>1. LeaveSection
        BY <3>2 DEF SectionLeave, Leave
      <4>2. masked' = (masked /\ inhibiters > 1)
        BY <4>1 DEF LeaveSection
      <4>3. masked' \in BOOLEAN /\ (masked' <=> masked /\ inhibiters > 1)
        BY <4>2, Zenon
      <4>4. inhibiters' = IF inhibiters > 1 THEN inhibiters - 1 ELSE 0
        BY <4>1 DEF LeaveSection
      <4>5. inhibiters \in Nat /\ (masked <=> inhibiters > 0)
        BY DEF TypeOK, SectionInv
      <4> QED
        BY <4>3, <4>4, <4>5
    <3> QED
      BY <3>1, <3>2
  <2>2. pc' = "idle" /\ cur' \in Pid \union {NoPid}
    BY DEF SectionEnter, SectionLeave, Leave, TypeOK
  <2> QED
    BY <1>1, <2>1, <2>2 DEF ptVars, TypeOK, PTTypeOK, SectionInv
<1>3. pc \in {"idle", "leave"} /\ pc' = "idle"
  BY DEF SectionEnter, SectionLeave, Leave
<1>4. RegistryInv' /\ InterruptUnblocksWait'
  BY <1>1, <1>3 DEF ptVars, RegistryInv, InterruptUnblocksWait, Forked, Waited, IsChild
<1> QED
  BY <1>2, <1>4

\* The checks, and the calls that end without having done anything.
LEMMA ChecksIInv ==
  ASSUME IInv, CheckThrows \/ (\E call \in {"spawn", "wait"} : CheckPasses(call))
               \/ ForkFails \/ WaitFails
  PROVE  IInv'
<1> USE DEF IInv
<1>1. /\ UNCHANGED <<proc, pids_to_kill, signals, foreigns, stray, cur>>
      /\ UNCHANGED <<pending, raised, masked, inhibiters>>
      /\ fired_signal' \in BOOLEAN
  BY DEF CheckThrows, CheckPasses, ForkFails, WaitFails, RaiseInterrupt, ptVars,
         intVars, TypeOK, PTTypeOK
<1>2. TypeOK' /\ SectionInv'
  BY <1>1 DEF CheckThrows, CheckPasses, ForkFails, WaitFails, intVars, TypeOK,
              PTTypeOK, SectionInv
<1>3. /\ pc \in {"idle", "fork", "wait"} /\ pc' \in {"idle", "spawn", "wait", "leave"}
      /\ pc' = "wait" => ~fired_signal'
  BY DEF CheckThrows, CheckPasses, ForkFails, WaitFails, intVars, ptVars
<1>4. RegistryInv' /\ InterruptUnblocksWait'
  BY <1>1, <1>3 DEF RegistryInv, InterruptUnblocksWait, Forked, Waited, IsChild
<1> QED
  BY <1>2, <1>4

LEMMA ForkEnterIInv ==
  ASSUME IInv, ForkEnter
  PROVE  IInv'
<1> USE DEF IInv, ForkEnter, EnterSection
<1>1. TypeOK' /\ SectionInv'
  BY DEF TypeOK, PTTypeOK, ptVars, SectionInv
<1>2. RegistryInv' /\ InterruptUnblocksWait'
  BY DEF ptVars, RegistryInv, InterruptUnblocksWait, Forked, Waited, IsChild
<1> QED
  BY <1>1, <1>2

\* The new child is the only one that is not registered.
LEMMA ForkIInv ==
  ASSUME IInv, NEW p \in Pid, Fork(p)
  PROVE  IInv'
<1> USE DEF IInv, Fork
<1>1. TypeOK' /\ SectionInv'
  BY DEF TypeOK, PTTypeOK, SectionInv
<1>2. RegistryInv'
  BY DEF RegistryInv, Forked, Waited, IsChild, TypeOK, PTTypeOK
<1> QED
  BY <1>1, <1>2 DEF InterruptUnblocksWait

LEMMA AddPidToKillIInv ==
  ASSUME IInv, AddPidToKill
  PROVE  IInv'
<1> USE DEF IInv, AddPidToKill
<1>1. TypeOK' /\ SectionInv'
  BY DEF TypeOK, PTTypeOK, SectionInv, RegistryInv
<1>2. RegistryInv'
  BY DEF RegistryInv, Forked, Waited, IsChild
<1> QED
  BY <1>1, <1>2 DEF InterruptUnblocksWait

LEMMA WaitReapIInv ==
  ASSUME IInv, NEW p \in Pid, WaitReap(p)
  PROVE  IInv'
<1> USE DEF IInv, WaitReap, ReapChild
<1>1. TypeOK' /\ SectionInv'
  BY DEF TypeOK, PTTypeOK, SectionInv
<1>2. RegistryInv'
  BY DEF RegistryInv, Forked, Waited, IsChild, TypeOK, PTTypeOK
<1> QED
  BY <1>1, <1>2 DEF InterruptUnblocksWait

LEMMA RemoveIInv ==
  ASSUME IInv, RemoveEnter \/ RemovePidToKill
  PROVE  IInv'
<1> USE DEF IInv
<1>1. TypeOK' /\ SectionInv'
  <2>1. CASE RemoveEnter
    BY <2>1 DEF RemoveEnter, EnterSection, ptVars, TypeOK, PTTypeOK, SectionInv
  <2>2. CASE RemovePidToKill
    BY <2>2 DEF RemovePidToKill, TypeOK, PTTypeOK, SectionInv
  <2> QED
    BY <2>1, <2>2
<1>2. RegistryInv'
  BY DEF RemoveEnter, RemovePidToKill, ptVars, RegistryInv, Forked, Waited, IsChild
<1>3. InterruptUnblocksWait'
  BY DEF RemoveEnter, RemovePidToKill, InterruptUnblocksWait
<1> QED
  BY <1>1, <1>2, <1>3

\* The handler runs unmasked, so every child is registered and none stays alive.
LEMMA SignalHandlerIInv ==
  ASSUME IInv, SignalHandler
  PROVE  IInv'
<1> USE DEF IInv, SignalHandler, Interrupt, TerminateGroups
<1>1. pc \notin {"fork", "register", "remove", "leave"}
  BY DEF SectionInv, TypeOK
<1>2. \A p \in Pid : /\ proc'[p] \in {"free", "running", "zombie", "foreign"}
                     /\ IsChild(p)' <=> IsChild(p)
                     /\ p \in pids_to_kill => proc'[p] # "running"
  BY DEF Terminated, IsChild, TypeOK, PTTypeOK
<1>3. TypeOK' /\ SectionInv'
  <2>1. proc' \in [Pid -> {"free", "running", "zombie", "foreign"}]
    BY <1>2 DEF Terminated
  <2>2. stray' \in BOOLEAN
    <3>1. stray' = (stray \/ Strays(pids_to_kill))
      OBVIOUS
    <3> QED
      BY <3>1, Zenon
  <2>3. signals' \in Nat /\ pending' \in BOOLEAN /\ fired_signal' \in BOOLEAN
    <3>1. pending' = FALSE /\ fired_signal' = TRUE
      OBVIOUS
    <3>2. pending' \in BOOLEAN /\ fired_signal' \in BOOLEAN
      BY <3>1, Zenon
    <3>3. signals' = signals + 1 /\ signals \in Nat
      BY DEF TypeOK, PTTypeOK
    <3>4. signals' \in Nat
      BY <3>3
    <3> QED
      BY <3>2, <3>4
  <2>4. UNCHANGED <<raised, masked, inhibiters, pc, cur, pids_to_kill, foreigns>>
    OBVIOUS
  <2> QED
    BY <2>1, <2>2, <2>3, <2>4 DEF TypeOK, PTTypeOK, SectionInv
<1>4. RegistryInv'
  BY <1>1, <1>2 DEF RegistryInv, Forked, Waited
<1>5. InterruptUnblocksWait'
  <2> SUFFICES ASSUME pc = "wait", NEW p \in Pid  PROVE proc'[p] # "running"
    BY DEF InterruptUnblocksWait
  <2>1. IsChild(p) => p \in pids_to_kill
    BY <1>1 DEF RegistryInv, Forked
  <2> QED
    BY <1>2, <2>1 DEF IsChild
<1> QED
  BY <1>3, <1>4, <1>5

LEMMA ProcessIInv ==
  ASSUME IInv, RaiseSignal \/ Process
  PROVE  IInv'
<1> USE DEF IInv
<1>1. CASE RaiseSignal
  <2>1. TypeOK' /\ SectionInv'
    BY <1>1 DEF RaiseSignal, TypeOK, PTTypeOK, ptVars, SectionInv
  <2>2. RegistryInv' /\ InterruptUnblocksWait'
    BY <1>1 DEF RaiseSignal, ptVars, RegistryInv, InterruptUnblocksWait, Forked,
                Waited, IsChild
  <2> QED
    BY <2>1, <2>2
<1>2. CASE Process
  <2>1. PICK p \in Pid : ChildExit(p) \/ ForeignStart(p) \/ ForeignExit(p)
    BY <1>2 DEF Process, Environment
  <2>2. UNCHANGED intVars /\ UNCHANGED <<pids_to_kill, fired_signal, signals, stray>>
    BY <1>2, <2>1 DEF Process, ChildExit, ForeignStart, ForeignExit
  <2>3. TypeOK' /\ SectionInv'
    BY <2>1, <2>2 DEF ChildExit, ForeignStart, ForeignExit, intVars, TypeOK,
                      PTTypeOK, SectionInv
  <2>4. \A q \in Pid : /\ IsChild(q)' <=> IsChild(q)
                       /\ proc'[q] = "running" => proc[q] = "running"
    BY <2>1 DEF ChildExit, ForeignStart, ForeignExit, IsChild, TypeOK, PTTypeOK
  <2>5. RegistryInv' /\ InterruptUnblocksWait'
    BY <2>2, <2>4 DEF intVars, RegistryInv, InterruptUnblocksWait, Forked, Waited
  <2> QED
    BY <2>3, <2>5
<1> QED
  BY <1>1, <1>2

LEMMA StutterIInv ==
  ASSUME IInv, UNCHANGED vars
  PROVE  IInv'
BY DEF IInv, vars, ptVars, intVars, TypeOK, PTTypeOK, SectionInv, RegistryInv,
       InterruptUnblocksWait, Forked, Waited, IsChild

-----------------------------------------------------------------------------
(* The theorems. *)

\* Every reachable state satisfies the inductive invariant.
THEOREM Invariance == Spec => []IInv
<1>1. IInv /\ [Next]_vars => IInv'
  <2> SUFFICES ASSUME IInv, [Next]_vars  PROVE IInv'
    OBVIOUS
  <2>1. CASE Main
    BY <2>1, SectionsIInv, ChecksIInv, ForkEnterIInv, ForkIInv, AddPidToKillIInv,
       WaitReapIInv, RemoveIInv DEF Main
  <2>2. CASE SignalHandler
    BY <2>2, SignalHandlerIInv
  <2>3. CASE RaiseSignal \/ Process
    BY <2>3, ProcessIInv
  <2>4. CASE UNCHANGED vars
    BY <2>4, StutterIInv
  <2> QED
    BY <2>1, <2>2, <2>3, <2>4 DEF Next
<1> QED
  BY <1>1, InitIInv, PTL DEF Spec

\* The state of the interrupts and process code is well typed; in particular the
\* count of open sections never goes below zero.
THEOREM TypesCorrect == Spec => []TypeOK
BY Invariance, PTL DEF IInv

\* add_pid_to_kill(): whenever a signal can be delivered, every child is registered.
THEOREM RegistrationAtomic == Spec => []AtomicRegistration
<1>1. IInv => AtomicRegistration
  BY DEF IInv, SectionInv, RegistryInv, AtomicRegistration, ChildrenRegistered,
         Forked, TypeOK
<1> QED
  BY <1>1, Invariance, PTL

\* interrupts_inhibiter: signals are blocked exactly while a section is open.
THEOREM SectionsBlock == Spec => []BlockedInSections
<1>1. IInv => BlockedInSections
  BY DEF IInv, SectionInv, BlockedInSections
<1> QED
  BY <1>1, Invariance, PTL

\* signal_handler(): an interrupt leaves no live child for a wait to block on.
THEOREM WaitUnblocked == Spec => []InterruptUnblocksWait
BY Invariance, PTL DEF IInv

\* terminate_group(): the handler kills a process that is not ours only under the
\* PID of a wait that has returned and whose section has not been opened.
THEOREM StrayKillsBounded == Spec => StrayKillWindow
<1>1. IInv /\ [Next]_vars => (~stray /\ stray' => pc = "waited" /\ proc[cur] = "foreign")
  <2> SUFFICES ASSUME IInv, [Next]_vars, ~stray, stray'
               PROVE  pc = "waited" /\ proc[cur] = "foreign"
    OBVIOUS
  <2>1. CASE SignalHandler
    <3>1. Strays(pids_to_kill) /\ ~masked
      BY <2>1, Zenon DEF SignalHandler, Interrupt, TerminateGroups
    <3>2. PICK p \in pids_to_kill : proc[p] = "foreign"
      BY <3>1 DEF Strays
    <3>3. p \in Pid /\ ~IsChild(p)
      BY <3>2 DEF IsChild, IInv, TypeOK, PTTypeOK
    <3>4. Waited(p)
      BY <3>3 DEF IInv, RegistryInv
    <3>5. pc # "remove"
      BY <3>1 DEF IInv, SectionInv
    <3> QED
      BY <3>2, <3>4, <3>5 DEF Waited
  <2>2. stray' = stray \/ SignalHandler
    <3>1. CASE Main
      BY <3>1 DEF Main, SectionEnter, SectionLeave, CheckThrows, RaiseInterrupt,
           CheckPasses, ForkEnter, Fork, ForkFails, AddPidToKill, WaitReap,
           ReapChild, WaitFails, RemoveEnter, RemovePidToKill, Leave, ptVars
    <3>2. CASE RaiseSignal \/ Process
      BY <3>2 DEF RaiseSignal, Process, Environment, ChildExit, ForeignStart,
           ForeignExit, ptVars
    <3> QED
      BY <3>1, <3>2 DEF Next, vars, ptVars
  <2> QED
    BY <2>1, <2>2
<1> QED
  BY <1>1, Invariance, PTL DEF Spec, StrayKillWindow

-----------------------------------------------------------------------------
(* The refinement: what ProcessTable sees of each action. *)

LEMMA InitRefines == Init => PT!PTInit
<1> SUFFICES ASSUME Init  PROVE PT!PTInit
  OBVIOUS
<1>1. visibleProc = [p \in Pid |-> "free"]
  BY DEF Init, PTInit, visibleProc
<1> QED
  BY <1>1 DEF Init, PTInit, PT!PTInit

\* Outside fork() nothing is hidden.
LEMMA NothingHidden ==
  ASSUME TypeOK, pc # "register"
  PROVE  visibleProc = proc
BY DEF visibleProc, TypeOK, PTTypeOK

\* Entering and leaving sections and calls is not visible, and fork() is not
\* until the child is registered.
LEMMA HiddenRefines ==
  ASSUME IInv, IInv',
         \/ SectionEnter \/ SectionLeave \/ Leave \/ ForkEnter \/ ForkFails
         \/ WaitFails \/ RemoveEnter \/ RaiseSignal
         \/ \E call \in {"spawn", "wait"} : CheckPasses(call)
         \/ \E p \in Pid : Fork(p)
  PROVE  UNCHANGED PT!ptVars
<1>1. UNCHANGED <<pids_to_kill, fired_signal, signals, foreigns, stray>>
  BY DEF SectionEnter, SectionLeave, Leave, ForkEnter, ForkFails, WaitFails,
         RemoveEnter, RaiseSignal, CheckPasses, Fork, ptVars
<1>2. visibleProc' = visibleProc
  <2>1. CASE \E p \in Pid : Fork(p)
    <3>1. PICK p \in Pid : Fork(p)
      BY <2>1
    <3>2. \A q \in Pid : (visibleProc')[q] = visibleProc[q]
      BY <3>1 DEF Fork, visibleProc, IInv, TypeOK, PTTypeOK
    <3> QED
      BY <3>2 DEF visibleProc
  <2>2. CASE RaiseSignal
    BY <2>2 DEF RaiseSignal, ptVars, visibleProc
  <2>3. CASE pc # "register" /\ pc' # "register" /\ UNCHANGED ptVars
    BY <2>3, NothingHidden DEF visibleProc, ptVars
  <2> QED
    BY <2>1, <2>2, <2>3 DEF SectionEnter, SectionLeave, Leave, ForkEnter, ForkFails,
         WaitFails, RemoveEnter, CheckPasses
<1> QED
  BY <1>1, <1>2 DEF PT!ptVars

\* Registering the new PID is the abstract fork.
LEMMA AddPidToKillRefines ==
  ASSUME IInv, IInv', AddPidToKill
  PROVE  PT!ForkChild(cur) /\ cur \in Pid
<1>1. /\ cur \in Pid /\ cur \notin pids_to_kill /\ IsChild(cur)
      /\ cur' = cur /\ pc = "register" /\ pc' = "leave" /\ UNCHANGED proc
  BY DEF IInv, RegistryInv, Forked, Waited, AddPidToKill
<1>2. visibleProc[cur] = "free"
  BY <1>1 DEF visibleProc
<1>3. visibleProc' = [visibleProc EXCEPT ![cur] = proc[cur]]
  BY <1>1 DEF visibleProc, IInv, TypeOK, PTTypeOK
<1> QED
  BY <1>1, <1>2, <1>3 DEF PT!ForkChild, AddPidToKill, IsChild

\* The visible part of the process table changes with the whole of it.
LEMMA VisibleRefines ==
  ASSUME IInv, IInv', CheckThrows \/ RemovePidToKill \/ SignalHandler
                      \/ \E p \in Pid : WaitReap(p)
  PROVE  PT!PTNext
<1>1. pc # "register" /\ pc' # "register"
  BY DEF CheckThrows, RemovePidToKill, SignalHandler, WaitReap, IInv, SectionInv,
         intVars
<1>2. visibleProc = proc /\ visibleProc' = proc'
  BY <1>1, NothingHidden DEF visibleProc, IInv, TypeOK, PTTypeOK
<1>3. CASE CheckThrows
  BY <1>2, <1>3 DEF CheckThrows, RaiseInterrupt, PT!RaiseInterrupt, PT!PTNext
<1>4. CASE RemovePidToKill
  <2>1. cur \in Pid /\ cur \in pids_to_kill /\ ~IsChild(cur)
    BY <1>4 DEF RemovePidToKill, IInv, RegistryInv, Waited, Forked
  <2>2. PT!Unregister(cur)
    BY <1>2, <1>4, <2>1 DEF RemovePidToKill, PT!Unregister, PT!IsChild, IsChild
  <2> QED
    BY <2>1, <2>2 DEF PT!PTNext
<1>5. CASE SignalHandler
  <2>1. PT!Terminated(pids_to_kill) = Terminated(pids_to_kill)
    BY <1>2 DEF PT!Terminated, Terminated
  <2>2. PT!Strays(pids_to_kill) = Strays(pids_to_kill)
    BY <1>2, Zenon DEF PT!Strays, Strays
  <2>3. PT!Interrupt
    BY <1>2, <1>5, <2>1, <2>2 DEF SignalHandler, Interrupt, PT!Interrupt,
         TerminateGroups, PT!TerminateGroups
  <2> QED
    BY <2>3 DEF PT!PTNext
<1>6. CASE \E p \in Pid : WaitReap(p)
  <2>1. PICK p \in Pid : WaitReap(p)
    BY <1>6
  <2>2. PT!ReapChild(p)
    BY <1>2, <2>1 DEF WaitReap, ReapChild, PT!ReapChild
  <2> QED
    BY <2>2 DEF PT!PTNext
<1> QED
  BY <1>3, <1>4, <1>5, <1>6

\* A process that ends or starts does so visibly, except a child that ends
\* between fork() and its registration.
LEMMA ProcessRefines ==
  ASSUME IInv, Process
  PROVE  [PT!PTNext]_(PT!ptVars)
<1>1. PICK p \in Pid : ChildExit(p) \/ ForeignStart(p) \/ ForeignExit(p)
  BY DEF Process, Environment
<1>2. pc' = pc /\ cur' = cur /\ UNCHANGED <<pids_to_kill, fired_signal, signals, stray>>
  BY <1>1 DEF Process, intVars, ChildExit, ForeignStart, ForeignExit
<1>3. PICK s : proc' = [proc EXCEPT ![p] = s]
  BY <1>1 DEF ChildExit, ForeignStart, ForeignExit
<1>4. CASE Forked(p)
  <2>1. ChildExit(p)
    BY <1>1, <1>4 DEF IInv, RegistryInv, Forked, Waited, IsChild, ForeignStart,
                      ForeignExit
  <2>2. visibleProc' = visibleProc
    BY <1>2, <1>3, <1>4 DEF visibleProc, Forked, IInv, TypeOK, PTTypeOK
  <2> QED
    BY <1>2, <2>1, <2>2 DEF PT!ptVars, ChildExit
<1>5. CASE ~Forked(p)
  <2>1. visibleProc[p] = proc[p] /\ visibleProc' = [visibleProc EXCEPT ![p] = s]
    BY <1>2, <1>3, <1>5 DEF visibleProc, Forked, IInv, TypeOK, PTTypeOK
  <2>2. PT!ChildExit(p) \/ PT!ForeignStart(p) \/ PT!ForeignExit(p)
    BY <1>1, <1>3, <2>1 DEF ChildExit, ForeignStart, ForeignExit, PT!ChildExit,
         PT!ForeignStart, PT!ForeignExit, IInv, TypeOK, PTTypeOK
  <2> QED
    BY <2>2 DEF PT!PTNext, PT!Environment
<1> QED
  BY <1>4, <1>5

\* The steps of child.cpp, operations.cpp and interrupts.cpp implement the atomic
\* fork-and-register and reap-then-unregister that ProcessTable promises.
THEOREM Refinement == Spec => ImplementsProcessTable
<1>1. IInv /\ IInv' /\ [Next]_vars => [PT!PTNext]_(PT!ptVars)
  <2> SUFFICES ASSUME IInv, IInv', [Next]_vars  PROVE [PT!PTNext]_(PT!ptVars)
    OBVIOUS
  <2>1. CASE AddPidToKill
    BY <2>1, AddPidToKillRefines DEF PT!PTNext
  <2>2. CASE CheckThrows \/ RemovePidToKill \/ SignalHandler
             \/ \E p \in Pid : WaitReap(p)
    BY <2>2, VisibleRefines
  <2>3. CASE Process
    BY <2>3, ProcessRefines
  <2>4. CASE UNCHANGED vars
    BY <2>4 DEF vars, ptVars, intVars, visibleProc, PT!ptVars
  <2> QED
    BY <2>1, <2>2, <2>3, <2>4, HiddenRefines DEF Next, Main
<1> QED
  BY <1>1, InitRefines, Invariance, PTL DEF Spec, ImplementsProcessTable, PT!PTSpec
=============================================================================
