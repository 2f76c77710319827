---------------------------- MODULE ProcessTable ----------------------------
(***************************************************************************)
(* What utils/signals/interrupts.cpp and utils/process promise together to *)
(* the code that runs subprocesses: a child is registered for killing in   *)
(* the same step in which it is created, and the handler of an interrupt   *)
(* kills exactly the registered PIDs.  The module also describes the part  *)
(* of the kernel that matters here, the life of a PID, including that the  *)
(* PID of a reaped child may be given to a process that is not ours.       *)
(*                                                                         *)
(* Module Interrupts has the code's own steps and implements this one.     *)
(***************************************************************************)
EXTENDS Naturals, FiniteSets

CONSTANTS
  Pid,          \* process identifiers
  MaxSignals,   \* bound: interrupts the user sends
  MaxForeign    \* bound: PIDs that the kernel gives to other programs

ASSUME SignalBounds == MaxSignals \in Nat /\ MaxForeign \in Nat

VARIABLES
  proc,           \* each PID: "free", a child ("running", "zombie"), "foreign"
  pids_to_kill,   \* the PIDs the interrupt handler kills
  fired_signal,   \* an interrupt was handled and not yet raised
  signals,        \* interrupts handled so far
  foreigns,       \* processes of other programs started so far
  stray           \* a SIGKILL was sent to a process that is not our child

ptVars == <<proc, pids_to_kill, fired_signal, signals, foreigns, stray>>

PTInit ==
  /\ proc = [p \in Pid |-> "free"]
  /\ pids_to_kill = {}
  /\ fired_signal = FALSE
  /\ signals = 0
  /\ foreigns = 0
  /\ stray = FALSE

-----------------------------------------------------------------------------
IsChild(p) == proc[p] \in {"running", "zombie"}

\* Defect: only processes that already left our process group are killed.
TerminatedForeign(S) ==
  [p \in Pid |-> IF p \in S /\ proc[p] = "foreign" THEN "free" ELSE proc[p]]

\* terminate_group() of every PID in S: a child becomes a zombie.
Terminated(S) ==
  [p \in Pid |-> CASE p \in S /\ proc[p] = "running" -> "zombie"
                   [] p \in S /\ proc[p] = "foreign" -> "free"
                   [] OTHER -> proc[p]]

Strays(S) == \E p \in S : proc[p] = "foreign"

TerminateGroups(S) ==
  /\ proc' = Terminated(S)
  /\ stray' = (stray \/ Strays(S))

\* fork_files(), fork_capture(): the child may even be dead when they return.
ForkChild(p) ==
  /\ proc[p] = "free" /\ p \notin pids_to_kill
  /\ \E s \in {"running", "zombie"} : proc' = [proc EXCEPT ![p] = s]
  /\ pids_to_kill' = pids_to_kill \union {p}
  /\ UNCHANGED <<fired_signal, signals, foreigns, stray>>

\* The child terminates on its own.
ChildExit(p) ==
  /\ proc[p] = "running"
  /\ proc' = [proc EXCEPT ![p] = "zombie"]
  /\ UNCHANGED <<pids_to_kill, fired_signal, signals, foreigns, stray>>

\* wait(2) or waitpid(2) collects a dead child: its PID is free again.
ReapChild(p) ==
  /\ proc[p] = "zombie"
  /\ proc' = [proc EXCEPT ![p] = "free"]
  /\ UNCHANGED <<pids_to_kill, fired_signal, signals, foreigns, stray>>

\* remove_pid_to_kill(), after the wait.
Unregister(p) ==
  /\ p \in pids_to_kill /\ ~IsChild(p)
  /\ pids_to_kill' = pids_to_kill \ {p}
  /\ UNCHANGED <<proc, fired_signal, signals, foreigns, stray>>

\* signal_handler().
Interrupt ==
  /\ signals < MaxSignals
  /\ signals' = signals + 1
  /\ fired_signal' = TRUE
  /\ TerminateGroups(pids_to_kill)
  /\ UNCHANGED <<pids_to_kill, foreigns>>

\* check_interrupt() with an interrupt to report: it throws only once.
RaiseInterrupt ==
  /\ fired_signal
  /\ fired_signal' = FALSE
  /\ UNCHANGED <<proc, pids_to_kill, signals, foreigns, stray>>

\* The kernel gives a free PID to a process of another program.
ForeignStart(p) ==
  /\ proc[p] = "free" /\ foreigns < MaxForeign
  /\ proc' = [proc EXCEPT ![p] = "foreign"]
  /\ foreigns' = foreigns + 1
  /\ UNCHANGED <<pids_to_kill, fired_signal, signals, stray>>

ForeignExit(p) ==
  /\ proc[p] = "foreign"
  /\ proc' = [proc EXCEPT ![p] = "free"]
  /\ UNCHANGED <<pids_to_kill, fired_signal, signals, foreigns, stray>>

Environment ==
  \E p \in Pid : ChildExit(p) \/ ForeignStart(p) \/ ForeignExit(p)

-----------------------------------------------------------------------------
(* The promise as a specification of its own. *)

PTNext ==
  \/ \E p \in Pid : ForkChild(p) \/ ReapChild(p) \/ Unregister(p)
  \/ Interrupt
  \/ RaiseInterrupt
  \/ Environment

PTSpec == PTInit /\ [][PTNext]_ptVars

PTTypeOK ==
  /\ proc \in [Pid -> {"free", "running", "zombie", "foreign"}]
  /\ pids_to_kill \subseteq Pid
  /\ fired_signal \in BOOLEAN
  /\ signals \in Nat
  /\ foreigns \in Nat
  /\ stray \in BOOLEAN

\* An interrupt reaches every child of the program, at any moment.
ChildrenRegistered == \A p \in Pid : IsChild(p) => p \in pids_to_kill
=============================================================================
