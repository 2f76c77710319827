----------------------------- MODULE Interrupts -----------------------------
(***************************************************************************)
(* The steps of utils/signals/interrupts.cpp, utils/process/child.cpp and  *)
(* utils/process/operations.cpp that create, register, reap and unregister *)
(* a child.  SIGHUP, SIGINT and SIGTERM may arrive between any two steps;  *)
(* the kernel holds them back while an interrupts_inhibiter has the        *)
(* signals blocked.                                                        *)
(***************************************************************************)
EXTENDS ProcessTable

CONSTANTS
  NoPid,       \* not a PID
  MaxNesting   \* bound: interrupts_inhibiter objects alive at a time

ASSUME NoPidAssumption == NoPid \notin Pid

ASSUME NestingAssumption == MaxNesting \in Nat \ {0}

VARIABLES
  pending,      \* an interrupt signal was generated and not delivered
  raised,       \* signals generated so far
  masked,       \* the kernel's signal mask blocks the interrupts
  inhibiters,   \* interrupts_inhibiter_active
  pc,           \* the call in progress, or "idle"
  cur           \* the PID of that call

intVars == <<pending, raised, masked, inhibiters, pc, cur>>
vars == <<ptVars, intVars>>

Init ==
  /\ PTInit
  /\ pending = FALSE
  /\ raised = 0
  /\ masked = FALSE
  /\ inhibiters = 0
  /\ pc = "idle"
  /\ cur = NoPid

-----------------------------------------------------------------------------
\* Defect: the signal mask is not restored.
LeaveSectionNever ==
  /\ inhibiters' = IF inhibiters > 1 THEN inhibiters - 1 ELSE 0
  /\ UNCHANGED masked

\* interrupts_inhibiter::interrupts_inhibiter(): sections nest.
EnterSection ==
  /\ masked' = TRUE
  /\ inhibiters' = inhibiters + 1

\* interrupts_inhibiter::~interrupts_inhibiter().
LeaveSection ==
  /\ inhibiters' = IF inhibiters > 1 THEN inhibiters - 1 ELSE 0
  /\ masked' = (masked /\ inhibiters > 1)

\* Sections of other code: signals::timer nests one inside another.
SectionEnter ==
  /\ pc = "idle" /\ inhibiters < MaxNesting
  /\ EnterSection
  /\ UNCHANGED <<ptVars, pending, raised, pc, cur>>

SectionLeave ==
  /\ pc = "idle" /\ inhibiters > 0
  /\ LeaveSection
  /\ UNCHANGED <<ptVars, pending, raised, pc, cur>>

-----------------------------------------------------------------------------
(* check_interrupt() opens the executor's spawn and wait calls. *)

\* An interrupt was handled: the call throws and nothing else happens.
CheckThrows ==
  /\ pc = "idle" /\ inhibiters = 0
  /\ RaiseInterrupt
  /\ UNCHANGED intVars

\* Defect: the wait does not look for an earlier interrupt.
CheckPassesAlways(call) ==
  /\ pc = "idle" /\ inhibiters = 0
  /\ pc' = call
  /\ UNCHANGED <<ptVars, pending, raised, masked, inhibiters, cur>>

CheckPasses(call) ==
  /\ pc = "idle" /\ inhibiters = 0 /\ ~fired_signal
  /\ pc' = call
  /\ UNCHANGED <<ptVars, pending, raised, masked, inhibiters, cur>>

-----------------------------------------------------------------------------
(* child::fork_files_aux(), child::fork_capture_aux(). *)

\* Defect: the signals are not blocked around fork().
ForkEnterUnmasked ==
  /\ pc = "spawn"
  /\ pc' = "fork"
  /\ UNCHANGED <<ptVars, pending, raised, masked, inhibiters, cur>>

ForkEnter ==
  /\ pc = "spawn"
  /\ EnterSection
  /\ pc' = "fork"
  /\ UNCHANGED <<ptVars, pending, raised, cur>>

\* fork(2) creates the child, which is not registered yet.
Fork(p) ==
  /\ pc = "fork" /\ proc[p] = "free"
  /\ proc' = [proc EXCEPT ![p] = "running"]
  /\ pc' = "register" /\ cur' = p
  /\ UNCHANGED <<pids_to_kill, fired_signal, signals, foreigns, stray,
                 pending, raised, masked, inhibiters>>

\* fork(2) fails: the inhibiter is reset and system_error is thrown.
ForkFails ==
  /\ pc = "fork"
  /\ pc' = "leave"
  /\ UNCHANGED <<ptVars, pending, raised, masked, inhibiters, cur>>

\* add_pid_to_kill().
AddPidToKill ==
  /\ pc = "register"
  /\ pids_to_kill' = pids_to_kill \union {cur}
  /\ pc' = "leave"
  /\ UNCHANGED <<proc, fired_signal, signals, foreigns, stray, pending, raised,
                 masked, inhibiters, cur>>

-----------------------------------------------------------------------------
(* process::wait() and process::wait_any(). *)

\* Defect: the PID is forgotten before its process has been waited for.
WaitReapRunning(p) ==
  /\ pc = "wait" /\ IsChild(p)
  /\ pc' = "waited" /\ cur' = p
  /\ UNCHANGED <<ptVars, pending, raised, masked, inhibiters>>

WaitReap(p) ==
  /\ pc = "wait"
  /\ ReapChild(p)
  /\ pc' = "waited" /\ cur' = p
  /\ UNCHANGED <<pending, raised, masked, inhibiters>>

\* wait(2) fails at once when there are no children.
WaitFails ==
  /\ pc = "wait" /\ \A p \in Pid : ~IsChild(p)
  /\ pc' = "idle"
  /\ UNCHANGED <<ptVars, pending, raised, masked, inhibiters, cur>>

RemoveEnter ==
  /\ pc = "waited"
  /\ EnterSection
  /\ pc' = "remove"
  /\ UNCHANGED <<ptVars, pending, raised, cur>>

\* remove_pid_to_kill().
RemovePidToKill ==
  /\ pc = "remove"
  /\ pids_to_kill' = pids_to_kill \ {cur}
  /\ pc' = "leave"
  /\ UNCHANGED <<proc, fired_signal, signals, foreigns, stray, pending, raised,
                 masked, inhibiters, cur>>

\* The section of fork or of remove_pid_to_kill() ends.
Leave ==
  /\ pc = "leave"
  /\ LeaveSection
  /\ pc' = "idle" /\ cur' = NoPid
  /\ UNCHANGED <<ptVars, pending, raised>>

-----------------------------------------------------------------------------
(* Signals and processes. *)

RaiseSignal ==
  /\ raised < MaxSignals
  /\ raised' = raised + 1
  /\ pending' = TRUE
  /\ UNCHANGED <<ptVars, masked, inhibiters, pc, cur>>

\* The kernel runs signal_handler() once the signal is not blocked.
SignalHandler ==
  /\ pending /\ ~masked
  /\ pending' = FALSE
  /\ Interrupt
  /\ UNCHANGED <<raised, masked, inhibiters, pc, cur>>

Process == Environment /\ UNCHANGED intVars

\* The program runs unless a signal is about to be delivered to it.
Main ==
  /\ masked \/ ~pending
  /\ \/ SectionEnter \/ SectionLeave
     \/ CheckThrows \/ (\E call \in {"spawn", "wait"} : CheckPasses(call))
     \/ ForkEnter \/ (\E p \in Pid : Fork(p)) \/ ForkFails \/ AddPidToKill
     \/ (\E p \in Pid : WaitReap(p)) \/ WaitFails
     \/ RemoveEnter \/ RemovePidToKill
     \/ Leave

Next == Main \/ RaiseSignal \/ SignalHandler \/ Process

Spec == Init /\ [][Next]_vars

\* A call in progress goes on (a wait for a child that never ends excepted), a
\* section is straight-line code that ends however many others it opens, and
\* the kernel delivers a signal that is not blocked.
Fairness ==
  /\ WF_vars(pc # "idle" /\ Main)
  /\ WF_vars(SectionLeave) /\ SF_vars(inhibiters = 1 /\ SectionLeave)
  /\ WF_vars(SignalHandler)

LiveSpec == Spec /\ Fairness

-----------------------------------------------------------------------------
(* Properties. *)

TypeOK ==
  /\ PTTypeOK
  /\ pending \in BOOLEAN /\ masked \in BOOLEAN
  /\ raised \in Nat /\ inhibiters \in Nat
  /\ pc \in {"idle", "spawn", "fork", "register", "leave", "wait", "waited",
            "remove"}
  /\ cur \in Pid \union {NoPid}

\* add_pid_to_kill(): "the call to fork() and the addition of the PID happen
\* atomically".  Whenever the handler can run, it reaches every child.
AtomicRegistration == ~masked => ChildrenRegistered

\* signal_handler(): the children are killed "so that any ongoing wait(2) system
\* calls terminate".  An interrupt that arrives after the wait looked for one
\* leaves no child alive that the wait could block on.
InterruptUnblocksWait ==
  (pc = "wait" /\ fired_signal) => \A p \in Pid : proc[p] # "running"

\* Every nested section keeps the signals blocked until the outermost ends.
BlockedInSections == masked <=> inhibiters > 0

\* The steps implement the promise: at the point of registration the child
\* appears in the process table, already registered.
visibleProc ==
  [p \in Pid |-> IF pc = "register" /\ p = cur THEN "free" ELSE proc[p]]

PT == INSTANCE ProcessTable WITH proc <- visibleProc

\* fork with registration, and waiting with its bookkeeping, appear atomic: no
\* PID is registered twice and none is forgotten while its process is a child.
ImplementsProcessTable == PT!PTSpec

\* terminate_group(): "we have not yet issued a wait() call so we still own the
\* PID".  The one exception is the PID of a wait that has returned and not yet
\* opened the section of remove_pid_to_kill(): no other kill can go astray.
StrayKillWindow ==
  [][~stray /\ stray' => pc = "waited" /\ proc[cur] = "foreign"]_vars

\* A signal that was sent is handled, however sections and calls nest.
SignalHandled == pending ~> ~pending
=============================================================================
