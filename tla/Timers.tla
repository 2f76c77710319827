------------------------------- MODULE Timers -------------------------------
(***************************************************************************)
(* The deadline scheduler of utils/signals/timer.cpp: many user timers     *)
(* multiplexed on the single interval timer of the process.                *)
(*                                                                         *)
(* The constructor and unprogram() run with SIGALRM blocked (every one of  *)
(* them opens an interrupts_inhibiter), but the clock and the interval     *)
(* timer keep running, so each is split into the steps between which the   *)
(* clock may advance.  The SIGALRM handler runs only while the signal is   *)
(* unblocked; nothing of the process runs during it, so it is one action.  *)
(***************************************************************************)
EXTENDS Naturals

CONSTANTS
  Timer,           \* the signals::timer objects the program creates
  NoTimer,         \* not one of them
  Delta,           \* the delays they may be created with
  Horizon,         \* bound: no timer is set to expire after this instant
  MaxNow,          \* bound: the clock stops here
  MaxSkew,         \* bound: clock ticks between sampling now() and setitimer
  MinLatency,      \* how far past _timer_activation the handler's clock is
  OldDisposition   \* SIGALRM disposition before the first timer

ASSUME DeltaAssumption == Delta \subseteq Nat \ {0}

ASSUME BoundsAssumption == /\ Horizon \in Nat /\ MaxNow \in Nat
                           /\ MaxSkew \in Nat /\ MinLatency \in Nat

ASSUME DispositionAssumption == OldDisposition \in {"default", "ignored"}

ASSUME NoTimerAssumption == NoTimer \notin Timer

VARIABLES
  now,         \* datetime::timestamp::now()
  itimer,      \* time left in ITIMER_REAL; 0 when it is disarmed
  pending,     \* SIGALRM was generated and not delivered yet
  globals,     \* the global_state object exists, and with it the handler
  activation,  \* global_state::_timer_activation
  active,      \* the timers in the buckets of global_state::_all_timers
  when,        \* impl::when of each timer
  state,       \* "unborn", then impl::programmed as a word
  fired,       \* how many times do_fired() ran: impl::fired is fired > 0
  pc,          \* the masked call in progress, or "unmasked"
  cur,         \* the timer of that call
  sampled,     \* the now() the constructor sampled
  crashed      \* "no", or what killed the process

vars == <<now, itimer, pending, globals, activation, active, when, state,
          fired, pc, cur, sampled, crashed>>

Init ==
  /\ now = 0
  /\ itimer = 0
  /\ pending = FALSE
  /\ globals = FALSE
  /\ activation = 0
  /\ active = {}
  /\ when = [t \in Timer |-> 0]
  /\ state = [t \in Timer |-> "unborn"]
  /\ fired = [t \in Timer |-> 0]
  /\ pc = "unmasked"
  /\ cur = NoTimer
  /\ sampled = 0
  /\ crashed = "no"

-----------------------------------------------------------------------------
(* Helpers of global_state. *)

\* Defect: timers about to expire are taken for expired.
ExpiredEarly(ts, n) == {t \in ts : when[t] <= n + 1}

\* What compute_timers_to_run_and_prune_old() takes out of ts at time n.
Expired(ts, n) == {t \in ts : when[t] <= n}

\* The activations reprogram_system_timer() may choose: not in the past.
Upcoming(ts, n) == {when[t] : t \in {u \in ts : when[u] >= n}}

Earliest(S) == CHOOSE w \in S : \A v \in S : w <= v

\* Defect: the system timer is only ever moved to an earlier activation.
MustReprogramEarlier(next, n) == next < activation

\* The decision of reprogram_system_timer(): is the system timer touched?
MustReprogram(next, n) == next < activation \/ n > activation

\* reprogram_system_timer(n) when _all_timers holds ts.  A delay of zero, when
\* the next activation is exactly n, disarms the interval timer.
Reprogram(ts, n) ==
  LET next == Earliest(Upcoming(ts, n))
  IN  IF Upcoming(ts, n) # {} /\ MustReprogram(next, n)
        THEN itimer' = next - n /\ activation' = next
        ELSE UNCHANGED <<itimer, activation>>

\* What remove_from_all_timers() leaves in _all_timers.
Remaining(t) == active \ {t}

-----------------------------------------------------------------------------
(* timer::timer(delta). *)

\* Blocks the signals, samples the clock and builds the impl.
CtorEnter(t, d) ==
  /\ crashed = "no" /\ pc = "unmasked" /\ ~pending
  /\ state[t] = "unborn" /\ now + d <= Horizon
  /\ pc' = "ctor" /\ cur' = t /\ sampled' = now
  /\ when' = [when EXCEPT ![t] = now + d]
  /\ state' = [state EXCEPT ![t] = "programmed"]
  /\ UNCHANGED <<now, itimer, pending, globals, activation, active, fired,
                 crashed>>

\* The first timer: installs the handler and arms the interval timer.
NewGlobalState ==
  /\ pc = "ctor" /\ ~globals
  /\ globals' = TRUE
  /\ itimer' = when[cur] - sampled
  /\ activation' = when[cur]
  /\ active' = {cur}
  /\ pc' = "exit"
  /\ UNCHANGED <<now, pending, when, state, fired, cur, sampled, crashed>>

\* Any other timer: global_state::program_new().
ProgramNew ==
  /\ pc = "ctor" /\ globals
  /\ active' = active \union {cur}
  /\ Reprogram(active \union {cur}, sampled)
  /\ pc' = "exit"
  /\ UNCHANGED <<now, pending, globals, when, state, fired, cur, sampled,
                 crashed>>

-----------------------------------------------------------------------------
(* timer::unprogram(), also reached from the destructor. *)

UnprogramEnter(t) ==
  /\ crashed = "no" /\ pc = "unmasked" /\ ~pending
  /\ state[t] = "programmed"
  /\ pc' = "unprogram" /\ cur' = t
  /\ UNCHANGED <<now, itimer, pending, globals, activation, active, when,
                 state, fired, sampled, crashed>>

\* globals->unprogram(this) through a null globals pointer.
UnprogramNull ==
  /\ crashed = "no" /\ pc = "unprogram" /\ ~globals
  /\ crashed' = "null_globals"
  /\ UNCHANGED <<now, itimer, pending, globals, activation, active, when,
                 state, fired, pc, cur, sampled>>

\* Other timers remain in _all_timers: the system timer may move.
UnprogramOne ==
  /\ pc = "unprogram" /\ globals
  /\ Remaining(cur) # {}
  /\ active' = Remaining(cur)
  /\ Reprogram(Remaining(cur), now)
  /\ pc' = "late"
  /\ UNCHANGED <<now, pending, globals, when, state, fired, cur, sampled,
                 crashed>>

\* _all_timers is empty: globals.reset() restores the original interval timer
\* (taken to be disarmed) and the original SIGALRM disposition.
UnprogramLast ==
  /\ pc = "unprogram" /\ globals
  /\ Remaining(cur) = {}
  /\ active' = {}
  /\ globals' = FALSE /\ itimer' = 0 /\ activation' = 0
  /\ pc' = "late"
  /\ UNCHANGED <<now, pending, when, state, fired, cur, sampled, crashed>>

\* Defect: the callback runs again although the handler already ran it.
FiresLateAgain(t) == now > when[t]

\* unprogram() runs the callback itself if the timer expired without it.
FiresLate(t) == fired[t] = 0 /\ now > when[t]

UnprogramLate ==
  /\ pc = "late"
  /\ state' = [state EXCEPT ![cur] = "unprogrammed"]
  /\ fired' = IF FiresLate(cur) THEN [fired EXCEPT ![cur] = @ + 1] ELSE fired
  /\ pc' = "exit"
  /\ UNCHANGED <<now, itimer, pending, globals, activation, active, when,
                 cur, sampled, crashed>>

\* ~interrupts_inhibiter() of the outermost section unblocks the signals.  If
\* the handler is gone by then the original disposition meets the signal.
Unmask ==
  /\ crashed = "no" /\ pc = "exit"
  /\ pc' = "unmasked" /\ cur' = NoTimer
  /\ pending' = (pending /\ globals)
  /\ crashed' = IF pending /\ ~globals /\ OldDisposition = "default"
                  THEN "sigalrm" ELSE crashed
  /\ UNCHANGED <<now, itimer, globals, activation, active, when, state,
                 fired, sampled>>

-----------------------------------------------------------------------------
(* The kernel and the signal handler. *)

\* The clock advances; ITIMER_REAL raises SIGALRM when it runs out.
Tick ==
  /\ crashed = "no" /\ now < MaxNow
  /\ pc = "ctor" => now - sampled < MaxSkew
  /\ now' = now + 1
  /\ itimer' = IF itimer > 0 THEN itimer - 1 ELSE 0
  /\ pending' = (pending \/ itimer = 1)
  /\ UNCHANGED <<globals, activation, active, when, state, fired, pc, cur,
                 sampled, crashed>>

\* sigalrm_handler() -> global_state::fire() -> do_fired() of every timer due.
\* The latency is that of the signal of the timer armed last; one left pending
\* from an earlier activation, while the timer runs again, is handled at once.
Fire ==
  /\ crashed = "no" /\ pc = "unmasked" /\ pending /\ globals
  /\ itimer = 0 => now >= activation + MinLatency
  /\ pending' = FALSE
  /\ active' = active \ Expired(active, now)
  /\ Reprogram(active \ Expired(active, now), now)
  /\ fired' = [t \in Timer |->
                 IF t \in Expired(active, now) THEN fired[t] + 1 ELSE fired[t]]
  /\ UNCHANGED <<now, globals, when, state, pc, cur, sampled, crashed>>

Ctor == \/ \E t \in Timer, d \in Delta : CtorEnter(t, d)
        \/ NewGlobalState
        \/ ProgramNew

Unprogram == \/ \E t \in Timer : UnprogramEnter(t)
             \/ UnprogramNull
             \/ UnprogramOne
             \/ UnprogramLast
             \/ UnprogramLate

Next == Ctor \/ Unprogram \/ Unmask \/ Tick \/ Fire

Spec == Init /\ [][Next]_vars

\* A call in progress goes on, the clock advances and the kernel delivers a
\* pending signal; nothing obliges the program to create or cancel a timer.
Fairness == /\ WF_vars(NewGlobalState) /\ WF_vars(ProgramNew)
            /\ WF_vars(UnprogramNull) /\ WF_vars(UnprogramOne)
            /\ WF_vars(UnprogramLast) /\ WF_vars(UnprogramLate)
            /\ WF_vars(Unmask) /\ WF_vars(Tick) /\ WF_vars(Fire)

LiveSpec == Spec /\ Fairness

-----------------------------------------------------------------------------
(* Properties. *)

Pcs == {"unmasked", "ctor", "unprogram", "late", "exit"}

TypeOK ==
  /\ now \in Nat /\ itimer \in Nat /\ activation \in Nat /\ sampled \in Nat
  /\ pending \in BOOLEAN /\ globals \in BOOLEAN
  /\ active \subseteq Timer
  /\ when \in [Timer -> Nat]
  /\ state \in [Timer -> {"unborn", "programmed", "unprogrammed"}]
  /\ fired \in [Timer -> Nat]
  /\ pc \in Pcs /\ cur \in Timer \union {NoTimer}
  /\ crashed \in {"no", "null_globals", "sigalrm"}

\* do_fired() asserts PRE(!fired): whatever the handler and a concurrent
\* unprogram() do, the callback of a timer runs at most once.
FiredOnce == \A t \in Timer : fired[t] <= 1

\* A callback never runs before the deadline it was programmed for: a test is
\* not killed as timed out before its timeout.
NeverEarly == \A t \in Timer : fired[t] > 0 => now >= when[t]

\* remove_from_all_timers() asserts that a bucket found under when() holds the
\* timer: no timer that the handler took out has a live neighbour there.
BucketHoldsTimer ==
  pc = "unprogram" =>
    cur \in active \/ \A u \in active : when[u] # when[cur]

\* A programmed timer whose deadline has come runs its callback or is
\* unprogrammed (class timer: "Asynchronously executes its callback()").
FiresEventually ==
  \A t \in Timer :
    (state[t] = "programmed" /\ now >= when[t])
      ~> (fired[t] > 0 \/ state[t] = "unprogrammed" \/ crashed # "no")

\* unprogram() dereferences globals: while some timer is still programmed (its
\* only documented precondition), the global state has to exist.
GlobalsWhileProgrammed ==
  pc = "unmasked" =>
    \A t \in Timer : state[t] = "programmed" => globals
=============================================================================
