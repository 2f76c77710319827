-------------------------------- MODULE Clock --------------------------------
(* The timers of utils/signals/timer.cpp on a clock that is set: activations *)
(* are times of day, gettimeofday(2), but the interval timer of the system   *)
(* counts real time.  Timers.tla has the interleavings of the calls with the *)
(* signal and a clock that only advances; here each call is one step, and    *)
(* an administrator or NTP steps the clock between them.                     *)
EXTENDS Datetime, FiniteSets

CONSTANTS
  Timers,      \* timer objects
  Delays,      \* the deltas they are made with
  ClockSteps,       \* how far the clock is stepped, back if negative
  MaxReal,     \* bound: real time
  MaxStepped,  \* bound: times that the clock is stepped
  MaxTests     \* bound: tests that are timed

(* The first timer must be in the future, PRE(now < timer->when()).          *)
ASSUME DelaysAssumption == \A d \in Delays : to_microseconds(d) \in Nat \ {0}
ASSUME ClockStepsAssumption == ClockSteps \subseteq Int

VARIABLES
  real,        \* microseconds since the machine started
  ahead,       \* the time of day minus real
  itimer,      \* microseconds left in ITIMER_REAL, 0 if it is disarmed
  expired,     \* when SIGALRM was generated, or NoSignal
  globals,     \* the global state, and with it the handler, exists
  activation,  \* _timer_activation
  all_timers,  \* the timers of _all_timers
  timer,       \* each timer: [state, when, asked, since]
  stepped, forward, back, \* how often and how far the clock was stepped
  fired_at,    \* history: real time when each timer fired
  test,        \* the test being run: [running, start_time, born]
  report       \* of the tests that ended: [runtime, elapsed, tests]

clock_vars_but_tests ==
  <<real, ahead, itimer, expired, globals, activation, all_timers, timer, stepped, forward, back,
    fired_at>>
test_vars == <<test, report>>
clock_vars == <<clock_vars_but_tests, test_vars>>

NoSignal == -1
NotFired == -1
NoTest == [running |-> FALSE, start_time |-> delta(0, 0), born |-> 0]
Unborn == [state |-> "unborn", when |-> delta(0, 0), asked |-> delta(0, 0), born |-> 0]

now == from_microseconds(real + ahead)
fired(t) == fired_at[t] # NotFired

ClockInit ==
  /\ real = 0 /\ ahead = 2 * PerSecond /\ itimer = 0 /\ expired = NoSignal
  /\ globals = FALSE /\ activation = delta(0, 0) /\ all_timers = {}
  /\ timer = [t \in Timers |-> Unborn]
  /\ stepped = 0 /\ forward = 0 /\ back = 0
  /\ fired_at = [t \in Timers |-> NotFired]
  /\ test = NoTest /\ report = [runtime |-> delta(0, 0), elapsed |-> 0, tests |-> 0]

(* setitimer(2) is given both fields of the delta.                           *)
safe_setitimer(d) == itimer' = to_microseconds(d)

(* The next activation is the first that is not in the past, and the system  *)
(* timer is only touched if it comes before the current one or that is over. *)
reprogram_system_timer(timers, whens) ==
  LET ahead_of == {whens[t] : t \in {u \in timers : ~less(whens[u], now)}}
      next == CHOOSE w \in ahead_of : \A v \in ahead_of : less_equal(w, v)
  IN IF ahead_of # {} /\ (less(next, activation) \/ less(activation, now))
     THEN safe_setitimer(since(next, now)) /\ activation' = next
     ELSE UNCHANGED <<itimer, activation>>

(* timer::timer(): the first one makes the global state.  A call begins with *)
(* the signal unblocked, so one that was generated is handled first.         *)
NewTimer(t, d) ==
  /\ timer[t].state = "unborn" /\ expired = NoSignal
  /\ LET when == plus(now, d)
         whens == [u \in Timers |-> IF u = t THEN when ELSE timer[u].when]
     IN /\ timer' = [timer EXCEPT ![t] =
                       [state |-> "programmed", when |-> when, asked |-> d, born |-> real]]
        /\ all_timers' = all_timers \cup {t}
        /\ globals' = TRUE
        /\ IF ~globals
           THEN safe_setitimer(since(when, now)) /\ activation' = when
           ELSE reprogram_system_timer(all_timers', whens)
  /\ UNCHANGED <<real, ahead, expired, stepped, forward, back, fired_at, test_vars>>

(* timer::unprogram(): without timers left the system timer stops.  One that *)
(* is overdue fires now.  (Without a global state it crashes: see Timers.)   *)
Unprogram(t) ==
  /\ timer[t].state = "programmed" /\ expired = NoSignal /\ globals
  /\ timer' = [timer EXCEPT ![t].state = "done"]
  /\ all_timers' = all_timers \ {t}
  /\ globals' = (all_timers' # {})
  /\ IF all_timers' = {} THEN itimer' = 0 /\ UNCHANGED activation
     ELSE reprogram_system_timer(all_timers', [u \in Timers |-> timer[u].when])
  /\ fired_at' = IF ~fired(t) /\ less(timer[t].when, now)
                 THEN [fired_at EXCEPT ![t] = real] ELSE fired_at
  /\ UNCHANGED <<real, ahead, expired, stepped, forward, back, test_vars>>

(* The handler: runs a while after the signal was generated.                 *)
Fire ==
  /\ expired # NoSignal /\ real > expired
  /\ LET to_run == {t \in all_timers : less_equal(timer[t].when, now)}
     IN /\ all_timers' = all_timers \ to_run
        /\ reprogram_system_timer(all_timers', [u \in Timers |-> timer[u].when])
        /\ fired_at' = [t \in Timers |-> IF t \in to_run THEN real ELSE fired_at[t]]
  /\ expired' = NoSignal
  /\ UNCHANGED <<real, ahead, globals, timer, stepped, forward, back, test_vars>>

(* executor::spawn() and wait_any() take the time of day.                    *)
StartTest ==
  /\ ~test.running /\ report.tests < MaxTests
  /\ test' = [running |-> TRUE, start_time |-> now, born |-> real]
  /\ UNCHANGED <<clock_vars_but_tests, report>>

(* The total time that a report states adds up what each test took.          *)
EndTest ==
  /\ test.running
  /\ report' = [runtime |-> delta_plus(report.runtime, since(now, test.start_time)),
                elapsed |-> report.elapsed + real - test.born, tests |-> report.tests + 1]
  /\ test' = NoTest
  /\ UNCHANGED clock_vars_but_tests

(* Time passes for the system timer whatever the clock says.                 *)
Tick ==
  /\ real < MaxReal /\ (expired # NoSignal => real = expired)
  /\ real' = real + 1
  /\ itimer' = IF itimer = 0 THEN 0 ELSE itimer - 1
  /\ expired' = IF itimer = 1 THEN real' ELSE expired
  /\ UNCHANGED <<ahead, globals, activation, all_timers, timer, stepped, forward, back, fired_at, test_vars>>

Step(d) ==
  /\ stepped < MaxStepped /\ real + ahead + d > 0
  /\ stepped' = stepped + 1
  /\ ahead' = ahead + d
  /\ forward' = IF d > 0 THEN forward + d ELSE forward
  /\ back' = IF d < 0 THEN back - d ELSE back
  /\ UNCHANGED <<real, itimer, expired, globals, activation, all_timers, timer, fired_at, test_vars>>

ClockNext ==
  \/ \E t \in Timers, d \in Delays : NewTimer(t, d)
  \/ \E t \in Timers : Unprogram(t)
  \/ Fire \/ StartTest \/ EndTest \/ Tick
  \/ \E d \in ClockSteps : Step(d)

ClockSpec == ClockInit /\ [][ClockNext]_clock_vars
-----------------------------------------------------------------------------
(* Times are kept: no timer fires earlier than asked for, in real time, by   *)
(* more than the clock was put forward; while the clock is not set at all,   *)
(* whoever waits for a timer has the system timer running or a signal on its *)
(* way; and the total time of a report is what the tests took, but for what  *)
(* the clock was set meanwhile and the microsecond of a test that seems to   *)
(* end before it starts.                                                     *)
TimelyUnlessStepped ==
  /\ \A t \in Timers :
       fired(t) => fired_at[t] >= timer[t].born + to_microseconds(timer[t].asked) - forward
  /\ stepped = 0 => (all_timers # {} => itimer > 0 \/ expired # NoSignal)
  /\ LET total == to_microseconds(report.runtime)
     IN total - report.elapsed \in (-back)..(forward + stepped)
=============================================================================
