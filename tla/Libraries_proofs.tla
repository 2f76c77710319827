--------------------------- MODULE Libraries_proofs ---------------------------
(* The libraries below the engine: the timers on a clock that is set, the    *)
(* metadata objects, the trees of files, and the configuration.              *)
(*                                                                           *)
(* 1. How far timers and reported times are kept when the clock is set: for  *)
(* any timers, delays and tests, and any steps of the clock.  Every time is  *)
(* compared by its microseconds, and a time that was made from microseconds  *)
(* has as many (Microseconds); the rest is about integers.                   *)
(*                                                                           *)
(* 2. Only its own builder changes a metadata object, and none does if the   *)
(* callers drop theirs: for any properties and values, and any number of     *)
(* trees and builders.  Every builder has its tree to itself and the objects *)
(* that it built (Exclusive).                                                *)
(*                                                                           *)
(* 3. mkdir_p(), rm_r() and the temporaries keep their word: in any tree, for*)
(* any processes and any changes by strays.  The frames of a call are a path *)
(* up or down the tree (Climbing, Descending), and while nobody else changes *)
(* the tree they say what is in it (ClimbsInPeace, DescendsInPeace).         *)
(*                                                                           *)
(* 4. The last word on every variable counts, and a script reads back what   *)
(* the configuration holds: for any scripts, overrides and users.  The tree  *)
(* has the built-in variables, and others only below "test_suites" (Shaped); *)
(* every leaf holds the last word on it (Holds), and what was said of a key  *)
(* without one is accounted for (Heard).  All three say what one call of     *)
(* set_lua() or set_string() leaves behind (Took).                           *)
EXTENDS Clock, MetadataObjects, Files, Config, WellFoundedInduction, SequenceTheorems, TLAPS
-----------------------------------------------------------------------------
(* The time of day, in microseconds.                                         *)
day == real + ahead
When(t) == to_microseconds(timer[t].when)
Asked(t) == to_microseconds(timer[t].asked)
Until == to_microseconds(activation)

ClockTypes ==
  /\ real \in Nat /\ ahead \in Int /\ day > 0 /\ itimer \in Nat /\ expired \in Int
  /\ globals \in BOOLEAN
  /\ stepped \in Nat /\ forward \in Nat /\ back \in Nat
  /\ ahead = 2 * PerSecond + forward - back
  /\ (stepped = 0 => forward = 0 /\ back = 0)
  /\ Until \in Nat
  /\ timer = [t \in Timers |-> timer[t]] /\ fired_at = [t \in Timers |-> fired_at[t]]
  /\ all_timers \subseteq Timers

(* A timer was made for the time of day at its birth, and the clock has been *)
(* put forward by no more than forward since.                                *)
Early ==
  \A t \in Timers :
    /\ fired_at[t] \in Int /\ When(t) \in Nat /\ Asked(t) \in Nat /\ timer[t].born \in Nat
    /\ t \in all_timers => timer[t].state # "unborn"
    /\ fired(t) => timer[t].state # "unborn"
    /\ timer[t].state # "unborn" => When(t) >= timer[t].born + Asked(t) + ahead - forward
    /\ fired(t) => fired_at[t] >= timer[t].born + Asked(t) - forward

(* The system timer runs for the earliest of the timers, or has no timer to  *)
(* run for.                                                                  *)
Armed == itimer > 0 /\ Until = day + itimer /\ \A t \in all_timers : When(t) >= Until
Over == itimer = 0 /\ Until < day /\ all_timers = {}

(* As long as the clock is not set.  The handler of a signal runs after what *)
(* the signal was armed for, and so finds a reason to arm it again.          *)
Watched ==
  stepped = 0 =>
    /\ ~globals => all_timers = {} /\ itimer = 0 /\ expired = NoSignal
    /\ globals /\ expired = NoSignal => Armed \/ Over
    /\ expired # NoSignal => itimer = 0 /\ Until = expired + ahead

Total == to_microseconds(report.runtime)
Off == Total - report.elapsed

(* What the clock had been set by when the test started bounds how far the   *)
(* total was off then, and what it was set by since is in its start time.    *)
Counted ==
  /\ Total \in Nat /\ report.elapsed \in Nat
  /\ test.running \in BOOLEAN
  /\ ~test.running => Off \in (-back) .. (forward + stepped)
  /\ test.running =>
       /\ test.born \in 0 .. real
       /\ to_microseconds(test.start_time) \in Nat
       /\ \E f \in 0 .. forward, b \in 0 .. back, s \in 0 .. stepped :
            /\ to_microseconds(test.start_time) = test.born + 2 * PerSecond + f - b
            /\ Off \in (-b) .. (f + s)
            /\ s = stepped => f = forward /\ b = back

ClockInv == ClockTypes /\ Early /\ Watched /\ Counted
-----------------------------------------------------------------------------
(* A time made from microseconds has as many.                                *)
LEMMA Microseconds ==
  ASSUME NEW n \in Nat PROVE to_microseconds(from_microseconds(n)) = n
<1>1. PerSecond \in Nat /\ PerSecond > 0
  BY PerSecondAssumption
<1>2. (n \div PerSecond) * PerSecond + (n % PerSecond) = n
  BY <1>1
<1> QED
  BY <1>2 DEF to_microseconds, from_microseconds, delta

LEMMA Now == ASSUME ClockTypes PROVE to_microseconds(now) = day /\ day \in Nat
  BY Microseconds DEF ClockTypes, now, day

(* The time from u to t, where t is not before u.                            *)
LEMMA SinceOf ==
  ASSUME NEW t, NEW u, to_microseconds(t) \in Nat, to_microseconds(u) \in Nat
  PROVE  to_microseconds(since(t, u)) =
           IF to_microseconds(t) < to_microseconds(u) THEN 1
           ELSE to_microseconds(t) - to_microseconds(u)
<1>1. CASE to_microseconds(t) < to_microseconds(u)
  BY <1>1, Microseconds DEF since, less
<1>2. CASE ~(to_microseconds(t) < to_microseconds(u))
  BY <1>2, Microseconds DEF since, less
<1> QED
  BY <1>1, <1>2

(* Of any times there is a first one.                                        *)
LEMMA First ==
  ASSUME NEW S, S # {}, \A w \in S : to_microseconds(w) \in Nat
  PROVE  \E w \in S : \A v \in S : less_equal(w, v)
<1> DEFINE M == {to_microseconds(w) : w \in S}
<1>1. \E m \in M : \A n \in M : ~(<<n, m>> \in OpToRel(<, Nat))
  <2>1. M \subseteq Nat /\ M # {}
    OBVIOUS
  <2> QED
    BY <2>1, NatLessThanWellFounded, WFMin
<1>2. PICK m \in M : \A n \in M : ~(<<n, m>> \in OpToRel(<, Nat))
  BY <1>1
<1>3. PICK w \in S : m = to_microseconds(w)
  OBVIOUS
<1>4. ASSUME NEW v \in S PROVE less_equal(w, v)
  <2>1. ~(to_microseconds(v) < to_microseconds(w))
    BY <1>2, <1>3 DEF OpToRel
  <2> QED
    BY <2>1 DEF less_equal
<1> QED
  BY <1>4

(* reprogram_system_timer() leaves a system timer that runs for no later     *)
(* activation, or sets it to the first activation that is not in the past.   *)
LEMMA Reprograms ==
  ASSUME ClockTypes, NEW ts, NEW whens, reprogram_system_timer(ts, whens),
         \A u \in ts : to_microseconds(whens[u]) \in Nat
  PROVE  \/ /\ UNCHANGED <<itimer, activation>>
            /\ \A u \in ts : to_microseconds(whens[u]) >= day =>
                 Until >= day /\ to_microseconds(whens[u]) >= Until
         \/ \E t \in ts :
              /\ to_microseconds(whens[t]) >= day
              /\ to_microseconds(whens[t]) < Until \/ Until < day
              /\ itimer' = to_microseconds(whens[t]) - day
              /\ activation' = whens[t]
              /\ \A u \in ts : to_microseconds(whens[u]) >= day =>
                   to_microseconds(whens[u]) >= to_microseconds(whens[t])
<1> DEFINE ahead_of == {whens[t] : t \in {u \in ts : ~less(whens[u], now)}}
           next == CHOOSE w \in ahead_of : \A v \in ahead_of : less_equal(w, v)
<1>1. to_microseconds(now) = day /\ day \in Nat /\ Until \in Nat
  BY Now DEF ClockTypes
<1>2. \A u \in ts : whens[u] \in ahead_of <=> to_microseconds(whens[u]) >= day
  <2>1. \A u \in ts : ~less(whens[u], now) <=> to_microseconds(whens[u]) >= day
    BY <1>1 DEF less
  <2>2. ASSUME NEW u \in ts, whens[u] \in ahead_of PROVE to_microseconds(whens[u]) >= day
    BY <2>1, <2>2
  <2>3. ASSUME NEW u \in ts, to_microseconds(whens[u]) >= day PROVE whens[u] \in ahead_of
    BY <2>1, <2>3
  <2> QED
    BY <2>2, <2>3
<1>3. CASE ahead_of = {}
  BY <1>2, <1>3 DEF reprogram_system_timer
<1>4. CASE ahead_of # {}
  <2>1. \A w \in ahead_of : to_microseconds(w) \in Nat
    OBVIOUS
  <2>2. next \in ahead_of /\ \A v \in ahead_of : less_equal(next, v)
    <3>1. \E w \in ahead_of : \A v \in ahead_of : less_equal(w, v)
      BY <1>4, <2>1, First
    <3> HIDE DEF ahead_of
    <3> QED
      BY <3>1
  <2>3. PICK t \in ts : next = whens[t]
    BY <2>2
  <2>4. /\ to_microseconds(next) >= day /\ to_microseconds(next) \in Nat
        /\ \A u \in ts : to_microseconds(whens[u]) >= day =>
             to_microseconds(whens[u]) >= to_microseconds(next)
    <3>1. to_microseconds(next) >= day /\ to_microseconds(next) \in Nat
      BY <1>2, <2>2, <2>3
    <3>2. \A u \in ts : to_microseconds(whens[u]) >= day => less_equal(next, whens[u])
      BY <1>2, <2>2
    <3> QED
      BY <3>1, <3>2 DEF less_equal
  <2>5. CASE less(next, activation) \/ less(activation, now)
    <3>1. to_microseconds(next) < Until \/ Until < day
      BY <1>1, <2>5 DEF less, Until
    <3>2. safe_setitimer(since(next, now)) /\ activation' = next
      BY <1>4, <2>5 DEF reprogram_system_timer
    <3>3. itimer' = to_microseconds(next) - day
      <4>1. to_microseconds(since(next, now)) =
              IF to_microseconds(next) < to_microseconds(now) THEN 1
              ELSE to_microseconds(next) - to_microseconds(now)
        BY <1>1, <2>4, SinceOf
      <4> QED
        BY <1>1, <2>4, <3>2, <4>1 DEF safe_setitimer
    <3> HIDE DEF next
    <3> QED
      BY <2>3, <2>4, <3>1, <3>2, <3>3
  <2>6. CASE ~(less(next, activation) \/ less(activation, now))
    <3>1. Until >= day /\ to_microseconds(next) >= Until
      BY <1>1, <2>4, <2>6 DEF less, Until
    <3>2. UNCHANGED <<itimer, activation>>
      BY <2>6 DEF reprogram_system_timer
    <3> HIDE DEF next
    <3> QED
      BY <1>1, <2>4, <3>1, <3>2
  <2> QED
    BY <2>5, <2>6
<1> QED
  BY <1>3, <1>4

LEMMA ReprogramTypes ==
  ASSUME ClockTypes, NEW ts, NEW whens, reprogram_system_timer(ts, whens),
         \A u \in ts : to_microseconds(whens[u]) \in Nat
  PROVE  itimer' \in Nat /\ Until' \in Nat
<1>1. CASE UNCHANGED <<itimer, activation>>
  BY <1>1 DEF ClockTypes, Until
<1>2. CASE ~UNCHANGED <<itimer, activation>>
  <2>1. PICK t \in ts :
          /\ to_microseconds(whens[t]) >= day
          /\ itimer' = to_microseconds(whens[t]) - day
          /\ activation' = whens[t]
    BY <1>2, Reprograms
  <2>2. day \in Nat /\ to_microseconds(whens[t]) \in Nat
    BY Now
  <2>3. Until' = to_microseconds(whens[t])
    BY <2>1 DEF Until
  <2> QED
    BY <2>1, <2>2, <2>3
<1> QED
  BY <1>1, <1>2

LEMMA ClockStart == ASSUME ClockInit PROVE ClockInv
<1>0. PerSecond \in Nat /\ PerSecond > 0
  BY PerSecondAssumption
<1>1. to_microseconds(delta(0, 0)) = 0
  BY <1>0 DEF to_microseconds, delta
<1>2. ClockTypes
  <2>1. timer = [t \in Timers |-> timer[t]] /\ fired_at = [t \in Timers |-> fired_at[t]]
    BY DEF ClockInit
  <2>2. Until = 0 /\ expired = -1 /\ day = 2 * PerSecond
    BY <1>1, <1>0 DEF ClockInit, Until, NoSignal, day
  <2>3. real = 0 /\ ahead = 2 * PerSecond /\ itimer = 0 /\ globals = FALSE /\ all_timers = {}
        /\ stepped = 0 /\ forward = 0 /\ back = 0
    BY DEF ClockInit
  <2>4. ahead \in Int /\ ahead = 2 * PerSecond + forward - back /\ day > 0
    BY <1>0, <2>2, <2>3
  <2>5. /\ real \in Nat /\ itimer \in Nat /\ expired \in Int
        /\ stepped \in Nat /\ forward \in Nat /\ back \in Nat /\ Until \in Nat
        /\ (stepped = 0 => forward = 0 /\ back = 0) /\ all_timers \subseteq Timers
    BY <2>2, <2>3
  <2>6. globals \in BOOLEAN
    BY <2>3
  <2> QED
    BY <2>1, <2>4, <2>5, <2>6 DEF ClockTypes
<1>3. Early
  BY <1>0, <1>1 DEF ClockInit, Early, When, Asked, Unborn, fired, NotFired
<1>4. Watched
  BY DEF ClockInit, Watched
<1>5. Counted
  BY <1>1 DEF ClockInit, Counted, Total, Off, NoTest
<1> QED
  BY <1>2, <1>3, <1>4, <1>5 DEF ClockInv

(* What a call of the timers leaves of the tests, and what a test of the     *)
(* timers.                                                                   *)
LEMMA CountedKeeps ==
  ASSUME Counted, UNCHANGED <<real, forward, back, stepped, test, report>> PROVE Counted'
  BY DEF Counted, Off, Total

LEMMA TestTypes ==
  ASSUME ClockTypes, Early, Watched, UNCHANGED clock_vars_but_tests
  PROVE  ClockTypes' /\ Early' /\ Watched'
<1> USE DEF clock_vars_but_tests
<1>1. ClockTypes'
  BY DEF ClockTypes, day, Until
<1>2. Early'
  BY DEF Early, When, Asked, fired
<1>3. Watched'
  BY DEF Watched, Armed, Over, day, Until, When
<1> QED
  BY <1>1, <1>2, <1>3

LEMMA NewTimerKeeps ==
  ASSUME ClockInv, NEW t \in Timers, NEW d \in Delays, NewTimer(t, d) PROVE ClockInv'
<1> DEFINE when == plus(now, d)
           whens == [u \in Timers |-> IF u = t THEN when ELSE timer[u].when]
           ts == all_timers \cup {t}
<1>1. /\ timer[t].state = "unborn" /\ expired = NoSignal
      /\ timer' = [timer EXCEPT ![t] =
                     [state |-> "programmed", when |-> when, asked |-> d, born |-> real]]
      /\ all_timers' = ts /\ globals' = TRUE
      /\ ~globals => safe_setitimer(since(when, now)) /\ activation' = when
      /\ globals => reprogram_system_timer(ts, whens)
      /\ UNCHANGED <<real, ahead, expired, stepped, forward, back, fired_at, test, report>>
  BY DEF NewTimer, test_vars
<1> USE DEF ClockInv
<1>2. to_microseconds(now) = day /\ day \in Nat /\ to_microseconds(d) \in Nat /\ to_microseconds(d) > 0
  BY Now, DelaysAssumption
<1>3. to_microseconds(when) = day + to_microseconds(d)
  BY <1>2, Microseconds DEF plus
<1>4. /\ timer' = [u \in Timers |-> timer'[u]]
      /\ timer'[t] = [state |-> "programmed", when |-> when, asked |-> d, born |-> real]
      /\ \A u \in Timers : u # t => timer'[u] = timer[u]
  BY <1>1 DEF ClockTypes
<1> HIDE DEF when
<1>5. \A u \in Timers : whens[u] = timer'[u].when
  BY <1>4
<1>6. ts \subseteq Timers /\ \A u \in ts : to_microseconds(whens[u]) \in Nat
  BY <1>2, <1>3 DEF ClockTypes, Early, When
<1> HIDE DEF whens
<1>7. ASSUME ~globals PROVE ClockTypes' /\ Watched'
  <2>1. itimer' = to_microseconds(d) /\ Until' = day + to_microseconds(d)
    <3>1. to_microseconds(since(when, now)) = to_microseconds(d)
      BY <1>2, <1>3, SinceOf
    <3> QED
      BY <1>1, <1>3, <1>7, <3>1 DEF safe_setitimer, Until
  <2>2. ClockTypes'
    BY <1>1, <1>2, <1>4, <1>6, <2>1 DEF ClockTypes, day
  <2>3. Watched'
    <3>1. ASSUME stepped = 0 PROVE Armed'
      <4>1. all_timers' = {t}
        BY <1>1, <1>7, <3>1 DEF Watched
      <4> QED
        BY <1>1, <1>2, <1>3, <1>4, <2>1, <4>1 DEF Armed, day, When
    <3> QED
      BY <1>1, <3>1 DEF Watched
  <2> QED
    BY <2>2, <2>3
<1>8. ASSUME globals PROVE ClockTypes' /\ Watched'
  <2>1. itimer' \in Nat /\ Until' \in Nat
    BY <1>1, <1>6, <1>8, ReprogramTypes
  <2>2. ClockTypes'
    BY <1>1, <1>2, <1>4, <1>6, <2>1 DEF ClockTypes, day
  <2>3. Watched'
    <3>1. ASSUME stepped = 0 PROVE Armed'
      <4>1. Armed \/ Over
        BY <1>1, <1>8, <3>1 DEF Watched
      <4>2. \A u \in ts : When(u)' = to_microseconds(whens[u])
        BY <1>5, <1>6 DEF When
      <4>3. to_microseconds(whens[t]) > day
        BY <1>2, <1>3, <1>4, <1>5
      <4>4. \A u \in all_timers : to_microseconds(whens[u]) = IF u = t THEN to_microseconds(whens[t]) ELSE When(u)
        BY <1>4, <1>5, <1>6 DEF When
      <4>5. \A u \in ts : to_microseconds(whens[u]) >= day
        BY <1>2, <1>6, <4>1, <4>3, <4>4 DEF Armed, Over, ClockTypes
      <4>6. Until \in Nat /\ itimer \in Nat
        BY DEF ClockTypes
      <4>7. CASE /\ UNCHANGED <<itimer, activation>>
                 /\ \A u \in ts : to_microseconds(whens[u]) >= day =>
                      Until >= day /\ to_microseconds(whens[u]) >= Until
        <5>1. \A u \in ts : Until >= day /\ to_microseconds(whens[u]) >= Until
          BY <4>5, <4>7
        <5>2. Armed
          BY <1>2, <4>1, <4>6, <5>1 DEF Over
        <5>3. itimer' = itimer /\ Until' = Until /\ day' = day
          BY <1>1, <4>7 DEF day, Until
        <5> QED
          BY <1>1, <4>2, <5>1, <5>2, <5>3 DEF Armed
      <4>8. ASSUME NEW v \in ts,
                   to_microseconds(whens[v]) < Until \/ Until < day,
                   itimer' = to_microseconds(whens[v]) - day,
                   activation' = whens[v],
                   \A u \in ts : to_microseconds(whens[u]) >= day =>
                     to_microseconds(whens[u]) >= to_microseconds(whens[v])
            PROVE  Armed'
        <5>1. to_microseconds(whens[v]) > day
          <6>1. CASE v = t
            BY <4>3, <6>1
          <6>2. CASE v # t
            <7>1. v \in all_timers /\ to_microseconds(whens[v]) = When(v)
              BY <4>4, <6>2
            <7>2. Armed /\ Until > day /\ When(v) >= Until
              BY <1>2, <4>1, <4>6, <7>1 DEF Armed, Over
            <7> QED
              BY <1>2, <1>6, <4>6, <7>1, <7>2
          <6> QED
            BY <6>1, <6>2
        <5>2. Until' = to_microseconds(whens[v]) /\ day' = day
          BY <1>1, <4>8 DEF Until, day
        <5>3. itimer' > 0 /\ Until' = day' + itimer'
          BY <1>2, <1>6, <4>8, <5>1, <5>2
        <5>4. \A u \in all_timers' : When(u)' >= Until'
          BY <1>1, <4>2, <4>5, <4>8, <5>2
        <5> QED
          BY <5>3, <5>4 DEF Armed
      <4> QED
        BY <1>1, <1>6, <1>8, <4>7, <4>8, Reprograms
    <3> QED
      BY <1>1, <3>1 DEF Watched
  <2> QED
    BY <2>2, <2>3
<1>9. Early'
  <2>1. ASSUME NEW u \in Timers, u # t
        PROVE  /\ When(u)' = When(u) /\ Asked(u)' = Asked(u) /\ timer'[u] = timer[u]
               /\ u \in all_timers' <=> u \in all_timers
    BY <1>1, <1>4, <2>1 DEF When, Asked
  <2>2. /\ When(t)' = day + to_microseconds(d) /\ Asked(t)' = to_microseconds(d)
        /\ timer'[t].born = real /\ timer'[t].state = "programmed" /\ fired_at[t] = NotFired
    BY <1>1, <1>3, <1>4 DEF When, Asked, Early, fired
  <2>3. real \in Nat /\ ahead \in Int /\ forward \in Nat
    BY DEF ClockTypes
  <2> QED
    BY <1>1, <1>2, <2>1, <2>2, <2>3 DEF Early, day, fired, NotFired
<1> QED
  BY <1>1, <1>7, <1>8, <1>9, CountedKeeps

LEMMA UnprogramKeeps == ASSUME ClockInv, NEW t \in Timers, Unprogram(t) PROVE ClockInv'
<1> USE DEF ClockInv
<1> DEFINE ts == all_timers \ {t}
           whens == [u \in Timers |-> timer[u].when]
<1>1. /\ timer[t].state = "programmed" /\ expired = NoSignal /\ globals
      /\ timer' = [timer EXCEPT ![t].state = "done"]
      /\ all_timers' = ts /\ globals' = (ts # {})
      /\ ts = {} => itimer' = 0 /\ UNCHANGED activation
      /\ ts # {} => reprogram_system_timer(ts, whens)
      /\ fired_at' = IF ~fired(t) /\ less(timer[t].when, now)
                     THEN [fired_at EXCEPT ![t] = real] ELSE fired_at
      /\ UNCHANGED <<real, ahead, expired, stepped, forward, back, test, report>>
  BY DEF Unprogram, test_vars
<1>2. to_microseconds(now) = day /\ day \in Nat
  BY Now
<1>3. /\ timer' = [u \in Timers |-> timer'[u]]
      /\ \A u \in Timers : /\ timer'[u].when = timer[u].when /\ timer'[u].asked = timer[u].asked
                           /\ timer'[u].born = timer[u].born
                           /\ timer'[u].state # "unborn" <=> timer[u].state # "unborn"
  <2>1. timer = [u \in Timers |-> timer[u]]
    BY DEF ClockTypes
  <2>2. timer' = [u \in Timers |-> IF u = t THEN [timer[t] EXCEPT !.state = "done"] ELSE timer[u]]
    BY <1>1, <2>1
  <2>3. ASSUME NEW u \in Timers
        PROVE  /\ timer'[u].when = timer[u].when /\ timer'[u].asked = timer[u].asked
               /\ timer'[u].born = timer[u].born
    BY <2>2
  <2>4. ASSUME NEW u \in Timers PROVE timer'[u].state # "unborn" <=> timer[u].state # "unborn"
    BY <1>1, <2>2
  <2> QED
    BY <2>2, <2>3, <2>4
<1>4. ts \subseteq Timers /\ \A u \in ts : to_microseconds(whens[u]) = When(u) /\ When(u) \in Nat
  BY DEF ClockTypes, Early, When
<1>5. \A u \in Timers : When(u)' = When(u) /\ Asked(u)' = Asked(u)
  BY <1>3 DEF When, Asked
<1> HIDE DEF whens
<1>6. itimer' \in Nat /\ Until' \in Nat
  <2>1. CASE ts = {}
    BY <1>1, <2>1 DEF ClockTypes, Until
  <2>2. CASE ts # {}
    BY <1>1, <1>4, <2>2, ReprogramTypes
  <2> QED
    BY <2>1, <2>2
<1>7. ClockTypes'
  <2>1. fired_at' = [u \in Timers |-> fired_at'[u]]
    BY <1>1 DEF ClockTypes
  <2> QED
    BY <1>1, <1>3, <1>6, <2>1 DEF ClockTypes, day
<1>8. Early'
  <2>1. fired_at = [u \in Timers |-> fired_at[u]] /\ real \in Nat /\ ahead \in Int /\ forward \in Nat
    BY DEF ClockTypes
  <2>2. \A u \in Timers :
          \/ fired_at'[u] = fired_at[u]
          \/ u = t /\ fired_at'[u] = real /\ When(u) < day
    BY <1>1, <1>2, <2>1 DEF less, When
  <2>3. ASSUME NEW u \in Timers
        PROVE  /\ fired_at'[u] \in Int
               /\ (u \in all_timers)' => timer'[u].state # "unborn"
               /\ fired(u)' => timer'[u].state # "unborn"
               /\ fired(u)' => fired_at'[u] >= timer'[u].born + Asked(u)' - forward'
    <3>1. CASE fired_at'[u] = fired_at[u]
      BY <1>1, <1>3, <1>5, <3>1 DEF Early, fired
    <3>2. CASE u = t /\ fired_at'[u] = real /\ When(u) < day
      <4>1. /\ When(u) >= timer[u].born + Asked(u) + ahead - forward /\ When(u) \in Nat
            /\ Asked(u) \in Nat /\ timer[u].born \in Nat
        BY <1>1, <3>2 DEF Early
      <4>2. real >= timer[u].born + Asked(u) - forward
        BY <2>1, <3>2, <4>1 DEF day
      <4> QED
        BY <1>1, <1>3, <1>5, <2>1, <3>2, <4>2
    <3> QED
      BY <2>2, <3>1, <3>2
  <2> QED
    BY <1>1, <1>3, <1>5, <2>3 DEF Early
<1>9. Watched'
  <2>1. ASSUME stepped = 0, ts # {} PROVE Armed'
    <3>1. Armed
      BY <1>1, <2>1 DEF Watched, Over
    <3>2. Until \in Nat /\ itimer \in Nat
      BY DEF ClockTypes
    <3>3. Until > day /\ \A u \in ts : When(u) >= Until
      BY <1>2, <3>1, <3>2 DEF Armed
    <3>4. UNCHANGED <<itimer, activation>>
      <4>1. ~\E v \in ts : to_microseconds(whens[v]) < Until \/ Until < day
        BY <1>2, <1>4, <3>2, <3>3
      <4> QED
        BY <1>1, <1>4, <2>1, <4>1, Reprograms
    <3>5. Until' = Until /\ day' = day /\ \A u \in ts : When(u)' = When(u)
      BY <1>1, <1>4, <1>5, <3>4 DEF Until, day
    <3> QED
      BY <1>1, <3>1, <3>3, <3>4, <3>5 DEF Armed
  <2> QED
    BY <1>1, <2>1 DEF Watched
<1> QED
  BY <1>1, <1>7, <1>8, <1>9, CountedKeeps

(* The handler takes out the timers that are due, which are as late as the   *)
(* clock was put forward at the least.                                       *)
LEMMA FireKeeps == ASSUME ClockInv, Fire PROVE ClockInv'
<1> USE DEF ClockInv
<1> DEFINE to_run == {t \in all_timers : less_equal(timer[t].when, now)}
           ts == all_timers \ to_run
           whens == [u \in Timers |-> timer[u].when]
<1>1. /\ expired # NoSignal /\ real > expired /\ expired' = NoSignal
      /\ all_timers' = ts /\ reprogram_system_timer(ts, whens)
      /\ fired_at' = [t \in Timers |-> IF t \in to_run THEN real ELSE fired_at[t]]
      /\ UNCHANGED <<real, ahead, globals, timer, stepped, forward, back, test, report>>
  BY DEF Fire, test_vars
<1>2. to_microseconds(now) = day /\ day \in Nat
  BY Now
<1>3. /\ ts \subseteq Timers /\ \A u \in all_timers : When(u) \in Nat
      /\ \A u \in all_timers : u \in to_run <=> When(u) <= day
  BY <1>2 DEF ClockTypes, Early, When, less_equal
<1>4. \A u \in ts : to_microseconds(whens[u]) = When(u) /\ When(u) > day
  BY <1>2, <1>3 DEF When
<1>5. \A u \in Timers : When(u)' = When(u) /\ Asked(u)' = Asked(u)
  BY <1>1 DEF When, Asked
<1>6. itimer' \in Nat /\ Until' \in Nat
  <2>1. \A u \in ts : to_microseconds(whens[u]) \in Nat
    <3>1. ts \subseteq all_timers
      OBVIOUS
    <3> HIDE DEF ts, whens
    <3> QED
      BY <1>3, <1>4, <3>1
  <2>2. ClockTypes /\ reprogram_system_timer(ts, whens)
    BY <1>1
  <2> HIDE DEF ts, whens, ClockInv
  <2> QED
    BY <2>1, <2>2, ReprogramTypes
<1>7. ClockTypes'
  BY <1>1, <1>3, <1>6 DEF ClockTypes, day, NoSignal
<1>8. Early'
  <2>1. real \in Nat /\ ahead \in Int /\ forward \in Nat
    BY DEF ClockTypes
  <2>2. ASSUME NEW u \in Timers
        PROVE  /\ fired_at'[u] \in Int
               /\ (u \in all_timers)' => timer'[u].state # "unborn"
               /\ fired(u)' => timer'[u].state # "unborn"
               /\ fired(u)' => fired_at'[u] >= timer'[u].born + Asked(u)' - forward'
    <3>1. CASE u \notin to_run
      BY <1>1, <1>5, <3>1 DEF Early, fired
    <3>2. CASE u \in to_run
      <4>1. /\ When(u) >= timer[u].born + Asked(u) + ahead - forward /\ When(u) \in Nat
            /\ Asked(u) \in Nat /\ timer[u].born \in Nat /\ timer[u].state # "unborn"
            /\ When(u) <= day
        BY <1>3, <3>2 DEF Early
      <4>2. real >= timer[u].born + Asked(u) - forward
        BY <2>1, <4>1 DEF day
      <4> QED
        BY <1>1, <1>5, <2>1, <3>2, <4>1, <4>2
    <3> QED
      BY <3>1, <3>2
  <2> QED
    BY <1>1, <1>5, <2>2 DEF Early
<1> HIDE DEF to_run, whens
<1>9. Watched'
  <2>1. ASSUME stepped = 0 PROVE globals /\ (Armed \/ Over)'
    <3>1. globals /\ itimer = 0 /\ Until = expired + ahead
      BY <1>1, <2>1 DEF Watched
    <3>2. Until < day /\ Until \in Nat
      BY <1>1, <3>1 DEF ClockTypes, day
    <3>3. day' = day /\ all_timers' = ts
      BY <1>1 DEF day
    <3>4. CASE ts = {}
      <4>1. UNCHANGED <<itimer, activation>>
        BY <1>1, <1>3, <3>4, Reprograms
      <4>2. Over'
        BY <3>1, <3>2, <3>3, <3>4, <4>1 DEF Over, Until
      <4> QED
        BY <3>1, <4>2
    <3>5. CASE ts # {}
      <4>1. PICK v \in ts :
              /\ itimer' = to_microseconds(whens[v]) - day
              /\ activation' = whens[v]
              /\ \A u \in ts : to_microseconds(whens[u]) >= day =>
                   to_microseconds(whens[u]) >= to_microseconds(whens[v])
        <5>1. ~\A u \in ts : to_microseconds(whens[u]) >= day =>
                 Until >= day /\ to_microseconds(whens[u]) >= Until
          BY <1>2, <1>3, <1>4, <3>2, <3>5
        <5>2. \A u \in ts : to_microseconds(whens[u]) \in Nat
          BY <1>3, <1>4
        <5> QED
          BY <1>1, <5>1, <5>2, Reprograms
      <4>2. Until' = When(v) /\ itimer' = When(v) - day /\ When(v) > day /\ When(v) \in Nat
        BY <1>3, <1>4, <4>1 DEF Until
      <4>3. ASSUME NEW u \in ts PROVE When(u)' >= When(v)
        <5>1. When(u) \in Nat /\ When(u) > day
          BY <1>3, <1>4
        <5> QED
          BY <1>2, <1>3, <1>4, <1>5, <4>1, <5>1
      <4>4. Armed'
        BY <1>2, <3>3, <4>2, <4>3 DEF Armed
      <4> QED
        BY <3>1, <4>4
    <3> QED
      BY <3>4, <3>5
  <2> QED
    BY <1>1, <2>1 DEF Watched
<1> QED
  BY <1>1, <1>7, <1>8, <1>9, CountedKeeps

(* A wider range.                                                            *)
LEMMA Widens ==
  ASSUME NEW o, NEW b \in Nat, NEW f \in Nat, NEW s \in Nat, NEW b2 \in Nat, NEW f2 \in Nat,
         NEW s2 \in Nat, b2 >= b, f2 >= f, s2 >= s, o \in (-b) .. (f + s)
  PROVE  o \in (-b2) .. (f2 + s2)
  OBVIOUS

LEMMA TickKeeps == ASSUME ClockInv, Tick PROVE ClockInv'
<1> USE DEF ClockInv
<1>1. /\ real' = real + 1 /\ (expired # NoSignal => real = expired)
      /\ itimer' = (IF itimer = 0 THEN 0 ELSE itimer - 1)
      /\ expired' = (IF itimer = 1 THEN real' ELSE expired)
      /\ UNCHANGED <<ahead, globals, activation, all_timers, timer, stepped, forward, back, fired_at,
                     test, report>>
  BY DEF Tick, test_vars
<1>2. /\ real \in Nat /\ itimer \in Nat /\ expired \in Int /\ ahead \in Int /\ day > 0
      /\ Until \in Nat /\ Until' = Until /\ day \in Int /\ day' = day + 1
  BY <1>1 DEF ClockTypes, Until, day
<1>3. ClockTypes'
  <2>1. real' \in Nat /\ itimer' \in Nat /\ expired' \in Int /\ day' > 0
    BY <1>1, <1>2 DEF day
  <2> QED
    BY <1>1, <1>2, <2>1 DEF ClockTypes
<1>4. Early'
  BY <1>1 DEF Early, When, Asked, fired
<1>5. Watched'
  <2> SUFFICES ASSUME stepped = 0 PROVE Watched'
    BY <1>1 DEF Watched
  <2>1. \A u \in all_timers : When(u)' = When(u)
    BY <1>1 DEF When
  <2>2. CASE expired # NoSignal
    BY <1>1, <1>2, <2>2 DEF Watched
  <2>3. CASE expired = NoSignal /\ itimer = 0
    <3>1. globals => Over
      BY <1>2, <2>3 DEF Watched, Armed
    <3>2. globals => Over'
      BY <1>1, <1>2, <2>3, <3>1 DEF Over
    <3> QED
      BY <1>1, <2>3, <3>2 DEF Watched
  <2>4. CASE expired = NoSignal /\ itimer = 1
    <3>1. globals /\ Armed
      BY <2>4 DEF Watched, Over
    <3>2. expired' # NoSignal /\ itimer' = 0 /\ Until' = expired' + ahead'
      BY <1>1, <1>2, <2>4, <3>1 DEF Armed, NoSignal, day
    <3> QED
      BY <1>1, <3>1, <3>2 DEF Watched
  <2>5. CASE expired = NoSignal /\ itimer > 1
    <3>1. globals /\ Armed
      BY <1>2, <2>5 DEF Watched, Over
    <3>2. Armed' /\ expired' = NoSignal
      BY <1>1, <1>2, <2>1, <2>5, <3>1 DEF Armed
    <3> QED
      BY <1>1, <3>1, <3>2 DEF Watched
  <2> QED
    BY <1>2, <2>2, <2>3, <2>4, <2>5
<1>6. Counted'
  <2>1. /\ Total' = Total /\ Off' = Off
    BY <1>1 DEF Total, Off
  <2>2. test.running => test.born \in 0 .. real'
    BY <1>1, <1>2 DEF Counted
  <2> QED
    BY <1>1, <2>1, <2>2 DEF Counted
<1> QED
  BY <1>3, <1>4, <1>5, <1>6

(* Once the clock was set nothing is said of the system timer.               *)
LEMMA ClockStepKeeps == ASSUME ClockInv, NEW d \in ClockSteps, Step(d) PROVE ClockInv'
<1> USE DEF ClockInv
<1>1. /\ real + ahead + d > 0 /\ stepped' = stepped + 1 /\ ahead' = ahead + d
      /\ forward' = (IF d > 0 THEN forward + d ELSE forward)
      /\ back' = (IF d < 0 THEN back - d ELSE back)
      /\ UNCHANGED <<real, itimer, expired, globals, activation, all_timers, timer, fired_at, test, report>>
  BY DEF Step, test_vars
<1>2. /\ d \in Int /\ ahead \in Int /\ forward \in Nat /\ back \in Nat /\ stepped \in Nat /\ real \in Nat
      /\ ahead = 2 * PerSecond + forward - back /\ PerSecond \in Nat
  BY ClockStepsAssumption, PerSecondAssumption DEF ClockTypes
<1>3. /\ forward' \in Nat /\ back' \in Nat /\ forward' >= forward /\ back' >= back
      /\ stepped' \in Nat /\ stepped' > stepped /\ stepped' # 0
      /\ ahead' \in Int /\ ahead' = 2 * PerSecond + forward' - back' /\ ahead' - forward' <= ahead - forward
  BY <1>1, <1>2
<1>4. ClockTypes'
  <2>1. day' > 0 /\ Until' = Until
    BY <1>1, <1>2 DEF day, Until
  <2> QED
    BY <1>1, <1>3, <2>1 DEF ClockTypes
<1>5. Early'
  <2>1. ASSUME NEW u \in Timers
        PROVE  /\ timer[u].state # "unborn" => When(u) >= timer[u].born + Asked(u) + ahead' - forward'
               /\ fired(u) => fired_at[u] >= timer[u].born + Asked(u) - forward'
    BY <1>2, <1>3 DEF Early
  <2>2. \A u \in Timers : When(u)' = When(u) /\ Asked(u)' = Asked(u)
    BY <1>1 DEF When, Asked
  <2> QED
    BY <1>1, <2>1, <2>2 DEF Early, fired
<1>6. Watched'
  BY <1>3 DEF Watched
<1>7. Counted'
  <2>1. Total' = Total /\ Off' = Off /\ Off \in Int
    BY <1>1 DEF Counted, Total, Off
  <2>2. ~test.running => Off \in (-back') .. (forward' + stepped')
    <3>1. ~test.running => Off \in (-back) .. (forward + stepped)
      BY DEF Counted
    <3>2. /\ back \in Nat /\ back' \in Nat /\ back' >= back
          /\ forward \in Nat /\ forward' \in Nat /\ forward' >= forward
          /\ stepped \in Nat /\ stepped' \in Nat /\ stepped' >= stepped
      BY <1>2, <1>3
    <3> HIDE DEF ClockInv
    <3> QED
      BY <3>1, <3>2, Widens
  <2>3. test.running =>
          \E f \in 0 .. forward', b \in 0 .. back', s \in 0 .. stepped' :
            /\ to_microseconds(test.start_time) = test.born + 2 * PerSecond + f - b
            /\ Off \in (-b) .. (f + s)
            /\ s = stepped' => f = forward' /\ b = back'
    <3> SUFFICES ASSUME test.running
                 PROVE  \E f \in 0 .. forward', b \in 0 .. back', s \in 0 .. stepped' :
                          /\ to_microseconds(test.start_time) = test.born + 2 * PerSecond + f - b
                          /\ Off \in (-b) .. (f + s)
                          /\ s = stepped' => f = forward' /\ b = back'
      OBVIOUS
    <3>1. PICK f \in 0 .. forward, b \in 0 .. back, s \in 0 .. stepped :
            /\ to_microseconds(test.start_time) = test.born + 2 * PerSecond + f - b
            /\ Off \in (-b) .. (f + s)
      BY DEF Counted
    <3>2. f \in 0 .. forward' /\ b \in 0 .. back' /\ s \in 0 .. stepped' /\ s # stepped'
      BY <1>2, <1>3
    <3> QED
      BY <3>1, <3>2
  <2> QED
    BY <1>1, <2>1, <2>2, <2>3 DEF Counted
<1> QED
  BY <1>4, <1>5, <1>6, <1>7

LEMMA StartTestKeeps == ASSUME ClockInv, StartTest PROVE ClockInv'
<1> USE DEF ClockInv
<1>1. /\ ~test.running /\ test' = [running |-> TRUE, start_time |-> now, born |-> real]
      /\ UNCHANGED <<clock_vars_but_tests, report>>
  BY DEF StartTest
<1>2. ClockTypes' /\ Early' /\ Watched'
  BY <1>1, TestTypes
<1>3. Counted'
  <2>1. UNCHANGED <<real, forward, back, stepped, report>>
    BY <1>1 DEF clock_vars_but_tests
  <2>2. Total' = Total /\ Off' = Off
    BY <2>1 DEF Total, Off
  <2>3. /\ to_microseconds(now) = real + 2 * PerSecond + forward - back /\ to_microseconds(now) \in Nat
        /\ real \in Nat /\ forward \in 0 .. forward /\ back \in 0 .. back /\ stepped \in 0 .. stepped
    BY Now, PerSecondAssumption DEF ClockTypes, day
  <2>4. Off \in (-back) .. (forward + stepped)
    BY <1>1 DEF Counted
  <2>5. \E f \in 0 .. forward, b \in 0 .. back, s \in 0 .. stepped :
          /\ to_microseconds(now) = real + 2 * PerSecond + f - b
          /\ Off \in (-b) .. (f + s)
          /\ s = stepped => f = forward /\ b = back
    BY <2>3, <2>4
  <2>6. (test.running)' = TRUE /\ (test.born)' = real /\ (test.start_time)' = now
    BY <1>1
  <2>7. (test.running \in BOOLEAN)' /\ (~test.running => Off \in (-back) .. (forward + stepped))'
    BY <2>6
  <2>8. (Total \in Nat)' /\ (report.elapsed \in Nat)'
    BY <2>1, <2>2 DEF Counted
  <2>9. (test.born \in 0 .. real)' /\ (to_microseconds(test.start_time) \in Nat)'
    BY <2>1, <2>3, <2>6
  <2>10. (\E f \in 0 .. forward, b \in 0 .. back, s \in 0 .. stepped :
            /\ to_microseconds(test.start_time) = test.born + 2 * PerSecond + f - b
            /\ Off \in (-b) .. (f + s)
            /\ s = stepped => f = forward /\ b = back)'
    BY <2>1, <2>2, <2>5, <2>6
  <2> QED
    BY <2>7, <2>8, <2>9, <2>10 DEF Counted
<1> QED
  BY <1>2, <1>3

(* The total grows by what the clock was set by during the test; if the test *)
(* seems to end before it starts, the clock was stepped during it.           *)
LEMMA EndTestKeeps == ASSUME ClockInv, EndTest PROVE ClockInv'
<1> USE DEF ClockInv
<1>1. /\ test.running /\ test' = NoTest
      /\ report' = [runtime |-> delta_plus(report.runtime, since(now, test.start_time)),
                    elapsed |-> report.elapsed + real - test.born, tests |-> report.tests + 1]
      /\ UNCHANGED clock_vars_but_tests
  BY DEF EndTest
<1>2. ClockTypes' /\ Early' /\ Watched'
  BY <1>1, TestTypes
<1>3. Counted'
  <2> DEFINE start == to_microseconds(test.start_time)
             took == to_microseconds(since(now, test.start_time))
  <2>1. UNCHANGED <<real, forward, back, stepped>>
    BY <1>1 DEF clock_vars_but_tests
  <2>2. PICK f \in 0 .. forward, b \in 0 .. back, s \in 0 .. stepped :
          /\ start = test.born + 2 * PerSecond + f - b
          /\ Off \in (-b) .. (f + s)
          /\ s = stepped => f = forward /\ b = back
    BY <1>1 DEF Counted
  <2>3. /\ to_microseconds(now) = real + 2 * PerSecond + forward - back /\ to_microseconds(now) \in Nat
        /\ real \in Nat /\ forward \in Nat /\ back \in Nat /\ stepped \in Nat /\ PerSecond \in Nat
    BY Now, PerSecondAssumption DEF ClockTypes, day
  <2>4. /\ start \in Nat /\ test.born \in 0 .. real /\ Total \in Nat /\ report.elapsed \in Nat
        /\ Off = Total - report.elapsed
    BY <1>1 DEF Counted, Off
  <2>5. took = (IF to_microseconds(now) < start THEN 1 ELSE to_microseconds(now) - start)
    BY <2>3, <2>4, SinceOf
  <2>6. took \in Nat
    BY <2>3, <2>4, <2>5
  <2>7. Total' = Total + took /\ (report.elapsed)' = report.elapsed + real - test.born
    <3>1. Total + took \in Nat
      BY <2>4, <2>6
    <3> QED
      BY <1>1, <3>1, Microseconds DEF delta_plus, Total
  <2>8. Off' = Off + took - (real - test.born)
    BY <2>3, <2>4, <2>6, <2>7 DEF Off
  <2> HIDE DEF start, took
  <2>9. Off' \in (-back) .. (forward + stepped)
    <3>1. CASE to_microseconds(now) < start
      <4>1. s # stepped
        BY <2>2, <2>3, <2>4, <3>1
      <4>2. s + 1 <= stepped /\ took = 1 /\ real - test.born >= 0
            /\ real - test.born < (f - forward) + (back - b)
        BY <2>2, <2>3, <2>4, <2>5, <3>1, <4>1
      <4> QED
        BY <2>2, <2>3, <2>4, <2>8, <4>2
    <3>2. CASE ~(to_microseconds(now) < start)
      <4>1. Off' = Off + (forward - f) - (back - b)
        BY <2>2, <2>3, <2>4, <2>5, <2>8, <3>2
      <4> QED
        BY <2>2, <2>3, <2>4, <4>1
    <3> QED
      BY <3>1, <3>2
  <2>10. Total' \in Nat /\ (report.elapsed)' \in Nat
    BY <2>3, <2>4, <2>6, <2>7
  <2>11. (test.running)' = FALSE
    BY <1>1 DEF NoTest
  <2> QED
    BY <2>1, <2>9, <2>10, <2>11 DEF Counted
<1> QED
  BY <1>2, <1>3

LEMMA ClockKeeps == ASSUME ClockInv, [ClockNext]_clock_vars PROVE ClockInv'
<1>1. CASE UNCHANGED clock_vars
  <2>1. UNCHANGED clock_vars_but_tests /\ UNCHANGED <<test, report>>
    BY <1>1 DEF clock_vars, test_vars
  <2>2. UNCHANGED <<real, forward, back, stepped>>
    BY <2>1 DEF clock_vars_but_tests
  <2> QED
    BY <2>1, <2>2, TestTypes, CountedKeeps DEF ClockInv
<1>2. ASSUME NEW t \in Timers, NEW d \in Delays, NewTimer(t, d) PROVE ClockInv'
  BY <1>2, NewTimerKeeps
<1>3. ASSUME NEW t \in Timers, Unprogram(t) PROVE ClockInv'
  BY <1>3, UnprogramKeeps
<1>4. ASSUME NEW d \in ClockSteps, Step(d) PROVE ClockInv'
  BY <1>4, ClockStepKeeps
<1> QED
  BY <1>1, <1>2, <1>3, <1>4, FireKeeps, StartTestKeeps, EndTestKeeps, TickKeeps DEF ClockNext

(* However the clock is set, and whatever timers and tests there are: no     *)
(* timer fires earlier than asked for by more than the clock was put         *)
(* forward; while the clock is not set nobody waits for a timer in vain; and *)
(* the total time of a report is that of the tests but for what the clock    *)
(* was set (global_state::fire(), reprogram_system_timer(), timestamp -).    *)
THEOREM TimesAreKept == ClockSpec => []TimelyUnlessStepped
<1>1. ClockInit => ClockInv
  BY ClockStart
<1>2. ClockInv /\ [ClockNext]_clock_vars => ClockInv'
  BY ClockKeeps
<1>3. ASSUME ClockInv PROVE TimelyUnlessStepped
  <2>1. stepped = 0 => (all_timers # {} => itimer > 0 \/ expired # NoSignal)
    BY <1>3 DEF ClockInv, Watched, Armed, Over
  <2>2. \A t \in Timers :
          fired(t) => fired_at[t] >= timer[t].born + to_microseconds(timer[t].asked) - forward
    BY <1>3 DEF ClockInv, Early, Asked
  <2>3. Off \in (-back) .. (forward + stepped)
    <3>1. CASE ~test.running
      BY <1>3, <3>1 DEF ClockInv, Counted
    <3>2. CASE test.running
      <4>1. PICK f \in 0 .. forward, b \in 0 .. back, s \in 0 .. stepped : Off \in (-b) .. (f + s)
        BY <1>3, <3>2 DEF ClockInv, Counted
      <4>2. forward \in Nat /\ back \in Nat /\ stepped \in Nat
        BY <1>3 DEF ClockInv, ClockTypes
      <4> QED
        BY <4>1, <4>2
    <3> QED
      BY <3>1, <3>2
  <2> QED
    BY <2>1, <2>2, <2>3 DEF TimelyUnlessStepped, Off, Total
<1> QED
  BY <1>1, <1>2, <1>3, PTL DEF ClockSpec
-----------------------------------------------------------------------------
(* A sequence, whatever its elements.                                        *)
IsSequence(s) == \E S : s \in Seq(S)

(* The trees that are in use, and by whom: a builder shares its tree with no *)
(* one but the metadata that it built.                                       *)
References ==
  /\ IsSequence(heap) /\ defaults \in Nat
  /\ metas \in Seq(Nat) /\ builders \in Seq([tree : Nat, built : BOOLEAN])
  /\ makers \in Seq(Nat) /\ Len(makers) = Len(metas)
  /\ \A m \in DOMAIN metas : metas[m] \in DOMAIN heap
  /\ \A b \in DOMAIN builders : builders[b].tree \in DOMAIN heap
  /\ defaults # 0 => defaults \in DOMAIN heap /\ heap[defaults] = get_defaults

Exclusive ==
  \A b \in DOMAIN builders :
    /\ builders[b].tree # defaults
    /\ \A m \in DOMAIN metas : builders[b].tree = metas[m] => makers[m] = b
    /\ \A c \in DOMAIN builders \ {b} : builders[b].tree # builders[c].tree

(* Whoever built a metadata object is known, and may not build again.        *)
MakersDone ==
  \A m \in DOMAIN metas :
    makers[m] # 0 => makers[m] \in DOMAIN builders /\ builders[makers[m]].built

ObjectsInv == References /\ Exclusive /\ MakersDone

LEMMA Appended ==
  ASSUME NEW s, IsSequence(s), NEW x
  PROVE  /\ IsSequence(Append(s, x))
         /\ Len(s) \in Nat /\ DOMAIN s = 1..Len(s)
         /\ DOMAIN Append(s, x) = 1..(Len(s) + 1)
         /\ Append(s, x)[Len(s) + 1] = x
         /\ \A i \in 1..Len(s) : Append(s, x)[i] = s[i]
<1>1. PICK S : s \in Seq(S)
  BY DEF IsSequence
<1> DEFINE T == S \cup {x}
<1>2. s \in Seq(T) /\ x \in T
  BY <1>1
<1> HIDE DEF T
<1>3. Append(s, x) \in Seq(T)
  BY <1>2
<1> QED
  BY <1>2, <1>3 DEF IsSequence

(* A tree is written, and those of metadata and the defaults stay.           *)
LEMMA Written ==
  ASSUME NEW t \in DOMAIN heap, NEW v, IsSequence(heap)
  PROVE  LET h == [heap EXCEPT ![t] = v]
         IN IsSequence(h) /\ DOMAIN h = DOMAIN heap /\ Len(h) = Len(heap)
            /\ \A u \in DOMAIN heap \ {t} : h[u] = heap[u]
<1>1. PICK S : heap \in Seq(S)
  BY DEF IsSequence
<1> DEFINE T == S \cup {v}
<1>2. heap \in Seq(T) /\ v \in T
  BY <1>1
<1> HIDE DEF T
<1>3. [heap EXCEPT ![t] = v] \in Seq(T)
  BY <1>2
<1> QED
  BY <1>2, <1>3 DEF IsSequence

LEMMA ObjectsInit == InitObjects => ObjectsInv
<1>1. ASSUME InitObjects PROVE IsSequence(heap)
  <2>1. <<>> \in Seq(Nat)
    OBVIOUS
  <2> QED
    BY <1>1, <2>1 DEF InitObjects, IsSequence
<1> QED
  BY <1>1 DEF InitObjects, ObjectsInv, References, Exclusive, MakersDone, Open

(* Trees are only added, or written by the builder of each.                  *)
Grown == /\ IsSequence(heap') /\ DOMAIN heap \subseteq DOMAIN heap'
         /\ \A u \in DOMAIN heap : heap'[u] = heap[u]

LEMMA Grows ==
  ASSUME IsSequence(heap), NEW x, heap' = Append(heap, x)
  PROVE  Grown /\ NewTree \in Nat \ {0} /\ NewTree \notin DOMAIN heap /\ NewTree \in DOMAIN heap'
         /\ heap'[NewTree] = x
BY Appended DEF Grown, NewTree

LEMMA BuilderAdded ==
  ASSUME ObjectsInv, NEW x, heap' = Append(heap, x),
         builders' = Append(builders, builder(NewTree)), UNCHANGED <<metas, makers, defaults>>
  PROVE  ObjectsInv'
<1> USE DEF ObjectsInv
<1>1. Grown /\ NewTree \in Nat \ {0} /\ NewTree \notin DOMAIN heap /\ NewTree \in DOMAIN heap'
  BY Grows DEF References
<1> DEFINE n == Len(builders) + 1
<1>2. /\ builders' \in Seq([tree : Nat, built : BOOLEAN])
      /\ n \notin DOMAIN builders /\ DOMAIN builders' = DOMAIN builders \cup {n}
      /\ \A b \in DOMAIN builders : builders'[b] = builders[b]
      /\ builders'[n].tree = NewTree
  BY <1>1 DEF References, builder
<1> HIDE DEF n
<1>3. References'
  BY <1>1, <1>2 DEF References, Grown
<1>4. Exclusive'
  <2> SUFFICES ASSUME NEW b \in DOMAIN builders'
               PROVE  /\ builders'[b].tree # defaults
                      /\ \A m \in DOMAIN metas : builders'[b].tree = metas[m] => makers[m] = b
                      /\ \A c \in DOMAIN builders' \ {b} : builders'[b].tree # builders'[c].tree
    BY DEF Exclusive
  <2>1. CASE b = n
    BY <1>1, <1>2, <2>1 DEF References
  <2>2. CASE b \in DOMAIN builders
    <3>1. builders[b].tree # NewTree
      BY <1>1, <2>2 DEF References
    <3> QED
      BY <1>2, <2>2, <3>1 DEF Exclusive
  <2> QED
    BY <1>2, <2>1, <2>2
<1>5. MakersDone'
  BY <1>2 DEF MakersDone
<1> QED
  BY <1>3, <1>4, <1>5

LEMMA NewBuilderKeeps == ObjectsInv /\ NewBuilder => ObjectsInv' /\ Grown
BY BuilderAdded, Grows DEF NewBuilder, ObjectsInv, References

LEMMA NewBuilderFromKeeps == ObjectsInv /\ NewBuilderFrom => ObjectsInv' /\ Grown
<1> SUFFICES ASSUME ObjectsInv, NewBuilderFrom PROVE ObjectsInv' /\ Grown
  OBVIOUS
<1>1. PICK m \in DOMAIN metas : heap' = Append(heap, heap[metas[m]])
                               /\ builders' = Append(builders, builder(NewTree))
  BY DEF NewBuilderFrom, deep_copy
<1> QED
  BY <1>1, BuilderAdded, Grows DEF NewBuilderFrom, ObjectsInv, References

(* The tree of a builder may change: all that is said is who refers to it.   *)
LEMMA WrittenKeeps ==
  ASSUME ObjectsInv, NEW b \in DOMAIN builders, NEW v,
         heap' = [heap EXCEPT ![builders[b].tree] = v],
         UNCHANGED <<metas, makers, builders, defaults>>
  PROVE  ObjectsInv'
<1> USE DEF ObjectsInv
<1>1. /\ IsSequence(heap') /\ DOMAIN heap' = DOMAIN heap
      /\ \A u \in DOMAIN heap \ {builders[b].tree} : heap'[u] = heap[u]
  BY Written DEF References
<1>2. References'
  BY <1>1 DEF References, Exclusive
<1> QED
  BY <1>2 DEF Exclusive, MakersDone

LEMMA SetValueKeeps == ObjectsInv /\ SetValue => ObjectsInv'
<1> SUFFICES ASSUME ObjectsInv, SetValue PROVE ObjectsInv'
  OBVIOUS
<1>1. PICK b \in DOMAIN builders, v \in Values :
        LET md == set_string(heap[builders[b].tree], v.prop, v.value)
        IN heap' = IF md = BadMetadata THEN heap ELSE [heap EXCEPT ![builders[b].tree] = md]
  BY DEF SetValue
<1>2. UNCHANGED <<metas, makers, builders, defaults>>
  BY DEF SetValue
<1>3. CASE heap' = heap
  BY <1>2, <1>3 DEF ObjectsInv, References, Exclusive, MakersDone
<1> QED
  BY <1>1, <1>2, <1>3, WrittenKeeps

LEMMA AddKeeps == ObjectsInv /\ Add => ObjectsInv'
<1> SUFFICES ASSUME ObjectsInv, Add PROVE ObjectsInv'
  OBVIOUS
<1> USE DEF ObjectsInv
<1>1. PICK b \in DOMAIN builders, e \in Elements :
        LET mine == builders[b].tree
            added == [heap EXCEPT ![mine] = add(heap[mine], e.prop, e.value)]
        IN IF defaults = 0 /\ e.prop \notin DOMAIN heap[mine]
           THEN heap' = Append(added, get_defaults) /\ defaults' = NewTree
           ELSE heap' = added /\ UNCHANGED defaults
  BY DEF Add
<1>2. UNCHANGED <<metas, makers, builders>>
  BY DEF Add
<1> DEFINE mine == builders[b].tree
           added == [heap EXCEPT ![mine] = add(heap[mine], e.prop, e.value)]
<1>3. CASE heap' = added /\ UNCHANGED defaults
  BY <1>2, <1>3, WrittenKeeps
<1>4. CASE heap' = Append(added, get_defaults) /\ defaults' = NewTree
  <2>1. IsSequence(added) /\ DOMAIN added = DOMAIN heap /\ Len(added) = Len(heap)
    BY Written DEF References
  <2> HIDE DEF added, mine
  <2>2. /\ IsSequence(heap') /\ DOMAIN heap \subseteq DOMAIN heap' /\ NewTree \in Nat \ {0}
        /\ NewTree \in DOMAIN heap' /\ heap'[NewTree] = get_defaults /\ NewTree \notin DOMAIN heap
    BY <1>4, <2>1, Appended DEF NewTree, References
  <2>3. References'
    BY <1>2, <1>4, <2>2 DEF References
  <2>4. Exclusive' /\ MakersDone'
    BY <1>2, <1>4, <2>2 DEF Exclusive, MakersDone, References
  <2> QED
    BY <2>3, <2>4
<1> QED
  BY <1>1, <1>3, <1>4

LEMMA OpenBuilder ==
  ASSUME References, NEW b \in Open
  PROVE  b \in DOMAIN builders /\ b \in Nat \ {0} /\ builders[b] \in [tree : Nat, built : BOOLEAN]
<1>1. b \in DOMAIN builders
  BY DEF Open
<1>2. builders \in Seq([tree : Nat, built : BOOLEAN])
  BY DEF References
<1>3. \A S : builders \in Seq(S) => \A c \in DOMAIN builders : builders[c] \in S /\ c \in Nat \ {0}
  OBVIOUS
<1> QED
  BY <1>1, <1>2, <1>3

(* What is appended to two sequences of one length.                          *)
LEMMA BothAppended ==
  ASSUME NEW s \in Seq(Nat), NEW t \in Seq(Nat), Len(t) = Len(s), NEW x \in Nat, NEW y \in Nat,
         NEW u, NEW v, u = Append(s, x), v = Append(t, y)
  PROVE  /\ u \in Seq(Nat) /\ DOMAIN u = DOMAIN s \cup {Len(s) + 1}
         /\ \A i \in DOMAIN s : u[i] = s[i] /\ v[i] = t[i]
         /\ u[Len(s) + 1] = x /\ v[Len(s) + 1] = y
         /\ v \in Seq(Nat) /\ Len(v) = Len(u)
OBVIOUS

LEMMA BuildKeeps == ObjectsInv /\ Build => ObjectsInv' /\ Grown
<1> SUFFICES ASSUME ObjectsInv, Build PROVE ObjectsInv' /\ Grown
  OBVIOUS
<1> USE DEF ObjectsInv
<1>1. PICK b \in Open : /\ builders' = [builders EXCEPT ![b].built = TRUE]
                       /\ metas' = Append(metas, builders[b].tree)
                       /\ makers' = Append(makers, b)
  BY DEF Build
<1>2. UNCHANGED <<heap, defaults>>
  BY DEF Build
<1>3. /\ builders' \in Seq([tree : Nat, built : BOOLEAN]) /\ DOMAIN builders' = DOMAIN builders
      /\ \A c \in DOMAIN builders : builders'[c].tree = builders[c].tree
      /\ b \in DOMAIN builders
  <2>1. b \in DOMAIN builders /\ [builders[b] EXCEPT !.built = TRUE] \in [tree : Nat, built : BOOLEAN]
    BY OpenBuilder
  <2>2. /\ builders' \in Seq([tree : Nat, built : BOOLEAN]) /\ DOMAIN builders' = DOMAIN builders
        /\ \A c \in DOMAIN builders :
             builders'[c] = IF c = b THEN [builders[b] EXCEPT !.built = TRUE] ELSE builders[c]
    BY <1>1, <2>1 DEF References
  <2>3. builders \in Seq([tree : Nat, built : BOOLEAN])
    BY DEF References
  <2> QED
    BY <2>1, <2>2, <2>3
<1>9. \A c \in DOMAIN builders : c = b \/ builders[c].built => builders'[c].built
  BY <1>1, OpenBuilder
<1> DEFINE n == Len(metas) + 1
<1>4. /\ metas' \in Seq(Nat) /\ DOMAIN metas' = DOMAIN metas \cup {n}
      /\ \A m \in DOMAIN metas : metas'[m] = metas[m] /\ makers'[m] = makers[m]
      /\ metas'[n] = builders[b].tree /\ makers'[n] = b
      /\ makers' \in Seq(Nat) /\ Len(makers') = Len(metas')
  <2>1. b \in DOMAIN builders /\ builders[b].tree \in Nat /\ b \in Nat
    BY OpenBuilder
  <2> QED
    BY <1>1, <2>1, BothAppended DEF References
<1> HIDE DEF n
<1>5. References'
  BY <1>2, <1>3, <1>4 DEF References
<1>6. Exclusive'
  <2>1. \A c \in DOMAIN builders : \A m \in DOMAIN metas' :
          builders[c].tree = metas'[m] => makers'[m] = c
    <3>1. SUFFICES ASSUME NEW c \in DOMAIN builders, NEW m \in DOMAIN metas',
                          builders[c].tree = metas'[m]
                   PROVE  makers'[m] = c
      OBVIOUS
    <3>2. CASE m = n
      <4>1. metas'[m] = builders[b].tree /\ makers'[m] = b /\ b \in DOMAIN builders
        BY <1>3, <1>4, <3>2
      <4> QED
        BY <3>1, <4>1 DEF Exclusive
    <3>3. CASE m \in DOMAIN metas
      <4>1. metas'[m] = metas[m] /\ makers'[m] = makers[m]
        BY <1>4, <3>3
      <4> QED
        BY <3>1, <3>3, <4>1 DEF Exclusive
    <3> QED
      BY <1>4, <3>2, <3>3
  <2>2. \A c \in DOMAIN builders : builders[c].tree # defaults'
    BY <1>2 DEF Exclusive
  <2>3. \A c \in DOMAIN builders : \A d \in DOMAIN builders \ {c} : builders[c].tree # builders[d].tree
    BY DEF Exclusive
  <2> QED
    BY <1>3, <2>1, <2>2, <2>3 DEF Exclusive
<1>7. MakersDone'
  BY <1>3, <1>4, <1>9 DEF MakersDone
<1> QED
  BY <1>2, <1>5, <1>6, <1>7 DEF Grown, References

LEMMA ApplyOverridesKeeps == ObjectsInv /\ ApplyOverrides => ObjectsInv' /\ Grown
<1> SUFFICES ASSUME ObjectsInv, ApplyOverrides PROVE ObjectsInv' /\ Grown
  OBVIOUS
<1> USE DEF ObjectsInv
<1>1. PICK m, o \in DOMAIN metas :
         /\ heap' = Append(heap, apply_overrides(heap[metas[m]], heap[metas[o]]))
         /\ metas' = Append(metas, NewTree) /\ makers' = Append(makers, 0)
  BY DEF ApplyOverrides
<1>2. UNCHANGED <<builders, defaults>>
  BY DEF ApplyOverrides
<1>3. Grown /\ NewTree \in Nat \ {0} /\ NewTree \notin DOMAIN heap /\ NewTree \in DOMAIN heap'
  BY <1>1, Grows DEF References
<1> DEFINE n == Len(metas) + 1
<1>4. /\ metas' \in Seq(Nat) /\ DOMAIN metas' = DOMAIN metas \cup {n}
      /\ \A k \in DOMAIN metas : metas'[k] = metas[k] /\ makers'[k] = makers[k]
      /\ metas'[n] = NewTree /\ makers'[n] = 0
      /\ makers' \in Seq(Nat) /\ Len(makers') = Len(metas')
  <2>1. metas \in Seq(Nat) /\ makers \in Seq(Nat) /\ Len(makers) = Len(metas)
    BY DEF References
  <2>2. NewTree \in Nat
    BY <1>3
  <2>3. metas' = Append(metas, NewTree) /\ makers' = Append(makers, 0)
    BY <1>1
  <2> HIDE DEF n
  <2>4. /\ metas' \in Seq(Nat) /\ Len(metas') = Len(metas) + 1 /\ metas'[Len(metas) + 1] = NewTree
        /\ \A k \in DOMAIN metas : metas'[k] = metas[k]
    BY ONLY <2>1, <2>2, <2>3
  <2>5. /\ makers' \in Seq(Nat) /\ Len(makers') = Len(metas) + 1 /\ makers'[Len(metas) + 1] = 0
        /\ \A k \in DOMAIN metas : makers'[k] = makers[k]
    BY ONLY <2>1, <2>3
  <2>6. DOMAIN metas' = DOMAIN metas \cup {Len(metas) + 1}
    BY ONLY <2>1, <2>4, SMTT(30)
  <2>7. n = Len(metas) + 1
    BY DEF n
  <2> QED
    BY ONLY <2>4, <2>5, <2>6, <2>7
<1> HIDE DEF n
<1>5. References'
  BY <1>2, <1>3, <1>4 DEF References, Grown
<1>6. Exclusive'
  <2>1. \A b \in DOMAIN builders : builders[b].tree # NewTree
    BY <1>3 DEF References
  <2>2. ASSUME NEW b \in DOMAIN builders, NEW k \in DOMAIN metas', builders[b].tree = metas'[k]
        PROVE  makers'[k] = b
    <3>1. k \in DOMAIN metas /\ metas'[k] = metas[k] /\ makers'[k] = makers[k]
      BY <1>4, <2>1, <2>2
    <3> QED
      BY <2>2, <3>1 DEF Exclusive
  <2>3. \A b \in DOMAIN builders :
          builders[b].tree # defaults /\ \A c \in DOMAIN builders \ {b} : builders[b].tree # builders[c].tree
    BY DEF Exclusive
  <2> QED
    BY <1>2, <2>2, <2>3 DEF Exclusive
<1>7. MakersDone'
  BY <1>2, <1>4 DEF MakersDone
<1> QED
  BY <1>3, <1>5, <1>6, <1>7

LEMMA ObjectsStep == ObjectsInv /\ [NextObjects]_objects => ObjectsInv'
<1> SUFFICES ASSUME ObjectsInv, [NextObjects]_objects PROVE ObjectsInv'
  OBVIOUS
<1>1. CASE UNCHANGED objects
  BY <1>1 DEF ObjectsInv, References, Exclusive, MakersDone, objects
<1>2. CASE NextObjects
  BY <1>2, NewBuilderKeeps, NewBuilderFromKeeps, SetValueKeeps, AddKeeps, BuildKeeps,
     ApplyOverridesKeeps DEF NextObjects
<1> QED
  BY <1>1, <1>2

(* Trees are only added, but by a setter, which writes to the tree of the    *)
(* builder that it is called on.                                             *)
Writes(b) ==
  /\ setters' = Append(setters, b) /\ UNCHANGED metas
  /\ \A u \in DOMAIN heap \ {builders[b].tree} : heap'[u] = heap[u]

LEMMA SettersWrite ==
  ASSUME ObjectsInv, SetValue \/ Add
  PROVE  \E b \in DOMAIN builders : Writes(b)
<1>1. ASSUME NEW b \in DOMAIN builders, NEW v, NEW h, h = [heap EXCEPT ![builders[b].tree] = v],
             h = heap' \/ \E x : heap' = Append(h, x)
      PROVE  \A u \in DOMAIN heap \ {builders[b].tree} : heap'[u] = heap[u]
  <2>1. /\ IsSequence(h) /\ DOMAIN h = DOMAIN heap
        /\ \A u \in DOMAIN heap \ {builders[b].tree} : h[u] = heap[u]
    BY <1>1, Written DEF ObjectsInv, References
  <2>2. \A u \in DOMAIN h : heap'[u] = h[u]
    BY <1>1, <2>1, Appended
  <2> QED
    BY <2>1, <2>2
<1>2. CASE SetValue
  <2>1. PICK b \in DOMAIN builders, v \in Values :
          LET md == set_string(heap[builders[b].tree], v.prop, v.value)
          IN /\ Setting(b)
             /\ heap' = IF md = BadMetadata THEN heap ELSE [heap EXCEPT ![builders[b].tree] = md]
    BY <1>2 DEF SetValue
  <2>2. \A u \in DOMAIN heap \ {builders[b].tree} : heap'[u] = heap[u]
    BY <1>1, <2>1
  <2> QED
    BY <1>2, <2>1, <2>2 DEF SetValue, Setting, Writes
<1>3. CASE Add
  <2>1. PICK b \in DOMAIN builders, e \in Elements :
          LET mine == builders[b].tree
              added == [heap EXCEPT ![mine] = add(heap[mine], e.prop, e.value)]
          IN /\ Setting(b)
             /\ heap' = added \/ heap' = Append(added, get_defaults)
    BY <1>3 DEF Add
  <2>2. \A u \in DOMAIN heap \ {builders[b].tree} : heap'[u] = heap[u]
    BY <1>1, <2>1
  <2> QED
    BY <1>3, <2>1, <2>2 DEF Add, Setting, Writes
<1> QED
  BY <1>2, <1>3

LEMMA OthersGrow ==
  ASSUME ObjectsInv, NewBuilder \/ NewBuilderFrom \/ Build \/ ApplyOverrides
  PROVE  Grown /\ \A m \in DOMAIN metas : metas'[m] = metas[m]
<1>1. Grown
  BY NewBuilderKeeps, NewBuilderFromKeeps, BuildKeeps, ApplyOverridesKeeps
<1>2. ASSUME NEW x, metas' = Append(metas, x) PROVE \A m \in DOMAIN metas : metas'[m] = metas[m]
  BY <1>2 DEF ObjectsInv, References
<1>3. CASE NewBuilder \/ NewBuilderFrom
  BY <1>1, <1>3 DEF NewBuilder, NewBuilderFrom
<1>4. CASE Build \/ ApplyOverrides
  BY <1>1, <1>2, <1>4 DEF Build, ApplyOverrides
<1> QED
  BY <1>3, <1>4

(* What a step may change.                                                   *)
KeepsToItself ==
  /\ \A m \in DOMAIN metas :
       heap'[metas'[m]] # heap[metas[m]] => makers[m] # 0 /\ setters' = Append(setters, makers[m])
  /\ defaults # 0 => heap'[defaults] = get_defaults

LEMMA StepKeepsToItself ==
  ASSUME ObjectsInv, NextObjects
  PROVE  KeepsToItself
<1>1. CASE SetValue \/ Add
  <2>1. PICK b \in DOMAIN builders : Writes(b)
    BY <1>1, SettersWrite
  <2>2. b # 0
    BY DEF ObjectsInv, References
  <2>3. \A m \in DOMAIN metas : metas[m] = builders[b].tree => makers[m] = b
    BY DEF ObjectsInv, Exclusive
  <2>4. defaults # 0 => defaults \in DOMAIN heap \ {builders[b].tree} /\ heap[defaults] = get_defaults
    BY DEF ObjectsInv, References, Exclusive
  <2>5. \A m \in DOMAIN metas : metas[m] \in DOMAIN heap
    BY DEF ObjectsInv, References
  <2> QED
    BY <2>1, <2>2, <2>3, <2>4, <2>5 DEF Writes, KeepsToItself
<1>2. CASE NewBuilder \/ NewBuilderFrom \/ Build \/ ApplyOverrides
  <2>1. Grown /\ \A m \in DOMAIN metas : metas'[m] = metas[m]
    BY <1>2, OthersGrow
  <2> QED
    BY <2>1 DEF ObjectsInv, References, Grown, KeepsToItself
<1> QED
  BY <1>1, <1>2 DEF NextObjects

(* What is written is the tree of the builder that the setter is called on,  *)
(* which no other builder has and no metadata but the one it built           *)
(* (model/metadata.cpp): no other call changes a metadata object.            *)
THEOREM MetadataKeepsToItself == ObjectsSpec => BuiltKeepsToItself
<1>1. ObjectsInv /\ [NextObjects]_objects => [KeepsToItself]_objects
  BY StepKeepsToItself
<1> QED
  BY <1>1, ObjectsInit, ObjectsStep, PTL DEF ObjectsSpec, BuiltKeepsToItself, KeepsToItself

(* The discipline of the callers: no setter of a builder after its build().  *)
DropsBuilder == \A b \in DOMAIN builders : setters' = Append(setters, b) => b \in Open

(* With callers that drop their builders after build(), as kyuafile.cpp,     *)
(* atf_list.cpp and read_transaction.cpp do, a metadata object never changes.*)
THEOREM MetadataIsConstant ==
  ObjectsSpec /\ [][DropsBuilder]_objects =>
    [][\A m \in DOMAIN metas : heap'[metas'[m]] = heap[metas[m]]]_objects
<1> DEFINE Same == \A m \in DOMAIN metas : heap'[metas'[m]] = heap[metas[m]]
<1>1. ObjectsInv /\ [NextObjects]_objects /\ [DropsBuilder]_objects => [Same]_objects
  <2> SUFFICES ASSUME ObjectsInv, NextObjects, DropsBuilder PROVE Same
    BY DEF objects
  <2>1. KeepsToItself
    BY StepKeepsToItself
  <2>2. \A m \in DOMAIN metas : makers[m] # 0 => makers[m] \in DOMAIN builders /\ makers[m] \notin Open
    BY DEF ObjectsInv, MakersDone, Open
  <2> QED
    BY <2>1, <2>2 DEF KeepsToItself, DropsBuilder
<1> QED
  BY <1>1, ObjectsInit, ObjectsStep, PTL DEF ObjectsSpec
-----------------------------------------------------------------------------
Path == Seq(STRING)
IsDir(path) == exists(path) /\ nodes[path].kind = "dir"

(* The tree: every node is in a directory, nothing that is to be removed is  *)
(* a link, and what was there at first is, outside of it.                    *)
Rooted ==
  /\ TreeOK(nodes)
  /\ \A dir \in Removed \cap DOMAIN nodes : nodes[dir].kind # "link"
Outside ==
  /\ initial \in Trees
  /\ \A path \in DOMAIN initial :
       \/ exists(path) /\ nodes[path] = initial[path]
       \/ \E dir \in Removed : Within(path, dir)

(* The records of the calls.                                                 *)
Record(p) ==
  /\ proc[p] = [op |-> proc[p].op, arg |-> proc[p].arg, stack |-> proc[p].stack,
                result |-> proc[p].result, quiet |-> proc[p].quiet, was |-> proc[p].was, left |-> proc[p].left]
  /\ proc[p].op \in {"idle", "mkdir_p", "rm_r"}
  /\ proc[p].op = "idle" => proc[p].result = "none" /\ proc[p].stack = <<>>
  /\ proc[p].op # "idle" => proc[p].arg \in Path \ {<<>>}
  /\ proc[p].op = "rm_r" => proc[p].arg \in Removed
  /\ proc[p].result # "none" => proc[p].stack = <<>>
  /\ proc[p].result = "ok" => Promised(p)
Records ==
  /\ proc = [p \in Procs |-> proc[p]] /\ \A p \in Procs : Record(p)
  /\ auto = [kind |-> auto.kind, owners |-> auto.owners, cleaned |-> auto.cleaned, quiet |-> auto.quiet]

Depth(p) == Len(proc[p].stack)
At(p, i) == proc[p].stack[i]

(* mkdir_p(): each frame but the last waits for the parent of its directory. *)
MkdirFrames == [dir : Path, again : BOOLEAN]
Climbing(p) ==
  /\ proc[p].stack \in Seq(MkdirFrames) /\ proc[p].stack # <<>>
  /\ At(p, 1).dir = proc[p].arg
  /\ \A i \in 1..Depth(p) : Len(At(p, i).dir) = Len(proc[p].arg) - i + 1
  /\ \A i \in 1..(Depth(p) - 1) : At(p, i).again /\ At(p, i + 1).dir = Parent(At(p, i).dir)

ClimbsInPeace(p) ==
  /\ Depth(p) > 1 => \A i \in 1..Depth(p) : ~exists(At(p, i).dir)
  /\ Top(p).again => mkdir(Top(p).dir) = "ok"
  /\ Depth(p) = 1 /\ ~Top(p).again => Kind(proc[p].arg, nodes) = proc[p].was

(* rm_r(): the entries of a frame are in its directory, that of the next one *)
(* among them.                                                               *)
RmFrames == [dir : Path, todo : SUBSET Path, seen : SUBSET Path, entry : Path, isdir : BOOLEAN]
Descending(p) ==
  /\ proc[p].stack \in Seq(RmFrames) /\ proc[p].stack # <<>>
  /\ At(p, 1).dir = proc[p].arg
  /\ \A i \in 1..Depth(p) :
       /\ Within(At(p, i).dir, proc[p].arg) /\ Len(At(p, i).dir) = Len(proc[p].arg) + i - 1
       /\ \A e \in At(p, i).todo \cup At(p, i).seen : e # <<>> /\ Parent(e) = At(p, i).dir
  /\ \A i \in 1..(Depth(p) - 1) :
       At(p, i).entry = <<>> /\ At(p, i + 1).dir \in At(p, i).seen
  /\ Top(p).entry # <<>> => Top(p).entry \in Top(p).seen
  /\ Top(p).entry # <<>> /\ Top(p).isdir /\ exists(Top(p).entry) => nodes[Top(p).entry].kind # "link"

(* What the i-th frame has taken up and not finished.                        *)
Current(p, i) ==
  IF i < Depth(p) THEN {At(p, i + 1).dir}
  ELSE IF At(p, i).entry # <<>> THEN {At(p, i).entry} ELSE {}
DescendsInPeace(p) ==
  /\ \A i \in 1..Depth(p) :
       /\ exists(At(p, i).dir) /\ nodes[At(p, i).dir].ok
       /\ i > 1 => IsDir(At(p, i).dir)
       /\ Children(At(p, i).dir) = (At(p, i).todo \ At(p, i).seen) \cup Current(p, i)
  /\ Top(p).entry # <<>> => Top(p).isdir = is_directory(Top(p).entry)

(* What a call that was left alone can say of its failure.                   *)
Answers(p) ==
  /\ proc[p].result \in {"none", "ok", "ENOTDIR", "EACCES", "ENOENT"}
  /\ proc[p].result = "ENOENT" => proc[p].op = "rm_r" /\ ~exists(proc[p].arg)
  /\ proc[p].op = "rm_r" =>
       \A path \in DOMAIN nodes : path # <<>> => Parent(path) # proc[p].arg

CallInv(p) ==
  /\ Working(p, "mkdir_p") => Climbing(p) /\ (proc[p].quiet => ClimbsInPeace(p))
  /\ Working(p, "rm_r") => Descending(p) /\ (proc[p].quiet => DescendsInPeace(p))
  /\ proc[p].result # "none" /\ proc[p].quiet => Answers(p)

(* A temporary that was left alone is there, and empty, until it is removed. *)
AutoInv ==
  /\ auto.kind \in {"none", "dir", "file"} /\ auto.owners \in Nat
  /\ auto.kind = "none" => auto.owners = 0
  /\ auto.kind # "none" /\ auto.owners = 0 => auto.cleaned
  /\ auto.kind # "none" /\ auto.quiet =>
       IF auto.cleaned THEN ~exists(Temporary)
       ELSE /\ exists(Temporary) /\ nodes[Temporary].kind = auto.kind
            /\ Children(Temporary) = {} /\ Writable(Temporary)

FilesInv ==
  Rooted /\ Outside /\ Records /\ (\A p \in Procs : CallInv(p)) /\ AutoInv
-----------------------------------------------------------------------------
(* The lengths of the paths in a stack.                                      *)
LEMMA OneShorter ==
  ASSUME NEW n \in Nat, NEW arg \in Nat, NEW l, l = arg - n + 1
  PROVE  l - 1 = arg - (n + 1) + 1
OBVIOUS

LEMMA Higher ==
  ASSUME NEW arg \in Nat, NEW n \in Nat, NEW i \in 1..n
  PROVE  arg + i - 1 # arg + n
OBVIOUS

(* The beginning of a sequence, and of a path.                               *)
LEMMA Beginning ==
  ASSUME NEW S, NEW seq \in Seq(S), NEW n \in 0..Len(seq)
  PROVE  /\ SubSeq(seq, 1, n) \in Seq(S) /\ Len(SubSeq(seq, 1, n)) = n
         /\ \A i \in 1..n : SubSeq(seq, 1, n)[i] = seq[i]
OBVIOUS

LEMMA StartOf ==
  ASSUME NEW path \in Path, NEW n \in 0..Len(path)
  PROVE  /\ SubSeq(path, 1, n) \in Path /\ Len(SubSeq(path, 1, n)) = n
         /\ \A i \in 1..n : SubSeq(path, 1, n)[i] = path[i]
BY Beginning DEF Path

LEMMA PathsEqual ==
  ASSUME NEW path \in Path, NEW other \in Path, Len(path) = Len(other),
         \A i \in 1..Len(path) : path[i] = other[i]
  PROVE  path = other
BY SeqEqual DEF Path

LEMMA PathLength ==
  ASSUME NEW path \in Path
  PROVE  Len(path) \in Nat /\ (path # <<>> <=> Len(path) > 0)
BY EmptySeq, LenProperties DEF Path

(* The parent of a path, and what is below another.                          *)
LEMMA ParentOf ==
  ASSUME NEW path \in Path, path # <<>>
  PROVE  Parent(path) \in Path /\ Len(Parent(path)) = Len(path) - 1 /\ Parent(path) # path
<1>1. Len(path) \in Nat /\ Len(path) > 0
  BY PathLength
<1>2. Len(path) - 1 \in 0..Len(path) /\ Len(path) - 1 # Len(path)
  BY <1>1
<1>3. Parent(path) \in Path /\ Len(Parent(path)) = Len(path) - 1
  BY <1>2, StartOf DEF Parent
<1> QED
  BY <1>2, <1>3

LEMMA ParentOfAppend ==
  ASSUME NEW dir \in Path, NEW name \in STRING
  PROVE  Append(dir, name) \in Path \ {<<>>} /\ Parent(Append(dir, name)) = dir
<1> DEFINE path == Append(dir, name)
<1>1. path \in Path /\ Len(path) = Len(dir) + 1 /\ Len(dir) \in Nat
      /\ \A i \in 1..Len(dir) : path[i] = dir[i]
  BY DEF Path
<1> HIDE DEF path
<1>2. path # <<>>
  BY <1>1, PathLength
<1>3. Len(path) - 1 \in 0..Len(path) /\ Len(path) - 1 = Len(dir)
  BY <1>1
<1>4. Parent(path) \in Path /\ Len(Parent(path)) = Len(dir)
      /\ \A i \in 1..Len(dir) : Parent(path)[i] = path[i]
  BY <1>1, <1>3, StartOf DEF Parent
<1>5. Parent(path) = dir
  BY <1>1, <1>4, PathsEqual
<1> QED
  BY <1>1, <1>2, <1>5 DEF path

LEMMA BelowParent ==
  ASSUME NEW path \in Path, path # <<>>, NEW top \in Path, Within(Parent(path), top)
  PROVE  Below(path, top)
<1>1. Len(path) \in Nat /\ Len(top) \in Nat /\ Len(path) > 0
  BY PathLength
<1>2. Len(Parent(path)) = Len(path) - 1 /\ Parent(path) \in Path
      /\ \A i \in 1..(Len(path) - 1) : Parent(path)[i] = path[i]
  <2>1. Len(path) - 1 \in 0..Len(path)
    BY <1>1
  <2> QED
    BY <1>1, <2>1, StartOf DEF Parent
<1>3. Len(top) =< Len(path) - 1 /\ \A i \in 1..Len(top) : top[i] = Parent(path)[i]
  <2>1. CASE Parent(path) = top
    BY <2>1, <1>2, <1>1
  <2>2. CASE Below(Parent(path), top)
    <3>1. Len(top) < Len(path) - 1 /\ SubSeq(Parent(path), 1, Len(top)) = top
      BY <1>2, <2>2 DEF Below
    <3>2. \A i \in 1..Len(top) : SubSeq(Parent(path), 1, Len(top))[i] = Parent(path)[i]
      BY <1>1, <1>2, <3>1, StartOf
    <3> QED
      BY <3>1, <3>2, <1>1
  <2> QED
    BY <2>1, <2>2 DEF Within
<1>4. SubSeq(path, 1, Len(top)) \in Path /\ Len(SubSeq(path, 1, Len(top))) = Len(top)
      /\ \A i \in 1..Len(top) : SubSeq(path, 1, Len(top))[i] = path[i]
  BY <1>1, <1>3, StartOf
<1>5. SubSeq(path, 1, Len(top)) = top
  <2>1. \A i \in 1..Len(top) : SubSeq(path, 1, Len(top))[i] = top[i]
    BY <1>1, <1>2, <1>3, <1>4
  <2> QED
    BY <1>4, <2>1, PathsEqual
<1> QED
  BY <1>1, <1>3, <1>5 DEF Below
-----------------------------------------------------------------------------
(* What a step may do to the tree unnoticed: grant permissions.  And no step *)
(* makes a link.                                                             *)
Calm ==
  /\ DOMAIN nodes' = DOMAIN nodes
  /\ \A path \in DOMAIN nodes :
       nodes'[path].kind = nodes[path].kind /\ nodes'[path].to = nodes[path].to
       /\ (nodes[path].ok => nodes'[path].ok)
NoNewLink ==
  \A path \in DOMAIN nodes' :
    nodes'[path].kind = "link" => exists(path) /\ nodes[path].kind = "link"

(* Permissions are granted, a node is made in a directory, and one without   *)
(* children is removed.                                                      *)
LEMMA Granted ==
  ASSUME Rooted, Outside, NEW dir \in DOMAIN nodes, nodes' = [nodes EXCEPT ![dir].ok = TRUE],
         \E top \in Removed : Within(dir, top), initial' = initial
  PROVE  Rooted' /\ Outside' /\ Calm /\ NoNewLink /\ nodes'[dir].ok
<1>1. nodes = [path \in DOMAIN nodes |-> nodes[path]]
      /\ nodes[dir] = [kind |-> nodes[dir].kind, ok |-> nodes[dir].ok, to |-> nodes[dir].to]
  BY DEF Rooted, TreeOK, Node
<1>2. DOMAIN nodes' = DOMAIN nodes
      /\ nodes'[dir] = [kind |-> nodes[dir].kind, ok |-> TRUE, to |-> nodes[dir].to]
      /\ (\A path \in DOMAIN nodes \ {dir} : nodes'[path] = nodes[path])
      /\ nodes' = [path \in DOMAIN nodes' |-> nodes'[path]]
  BY <1>1
<1>3. Calm /\ NoNewLink /\ nodes'[dir].ok
  <2>1. nodes'[dir].kind = nodes[dir].kind /\ nodes'[dir].to = nodes[dir].to /\ nodes'[dir].ok
    BY <1>2
  <2>2. Calm
    BY <1>2, <2>1 DEF Calm
  <2>3. NoNewLink
    BY <2>2 DEF Calm, NoNewLink, exists
  <2> QED
    BY <2>1, <2>2, <2>3
<1>4. TreeOK(nodes')
  <2>1. \A path \in DOMAIN nodes :
          /\ nodes'[path] = Node(nodes'[path].kind, nodes'[path].ok, nodes'[path].to)
          /\ nodes'[path].kind \in {"dir", "file", "link"}
    BY <1>2, <1>3 DEF Rooted, TreeOK, Node, Calm
  <2>2. \A path \in DOMAIN nodes : path # <<>> => Parent(path) \in DOMAIN nodes /\ nodes'[Parent(path)].kind = "dir"
    BY <1>3 DEF Rooted, TreeOK, Calm
  <2>3. DOMAIN nodes' \subseteq Seq(STRING) /\ <<>> \in DOMAIN nodes'
    BY <1>2 DEF Rooted, TreeOK
  <2> QED
    BY <1>2, <2>1, <2>2, <2>3 DEF TreeOK
<1>5. Outside'
  BY <1>2 DEF Outside, exists
<1> QED
  BY <1>2, <1>3, <1>4, <1>5 DEF Rooted, Calm

LEMMA Created ==
  ASSUME Rooted, Outside, NEW path \in Path \ {<<>>}, ~exists(path),
         exists(Parent(path)), nodes[Parent(path)].kind = "dir",
         NEW made \in {Dir, File}, nodes' = With(path, made), initial' = initial
  PROVE  /\ Rooted' /\ Outside' /\ NoNewLink
         /\ DOMAIN nodes' = DOMAIN nodes \cup {path} /\ nodes'[path] = made
         /\ \A other \in DOMAIN nodes : nodes'[other] = nodes[other]
<1>1. DOMAIN nodes' = DOMAIN nodes \cup {path} /\ nodes'[path] = made
      /\ (\A other \in DOMAIN nodes : nodes'[other] = nodes[other])
      /\ nodes' = [other \in DOMAIN nodes' |-> nodes'[other]]
  BY DEF exists, With
<1>2. made = Node(made.kind, made.ok, made.to) /\ made.kind \in {"dir", "file"}
  BY DEF Dir, File, Node
<1>3. NoNewLink
  BY <1>1, <1>2 DEF NoNewLink, exists
<1>4. TreeOK(nodes')
  <2>1. DOMAIN nodes' \subseteq Seq(STRING) /\ <<>> \in DOMAIN nodes'
    BY <1>1 DEF Rooted, TreeOK, Path
  <2>2. ASSUME NEW other \in DOMAIN nodes'
        PROVE  /\ nodes'[other] = Node(nodes'[other].kind, nodes'[other].ok, nodes'[other].to)
               /\ nodes'[other].kind \in {"dir", "file", "link"}
               /\ other # <<>> => Parent(other) \in DOMAIN nodes' /\ nodes'[Parent(other)].kind = "dir"
    BY <1>1, <1>2 DEF Rooted, TreeOK, exists
  <2> QED
    BY <1>1, <2>1, <2>2 DEF TreeOK
<1>5. Outside'
  BY <1>1 DEF Outside, exists
<1>6. \A dir \in Removed \cap DOMAIN nodes' : nodes'[dir].kind # "link"
  BY <1>3 DEF NoNewLink, Rooted, exists
<1> QED
  BY <1>1, <1>3, <1>4, <1>5, <1>6 DEF Rooted

LEMMA Deleted ==
  ASSUME Rooted, Outside, NEW path \in DOMAIN nodes, path # <<>>, Children(path) = {},
         \/ \E dir \in Removed : Within(path, dir)
         \/ path \notin DOMAIN initial,
         nodes' = Without(path), initial' = initial
  PROVE  /\ Rooted' /\ Outside' /\ NoNewLink
         /\ DOMAIN nodes' = DOMAIN nodes \ {path}
         /\ \A other \in DOMAIN nodes' : nodes'[other] = nodes[other]
<1>1. DOMAIN nodes' = DOMAIN nodes \ {path}
      /\ (\A other \in DOMAIN nodes' : nodes'[other] = nodes[other])
      /\ nodes' = [other \in DOMAIN nodes' |-> nodes'[other]]
  BY DEF Without
<1>2. NoNewLink
  BY <1>1 DEF NoNewLink, exists
<1>3. \A other \in DOMAIN nodes : other # <<>> => Parent(other) # path
  BY DEF Children
<1>4. TreeOK(nodes')
  BY <1>1, <1>3 DEF Rooted, TreeOK
<1>5. Outside'
  BY <1>1 DEF Outside, exists
<1>6. \A dir \in Removed \cap DOMAIN nodes' : nodes'[dir].kind # "link"
  BY <1>1 DEF Rooted
<1> QED
  BY <1>1, <1>2, <1>4, <1>5, <1>6 DEF Rooted
-----------------------------------------------------------------------------
(* A call that does not act loses its peace, or does not notice.             *)
Steady(p) ==
  \/ proc'[p] = proc[p] /\ (Calm \/ ~proc[p].quiet)
  \/ proc'[p] = [proc[p] EXCEPT !.quiet = FALSE]

LEMMA SteadyKeeps ==
  ASSUME NEW p \in Procs, Record(p), CallInv(p), NoNewLink, Steady(p)
  PROVE  Record(p)' /\ CallInv(p)'
<1>1. /\ proc'[p].op = proc[p].op /\ proc'[p].arg = proc[p].arg /\ proc'[p].stack = proc[p].stack
      /\ proc'[p].result = proc[p].result /\ proc'[p].was = proc[p].was /\ proc'[p].left = proc[p].left
      /\ (proc'[p].quiet => proc[p].quiet /\ Calm)
      /\ proc'[p] = [op |-> proc'[p].op, arg |-> proc'[p].arg, stack |-> proc'[p].stack,
                     result |-> proc'[p].result, quiet |-> proc'[p].quiet, was |-> proc'[p].was, left |-> proc'[p].left]
  BY DEF Steady, Record
<1>2. Record(p)'
  <2>1. Promised(p) => Promised(p)'
    BY <1>1 DEF Promised
  <2> QED
    BY <1>1, <2>1 DEF Record
<1>3. ASSUME Climbing(p) PROVE Climbing(p)'
  BY <1>1, <1>3 DEF Climbing, At, Depth
<1>4. ASSUME Descending(p) PROVE Descending(p)'
  <2>1. Top(p)' = Top(p) /\ (\A i \in 1..Depth(p) : At(p, i)' = At(p, i)) /\ Depth(p)' = Depth(p)
    BY <1>1 DEF Top, At, Depth
  <2>2. Top(p).entry # <<>> /\ Top(p).isdir /\ Top(p).entry \in DOMAIN nodes'
          => nodes'[Top(p).entry].kind # "link"
    BY <1>4 DEF Descending, NoNewLink, exists
  <2>3. \A i \in 1..(Depth(p) - 1) : At(p, i + 1)' = At(p, i + 1)
    BY <1>1 DEF At
  <2>4. proc'[p].stack = proc[p].stack /\ proc'[p].arg = proc[p].arg
    BY <1>1
  <2> QED
    BY <1>4, <2>1, <2>2, <2>4 DEF Descending, exists, Depth, At
<1>5. ASSUME Calm, ClimbsInPeace(p) PROVE ClimbsInPeace(p)'
  <2>1. Top(p)' = Top(p)
    BY <1>1 DEF Top
  <2>2. ASSUME NEW dir, mkdir(dir) = "ok" PROVE mkdir(dir)' = "ok"
    BY <1>5, <2>2 DEF mkdir, exists, Writable, Calm
  <2>3. \A i : At(p, i)' = At(p, i)
    BY <1>1 DEF At
  <2>4. Depth(p)' = Depth(p)
    BY <1>1 DEF Depth
  <2>5. Kind(proc'[p].arg, nodes') = Kind(proc[p].arg, nodes) /\ proc'[p].was = proc[p].was
    BY <1>1, <1>5 DEF Kind, Calm
  <2> QED
    BY <1>5, <2>1, <2>2, <2>3, <2>4, <2>5 DEF ClimbsInPeace, exists, Calm
<1>6. ASSUME Calm, DescendsInPeace(p), Descending(p) PROVE DescendsInPeace(p)'
  <2>1. Top(p)' = Top(p) /\ Depth(p)' = Depth(p)
    BY <1>1 DEF Top, Depth
  <2>2. \A i : At(p, i)' = At(p, i)
    BY <1>1 DEF At
  <2>3. \A i : Current(p, i)' = Current(p, i)
    BY <1>1 DEF Current, At, Depth
  <2>4. \A dir : Children(dir)' = Children(dir)
    BY <1>6 DEF Calm, Children
  <2>5. ASSUME NEW i \in 1..Depth(p)
        PROVE  /\ exists(At(p, i).dir)' /\ (nodes[At(p, i).dir].ok)'
               /\ i > 1 => IsDir(At(p, i).dir)'
               /\ Children(At(p, i).dir)' = ((At(p, i).todo \ At(p, i).seen) \cup Current(p, i))'
    BY <1>6, <2>2, <2>3, <2>4 DEF DescendsInPeace, exists, Calm, IsDir
  <2>6. Top(p).entry # <<>> => Top(p)'.isdir = is_directory(Top(p).entry)'
    <3>1. SUFFICES ASSUME Top(p).entry # <<>> PROVE Top(p)'.isdir = is_directory(Top(p).entry)'
      OBVIOUS
    <3>2. exists(Top(p).entry)
      <4>1. Depth(p) \in Nat /\ Depth(p) \in 1..Depth(p) /\ Top(p) = At(p, Depth(p))
        BY <1>6, EmptySeq, LenProperties DEF Descending, Depth, Top, At
      <4>2. Top(p).entry \in Children(Top(p).dir)
        <5>1. Current(p, Depth(p)) = {Top(p).entry}
          BY <4>1, <3>1 DEF Current
        <5> QED
          BY <4>1, <5>1, <1>6 DEF DescendsInPeace
      <4> QED
        BY <4>2 DEF Children, exists
    <3> QED
      BY <1>6, <2>1, <3>1, <3>2 DEF DescendsInPeace, is_directory, Calm, exists
  <2> QED
    BY <2>1, <2>5, <2>6 DEF DescendsInPeace
<1>7. ASSUME Calm, Answers(p) PROVE Answers(p)'
  BY <1>1, <1>7 DEF Answers, exists, Children, Calm
<1>8. CallInv(p)'
  BY <1>1, <1>3, <1>4, <1>5, <1>6, <1>7 DEF CallInv, Working
<1> QED
  BY <1>2, <1>8

(* And so does a temporary.                                                  *)
LEMMA AutoKeeps ==
  ASSUME Rooted, AutoInv, auto = [kind |-> auto.kind, owners |-> auto.owners,
                          cleaned |-> auto.cleaned, quiet |-> auto.quiet],
         \/ auto' = auto /\ Calm
         \/ auto' = [auto EXCEPT !.quiet = FALSE]
  PROVE  AutoInv' /\ auto' = [kind |-> auto'.kind, owners |-> auto'.owners,
                              cleaned |-> auto'.cleaned, quiet |-> auto'.quiet]
<1>1. /\ auto'.kind = auto.kind /\ auto'.owners = auto.owners /\ auto'.cleaned = auto.cleaned
      /\ auto'.quiet => auto.quiet /\ Calm
      /\ auto' = [kind |-> auto'.kind, owners |-> auto'.owners,
                  cleaned |-> auto'.cleaned, quiet |-> auto'.quiet]
  OBVIOUS
<1>2. ASSUME Calm PROVE Children(Temporary)' = Children(Temporary)
  BY <1>2 DEF Calm, Children
<1>3. exists(Temporary) => exists(Parent(Temporary))
  <2>1. Temporary # <<>>
    BY PathsAssumption
  <2> QED
    BY <2>1 DEF Rooted, TreeOK, exists
<1> QED
  BY <1>1, <1>2, <1>3 DEF AutoInv, exists, Calm, Writable

(* A step of one call, which the others notice if it changes the tree.       *)
Silent(p) ==
  Calm /\ NoNewLink /\ auto' = auto /\ \A q \in Procs \ {p} : proc'[q] = proc[q]
Loud(p) ==
  /\ NoNewLink /\ auto' = [auto EXCEPT !.quiet = FALSE]
  /\ \A q \in Procs \ {p} : proc'[q] = [proc[q] EXCEPT !.quiet = FALSE]

LEMMA ActorKeeps ==
  ASSUME FilesInv, NEW p \in Procs, Silent(p) \/ Loud(p),
         proc' = [q \in Procs |-> proc'[q]], Rooted', Outside', Record(p)', CallInv(p)'
  PROVE  FilesInv'
<1>1. ASSUME NEW q \in Procs PROVE Record(q)' /\ CallInv(q)'
  <2>1. CASE q = p
    BY <2>1
  <2>2. CASE q # p
    <3>1. Steady(q) /\ NoNewLink
      BY <2>2 DEF Silent, Loud, Steady
    <3> QED
      BY <3>1, SteadyKeeps DEF FilesInv, Records
  <2> QED
    BY <2>1, <2>2
<1>2. AutoInv' /\ auto' = [kind |-> auto'.kind, owners |-> auto'.owners,
                           cleaned |-> auto'.cleaned, quiet |-> auto'.quiet]
  <2>1. \/ auto' = auto /\ Calm
        \/ auto' = [auto EXCEPT !.quiet = FALSE]
    BY DEF Silent, Loud
  <2> QED
    BY <2>1, AutoKeeps DEF FilesInv, Records
<1> QED
  BY <1>1, <1>2 DEF FilesInv, Records

(* A tree that is left alone.                                                *)
LEMMA Untouched ==
  ASSUME Rooted, Outside, nodes' = nodes, initial' = initial
  PROVE  Rooted' /\ Outside' /\ Calm /\ NoNewLink
BY DEF Rooted, Outside, Calm, NoNewLink, exists

(* A stack, without its top, with another top, and with one more frame.      *)
LEMMA StackOf ==
  ASSUME NEW p, NEW S, proc[p].stack \in Seq(S), proc[p].stack # <<>>
  PROVE  /\ Depth(p) \in Nat \ {0} /\ Top(p) = At(p, Depth(p)) /\ Top(p) \in S
         /\ \A i \in 1..Depth(p) : At(p, i) \in S
         /\ Pop(p) \in Seq(S) /\ Len(Pop(p)) = Depth(p) - 1 /\ (Pop(p) = <<>> <=> Depth(p) = 1)
         /\ \A i \in 1..(Depth(p) - 1) : Pop(p)[i] = At(p, i)
<1> DEFINE stack == proc[p].stack
           n == Len(stack)
           rest == SubSeq(stack, 1, n - 1)
<1>1. stack \in Seq(S) /\ stack # <<>>
  OBVIOUS
<1> HIDE DEF stack
<1>2. n \in Nat \ {0} /\ \A i \in 1..n : stack[i] \in S
  BY <1>1, EmptySeq
<1>3. n - 1 \in 0..Len(stack) /\ n \in 1..n
  BY <1>2
<1>4. rest \in Seq(S) /\ Len(rest) = n - 1 /\ \A i \in 1..(n - 1) : rest[i] = stack[i]
  BY <1>1, <1>3, Beginning
<1> HIDE DEF rest
<1>5. Len(<<>>) = 0 /\ (rest # <<>> => Len(rest) \in Nat \ {0})
  BY <1>4, EmptySeq
<1>6. rest = <<>> <=> n = 1
  BY <1>2, <1>4, <1>5
<1>7. Depth(p) = n /\ Top(p) = stack[n] /\ Pop(p) = rest /\ \A i : At(p, i) = stack[i]
  BY DEF Depth, Top, Pop, At, stack, rest
<1> HIDE DEF n
<1> QED
  BY <1>2, <1>3, <1>4, <1>6, <1>7

LEMMA Pushed ==
  ASSUME NEW S, NEW stack \in Seq(S), NEW frame \in S
  PROVE  /\ Append(stack, frame) \in Seq(S) /\ Append(stack, frame) # <<>>
         /\ Len(stack) \in Nat /\ Len(Append(stack, frame)) = Len(stack) + 1
         /\ Append(stack, frame)[Len(stack) + 1] = frame
         /\ \A i \in 1..Len(stack) : Append(stack, frame)[i] = stack[i]
<1> DEFINE more == Append(stack, frame)
<1>1. more \in Seq(S) /\ Len(more) = Len(stack) + 1 /\ more[Len(stack) + 1] = frame
      /\ (\A i \in 1..Len(stack) : more[i] = stack[i]) /\ Len(stack) \in Nat
  OBVIOUS
<1>2. more # <<>>
  BY <1>1, EmptySeq
<1> QED
  BY <1>1, <1>2

LEMMA SetTopOf ==
  ASSUME NEW p, NEW S, proc[p].stack \in Seq(S), proc[p].stack # <<>>, NEW frame \in S
  PROVE  /\ SetTop(p, frame) \in Seq(S) /\ SetTop(p, frame) # <<>>
         /\ Len(SetTop(p, frame)) = Depth(p) /\ SetTop(p, frame)[Depth(p)] = frame
         /\ \A i \in 1..(Depth(p) - 1) : SetTop(p, frame)[i] = At(p, i)
<1>1. /\ Depth(p) \in Nat \ {0} /\ Pop(p) \in Seq(S) /\ Len(Pop(p)) = Depth(p) - 1
      /\ \A i \in 1..(Depth(p) - 1) : Pop(p)[i] = At(p, i)
  BY StackOf
<1>2. /\ SetTop(p, frame) \in Seq(S) /\ SetTop(p, frame) # <<>>
      /\ Len(SetTop(p, frame)) = Len(Pop(p)) + 1 /\ SetTop(p, frame)[Len(Pop(p)) + 1] = frame
      /\ \A i \in 1..Len(Pop(p)) : SetTop(p, frame)[i] = Pop(p)[i]
  <2> HIDE DEF Pop
  <2> QED
    BY <1>1, Pushed DEF SetTop
<1> QED
  BY <1>1, <1>2
-----------------------------------------------------------------------------
(* mkdir_p(): the call, and an attempt.                                      *)
LEMMA MkdirPCallKeeps ==
  ASSUME FilesInv, NEW p \in Procs, NEW dir \in Made, MkdirPCall(p, dir), initial' = initial
  PROVE  FilesInv'
<1> USE DEF FilesInv, Records
<1>1. proc'[p] = [op |-> "mkdir_p", arg |-> dir, stack |-> <<[dir |-> dir, again |-> FALSE]>>,
                  result |-> "none", quiet |-> TRUE,
                  was |-> Kind(dir, nodes), left |-> "nothing"]
      /\ (\A q \in Procs \ {p} : proc'[q] = proc[q])
      /\ proc' = [q \in Procs |-> proc'[q]] /\ nodes' = nodes /\ auto' = auto
  BY DEF MkdirPCall, Resting
<1>2. Rooted' /\ Outside' /\ Silent(p)
  BY <1>1, Untouched DEF Silent
<1>3. dir \in Path \ {<<>>}
  BY PathsAssumption DEF Path
<1>4. Record(p)'
  BY <1>1, <1>3 DEF Record
<1>5. CallInv(p)'
  <2>1. Climbing(p)'
    <3>1. Depth(p)' = 1 /\ At(p, 1)' = [dir |-> dir, again |-> FALSE]
      BY <1>1 DEF Depth, At
    <3>2. <<[dir |-> dir, again |-> FALSE]>> \in Seq(MkdirFrames) /\ \A i \in 1..1 : i = 1
      BY <1>3 DEF MkdirFrames
    <3>3. 1 - 1 = 0 /\ ~(\E i \in 1..0 : TRUE)
      OBVIOUS
    <3>4. Len(dir) \in Nat
      BY <1>3, PathLength
    <3> QED
      BY <1>1, <1>3, <3>1, <3>2, <3>3, <3>4 DEF Climbing, At
  <2>2. ClimbsInPeace(p)'
    <3>1. Kind(proc'[p].arg, nodes') = proc'[p].was
      BY <1>1
    <3> QED
      BY <1>1, <3>1 DEF ClimbsInPeace, Depth, Top
  <2> QED
    BY <1>1, <2>1, <2>2 DEF CallInv, Working
<1> QED
  BY <1>1, <1>2, <1>4, <1>5, ActorKeeps

LEMMA MkdirSays ==
  ASSUME NEW path
  PROVE  /\ mkdir(path) \in {"EEXIST", "ENOENT", "ENOTDIR", "EACCES", "ok"}
         /\ mkdir(path) = "EEXIST" <=> exists(path)
         /\ mkdir(path) = "ENOENT" => ~exists(Parent(path))
         /\ mkdir(path) = "ok" <=> ~exists(path) /\ exists(Parent(path))
              /\ nodes[Parent(path)].kind = "dir" /\ Writable(path)
BY DEF mkdir

LEMMA ThrowKeeps ==
  ASSUME FilesInv, NEW p \in Procs, proc[p].op # "idle", NEW errno,
         errno \notin {"none", "ok"}, Throw(p, errno),
         proc[p].quiet =>
           /\ errno \in {"ENOTDIR", "EACCES", "ENOENT"}
           /\ errno = "ENOENT" => proc[p].op = "rm_r" /\ ~exists(proc[p].arg)
           /\ proc[p].op = "rm_r" =>
                \A path \in DOMAIN nodes : path # <<>> => Parent(path) # proc[p].arg, initial' = initial
  PROVE  FilesInv'
<1>1. proc'[p] = [op |-> proc[p].op, arg |-> proc[p].arg, stack |-> <<>>,
                  result |-> errno, quiet |-> proc[p].quiet, was |-> proc[p].was, left |-> proc[p].left]
      /\ (\A q \in Procs \ {p} : proc'[q] = proc[q])
      /\ proc' = [q \in Procs |-> proc'[q]] /\ nodes' = nodes /\ auto' = auto
  <2>1. proc = [q \in Procs |-> proc[q]] /\ Record(p)
    BY DEF FilesInv, Records
  <2> QED
    BY <2>1 DEF Throw, Record
<1>2. Rooted' /\ Outside' /\ Silent(p)
  BY <1>1, Untouched DEF Silent, FilesInv
<1>3. Record(p)'
  BY <1>1 DEF FilesInv, Records, Record
<1>4. CallInv(p)'
  <2>1. proc'[p].result = errno /\ proc'[p].quiet = proc[p].quiet
        /\ proc'[p].op = proc[p].op /\ proc'[p].arg = proc[p].arg
    BY <1>1
  <2>2. proc[p].quiet => Answers(p)'
    BY <1>1, <2>1 DEF Answers, exists
  <2> QED
    BY <2>1, <2>2 DEF CallInv, Working
<1> QED
  BY <1>1, <1>2, <1>3, <1>4, ActorKeeps

(* The stack of an attempt, and what it becomes once the directory exists.   *)
LEMMA Climber ==
  ASSUME NEW p \in Procs, Climbing(p)
  PROVE  /\ Depth(p) \in Nat \ {0} /\ Top(p) = At(p, Depth(p)) /\ Top(p) \in MkdirFrames
         /\ Pop(p) = <<>> <=> Depth(p) = 1
         /\ \A i \in 1..Depth(p) : At(p, i) \in MkdirFrames
BY StackOf DEF Climbing

LEMMA ClimberPaths ==
  ASSUME NEW p \in Procs, Climbing(p)
  PROVE  /\ Len(proc[p].arg) \in Nat
         /\ \A i \in 1..Depth(p) : At(p, i).dir \in Path
         /\ \A i, j \in 1..Depth(p) : i # j => At(p, i).dir # At(p, j).dir
<1>1. Depth(p) \in Nat \ {0} /\ \A i \in 1..Depth(p) : At(p, i) \in MkdirFrames
  BY Climber
<1>2. \A i \in 1..Depth(p) : At(p, i).dir \in Path
  BY <1>1 DEF MkdirFrames
<1>3. Len(proc[p].arg) \in Nat
  BY <1>1, <1>2, PathLength DEF Climbing
<1>4. \A i \in 1..Depth(p) : Len(At(p, i).dir) = Len(proc[p].arg) - i + 1
  BY DEF Climbing
<1>5. \A i, j \in 1..Depth(p) : i # j => At(p, i).dir # At(p, j).dir
  BY <1>1, <1>3, <1>4
<1> QED
  BY <1>2, <1>3, <1>5

LEMMA ClimbsBack ==
  ASSUME NEW p \in Procs, Climbing(p), proc'[p].stack = Pop(p), proc'[p].arg = proc[p].arg,
         Pop(p) # <<>>
  PROVE  /\ Climbing(p)' /\ Depth(p)' = Depth(p) - 1 /\ Depth(p) > 1
         /\ Len(proc'[p].stack) = Depth(p) - 1
         /\ \A i \in 1..(Depth(p) - 1) : proc'[p].stack[i] = At(p, i)
<1>1. Depth(p) \in Nat /\ Depth(p) > 1
  BY Climber
<1>2. proc'[p].stack \in Seq(MkdirFrames) /\ Len(proc'[p].stack) = Depth(p) - 1
      /\ \A i \in 1..(Depth(p) - 1) : proc'[p].stack[i] = At(p, i)
  <2> HIDE DEF Pop
  <2> QED
    BY StackOf DEF Climbing
<1>3. At(p, 1).dir = proc[p].arg
      /\ (\A i \in 1..Depth(p) : Len(At(p, i).dir) = Len(proc[p].arg) - i + 1)
      /\ \A i \in 1..(Depth(p) - 1) : At(p, i).again /\ At(p, i + 1).dir = Parent(At(p, i).dir)
  BY DEF Climbing
<1>4. proc'[p].stack[1].dir = proc[p].arg
  <2>1. 1 \in 1..(Depth(p) - 1)
    BY <1>1
  <2> QED
    BY <2>1, <1>2, <1>3
<1>5. ASSUME NEW i \in 1..(Depth(p) - 1)
      PROVE  Len(proc'[p].stack[i].dir) = Len(proc[p].arg) - i + 1
  <2>1. i \in 1..Depth(p)
    BY <1>1
  <2> QED
    BY <2>1, <1>2, <1>3
<1>6. ASSUME NEW i \in 1..(Depth(p) - 1 - 1)
      PROVE  proc'[p].stack[i].again /\ proc'[p].stack[i + 1].dir = Parent(proc'[p].stack[i].dir)
  <2>1. i \in 1..(Depth(p) - 1) /\ i + 1 \in 1..(Depth(p) - 1)
    BY <1>1
  <2> QED
    BY <2>1, <1>2, <1>3
<1> QED
  BY <1>1, <1>2, <1>4, <1>5, <1>6 DEF Climbing, At, Depth

LEMMA MkdirPKeeps ==
  ASSUME FilesInv, NEW p \in Procs, MkdirP(p), initial' = initial
  PROVE  FilesInv'
<1> DEFINE dir == Top(p).dir
<1>1. Working(p, "mkdir_p") /\ Climbing(p) /\ (proc[p].quiet => ClimbsInPeace(p))
  BY DEF MkdirP, FilesInv, CallInv
<1>2. /\ Depth(p) \in Nat \ {0} /\ Top(p) = At(p, Depth(p))
      /\ dir \in Path
      /\ Pop(p) = <<>> <=> Depth(p) = 1
      /\ \A i, j \in 1..Depth(p) : i # j => At(p, i).dir # At(p, j).dir
      /\ Len(proc[p].arg) \in Nat
      /\ \A i \in 1..Depth(p) : At(p, i).dir \in Path /\ Len(At(p, i).dir) = Len(proc[p].arg) - i + 1
      /\ \A i \in 1..(Depth(p) - 1) : At(p, i).again /\ At(p, i + 1).dir = Parent(At(p, i).dir)
  <2>1. \A i \in 1..Depth(p) : Len(At(p, i).dir) = Len(proc[p].arg) - i + 1
    BY <1>1 DEF Climbing
  <2>2. \A i \in 1..(Depth(p) - 1) : At(p, i).again /\ At(p, i + 1).dir = Parent(At(p, i).dir)
    BY <1>1 DEF Climbing
  <2>3. /\ Depth(p) \in Nat \ {0} /\ Top(p) = At(p, Depth(p)) /\ dir \in Path
        /\ Pop(p) = <<>> <=> Depth(p) = 1
    BY <1>1, Climber DEF MkdirFrames
  <2>4. /\ Len(proc[p].arg) \in Nat
        /\ \A i \in 1..Depth(p) : At(p, i).dir \in Path
        /\ \A i, j \in 1..Depth(p) : i # j => At(p, i).dir # At(p, j).dir
    BY <1>1, ClimberPaths
  <2> HIDE DEF dir
  <2> QED
    BY <2>1, <2>2, <2>3, <2>4
<1>3. proc = [q \in Procs |-> proc[q]] /\ Record(p) /\ Rooted /\ Outside
  BY DEF FilesInv, Records
<1>4. CASE mkdir(dir) = "ok"
  <2>1. nodes' = With(dir, Dir) /\ proc' = Disturb(Continue(p, Pop(p), nodes'), {p})
        /\ auto' = [auto EXCEPT !.quiet = FALSE]
    BY <1>4 DEF MkdirP, DisturbAuto
  <2>2. ~exists(dir) /\ exists(Parent(dir)) /\ nodes[Parent(dir)].kind = "dir" /\ dir \in Path \ {<<>>}
    BY <1>2, <1>3, <1>4, MkdirSays DEF Rooted, TreeOK, exists
  <2>3. /\ Rooted' /\ Outside' /\ NoNewLink
        /\ DOMAIN nodes' = DOMAIN nodes \cup {dir} /\ nodes'[dir] = Dir
        /\ \A other \in DOMAIN nodes : nodes'[other] = nodes[other]
    <3> HIDE DEF dir
    <3> QED
      BY <1>3, <2>1, <2>2, Created
  <2>4. Loud(p)
    BY <1>3, <2>1, <2>3 DEF Loud, Disturb, Continue
  <2>5. CASE Pop(p) = <<>>
    <3>1. proc' = [q \in Procs |-> proc'[q]]
          /\ proc'[p] = [op |-> proc[p].op, arg |-> proc[p].arg, stack |-> <<>>,
                         result |-> "ok", quiet |-> proc[p].quiet, was |-> proc[p].was, left |-> "dir"]
      <4>1. Kind(proc[p].arg, nodes') = "dir"
        <5>1. proc[p].arg = dir
          BY <1>1, <1>2, <2>5 DEF Climbing
        <5> HIDE DEF dir
        <5> QED
          BY <2>3, <5>1 DEF Kind, Dir, Node
      <4> QED
        BY <1>3, <2>1, <2>5, <4>1 DEF Disturb, Continue, Record
    <3>2. Promised(p)'
      BY <1>1, <3>1 DEF Promised, Working
    <3>3. Record(p)' /\ CallInv(p)'
      BY <1>1, <1>3, <3>1, <3>2 DEF Record, CallInv, Working, Answers
    <3> QED
      BY <2>3, <2>4, <3>1, <3>3, ActorKeeps
  <2>6. CASE Pop(p) # <<>>
    <3>1. proc' = [q \in Procs |-> proc'[q]]
          /\ proc'[p] = [op |-> proc[p].op, arg |-> proc[p].arg, stack |-> Pop(p),
                         result |-> proc[p].result, quiet |-> proc[p].quiet, was |-> proc[p].was, left |-> proc[p].left]
      BY <1>3, <2>1, <2>3, <2>6 DEF Disturb, Continue, Record
    <3>2. Record(p)'
      BY <1>1, <1>3, <3>1 DEF Record, Working
    <3>3. /\ Climbing(p)' /\ Depth(p)' = Depth(p) - 1 /\ Depth(p) > 1
          /\ Len(proc'[p].stack) = Depth(p) - 1
          /\ \A i \in 1..(Depth(p) - 1) : proc'[p].stack[i] = At(p, i)
      BY <1>1, <2>6, <3>1, ClimbsBack
    <3>4. Top(p)' = At(p, Depth(p) - 1)
      <4>1. Top(p)' = proc'[p].stack[Len(proc'[p].stack)] /\ Len(proc'[p].stack) = Depth(p) - 1
        BY <3>3 DEF Top, Depth
      <4>2. Depth(p) - 1 \in 1..(Depth(p) - 1)
        BY <1>2, <3>3
      <4>3. At(p, Depth(p) - 1) = proc'[p].stack[Depth(p) - 1]
        BY <3>3, <4>2
      <4> QED
        BY <4>1, <4>3
    <3>5. ASSUME proc[p].quiet PROVE ClimbsInPeace(p)'
      <4>1. \A i \in 1..(Depth(p) - 1) : At(p, i).dir \notin DOMAIN nodes'
        BY <1>1, <1>2, <2>3, <3>3, <3>5 DEF ClimbsInPeace, exists
      <4>2. Parent(At(p, Depth(p) - 1).dir) = dir /\ At(p, Depth(p) - 1).dir \notin DOMAIN nodes'
        <5>1. Depth(p) - 1 \in 1..(Depth(p) - 1) /\ (Depth(p) - 1) + 1 = Depth(p)
          BY <1>2, <3>3
        <5> QED
          BY <1>1, <1>2, <4>1, <5>1 DEF Climbing
      <4>3. mkdir(Top(p).dir)' = "ok"
        BY <2>3, <3>4, <4>2 DEF mkdir, exists, Writable, Dir, Node
      <4>4. Top(p)'.again
        <5>1. Depth(p) - 1 \in 1..(Depth(p) - 1)
          BY <1>2, <3>3
        <5> QED
          BY <1>2, <3>4, <5>1
      <4> QED
        BY <3>3, <4>1, <4>3, <4>4 DEF ClimbsInPeace, exists, At, Depth
    <3>6. CallInv(p)'
      BY <1>1, <3>1, <3>3, <3>5 DEF CallInv, Working
    <3> QED
      BY <2>3, <2>4, <3>1, <3>2, <3>6, ActorKeeps
  <2> QED
    BY <2>5, <2>6
<1>5. CASE mkdir(dir) = "ENOENT" /\ ~Top(p).again
  <2> DEFINE below == [dir |-> Parent(dir), again |-> FALSE]
             mine == [dir |-> dir, again |-> TRUE]
             stack == Append(SetTop(p, mine), below)
  <2>1. proc' = [proc EXCEPT ![p].stack = stack] /\ nodes' = nodes /\ auto' = auto
    BY <1>5 DEF MkdirP, MakeParents
  <2>2. ~exists(dir) /\ ~exists(Parent(dir)) /\ dir \in Path \ {<<>>}
    BY <1>2, <1>3, <1>5, MkdirSays DEF Rooted, TreeOK, exists
  <2>3. Rooted' /\ Outside' /\ Silent(p)
    BY <1>3, <2>1, Untouched DEF Silent
  <2>4. proc' = [q \in Procs |-> proc'[q]]
        /\ proc'[p] = [op |-> proc[p].op, arg |-> proc[p].arg, stack |-> stack,
                       result |-> proc[p].result, quiet |-> proc[p].quiet, was |-> proc[p].was, left |-> proc[p].left]
    <3> HIDE DEF stack
    <3> QED
      BY <1>3, <2>1 DEF Record
  <2>5. Record(p)'
    <3> HIDE DEF stack
    <3> QED
      BY <1>1, <1>3, <2>4 DEF Record, Working
  <2>6. Parent(dir) \in Path /\ Len(Parent(dir)) = Len(dir) - 1
    BY <2>2, ParentOf
  <2>7. /\ stack \in Seq(MkdirFrames) /\ stack # <<>>
        /\ Len(stack) = Depth(p) + 1
        /\ stack[Depth(p) + 1] = below /\ stack[Depth(p)] = mine
        /\ \A i \in 1..(Depth(p) - 1) : stack[i] = At(p, i)
    <3>1. mine \in MkdirFrames /\ below \in MkdirFrames
      BY <1>2, <2>6 DEF MkdirFrames
    <3> HIDE DEF mine, below
    <3>2. /\ SetTop(p, mine) \in Seq(MkdirFrames) /\ Len(SetTop(p, mine)) = Depth(p)
          /\ SetTop(p, mine)[Depth(p)] = mine
          /\ \A i \in 1..(Depth(p) - 1) : SetTop(p, mine)[i] = At(p, i)
      BY <1>1, <3>1, SetTopOf DEF Climbing
    <3>3. /\ stack \in Seq(MkdirFrames) /\ stack # <<>>
          /\ Len(stack) = Depth(p) + 1 /\ stack[Depth(p) + 1] = below
          /\ \A i \in 1..Depth(p) : stack[i] = SetTop(p, mine)[i]
      <4> HIDE DEF SetTop
      <4> QED
        BY <3>1, <3>2, Pushed
    <3> QED
      BY <1>2, <3>2, <3>3
  <2> HIDE DEF stack
  <2>8. Climbing(p)'
    <3>1. Len(proc[p].arg) \in Nat /\ Len(dir) = Len(proc[p].arg) - Depth(p) + 1
          /\ Depth(p) \in 1..Depth(p)
      <4>1. Depth(p) \in 1..Depth(p)
        BY <1>2
      <4> QED
        BY <1>2, <4>1
    <3>2. stack[Depth(p) + 1].dir = Parent(dir) /\ stack[Depth(p)].dir = dir /\ stack[Depth(p)].again
      BY <2>7
    <3>3. stack[1].dir = proc[p].arg
      <4>1. At(p, 1).dir = proc[p].arg
        BY <1>1 DEF Climbing
      <4>2. CASE Depth(p) = 1
        BY <1>2, <3>2, <4>1, <4>2
      <4>3. CASE Depth(p) # 1
        <5>1. 1 \in 1..(Depth(p) - 1)
          BY <1>2, <4>3
        <5> QED
          BY <2>7, <4>1, <5>1
      <4> QED
        BY <4>2, <4>3
    <3>4. ASSUME NEW i \in 1..(Depth(p) + 1) PROVE Len(stack[i].dir) = Len(proc[p].arg) - i + 1
      <4>1. CASE i = Depth(p) + 1
        <5>1. Len(stack[i].dir) = Len(dir) - 1
          BY <2>6, <3>2, <4>1
        <5>2. Len(dir) - 1 = Len(proc[p].arg) - (Depth(p) + 1) + 1
          <6>1. Depth(p) \in Nat /\ Len(proc[p].arg) \in Nat
                /\ Len(dir) = Len(proc[p].arg) - Depth(p) + 1
            BY <1>2, <3>1
          <6> HIDE DEF dir
          <6> QED
            BY <6>1, OneShorter, Zenon
        <5> QED
          BY <5>1, <5>2, <4>1
      <4>2. CASE i = Depth(p)
        BY <3>1, <3>2, <4>2
      <4>3. CASE i \in 1..(Depth(p) - 1)
        <5>1. i \in 1..Depth(p)
          BY <1>2, <4>3
        <5> QED
          BY <1>2, <2>7, <4>3, <5>1
      <4> QED
        BY <1>2, <4>1, <4>2, <4>3
    <3>5. ASSUME NEW i \in 1..Depth(p) PROVE stack[i].again /\ stack[i + 1].dir = Parent(stack[i].dir)
      <4>1. CASE i = Depth(p)
        BY <3>2, <4>1
      <4>2. CASE i \in 1..(Depth(p) - 1)
        <5>1. stack[i] = At(p, i) /\ At(p, i).again /\ At(p, i + 1).dir = Parent(At(p, i).dir)
          BY <1>2, <2>7, <4>2
        <5>2. stack[i + 1].dir = At(p, i + 1).dir
          <6>1. CASE i + 1 = Depth(p)
            BY <1>2, <3>2, <6>1
          <6>2. CASE i + 1 # Depth(p)
            <7>1. i + 1 \in 1..(Depth(p) - 1)
              BY <1>2, <4>2, <6>2
            <7> QED
              BY <2>7, <7>1
          <6> QED
            BY <6>1, <6>2
        <5> QED
          BY <5>1, <5>2
      <4> QED
        BY <1>2, <4>1, <4>2
    <3>6. Len(stack) - 1 = Depth(p)
      BY <1>2, <2>7
    <3> QED
      BY <2>4, <2>7, <3>3, <3>4, <3>5, <3>6 DEF Climbing, At, Depth
  <2>9. ASSUME proc[p].quiet PROVE ClimbsInPeace(p)'
    <3>1. \A i \in 1..(Depth(p) + 1) : stack[i].dir \notin DOMAIN nodes
      <4>1. \A i \in 1..(Depth(p) - 1) : ~exists(At(p, i).dir)
        <5>1. CASE Depth(p) = 1
          BY <5>1
        <5>2. CASE Depth(p) > 1
          <6>1. \A i \in 1..Depth(p) : ~exists(At(p, i).dir)
            BY <1>1, <2>9, <5>2 DEF ClimbsInPeace
          <6>2. 1..(Depth(p) - 1) \subseteq 1..Depth(p)
            BY <1>2
          <6> QED
            BY <6>1, <6>2
        <5>3. Depth(p) = 1 \/ Depth(p) > 1
          BY <1>2
        <5> QED
          BY <5>1, <5>2, <5>3
      <4>2. stack[Depth(p) + 1].dir = Parent(dir) /\ stack[Depth(p)].dir = dir
        BY <2>7
      <4>3. ASSUME NEW i \in 1..(Depth(p) - 1) PROVE stack[i].dir \notin DOMAIN nodes
        BY <2>7, <4>1 DEF exists
      <4>4. \A i \in 1..(Depth(p) + 1) : i \in 1..(Depth(p) - 1) \/ i = Depth(p) \/ i = Depth(p) + 1
        BY <1>2
      <4>5. Parent(dir) \notin DOMAIN nodes /\ dir \notin DOMAIN nodes
        BY <2>2 DEF exists
      <4> HIDE DEF dir
      <4> QED
        BY <4>2, <4>3, <4>4, <4>5
    <3>2. Top(p)' = below
      BY <2>4, <2>7 DEF Top
    <3>3. Depth(p)' = Depth(p) + 1 /\ ~(Depth(p) + 1 = 1)
      BY <1>2, <2>4, <2>7 DEF Depth
    <3> QED
      BY <2>1, <2>4, <2>7, <3>1, <3>2, <3>3 DEF ClimbsInPeace, exists, At, Depth
  <2>10. CallInv(p)'
    BY <1>1, <2>4, <2>8, <2>9 DEF CallInv, Working
  <2> QED
    BY <2>3, <2>4, <2>5, <2>10, ActorKeeps
<1>6. CASE mkdir(dir) = "EEXIST" /\ ~Top(p).again
  <2>1. proc' = Continue(p, Pop(p), nodes) /\ nodes' = nodes /\ auto' = auto
    BY <1>6 DEF MkdirP
  <2>2. exists(dir)
    BY <1>6, MkdirSays
  <2>3. Rooted' /\ Outside' /\ Silent(p)
    BY <1>3, <2>1, Untouched DEF Silent, Continue
  <2>4. CASE Pop(p) = <<>>
    <3>1. proc' = [q \in Procs |-> proc'[q]]
          /\ proc'[p] = [op |-> proc[p].op, arg |-> proc[p].arg, stack |-> <<>>,
                         result |-> "ok", quiet |-> proc[p].quiet, was |-> proc[p].was,
                         left |-> Kind(proc[p].arg, nodes)]
      BY <1>3, <2>1, <2>4 DEF Continue, Record
    <3>2. Depth(p) = 1 /\ proc[p].arg = dir
      BY <1>1, <1>2, <2>4 DEF Climbing
    <3>3. Kind(proc[p].arg, nodes) \in {"dir", "file", "link"}
      <4> HIDE DEF dir
      <4> QED
        BY <1>3, <2>2, <3>2 DEF Kind, Rooted, TreeOK, exists
    <3>4. proc[p].quiet => Kind(proc[p].arg, nodes) = proc[p].was
      BY <1>1, <1>6, <3>2 DEF ClimbsInPeace
    <3>5. Promised(p)'
      <4>1. /\ proc'[p].op = "mkdir_p" /\ proc'[p].quiet = proc[p].quiet
            /\ proc'[p].was = proc[p].was /\ proc'[p].left = Kind(proc[p].arg, nodes)
        BY <1>1, <3>1 DEF Working
      <4> QED
        BY <3>3, <3>4, <4>1 DEF Promised
    <3>6. Record(p)' /\ CallInv(p)'
      BY <1>1, <1>3, <3>1, <3>5 DEF Record, CallInv, Working, Answers
    <3> QED
      BY <2>3, <3>1, <3>6, ActorKeeps
  <2>5. CASE Pop(p) # <<>>
    <3>1. proc' = [q \in Procs |-> proc'[q]]
          /\ proc'[p] = [op |-> proc[p].op, arg |-> proc[p].arg, stack |-> Pop(p),
                         result |-> proc[p].result, quiet |-> proc[p].quiet, was |-> proc[p].was, left |-> proc[p].left]
      BY <1>3, <2>1, <2>5 DEF Continue, Record
    <3>2. Record(p)'
      BY <1>1, <1>3, <3>1 DEF Record, Working
    <3>3. Climbing(p)' /\ Depth(p) > 1
      BY <1>1, <2>5, <3>1, ClimbsBack
    <3>4. ~proc[p].quiet
      <4>1. SUFFICES ASSUME proc[p].quiet PROVE FALSE
        OBVIOUS
      <4>2. \A i \in 1..Depth(p) : ~exists(At(p, i).dir)
        BY <1>1, <3>3, <4>1 DEF ClimbsInPeace
      <4>3. Depth(p) \in 1..Depth(p)
        BY <1>2
      <4> QED
        BY <1>2, <2>2, <4>2, <4>3
    <3>5. CallInv(p)'
      BY <1>1, <3>1, <3>3, <3>4 DEF CallInv, Working
    <3> QED
      BY <2>3, <3>1, <3>2, <3>5, ActorKeeps
  <2> QED
    BY <2>4, <2>5
<1>7. CASE /\ mkdir(dir) # "ok" /\ ~(mkdir(dir) = "ENOENT" /\ ~Top(p).again)
           /\ ~(mkdir(dir) = "EEXIST" /\ ~Top(p).again)
  <2>1. Throw(p, mkdir(dir))
    BY <1>7 DEF MkdirP
  <2>2. mkdir(dir) \in {"EEXIST", "ENOENT", "ENOTDIR", "EACCES"}
    BY <1>7, MkdirSays
  <2>3. proc[p].quiet => mkdir(dir) \in {"ENOTDIR", "EACCES"}
    BY <1>1, <1>7, <2>2 DEF ClimbsInPeace
  <2>4. proc[p].op = "mkdir_p"
    BY <1>1 DEF Working
  <2>5. PICK errno : errno = mkdir(dir)
    OBVIOUS
  <2>6. errno \notin {"none", "ok"} /\ Throw(p, errno)
    <3>1. Throw(p, errno)
      BY <2>1, <2>5, Zenon
    <3>2. errno \in {"EEXIST", "ENOENT", "ENOTDIR", "EACCES"}
      BY <2>2, <2>5, Zenon
    <3>3. errno \notin {"none", "ok"}
      BY ONLY <3>2
    <3> QED
      BY <3>1, <3>3
  <2>7. /\ proc[p].op # "idle" /\ proc[p].op # "rm_r"
        /\ proc[p].quiet => errno \in {"ENOTDIR", "EACCES"}
    BY <2>3, <2>4, <2>5
  <2> QED
    BY <2>6, <2>7, ThrowKeeps
<1> QED
  BY <1>4, <1>5, <1>6, <1>7
-----------------------------------------------------------------------------
(* The stack of rm_r(), as it is and as it becomes.                          *)
Under(fs, dir) == {path \in DOMAIN fs : path # <<>> /\ Parent(path) = dir}

LEMMA Descender ==
  ASSUME NEW p \in Procs, Descending(p)
  PROVE  /\ Depth(p) \in Nat \ {0} /\ Depth(p) \in 1..Depth(p)
         /\ Top(p) = At(p, Depth(p)) /\ Top(p) \in RmFrames
         /\ Pop(p) = <<>> <=> Depth(p) = 1
         /\ Len(proc[p].arg) \in Nat /\ proc[p].arg \in Path
         /\ \A i \in 1..Depth(p) :
              /\ At(p, i) \in RmFrames /\ At(p, i).dir \in Path
              /\ Within(At(p, i).dir, proc[p].arg)
              /\ Len(At(p, i).dir) = Len(proc[p].arg) + i - 1
              /\ \A e \in At(p, i).todo \cup At(p, i).seen : e # <<>> /\ Parent(e) = At(p, i).dir
         /\ \A i \in 1..(Depth(p) - 1) :
              /\ At(p, i).entry = <<>> /\ At(p, i + 1).dir \in At(p, i).seen
              /\ Parent(At(p, i + 1).dir) = At(p, i).dir
         /\ \A i, j \in 1..Depth(p) : i # j => At(p, i).dir # At(p, j).dir
         /\ Top(p).entry # <<>> => Top(p).entry \in Path /\ Parent(Top(p).entry) = Top(p).dir
<1>1. /\ Depth(p) \in Nat \ {0} /\ Top(p) = At(p, Depth(p)) /\ Top(p) \in RmFrames
      /\ Pop(p) = <<>> <=> Depth(p) = 1
      /\ \A i \in 1..Depth(p) : At(p, i) \in RmFrames
  BY StackOf DEF Descending
<1>2. Depth(p) \in 1..Depth(p) /\ 1 \in 1..Depth(p)
  BY <1>1
<1>3. \A i \in 1..Depth(p) : At(p, i).dir \in Path
  BY <1>1 DEF RmFrames
<1>4. proc[p].arg \in Path /\ Len(proc[p].arg) \in Nat
  BY <1>2, <1>3, PathLength DEF Descending
<1>5. /\ \A i \in 1..Depth(p) :
           /\ Within(At(p, i).dir, proc[p].arg)
           /\ Len(At(p, i).dir) = Len(proc[p].arg) + i - 1
           /\ \A e \in At(p, i).todo \cup At(p, i).seen : e # <<>> /\ Parent(e) = At(p, i).dir
      /\ \A i \in 1..(Depth(p) - 1) : At(p, i).entry = <<>> /\ At(p, i + 1).dir \in At(p, i).seen
      /\ Top(p).entry # <<>> => Top(p).entry \in Top(p).seen
  BY DEF Descending
<1>6. \A i, j \in 1..Depth(p) : i # j => At(p, i).dir # At(p, j).dir
  <2> SUFFICES ASSUME NEW i \in 1..Depth(p), NEW j \in 1..Depth(p), i # j
               PROVE  Len(At(p, i).dir) # Len(At(p, j).dir)
    OBVIOUS
  <2>1. Len(At(p, i).dir) = Len(proc[p].arg) + i - 1 /\ Len(At(p, j).dir) = Len(proc[p].arg) + j - 1
    BY <1>5
  <2>2. i \in Int /\ j \in Int
    BY <1>1
  <2> QED
    BY <1>4, <2>1, <2>2
<1>7. \A i \in 1..(Depth(p) - 1) : Parent(At(p, i + 1).dir) = At(p, i).dir
  <2>1. 1..(Depth(p) - 1) \subseteq 1..Depth(p)
    BY <1>1
  <2> QED
    BY <2>1, <1>5
<1>8. Top(p).entry # <<>> => Top(p).entry \in Path /\ Parent(Top(p).entry) = Top(p).dir
  BY <1>1, <1>2, <1>5 DEF RmFrames
<1> QED
  BY <1>1, <1>2, <1>3, <1>4, <1>5, <1>6, <1>7, <1>8

DescendingParts(stack, n, arg) ==
  /\ stack \in Seq(RmFrames) /\ stack # <<>> /\ Len(stack) = n /\ n \in Nat
  /\ stack[1].dir = arg
  /\ \A i \in 1..n :
       /\ Within(stack[i].dir, arg) /\ Len(stack[i].dir) = Len(arg) + i - 1
       /\ \A e \in stack[i].todo \cup stack[i].seen : e # <<>> /\ Parent(e) = stack[i].dir
  /\ \A i \in 1..(n - 1) : stack[i].entry = <<>> /\ stack[i + 1].dir \in stack[i].seen
  /\ stack[n].entry # <<>> => stack[n].entry \in stack[n].seen

LEMMA DescendingNow ==
  ASSUME NEW p \in Procs, NEW n,
         DescendingParts(proc'[p].stack, n, proc'[p].arg),
         LET top == proc'[p].stack[n]
         IN top.entry # <<>> /\ top.isdir /\ top.entry \in DOMAIN nodes'
              => nodes'[top.entry].kind # "link"
  PROVE  Descending(p)'
BY DEF DescendingParts, Descending, Depth, At, Top, exists

(* A tree in which only that call works, as the stack sees it.               *)
PeaceParts(stack, n, fs) ==
  /\ \A i \in 1..n :
       /\ stack[i].dir \in DOMAIN fs /\ fs[stack[i].dir].ok
       /\ i > 1 => fs[stack[i].dir].kind = "dir"
  /\ \A i \in 1..(n - 1) :
       Under(fs, stack[i].dir) = (stack[i].todo \ stack[i].seen) \cup {stack[i + 1].dir}
  /\ Under(fs, stack[n].dir)
       = (stack[n].todo \ stack[n].seen) \cup (IF stack[n].entry # <<>> THEN {stack[n].entry} ELSE {})
  /\ stack[n].entry # <<>> => stack[n].isdir = (fs[stack[n].entry].kind = "dir")

LEMMA PeaceNow ==
  ASSUME NEW p \in Procs, NEW n, Len(proc'[p].stack) = n, n \in Nat,
         PeaceParts(proc'[p].stack, n, nodes')
  PROVE  DescendsInPeace(p)'
<1> DEFINE stack == proc'[p].stack
<1>1. Depth(p)' = n /\ Top(p)' = stack[n] /\ PeaceParts(stack, n, nodes')
  BY DEF Depth, Top
<1> HIDE DEF stack
<1>2. ASSUME NEW i \in 1..n
      PROVE  /\ stack[i].dir \in DOMAIN nodes' /\ nodes'[stack[i].dir].ok
             /\ i > 1 => stack[i].dir \in DOMAIN nodes' /\ nodes'[stack[i].dir].kind = "dir"
             /\ Under(nodes', stack[i].dir)
                  = (stack[i].todo \ stack[i].seen)
                      \cup (IF i < n THEN {stack[i + 1].dir}
                            ELSE IF stack[i].entry # <<>> THEN {stack[i].entry} ELSE {})
  <2>1. CASE i = n
    BY <1>1, <2>1 DEF PeaceParts
  <2>2. CASE i # n
    <3>1. i \in 1..(n - 1) /\ i < n
      BY <2>2
    <3> QED
      BY <1>1, <3>1 DEF PeaceParts
  <2> QED
    BY <2>1, <2>2
<1>3. stack[n].entry # <<>> => stack[n].isdir = (nodes'[stack[n].entry].kind = "dir")
  BY <1>1 DEF PeaceParts
<1> QED
  BY <1>1, <1>2, <1>3 DEF DescendsInPeace, Depth, At, Current, Children, Under, exists, IsDir,
     is_directory, stack

LEMMA PeaceWas ==
  ASSUME NEW p \in Procs, Descending(p), DescendsInPeace(p)
  PROVE  /\ \A i \in 1..Depth(p) :
              /\ exists(At(p, i).dir) /\ nodes[At(p, i).dir].ok
              /\ i > 1 => nodes[At(p, i).dir].kind = "dir"
         /\ \A i \in 1..(Depth(p) - 1) :
              Under(nodes, At(p, i).dir) = (At(p, i).todo \ At(p, i).seen) \cup {At(p, i + 1).dir}
         /\ Under(nodes, Top(p).dir) = (Top(p).todo \ Top(p).seen)
              \cup (IF Top(p).entry # <<>> THEN {Top(p).entry} ELSE {})
         /\ Top(p).entry # <<>> => exists(Top(p).entry)
              /\ Top(p).isdir = (nodes[Top(p).entry].kind = "dir")
<1>1. Depth(p) \in Nat \ {0} /\ Depth(p) \in 1..Depth(p) /\ Top(p) = At(p, Depth(p))
  BY Descender
<1>2. \A i \in 1..Depth(p) :
        /\ exists(At(p, i).dir) /\ nodes[At(p, i).dir].ok
        /\ i > 1 => nodes[At(p, i).dir].kind = "dir"
        /\ Under(nodes, At(p, i).dir) = (At(p, i).todo \ At(p, i).seen) \cup Current(p, i)
  BY DEF DescendsInPeace, IsDir, Under, Children
<1>3. \A i \in 1..(Depth(p) - 1) : i \in 1..Depth(p) /\ Current(p, i) = {At(p, i + 1).dir}
  BY <1>1 DEF Current
<1>4. Current(p, Depth(p)) = IF Top(p).entry # <<>> THEN {Top(p).entry} ELSE {}
  BY <1>1 DEF Current
<1>5. Under(nodes, Top(p).dir) = (Top(p).todo \ Top(p).seen)
        \cup (IF Top(p).entry # <<>> THEN {Top(p).entry} ELSE {})
  BY <1>1, <1>2, <1>4
<1>6. Top(p).entry # <<>> => exists(Top(p).entry) /\ Top(p).isdir = (nodes[Top(p).entry].kind = "dir")
  <2>1. Top(p).entry # <<>> => Top(p).entry \in Under(nodes, Top(p).dir)
    BY <1>5
  <2> QED
    BY <2>1 DEF Under, exists, DescendsInPeace, is_directory
<1> QED
  BY <1>2, <1>3, <1>5, <1>6

(* A frame as it is pushed is one.                                           *)
LEMMA FrameIs ==
  ASSUME Rooted, NEW dir \in Path
  PROVE  /\ Frame(dir, Children(dir)) \in RmFrames
         /\ Frame(dir, Children(dir)).dir = dir /\ Frame(dir, Children(dir)).entry = <<>>
         /\ Frame(dir, Children(dir)).todo = Under(nodes, dir)
         /\ Frame(dir, Children(dir)).seen = {} /\ ~Frame(dir, Children(dir)).isdir
         /\ \A e \in Under(nodes, dir) : e # <<>> /\ Parent(e) = dir
<1>1. <<>> \in Path
  BY EmptySeq DEF Path
<1>2. Children(dir) = Under(nodes, dir) /\ Under(nodes, dir) \subseteq Path
  BY DEF Children, Under, Rooted, TreeOK, Path
<1> QED
  BY <1>1, <1>2 DEF Frame, RmFrames, Under

LEMMA RmRCallKeeps ==
  ASSUME FilesInv, NEW p \in Procs, NEW dir \in Removed, RmRCall(p, dir), initial' = initial
  PROVE  FilesInv'
<1>1. proc = [q \in Procs |-> proc[q]] /\ Rooted /\ Outside /\ proc[p].op = "idle"
  BY DEF FilesInv, Records, RmRCall
<1>2. dir \in Path \ {<<>>}
  BY PathsAssumption DEF Path
<1>3. CASE exists(dir)
  <2> DEFINE frame == Frame(dir, Children(dir))
             stack == <<frame>>
  <2>1. /\ proc'[p] = [op |-> "rm_r", arg |-> dir, stack |-> stack,
                       result |-> "none", quiet |-> TRUE,
                       was |-> Kind(dir, nodes), left |-> "nothing"]
        /\ (\A q \in Procs \ {p} : proc'[q] = proc[q])
        /\ proc' = [q \in Procs |-> proc'[q]]
        /\ nodes' = [nodes EXCEPT ![dir].ok = TRUE] /\ auto' = auto
    <3> HIDE DEF frame
    <3> QED
      BY <1>1, <1>3 DEF RmRCall, Resting, frame
  <2>2. Rooted' /\ Outside' /\ Calm /\ NoNewLink /\ nodes'[dir].ok
    BY <1>1, <1>3, <2>1, Granted DEF exists, Within
  <2>3. Silent(p)
    BY <2>1, <2>2 DEF Silent
  <2>4. /\ frame \in RmFrames /\ frame.dir = dir /\ frame.entry = <<>>
        /\ frame.todo = Under(nodes, dir) /\ frame.seen = {} /\ ~frame.isdir
        /\ \A e \in Under(nodes, dir) : e # <<>> /\ Parent(e) = dir
    BY <1>1, <1>2, FrameIs
  <2> HIDE DEF frame
  <2>5. /\ stack \in Seq(RmFrames) /\ stack # <<>> /\ Len(stack) = 1 /\ stack[1] = frame
    BY <2>4
  <2>6. Record(p)'
    BY <1>2, <2>1 DEF Record
  <2>7. Len(dir) \in Nat
    BY <1>2, PathLength
  <2> HIDE DEF stack
  <2>8. Descending(p)'
    <3>1. proc'[p].stack = stack /\ proc'[p].arg = dir
      BY <2>1
    <3>2. \A i \in 1..1 : i = 1 /\ Len(dir) = Len(dir) + i - 1
      BY <2>7
    <3>3. \A i \in 1..1 :
            /\ Within(stack[i].dir, dir) /\ Len(stack[i].dir) = Len(dir) + i - 1
            /\ \A e \in stack[i].todo \cup stack[i].seen : e # <<>> /\ Parent(e) = stack[i].dir
      BY <2>4, <2>5, <3>2 DEF Within
    <3>4. DescendingParts(stack, 1, dir)
      BY <2>4, <2>5, <3>3 DEF DescendingParts
    <3>5. stack[1].entry = <<>>
      BY <2>4, <2>5
    <3> QED
      BY <3>1, <3>4, <3>5, DescendingNow
  <2>9. DescendsInPeace(p)'
    <3>1. proc'[p].stack = stack
      BY <2>1
    <3>2. Under(nodes', dir) = Under(nodes, dir) /\ dir \in DOMAIN nodes'
      BY <1>3, <2>2 DEF Calm, Under, exists
    <3>3. Under(nodes', stack[1].dir)
            = (stack[1].todo \ stack[1].seen) \cup (IF stack[1].entry # <<>> THEN {stack[1].entry} ELSE {})
      BY <2>4, <2>5, <3>2
    <3>4. \A i \in 1..1 : stack[i].dir \in DOMAIN nodes' /\ nodes'[stack[i].dir].ok
            /\ (i > 1 => nodes'[stack[i].dir].kind = "dir")
      BY <2>2, <2>4, <2>5, <3>2
    <3>5. PeaceParts(stack, 1, nodes') /\ Len(stack) = 1
      BY <2>4, <2>5, <3>3, <3>4 DEF PeaceParts
    <3> QED
      BY <3>1, <3>5, PeaceNow
  <2>10. CallInv(p)'
    BY <2>1, <2>8, <2>9 DEF CallInv, Working
  <2> QED
    BY <2>1, <2>2, <2>3, <2>6, <2>10, ActorKeeps
<1>4. CASE ~exists(dir)
  <2>1. /\ proc'[p] = [op |-> "rm_r", arg |-> dir, stack |-> <<>>,
                       result |-> "ENOENT", quiet |-> TRUE, was |-> "nothing", left |-> "nothing"]
        /\ (\A q \in Procs \ {p} : proc'[q] = proc[q])
        /\ proc' = [q \in Procs |-> proc'[q]] /\ nodes' = nodes /\ auto' = auto
    BY <1>1, <1>4 DEF RmRCall, Resting
  <2>2. Rooted' /\ Outside' /\ Silent(p)
    BY <1>1, <2>1, Untouched DEF Silent
  <2>3. Record(p)'
    BY <1>2, <2>1 DEF Record
  <2>4. \A path \in DOMAIN nodes : path # <<>> => Parent(path) # dir
    BY <1>1, <1>4 DEF Rooted, TreeOK, exists
  <2>5. Answers(p)'
    BY <1>4, <2>1, <2>4 DEF Answers, exists
  <2>6. CallInv(p)'
    BY <2>1, <2>5 DEF CallInv, Working
  <2> QED
    BY <2>1, <2>2, <2>3, <2>6, ActorKeeps
<1> QED
  BY <1>3, <1>4

(* The stack of rm_r() with another top in the same directory.               *)
LEMMA TopChanges ==
  ASSUME NEW p \in Procs, Descending(p), NEW frame \in RmFrames, frame.dir = Top(p).dir,
         \A e \in frame.todo \cup frame.seen : e # <<>> /\ Parent(e) = Top(p).dir
  PROVE  LET stack == SetTop(p, frame)
         IN /\ stack \in Seq(RmFrames) /\ stack # <<>> /\ Len(stack) = Depth(p)
            /\ stack[Depth(p)] = frame
            /\ \A i \in 1..(Depth(p) - 1) : stack[i] = At(p, i)
            /\ \A i \in 1..Depth(p) : stack[i].dir = At(p, i).dir
            /\ (frame.entry # <<>> => frame.entry \in frame.seen)
                 => DescendingParts(stack, Depth(p), proc[p].arg)
<1> DEFINE stack == SetTop(p, frame)
<1>1. /\ stack \in Seq(RmFrames) /\ stack # <<>> /\ Len(stack) = Depth(p)
      /\ stack[Depth(p)] = frame
      /\ \A i \in 1..(Depth(p) - 1) : stack[i] = At(p, i)
  BY SetTopOf DEF Descending
<1> HIDE DEF stack
<1>2. /\ Depth(p) \in Nat \ {0} /\ Depth(p) \in 1..Depth(p) /\ Top(p) = At(p, Depth(p))
      /\ \A i \in 1..Depth(p) :
           /\ Within(At(p, i).dir, proc[p].arg) /\ Len(At(p, i).dir) = Len(proc[p].arg) + i - 1
           /\ \A e \in At(p, i).todo \cup At(p, i).seen : e # <<>> /\ Parent(e) = At(p, i).dir
      /\ \A i \in 1..(Depth(p) - 1) : At(p, i).entry = <<>> /\ At(p, i + 1).dir \in At(p, i).seen
      /\ At(p, 1).dir = proc[p].arg
  BY Descender DEF Descending
<1>3. ASSUME NEW i \in 1..Depth(p)
      PROVE  /\ stack[i].dir = At(p, i).dir
             /\ Within(stack[i].dir, proc[p].arg)
             /\ Len(stack[i].dir) = Len(proc[p].arg) + i - 1
             /\ \A e \in stack[i].todo \cup stack[i].seen : e # <<>> /\ Parent(e) = stack[i].dir
  <2>1. CASE i = Depth(p)
    BY <1>1, <1>2, <2>1
  <2>2. CASE i # Depth(p)
    <3>1. i \in 1..(Depth(p) - 1)
      BY <1>2, <2>2
    <3> QED
      BY <1>1, <1>2, <3>1
  <2> QED
    BY <2>1, <2>2
<1>4. ASSUME NEW i \in 1..(Depth(p) - 1)
      PROVE  stack[i].entry = <<>> /\ stack[i + 1].dir \in stack[i].seen
  <2>1. i + 1 \in 1..Depth(p)
    BY <1>2
  <2> QED
    BY <1>1, <1>2, <1>3, <2>1
<1>5. 1 \in 1..Depth(p)
  BY <1>2
<1>6. stack[1].dir = proc[p].arg
  BY <1>2, <1>3, <1>5
<1>7. (frame.entry # <<>> => frame.entry \in frame.seen)
        => DescendingParts(stack, Depth(p), proc[p].arg)
  BY <1>1, <1>2, <1>3, <1>4, <1>6 DEF DescendingParts
<1> QED
  BY <1>1, <1>3, <1>7 DEF stack

(* A throw of rm_r() that was disturbed says nothing.                        *)
LEMMA DisturbedThrow ==
  ASSUME FilesInv, NEW p \in Procs, proc[p].op = "rm_r", ~proc[p].quiet,
         NEW errno, errno \notin {"none", "ok"}, Throw(p, errno), initial' = initial
  PROVE  FilesInv'
BY ThrowKeeps

LEMMA RmREntryKeeps ==
  ASSUME FilesInv, NEW p \in Procs, RmREntry(p), initial' = initial
  PROVE  FilesInv'
<1>1. /\ Working(p, "rm_r") /\ Descending(p) /\ (proc[p].quiet => DescendsInPeace(p))
      /\ Top(p).entry = <<>> /\ proc[p].op = "rm_r"
  BY DEF RmREntry, FilesInv, CallInv, Working
<1>2. proc = [q \in Procs |-> proc[q]] /\ Record(p) /\ Rooted /\ Outside
  BY DEF FilesInv, Records
<1>3. /\ Depth(p) \in Nat \ {0} /\ Depth(p) \in 1..Depth(p)
      /\ Top(p) = At(p, Depth(p)) /\ Top(p) \in RmFrames /\ Top(p).dir \in Path
      /\ \A e \in Top(p).todo \cup Top(p).seen : e # <<>> /\ Parent(e) = Top(p).dir
      /\ \A i \in 1..Depth(p) : At(p, i) \in RmFrames
  BY <1>1, Descender
<1>4. PICK entry \in (Top(p).todo \cup Children(Top(p).dir)) \ Top(p).seen :
        IF ~exists(entry) THEN Throw(p, "ENOENT")
        ELSE /\ proc' = [proc EXCEPT ![p].stack =
                           SetTop(p, [Top(p) EXCEPT !.entry = entry, !.seen = @ \cup {entry},
                                                    !.isdir = is_directory(entry)])]
             /\ UNCHANGED <<nodes, auto, strays>>
  BY DEF RmREntry
<1>5. CASE ~exists(entry)
  <2>1. ~proc[p].quiet
    <3>1. SUFFICES ASSUME proc[p].quiet PROVE FALSE
      OBVIOUS
    <3>2. Under(nodes, Top(p).dir) = Top(p).todo \ Top(p).seen
      BY <1>1, <3>1, PeaceWas
    <3> QED
      BY <1>4, <1>5, <3>2 DEF Children, Under, exists
  <2> QED
    BY <1>1, <1>4, <1>5, <2>1, DisturbedThrow
<1>6. CASE exists(entry)
  <2> DEFINE frame == [Top(p) EXCEPT !.entry = entry, !.seen = @ \cup {entry}, !.isdir = is_directory(entry)]
             stack == SetTop(p, frame)
  <2>1. entry \in Path \ {<<>>} /\ Parent(entry) = Top(p).dir
    <3>1. entry \in Path
      BY <1>2, <1>6 DEF exists, Rooted, TreeOK, Path
    <3>2. entry # <<>> /\ Parent(entry) = Top(p).dir
      BY <1>3, <1>4 DEF Children
    <3> QED
      BY <3>1, <3>2
  <2>2. /\ frame \in RmFrames /\ frame.dir = Top(p).dir /\ frame.todo = Top(p).todo
        /\ frame.seen = Top(p).seen \cup {entry} /\ frame.entry = entry
        /\ frame.isdir = is_directory(entry)
    <3>1. is_directory(entry) \in BOOLEAN
      BY DEF is_directory
    <3> QED
      BY <1>3, <2>1, <3>1 DEF RmFrames
  <2>3. proc' = [proc EXCEPT ![p].stack = stack] /\ nodes' = nodes /\ auto' = auto
    BY <1>4, <1>6
  <2> HIDE DEF frame
  <2>4. /\ stack \in Seq(RmFrames) /\ stack # <<>> /\ Len(stack) = Depth(p)
        /\ stack[Depth(p)] = frame
        /\ \A i \in 1..(Depth(p) - 1) : stack[i] = At(p, i)
        /\ \A i \in 1..Depth(p) : stack[i].dir = At(p, i).dir
        /\ DescendingParts(stack, Depth(p), proc[p].arg)
    <3>1. \A e \in frame.todo \cup frame.seen : e # <<>> /\ Parent(e) = Top(p).dir
      BY <1>3, <2>1, <2>2
    <3> HIDE DEF SetTop
    <3> QED
      BY <1>1, <2>2, <3>1, TopChanges
  <2> HIDE DEF stack
  <2>5. /\ proc' = [q \in Procs |-> proc'[q]] /\ (\A q \in Procs \ {p} : proc'[q] = proc[q])
        /\ proc'[p] = [op |-> proc[p].op, arg |-> proc[p].arg, stack |-> stack,
                       result |-> proc[p].result, quiet |-> proc[p].quiet, was |-> proc[p].was, left |-> proc[p].left]
    BY <1>2, <2>3 DEF Record
  <2>6. Rooted' /\ Outside' /\ Silent(p)
    BY <1>2, <2>3, <2>5, Untouched DEF Silent
  <2>7. Record(p)'
    BY <1>1, <1>2, <2>5 DEF Record, Working
  <2>8. Descending(p)'
    <3>1. proc'[p].stack = stack /\ proc'[p].arg = proc[p].arg
      BY <2>5
    <3>2. stack[Depth(p)].isdir => nodes'[stack[Depth(p)].entry].kind # "link"
      BY <2>2, <2>3, <2>4 DEF is_directory
    <3> QED
      BY <2>4, <3>1, <3>2, DescendingNow
  <2>9. ASSUME proc[p].quiet PROVE DescendsInPeace(p)'
    <3>1. /\ \A i \in 1..Depth(p) :
               /\ exists(At(p, i).dir) /\ nodes[At(p, i).dir].ok
               /\ i > 1 => nodes[At(p, i).dir].kind = "dir"
          /\ \A i \in 1..(Depth(p) - 1) :
               Under(nodes, At(p, i).dir) = (At(p, i).todo \ At(p, i).seen) \cup {At(p, i + 1).dir}
          /\ Under(nodes, Top(p).dir) = Top(p).todo \ Top(p).seen
      BY <1>1, <2>9, PeaceWas
    <3>2. \A i \in 1..(Depth(p) - 1) : i \in 1..Depth(p) /\ i + 1 \in 1..Depth(p)
      BY <1>3
    <3>3. entry \in Under(nodes, Top(p).dir)
      BY <1>6, <2>1 DEF Under, exists
    <3>4. stack[Depth(p)].dir = Top(p).dir
      BY <2>2, <2>4
    <3>5. Under(nodes', stack[Depth(p)].dir)
            = (stack[Depth(p)].todo \ stack[Depth(p)].seen)
                \cup (IF stack[Depth(p)].entry # <<>> THEN {stack[Depth(p)].entry} ELSE {})
      BY <2>1, <2>2, <2>3, <2>4, <3>1, <3>3, <3>4
    <3>6. ASSUME NEW i \in 1..(Depth(p) - 1)
          PROVE  Under(nodes', stack[i].dir) = (stack[i].todo \ stack[i].seen) \cup {stack[i + 1].dir}
      <4>1. stack[i] = At(p, i) /\ stack[i + 1].dir = At(p, i + 1).dir
        BY <2>4, <3>2
      <4> QED
        BY <2>3, <3>1, <4>1
    <3>7. \A i \in 1..Depth(p) :
            /\ stack[i].dir \in DOMAIN nodes' /\ nodes'[stack[i].dir].ok
            /\ i > 1 => nodes'[stack[i].dir].kind = "dir"
      BY <2>3, <2>4, <3>1 DEF exists
    <3>8. stack[Depth(p)].entry # <<>> =>
            stack[Depth(p)].isdir = (nodes'[stack[Depth(p)].entry].kind = "dir")
      BY <2>2, <2>3, <2>4 DEF is_directory
    <3>9. proc'[p].stack = stack
      BY <2>5
    <3>10. Len(stack) = Depth(p) /\ Depth(p) \in Nat
      BY <1>3, <2>4
    <3>11. PeaceParts(stack, Depth(p), nodes')
      BY <3>5, <3>6, <3>7, <3>8 DEF PeaceParts
    <3> QED
      BY <3>9, <3>10, <3>11, PeaceNow
  <2>10. CallInv(p)'
    BY <1>1, <2>5, <2>8, <2>9 DEF CallInv, Working
  <2> QED
    BY <2>5, <2>6, <2>7, <2>10, ActorKeeps
<1> QED
  BY <1>5, <1>6

LEMMA RmRDescendKeeps ==
  ASSUME FilesInv, NEW p \in Procs, RmRDescend(p), initial' = initial
  PROVE  FilesInv'
<1> DEFINE entry == Top(p).entry
           frame == [Top(p) EXCEPT !.entry = <<>>]
           under == SetTop(p, frame)
<1>1. /\ Working(p, "rm_r") /\ Descending(p) /\ (proc[p].quiet => DescendsInPeace(p))
      /\ entry # <<>> /\ Top(p).isdir /\ proc[p].op = "rm_r"
  BY DEF RmRDescend, FilesInv, CallInv, Working
<1>2. proc = [q \in Procs |-> proc[q]] /\ Record(p) /\ Rooted /\ Outside
  BY DEF FilesInv, Records
<1>3. /\ Depth(p) \in Nat \ {0} /\ Depth(p) \in 1..Depth(p)
      /\ Top(p) = At(p, Depth(p)) /\ Top(p) \in RmFrames /\ Top(p).dir \in Path
      /\ \A e \in Top(p).todo \cup Top(p).seen : e # <<>> /\ Parent(e) = Top(p).dir
      /\ entry \in Path /\ Parent(entry) = Top(p).dir
      /\ Within(Top(p).dir, proc[p].arg) /\ Len(Top(p).dir) = Len(proc[p].arg) + Depth(p) - 1
      /\ proc[p].arg \in Path /\ Len(proc[p].arg) \in Nat
  <2>1. /\ Depth(p) \in Nat \ {0} /\ Depth(p) \in 1..Depth(p)
        /\ Top(p) = At(p, Depth(p)) /\ Top(p) \in RmFrames
        /\ proc[p].arg \in Path /\ Len(proc[p].arg) \in Nat
        /\ entry \in Path /\ Parent(entry) = Top(p).dir
    BY <1>1, Descender
  <2>2. LET top == At(p, Depth(p))
        IN /\ top.dir \in Path /\ Within(top.dir, proc[p].arg)
           /\ Len(top.dir) = Len(proc[p].arg) + Depth(p) - 1
           /\ \A e \in top.todo \cup top.seen : e # <<>> /\ Parent(e) = top.dir
    <3>1. \A i \in 1..Depth(p) :
            /\ At(p, i).dir \in Path /\ Within(At(p, i).dir, proc[p].arg)
            /\ Len(At(p, i).dir) = Len(proc[p].arg) + i - 1
            /\ \A e \in At(p, i).todo \cup At(p, i).seen : e # <<>> /\ Parent(e) = At(p, i).dir
      BY <1>1, Descender
    <3> QED
      BY <2>1, <3>1
  <2> HIDE DEF entry
  <2> QED
    BY <2>1, <2>2
<1>4. exists(entry) => Opened(entry) = entry
  BY <1>1 DEF Descending, Opened
<1>5. Enter(p, under, entry)
  BY DEF RmRDescend
<1> HIDE DEF entry, frame, under
<1>6. CASE ~exists(entry)
  <2>1. ~proc[p].quiet
    BY <1>1, <1>6, PeaceWas DEF entry
  <2>2. Throw(p, "ENOENT")
    BY <1>5, <1>6 DEF Enter
  <2> QED
    BY <1>1, <2>1, <2>2, DisturbedThrow
<1>7. CASE exists(entry)
  <2> DEFINE new == Frame(entry, Children(entry))
             stack == Append(under, new)
  <2>1. /\ nodes' = [nodes EXCEPT ![entry].ok = TRUE] /\ auto' = auto
        /\ proc' = [proc EXCEPT ![p].stack = stack]
    BY <1>4, <1>5, <1>7 DEF Enter
  <2>2. Rooted' /\ Outside' /\ Calm /\ NoNewLink /\ nodes'[entry].ok
    <3>1. Below(entry, proc[p].arg)
      BY <1>1, <1>3, BelowParent
    <3>2. \E dir \in Removed : Within(entry, dir)
      BY <1>1, <1>2, <3>1 DEF Record, Within
    <3> QED
      BY <1>2, <1>7, <2>1, <3>2, Granted DEF exists
  <2>3. /\ frame \in RmFrames /\ frame.dir = Top(p).dir /\ frame.todo = Top(p).todo
        /\ frame.seen = Top(p).seen /\ frame.entry = <<>>
    <3>1. <<>> \in Path
      BY EmptySeq DEF Path
    <3> QED
      BY <1>3, <3>1 DEF RmFrames, frame
  <2>4. /\ under \in Seq(RmFrames) /\ under # <<>> /\ Len(under) = Depth(p)
        /\ under[Depth(p)] = frame
        /\ \A i \in 1..(Depth(p) - 1) : under[i] = At(p, i)
        /\ \A i \in 1..Depth(p) : under[i].dir = At(p, i).dir
        /\ DescendingParts(under, Depth(p), proc[p].arg)
    <3>1. \A e \in frame.todo \cup frame.seen : e # <<>> /\ Parent(e) = Top(p).dir
      BY <1>3, <2>3
    <3> QED
      BY <1>1, <2>3, <3>1, TopChanges DEF under
  <2>5. /\ new \in RmFrames /\ new.dir = entry /\ new.entry = <<>>
        /\ new.todo = Under(nodes, entry) /\ new.seen = {} /\ ~new.isdir
        /\ \A e \in Under(nodes, entry) : e # <<>> /\ Parent(e) = entry
    BY <1>2, <1>3, FrameIs
  <2> HIDE DEF new
  <2>6. /\ stack \in Seq(RmFrames) /\ stack # <<>> /\ Len(stack) = Depth(p) + 1
        /\ stack[Depth(p) + 1] = new /\ \A i \in 1..Depth(p) : stack[i] = under[i]
    BY <2>4, <2>5, Pushed
  <2> HIDE DEF stack
  <2>7. /\ proc' = [q \in Procs |-> proc'[q]] /\ (\A q \in Procs \ {p} : proc'[q] = proc[q])
        /\ proc'[p] = [op |-> proc[p].op, arg |-> proc[p].arg, stack |-> stack,
                       result |-> proc[p].result, quiet |-> proc[p].quiet, was |-> proc[p].was, left |-> proc[p].left]
    BY <1>2, <2>1 DEF Record
  <2>8. Silent(p)
    BY <2>1, <2>2, <2>7 DEF Silent
  <2>9. Record(p)'
    BY <1>1, <1>2, <2>7 DEF Record, Working
  <2>10. entry \in Top(p).seen
    BY <1>1 DEF Descending, entry
  <2>11. DescendingParts(stack, Depth(p) + 1, proc[p].arg)
    <3>1. Len(entry) = Len(proc[p].arg) + (Depth(p) + 1) - 1
      <4>1. entry \in Path /\ entry # <<>>
        BY <1>1, <1>3 DEF entry
      <4>2. Len(Parent(entry)) = Len(entry) - 1 /\ Len(entry) \in Nat
        BY <4>1, ParentOf, PathLength
      <4>3. Len(Parent(entry)) = Len(proc[p].arg) + Depth(p) - 1
        BY <1>3
      <4>4. Depth(p) \in Nat /\ Len(proc[p].arg) \in Nat
        BY <1>3
      <4> QED
        BY <4>2, <4>3, <4>4
    <3>2. Within(entry, proc[p].arg)
      BY <1>1, <1>3, BelowParent DEF Within, entry
    <3>3. \A i \in 1..Depth(p) :
            /\ Within(under[i].dir, proc[p].arg) /\ Len(under[i].dir) = Len(proc[p].arg) + i - 1
            /\ \A e \in under[i].todo \cup under[i].seen : e # <<>> /\ Parent(e) = under[i].dir
      BY <2>4 DEF DescendingParts
    <3>4. ASSUME NEW i \in 1..(Depth(p) + 1)
          PROVE  /\ Within(stack[i].dir, proc[p].arg) /\ Len(stack[i].dir) = Len(proc[p].arg) + i - 1
                 /\ \A e \in stack[i].todo \cup stack[i].seen : e # <<>> /\ Parent(e) = stack[i].dir
      <4>1. CASE i = Depth(p) + 1
        BY <2>5, <2>6, <3>1, <3>2, <4>1
      <4>2. CASE i # Depth(p) + 1
        <5>1. i \in 1..Depth(p)
          BY <1>3, <4>2
        <5> QED
          BY <2>6, <3>3, <5>1
      <4> QED
        BY <4>1, <4>2
    <3>5. ASSUME NEW i \in 1..Depth(p)
          PROVE  stack[i].entry = <<>> /\ stack[i + 1].dir \in stack[i].seen
      <4>1. CASE i = Depth(p)
        BY <2>3, <2>4, <2>5, <2>6, <2>10, <4>1
      <4>2. CASE i # Depth(p)
        <5>1. i \in 1..(Depth(p) - 1) /\ i + 1 \in 1..Depth(p)
          BY <1>3, <4>2
        <5>2. under[i].entry = <<>> /\ under[i + 1].dir \in under[i].seen
          BY <2>4, <5>1 DEF DescendingParts
        <5> QED
          BY <2>6, <5>1, <5>2
      <4> QED
        BY <4>1, <4>2
    <3>6. stack[1].dir = proc[p].arg
      <4>1. 1 \in 1..Depth(p)
        BY <1>3
      <4> QED
        BY <2>4, <2>6, <4>1 DEF DescendingParts
    <3>7. Depth(p) + 1 \in Nat /\ (Depth(p) + 1) - 1 = Depth(p)
      BY <1>3
    <3>8. stack[Depth(p) + 1].entry = <<>>
      BY <2>5, <2>6
    <3> QED
      BY <2>6, <3>4, <3>5, <3>6, <3>7, <3>8 DEF DescendingParts
  <2>12. Descending(p)'
    <3>1. proc'[p].stack = stack /\ proc'[p].arg = proc[p].arg /\ stack[Depth(p) + 1].entry = <<>>
      BY <2>5, <2>6, <2>7
    <3> QED
      BY <2>11, <3>1, DescendingNow
  <2>13. ASSUME proc[p].quiet PROVE DescendsInPeace(p)'
    <3>1. /\ \A i \in 1..Depth(p) :
               /\ exists(At(p, i).dir) /\ nodes[At(p, i).dir].ok
               /\ i > 1 => nodes[At(p, i).dir].kind = "dir"
          /\ \A i \in 1..(Depth(p) - 1) :
               Under(nodes, At(p, i).dir) = (At(p, i).todo \ At(p, i).seen) \cup {At(p, i + 1).dir}
          /\ Under(nodes, Top(p).dir) = (Top(p).todo \ Top(p).seen) \cup {entry}
          /\ nodes[entry].kind = "dir"
      BY <1>1, <2>13, PeaceWas DEF entry
    <3>2. \A dir : Under(nodes', dir) = Under(nodes, dir)
      BY <2>2 DEF Calm, Under
    <3>3. ASSUME NEW i \in 1..(Depth(p) + 1)
          PROVE  /\ stack[i].dir \in DOMAIN nodes' /\ nodes'[stack[i].dir].ok
                 /\ i > 1 => nodes'[stack[i].dir].kind = "dir"
      <4>1. CASE i = Depth(p) + 1
        BY <1>7, <2>2, <2>5, <2>6, <3>1, <4>1 DEF Calm, exists
      <4>2. CASE i # Depth(p) + 1
        <5>1. i \in 1..Depth(p)
          BY <1>3, <4>2
        <5>2. stack[i].dir = At(p, i).dir
          BY <2>4, <2>6, <5>1
        <5> QED
          BY <2>2, <3>1, <5>1, <5>2 DEF Calm, exists
      <4> QED
        BY <4>1, <4>2
    <3>4. ASSUME NEW i \in 1..Depth(p)
          PROVE  Under(nodes', stack[i].dir) = (stack[i].todo \ stack[i].seen) \cup {stack[i + 1].dir}
      <4>1. CASE i = Depth(p)
        BY <1>3, <2>3, <2>4, <2>5, <2>6, <3>1, <3>2, <4>1
      <4>2. CASE i # Depth(p)
        <5>1. i \in 1..(Depth(p) - 1) /\ i + 1 \in 1..Depth(p)
          BY <1>3, <4>2
        <5>2. stack[i] = At(p, i) /\ stack[i + 1].dir = At(p, i + 1).dir
          BY <2>4, <2>6, <5>1
        <5> QED
          BY <3>1, <3>2, <5>1, <5>2
      <4> QED
        BY <4>1, <4>2
    <3>5. Under(nodes', stack[Depth(p) + 1].dir)
            = stack[Depth(p) + 1].todo \ stack[Depth(p) + 1].seen
          /\ stack[Depth(p) + 1].entry = <<>>
      BY <2>5, <2>6, <3>2
    <3>6. Depth(p) + 1 \in Nat /\ (Depth(p) + 1) - 1 = Depth(p)
      BY <1>3
    <3>7. PeaceParts(stack, Depth(p) + 1, nodes')
      BY <3>3, <3>4, <3>5, <3>6 DEF PeaceParts
    <3>8. proc'[p].stack = stack
      BY <2>7
    <3> QED
      BY <2>6, <3>6, <3>7, <3>8, PeaceNow
  <2>14. CallInv(p)'
    BY <1>1, <2>7, <2>12, <2>13 DEF CallInv, Working
  <2> QED
    BY <2>2, <2>7, <2>8, <2>9, <2>14, ActorKeeps
<1> QED
  BY <1>6, <1>7

LEMMA RmRUnlinkKeeps ==
  ASSUME FilesInv, NEW p \in Procs, RmRUnlink(p), initial' = initial
  PROVE  FilesInv'
<1> DEFINE entry == Top(p).entry
           frame == [Top(p) EXCEPT !.entry = <<>>]
           stack == SetTop(p, frame)
<1>1. /\ Working(p, "rm_r") /\ Descending(p) /\ (proc[p].quiet => DescendsInPeace(p))
      /\ entry # <<>> /\ ~Top(p).isdir /\ proc[p].op = "rm_r"
  BY DEF RmRUnlink, FilesInv, CallInv, Working
<1>2. proc = [q \in Procs |-> proc[q]] /\ Record(p) /\ Rooted /\ Outside
  BY DEF FilesInv, Records
<1>3. /\ Depth(p) \in Nat \ {0} /\ Depth(p) \in 1..Depth(p)
      /\ Top(p) = At(p, Depth(p)) /\ Top(p) \in RmFrames
      /\ entry \in Path /\ Parent(entry) = Top(p).dir
      /\ proc[p].arg \in Path /\ Len(proc[p].arg) \in Nat
      /\ \A i \in 1..(Depth(p) - 1) : Parent(At(p, i + 1).dir) = At(p, i).dir
      /\ \A i, j \in 1..Depth(p) : i # j => At(p, i).dir # At(p, j).dir
  BY <1>1, Descender
<1>4. \A i \in 1..Depth(p) :
        /\ At(p, i).dir \in Path /\ Within(At(p, i).dir, proc[p].arg)
        /\ Len(At(p, i).dir) = Len(proc[p].arg) + i - 1
        /\ \A e \in At(p, i).todo \cup At(p, i).seen : e # <<>> /\ Parent(e) = At(p, i).dir
  BY <1>1, Descender
<1>5. entry \in Top(p).seen
  BY <1>1 DEF Descending
<1>6. IF unlink(entry) # "ok" THEN Throw(p, unlink(entry))
      ELSE /\ nodes' = Without(entry)
           /\ proc' = Disturb([proc EXCEPT ![p].stack = stack], {p})
           /\ DisturbAuto /\ UNCHANGED strays
  BY DEF RmRUnlink
<1> HIDE DEF entry, frame, stack
<1>7. CASE unlink(entry) # "ok"
  <2>1. ~proc[p].quiet
    <3>1. SUFFICES ASSUME proc[p].quiet PROVE FALSE
      OBVIOUS
    <3>2. exists(entry) /\ nodes[entry].kind # "dir" /\ nodes[Top(p).dir].ok
      BY <1>1, <1>3, <3>1, PeaceWas DEF entry
    <3> QED
      BY <1>3, <1>7, <3>2 DEF unlink, Writable
  <2>2. PICK errno : errno = unlink(entry)
    OBVIOUS
  <2>3. errno \notin {"none", "ok"}
    BY <1>7, <2>2 DEF unlink
  <2>4. Throw(p, errno)
    BY <1>6, <1>7, <2>2
  <2> QED
    BY <1>1, <2>1, <2>3, <2>4, DisturbedThrow
<1>8. CASE unlink(entry) = "ok"
  <2>1. nodes' = Without(entry) /\ auto' = [auto EXCEPT !.quiet = FALSE]
        /\ proc' = Disturb([proc EXCEPT ![p].stack = stack], {p})
    BY <1>6, <1>8 DEF DisturbAuto
  <2>2. exists(entry) /\ nodes[entry].kind # "dir"
    BY <1>8 DEF unlink
  <2>3. Below(entry, proc[p].arg)
    BY <1>1, <1>3, <1>4, BelowParent DEF entry
  <2>4. /\ Rooted' /\ Outside' /\ NoNewLink /\ DOMAIN nodes' = DOMAIN nodes \ {entry}
        /\ \A other \in DOMAIN nodes' : nodes'[other] = nodes[other]
    <3>1. Children(entry) = {}
      BY <1>2, <2>2 DEF Children, Rooted, TreeOK
    <3>2. \E dir \in Removed : Within(entry, dir)
      BY <1>1, <1>2, <2>3 DEF Record, Within
    <3>3. entry # <<>> /\ entry \in DOMAIN nodes
      BY <1>1, <2>2 DEF entry, exists
    <3> QED
      BY <1>2, <2>1, <3>1, <3>2, <3>3, Deleted
  <2>5. /\ frame \in RmFrames /\ frame.dir = Top(p).dir /\ frame.todo = Top(p).todo
        /\ frame.seen = Top(p).seen /\ frame.entry = <<>>
    <3>1. <<>> \in Path
      BY EmptySeq DEF Path
    <3> QED
      BY <1>3, <3>1 DEF RmFrames, frame
  <2>6. /\ stack \in Seq(RmFrames) /\ stack # <<>> /\ Len(stack) = Depth(p)
        /\ stack[Depth(p)] = frame
        /\ \A i \in 1..(Depth(p) - 1) : stack[i] = At(p, i)
        /\ \A i \in 1..Depth(p) : stack[i].dir = At(p, i).dir
        /\ DescendingParts(stack, Depth(p), proc[p].arg)
    <3>1. \A e \in frame.todo \cup frame.seen : e # <<>> /\ Parent(e) = Top(p).dir
      BY <1>3, <1>4, <2>5
    <3> QED
      BY <1>1, <2>5, <3>1, TopChanges DEF stack
  <2>7. /\ proc' = [q \in Procs |-> proc'[q]]
        /\ (\A q \in Procs \ {p} : proc'[q] = [proc[q] EXCEPT !.quiet = FALSE])
        /\ proc'[p] = [op |-> proc[p].op, arg |-> proc[p].arg, stack |-> stack,
                       result |-> proc[p].result, quiet |-> proc[p].quiet, was |-> proc[p].was, left |-> proc[p].left]
    BY <1>2, <2>1 DEF Record, Disturb
  <2>8. Loud(p)
    BY <2>1, <2>4, <2>7 DEF Loud
  <2>9. Record(p)'
    BY <1>1, <1>2, <2>7 DEF Record, Working
  <2>10. Descending(p)'
    <3>1. proc'[p].stack = stack /\ proc'[p].arg = proc[p].arg /\ stack[Depth(p)].entry = <<>>
      BY <2>5, <2>6, <2>7
    <3> QED
      BY <2>6, <3>1, DescendingNow
  <2>11. ASSUME proc[p].quiet PROVE DescendsInPeace(p)'
    <3>1. /\ \A i \in 1..Depth(p) :
               /\ exists(At(p, i).dir) /\ nodes[At(p, i).dir].ok
               /\ i > 1 => nodes[At(p, i).dir].kind = "dir"
          /\ \A i \in 1..(Depth(p) - 1) :
               Under(nodes, At(p, i).dir) = (At(p, i).todo \ At(p, i).seen) \cup {At(p, i + 1).dir}
          /\ Under(nodes, Top(p).dir) = (Top(p).todo \ Top(p).seen) \cup {entry}
      BY <1>1, <2>11, PeaceWas DEF entry
    <3>2. \A dir : Under(nodes', dir) = Under(nodes, dir) \ {entry}
      BY <2>4 DEF Under
    <3>3. \A i \in 1..Depth(p) : At(p, i).dir # entry
      <4>1. Len(entry) = Len(Top(p).dir) + 1 /\ Len(entry) \in Nat
        BY <1>1, <1>3, ParentOf, PathLength DEF entry
      <4>2. Len(entry) = Len(proc[p].arg) + Depth(p)
        BY <1>3, <1>4, <4>1
      <4>3. ASSUME NEW i \in 1..Depth(p) PROVE Len(At(p, i).dir) # Len(proc[p].arg) + Depth(p)
        <5>1. Len(At(p, i).dir) = Len(proc[p].arg) + i - 1
          BY <1>4
        <5>2. Len(proc[p].arg) \in Nat /\ Depth(p) \in Nat
          BY <1>3
        <5> QED
          BY <5>1, <5>2, Higher, Zenon
      <4> QED
        BY <4>2, <4>3
    <3>4. ASSUME NEW i \in 1..Depth(p)
          PROVE  /\ stack[i].dir \in DOMAIN nodes' /\ nodes'[stack[i].dir].ok
                 /\ i > 1 => nodes'[stack[i].dir].kind = "dir"
      BY <2>4, <2>6, <3>1, <3>3 DEF exists
    <3>5. ASSUME NEW i \in 1..(Depth(p) - 1)
          PROVE  Under(nodes', stack[i].dir) = (stack[i].todo \ stack[i].seen) \cup {stack[i + 1].dir}
      <4>1. i \in 1..Depth(p) /\ i + 1 \in 1..Depth(p) /\ i # Depth(p)
        BY <1>3
      <4>2. stack[i] = At(p, i) /\ stack[i + 1].dir = At(p, i + 1).dir
        BY <2>6, <4>1
      <4>3. entry \notin Under(nodes, At(p, i).dir)
        BY <1>3, <4>1 DEF Under
      <4> QED
        BY <3>1, <3>2, <4>2, <4>3
    <3>6. Under(nodes', stack[Depth(p)].dir) = stack[Depth(p)].todo \ stack[Depth(p)].seen
          /\ stack[Depth(p)].entry = <<>>
      BY <1>5, <2>5, <2>6, <3>1, <3>2
    <3>7. PeaceParts(stack, Depth(p), nodes')
      BY <3>4, <3>5, <3>6 DEF PeaceParts
    <3>8. proc'[p].stack = stack /\ Depth(p) \in Nat
      BY <1>3, <2>7
    <3> QED
      BY <2>6, <3>7, <3>8, PeaceNow
  <2>12. CallInv(p)'
    BY <1>1, <2>7, <2>10, <2>11 DEF CallInv, Working
  <2> QED
    BY <2>4, <2>7, <2>8, <2>9, <2>12, ActorKeeps
<1> QED
  BY <1>7, <1>8

LEMMA RmREndKeeps ==
  ASSUME FilesInv, NEW p \in Procs, RmREnd(p), initial' = initial
  PROVE  FilesInv'
<1> DEFINE dir == Top(p).dir
           stack == Pop(p)
<1>1. /\ Working(p, "rm_r") /\ Descending(p) /\ (proc[p].quiet => DescendsInPeace(p))
      /\ Top(p).entry = <<>> /\ Top(p).todo \subseteq Top(p).seen /\ proc[p].op = "rm_r"
      /\ At(p, 1).dir = proc[p].arg
  BY DEF RmREnd, FilesInv, CallInv, Working, Descending
<1>2. proc = [q \in Procs |-> proc[q]] /\ Record(p) /\ Rooted /\ Outside
  BY DEF FilesInv, Records
<1>3. /\ Depth(p) \in Nat \ {0} /\ Depth(p) \in 1..Depth(p) /\ Top(p) = At(p, Depth(p))
      /\ proc[p].arg \in Path /\ Len(proc[p].arg) \in Nat
      /\ stack = <<>> <=> Depth(p) = 1
      /\ \A i \in 1..(Depth(p) - 1) :
           /\ At(p, i).entry = <<>> /\ At(p, i + 1).dir \in At(p, i).seen
           /\ Parent(At(p, i + 1).dir) = At(p, i).dir
      /\ \A i, j \in 1..Depth(p) : i # j => At(p, i).dir # At(p, j).dir
  BY <1>1, Descender
<1>4. \A i \in 1..Depth(p) :
        /\ At(p, i).dir \in Path /\ Within(At(p, i).dir, proc[p].arg)
        /\ Len(At(p, i).dir) = Len(proc[p].arg) + i - 1
        /\ \A e \in At(p, i).todo \cup At(p, i).seen : e # <<>> /\ Parent(e) = At(p, i).dir
  BY <1>1, Descender
<1>5. dir = At(p, Depth(p)).dir /\ dir \in Path \ {<<>>} /\ Within(dir, proc[p].arg)
  <2>1. Len(proc[p].arg) > 0
    BY <1>1, <1>2, PathLength DEF Record
  <2>2. Len(dir) > 0 /\ dir \in Path /\ Within(dir, proc[p].arg) /\ dir = At(p, Depth(p)).dir
    BY <1>3, <1>4, <2>1
  <2> HIDE DEF dir
  <2> QED
    BY <2>2, PathLength
<1>6. /\ stack \in Seq(RmFrames) /\ Len(stack) = Depth(p) - 1
      /\ \A i \in 1..(Depth(p) - 1) : stack[i] = At(p, i)
  BY <1>1, StackOf DEF Descending
<1>7. IF rmdir(dir) # "ok" THEN Throw(p, rmdir(dir))
      ELSE /\ nodes' = Without(dir)
           /\ proc' = Disturb(Continue(p, stack, nodes'), {p})
           /\ DisturbAuto /\ UNCHANGED strays
  BY DEF RmREnd
<1>8. ASSUME proc[p].quiet
      PROVE  /\ exists(dir) /\ Under(nodes, dir) = {}
             /\ Depth(p) > 1 => nodes[dir].kind = "dir" /\ nodes[Parent(dir)].ok
  <2>1. Under(nodes, dir) = {}
    BY <1>1, <1>8, PeaceWas
  <2>2. exists(dir) /\ (Depth(p) > 1 => nodes[dir].kind = "dir")
    <3>1. exists(At(p, Depth(p)).dir) /\ (Depth(p) > 1 => nodes[At(p, Depth(p)).dir].kind = "dir")
      BY <1>1, <1>3, <1>8, PeaceWas
    <3> HIDE DEF dir
    <3> QED
      BY <1>5, <3>1
  <2>3. ASSUME Depth(p) > 1 PROVE nodes[Parent(dir)].ok
    <3>1. PICK i \in 1..(Depth(p) - 1) : i + 1 = Depth(p)
      BY <1>3, <2>3
    <3>2. i \in 1..Depth(p)
      BY <1>3
    <3>3. Parent(dir) = At(p, i).dir
      BY <1>3, <1>5, <3>1
    <3> QED
      BY <1>1, <1>8, <3>2, <3>3, PeaceWas
  <2> QED
    BY <2>1, <2>2, <2>3
<1> HIDE DEF dir, stack
<1>9. CASE rmdir(dir) # "ok"
  <2>1. PICK errno : errno = rmdir(dir)
    OBVIOUS
  <2>2. errno \notin {"none", "ok"}
    BY <1>9, <2>1 DEF rmdir
  <2>3. Throw(p, errno)
    BY <1>7, <1>9, <2>1
  <2>4. ASSUME proc[p].quiet
        PROVE  /\ errno \in {"ENOTDIR", "EACCES"}
               /\ \A path \in DOMAIN nodes : path # <<>> => Parent(path) # proc[p].arg
    <3>1. Children(dir) = {}
      BY <1>8, <2>4 DEF Children, Under
    <3>2. errno \in {"ENOTDIR", "EACCES"}
      BY <1>8, <1>9, <2>1, <2>4, <3>1 DEF rmdir
    <3>3. ~(Depth(p) > 1)
      BY <1>8, <1>9, <2>4, <3>1 DEF rmdir, Writable
    <3>4. dir = proc[p].arg
      BY <1>1, <1>3, <1>5, <3>3
    <3> QED
      BY <3>1, <3>2, <3>4 DEF Children
  <2> QED
    BY <1>1, <2>2, <2>3, <2>4, ThrowKeeps
<1>10. CASE rmdir(dir) = "ok"
  <2>1. nodes' = Without(dir) /\ auto' = [auto EXCEPT !.quiet = FALSE]
        /\ proc' = Disturb(Continue(p, stack, nodes'), {p})
    BY <1>7, <1>10 DEF DisturbAuto
  <2>2. exists(dir) /\ Children(dir) = {}
    BY <1>10 DEF rmdir
  <2>3. /\ Rooted' /\ Outside' /\ NoNewLink /\ DOMAIN nodes' = DOMAIN nodes \ {dir}
        /\ \A other \in DOMAIN nodes' : nodes'[other] = nodes[other]
    <3>1. \E top \in Removed : Within(dir, top)
      BY <1>1, <1>2, <1>5 DEF Record
    <3>2. dir # <<>> /\ dir \in DOMAIN nodes
      BY <1>5, <2>2 DEF exists
    <3> QED
      BY <1>2, <2>1, <2>2, <3>1, <3>2, Deleted
  <2>4. CASE stack = <<>>
    <3>1. dir = proc[p].arg
      BY <1>1, <1>3, <1>5, <2>4
    <3>2. /\ proc' = [q \in Procs |-> proc'[q]]
          /\ (\A q \in Procs \ {p} : proc'[q] = [proc[q] EXCEPT !.quiet = FALSE])
          /\ proc'[p] = [op |-> proc[p].op, arg |-> proc[p].arg, stack |-> <<>>,
                         result |-> "ok", quiet |-> proc[p].quiet, was |-> proc[p].was, left |-> "nothing"]
      <4>1. Kind(proc[p].arg, nodes') = "nothing"
        BY <2>3, <3>1 DEF Kind
      <4> QED
        BY <1>2, <2>1, <2>4, <4>1 DEF Record, Disturb, Continue
    <3>3. Loud(p)
      BY <2>1, <2>3, <3>2 DEF Loud
    <3>4. Record(p)'
      <4>1. Promised(p)'
        BY <1>1, <3>2 DEF Promised
      <4> QED
        BY <1>1, <1>2, <3>2, <4>1 DEF Record
    <3>5. \A path \in DOMAIN nodes' : path # <<>> => Parent(path) # proc[p].arg
      BY <2>3, <3>1 DEF Rooted, TreeOK
    <3>6. CallInv(p)'
      BY <3>2, <3>5 DEF CallInv, Working, Answers
    <3> QED
      BY <2>3, <3>2, <3>3, <3>4, <3>6, ActorKeeps
  <2>5. CASE stack # <<>>
    <3>1. Depth(p) > 1 /\ Depth(p) - 1 \in 1..(Depth(p) - 1) /\ (Depth(p) - 1) + 1 = Depth(p)
          /\ Depth(p) - 1 \in Nat
      BY <1>3, <2>5
    <3>2. /\ proc' = [q \in Procs |-> proc'[q]]
          /\ (\A q \in Procs \ {p} : proc'[q] = [proc[q] EXCEPT !.quiet = FALSE])
          /\ proc'[p] = [op |-> proc[p].op, arg |-> proc[p].arg, stack |-> stack,
                         result |-> proc[p].result, quiet |-> proc[p].quiet, was |-> proc[p].was, left |-> proc[p].left]
      BY <1>2, <2>1, <2>3, <2>5 DEF Record, Disturb, Continue
    <3>3. Loud(p)
      BY <2>1, <2>3, <3>2 DEF Loud
    <3>4. Record(p)'
      BY <1>1, <1>2, <3>2 DEF Record, Working
    <3>5. \A i \in 1..(Depth(p) - 1) : i \in 1..Depth(p) /\ i # Depth(p)
      BY <1>3
    <3>6. stack[Depth(p) - 1].entry = <<>>
      BY <1>3, <1>6, <3>1
    <3>7. DescendingParts(stack, Depth(p) - 1, proc[p].arg)
      <4>1. stack[1].dir = proc[p].arg
        <5>1. 1 \in 1..(Depth(p) - 1)
          BY <1>3, <3>1
        <5> QED
          BY <1>1, <1>6, <5>1
      <4>2. ASSUME NEW i \in 1..(Depth(p) - 1 - 1)
            PROVE  stack[i].entry = <<>> /\ stack[i + 1].dir \in stack[i].seen
        <5>1. i \in 1..(Depth(p) - 1) /\ i + 1 \in 1..(Depth(p) - 1)
          BY <1>3
        <5> QED
          BY <1>3, <1>6, <5>1
      <4>3. ASSUME NEW i \in 1..(Depth(p) - 1)
            PROVE  /\ Within(stack[i].dir, proc[p].arg)
                   /\ Len(stack[i].dir) = Len(proc[p].arg) + i - 1
                   /\ \A e \in stack[i].todo \cup stack[i].seen : e # <<>> /\ Parent(e) = stack[i].dir
        BY <1>4, <1>6, <3>5
      <4> QED
        BY <1>6, <2>5, <3>1, <3>6, <4>1, <4>2, <4>3 DEF DescendingParts
    <3>8. Descending(p)'
      <4>1. proc'[p].stack = stack /\ proc'[p].arg = proc[p].arg
        BY <3>2
      <4> QED
        BY <3>6, <3>7, <4>1, DescendingNow
    <3>9. ASSUME proc[p].quiet PROVE DescendsInPeace(p)'
      <4>1. /\ \A i \in 1..Depth(p) :
                 /\ exists(At(p, i).dir) /\ nodes[At(p, i).dir].ok
                 /\ i > 1 => nodes[At(p, i).dir].kind = "dir"
            /\ \A i \in 1..(Depth(p) - 1) :
                 Under(nodes, At(p, i).dir) = (At(p, i).todo \ At(p, i).seen) \cup {At(p, i + 1).dir}
        BY <1>1, <3>9, PeaceWas
      <4>2. \A other : Under(nodes', other) = Under(nodes, other) \ {dir}
        BY <2>3 DEF Under
      <4>3. ASSUME NEW i \in 1..(Depth(p) - 1)
            PROVE  /\ stack[i].dir \in DOMAIN nodes' /\ nodes'[stack[i].dir].ok
                   /\ i > 1 => nodes'[stack[i].dir].kind = "dir"
        <5>1. i \in 1..Depth(p) /\ At(p, i).dir # dir
          BY <1>3, <1>5, <3>5
        <5> QED
          BY <1>6, <2>3, <4>1, <5>1 DEF exists
      <4>4. ASSUME NEW i \in 1..(Depth(p) - 1 - 1)
            PROVE  Under(nodes', stack[i].dir) = (stack[i].todo \ stack[i].seen) \cup {stack[i + 1].dir}
        <5>1. i \in 1..(Depth(p) - 1) /\ i + 1 \in 1..(Depth(p) - 1) /\ i # Depth(p) - 1
          BY <1>3
        <5>2. Parent(dir) = At(p, Depth(p) - 1).dir
          BY <1>3, <1>5, <3>1
        <5>3. At(p, i).dir # At(p, Depth(p) - 1).dir
          BY <1>3, <3>1, <3>5, <5>1
        <5>4. dir \notin Under(nodes, At(p, i).dir)
          BY <5>2, <5>3 DEF Under
        <5> QED
          BY <1>6, <4>1, <4>2, <5>1, <5>4
      <4>5. Under(nodes', stack[Depth(p) - 1].dir)
              = stack[Depth(p) - 1].todo \ stack[Depth(p) - 1].seen
        <5>1. dir \in stack[Depth(p) - 1].seen
          BY <1>3, <1>5, <1>6, <3>1
        <5>2. Under(nodes, stack[Depth(p) - 1].dir)
                = (stack[Depth(p) - 1].todo \ stack[Depth(p) - 1].seen) \cup {dir}
          BY <1>5, <1>6, <3>1, <4>1
        <5> QED
          BY <4>2, <5>1, <5>2
      <4>6. PeaceParts(stack, Depth(p) - 1, nodes')
        BY <3>6, <4>3, <4>4, <4>5 DEF PeaceParts
      <4>7. proc'[p].stack = stack
        BY <3>2
      <4> QED
        BY <1>6, <3>1, <4>6, <4>7, PeaceNow
    <3>10. CallInv(p)'
      BY <1>1, <3>2, <3>8, <3>9 DEF CallInv, Working
    <3> QED
      BY <2>3, <3>2, <3>3, <3>4, <3>10, ActorKeeps
  <2> QED
    BY <2>4, <2>5
<1> QED
  BY <1>9, <1>10
-----------------------------------------------------------------------------
(* What no call does: all of them are disturbed, or nothing changes.         *)
LEMMA AllDisturbed ==
  ASSUME FilesInv, NoNewLink, Rooted', Outside', AutoInv', proc' = Disturb(proc, {}),
         auto' = [kind |-> auto'.kind, owners |-> auto'.owners,
                  cleaned |-> auto'.cleaned, quiet |-> auto'.quiet]
  PROVE  FilesInv'
<1>1. proc' = [q \in Procs |-> proc'[q]]
  BY DEF Disturb
<1>2. ASSUME NEW q \in Procs PROVE Record(q)' /\ CallInv(q)'
  <2>1. Steady(q)
    BY DEF Disturb, Steady
  <2> QED
    BY <2>1, SteadyKeeps DEF FilesInv, Records
<1> QED
  BY <1>1, <1>2 DEF FilesInv, Records

LEMMA AllUnmoved ==
  ASSUME FilesInv, nodes' = nodes, proc' = proc, AutoInv',
         auto' = [kind |-> auto'.kind, owners |-> auto'.owners,
                  cleaned |-> auto'.cleaned, quiet |-> auto'.quiet], initial' = initial
  PROVE  FilesInv'
<1>1. Rooted' /\ Outside' /\ Calm /\ NoNewLink
  BY Untouched DEF FilesInv
<1>2. ASSUME NEW q \in Procs PROVE Record(q)' /\ CallInv(q)'
  BY <1>1, SteadyKeeps DEF FilesInv, Records, Steady
<1> QED
  BY <1>1, <1>2 DEF FilesInv, Records

LEMMA TemporaryPath == Temporary \in Path \ {<<>>} /\ Parent(Temporary) # Temporary
<1>1. Temporary \in Path \ {<<>>}
  BY PathsAssumption DEF Path
<1> QED
  BY <1>1, ParentOf

LEMMA AutoCreateKeeps ==
  ASSUME FilesInv, NEW kind \in {"dir", "file"}, NEW made,
         made = IF kind = "dir" THEN Dir ELSE File, AutoCreate(kind, With(Temporary, made)), initial' = initial
  PROVE  FilesInv'
<1>1. auto.kind = "none" /\ mkdir(Temporary) = "ok" /\ nodes' = With(Temporary, made)
      /\ proc' = Disturb(proc, {})
      /\ auto' = [kind |-> kind, owners |-> 1, cleaned |-> FALSE, quiet |-> TRUE]
  BY DEF AutoCreate, NoAuto
<1>2. Rooted /\ Outside
  BY DEF FilesInv
<1>3. /\ ~exists(Temporary) /\ exists(Parent(Temporary))
      /\ nodes[Parent(Temporary)].kind = "dir" /\ nodes[Parent(Temporary)].ok
  BY <1>1, MkdirSays DEF Writable
<1>4. made \in {Dir, File} /\ made.kind = kind
  BY DEF Dir, File, Node
<1>5. /\ Rooted' /\ Outside' /\ NoNewLink
      /\ DOMAIN nodes' = DOMAIN nodes \cup {Temporary} /\ nodes'[Temporary] = made
      /\ \A other \in DOMAIN nodes : nodes'[other] = nodes[other]
  BY <1>1, <1>2, <1>3, <1>4, Created, TemporaryPath
<1>6. Children(Temporary)' = {}
  <2>1. \A path \in DOMAIN nodes' : path # <<>> => Parent(path) # Temporary
    BY <1>2, <1>3, <1>5, TemporaryPath DEF Rooted, TreeOK, exists
  <2> QED
    BY <2>1 DEF Children
<1>7. AutoInv'
  BY <1>1, <1>3, <1>4, <1>5, <1>6 DEF AutoInv, exists, Writable
<1> QED
  BY <1>1, <1>5, <1>7, AllDisturbed

LEMMA AutoRemoveKeeps ==
  ASSUME FilesInv, NEW owners \in Nat, auto.kind # "none", AutoRemove(owners), initial' = initial
  PROVE  FilesInv'
<1> DEFINE errno == IF auto.kind = "dir" THEN rmdir(Temporary) ELSE unlink(Temporary)
<1>1. Rooted /\ Outside /\ AutoInv
      /\ auto = [kind |-> auto.kind, owners |-> auto.owners, cleaned |-> auto.cleaned, quiet |-> auto.quiet]
  BY DEF FilesInv, Records
<1>2. auto' = [kind |-> auto.kind, owners |-> owners, cleaned |-> TRUE, quiet |-> auto.quiet]
  BY <1>1 DEF AutoRemove
<1>3. IF ~auto.cleaned /\ errno = "ok"
      THEN nodes' = Without(Temporary) /\ proc' = Disturb(proc, {})
      ELSE nodes' = nodes /\ proc' = proc
  BY DEF AutoRemove
<1>4. errno = "ok" => exists(Temporary) /\ Children(Temporary) = {}
  <2>1. exists(Temporary) /\ nodes[Temporary].kind # "dir" => Children(Temporary) = {}
    BY <1>1 DEF Rooted, TreeOK, Children
  <2> QED
    BY <2>1 DEF rmdir, unlink
<1>5. ~auto.cleaned /\ auto.quiet => errno = "ok"
  BY <1>1 DEF AutoInv, rmdir, unlink
<1> HIDE DEF errno
<1>6. CASE ~auto.cleaned /\ errno = "ok"
  <2>1. nodes' = Without(Temporary) /\ proc' = Disturb(proc, {})
    BY <1>3, <1>6
  <2>2. Temporary \notin DOMAIN initial
    BY <1>1, TreesAssumption DEF Outside, Within
  <2>3. Rooted' /\ Outside' /\ NoNewLink /\ DOMAIN nodes' = DOMAIN nodes \ {Temporary}
    BY <1>1, <1>4, <1>6, <2>1, <2>2, Deleted, TemporaryPath DEF exists
  <2>4. AutoInv'
    BY <1>1, <1>2, <2>3 DEF AutoInv, exists
  <2> QED
    BY <1>2, <2>1, <2>3, <2>4, AllDisturbed
<1>7. CASE ~(~auto.cleaned /\ errno = "ok")
  <2>1. nodes' = nodes /\ proc' = proc
    BY <1>3, <1>7
  <2>2. auto.quiet => auto.cleaned /\ ~exists(Temporary)
    BY <1>1, <1>5, <1>7 DEF AutoInv
  <2>3. AutoInv'
    BY <1>1, <1>2, <2>1, <2>2 DEF AutoInv, exists
  <2> QED
    BY <1>2, <2>1, <2>3, AllUnmoved
<1> QED
  BY <1>6, <1>7

LEMMA AutoNextKeeps ==
  ASSUME FilesInv, AutoNext, initial' = initial
  PROVE  FilesInv'
<1>1. AutoInv /\ auto = [kind |-> auto.kind, owners |-> auto.owners,
                         cleaned |-> auto.cleaned, quiet |-> auto.quiet]
  BY DEF FilesInv, Records
<1>2. CASE AutoDirectory
  BY <1>2, AutoCreateKeeps DEF AutoDirectory, mkdtemp_public
<1>3. CASE AutoFile
  BY <1>3, AutoCreateKeeps DEF AutoFile, mkstemp
<1>4. ASSUME NEW owners \in Nat \ {0}, auto.kind # "none", auto' = [auto EXCEPT !.owners = owners],
             nodes' = nodes, proc' = proc
      PROVE  FilesInv'
  <2>1. auto' = [kind |-> auto.kind, owners |-> owners, cleaned |-> auto.cleaned, quiet |-> auto.quiet]
    BY <1>1, <1>4
  <2>2. Children(Temporary)' = Children(Temporary)
    BY <1>4 DEF Children
  <2>3. AutoInv'
    BY <1>1, <1>4, <2>1, <2>2 DEF AutoInv, exists, Writable
  <2> QED
    BY <1>4, <2>1, <2>3, AllUnmoved
<1>5. CASE AutoCopy
  <2>1. auto.kind # "none" /\ auto' = [auto EXCEPT !.owners = 2] /\ nodes' = nodes /\ proc' = proc
    BY <1>1, <1>5 DEF AutoCopy, AutoInv
  <2> QED
    BY <1>4, <2>1
<1>6. CASE AutoCleanup
  BY <1>1, <1>6, AutoRemoveKeeps DEF AutoCleanup, AutoInv
<1>7. CASE AutoDestroy
  <2>1. auto.kind # "none" /\ auto.owners \in Nat \ {0}
    BY <1>1, <1>7 DEF AutoDestroy, AutoInv
  <2>2. CASE auto.owners = 1
    BY <1>7, <2>1, <2>2, AutoRemoveKeeps DEF AutoDestroy
  <2>3. CASE auto.owners # 1
    <3>1. auto.owners - 1 \in Nat \ {0}
      BY <2>1, <2>3
    <3>2. auto' = [auto EXCEPT !.owners = auto.owners - 1] /\ nodes' = nodes /\ proc' = proc
      BY <1>7, <2>3 DEF AutoDestroy
    <3> QED
      BY <1>4, <2>1, <3>1, <3>2
  <2> QED
    BY <2>2, <2>3
<1> QED
  BY <1>2, <1>3, <1>5, <1>6, <1>7 DEF AutoNext

LEMMA StrayKeeps ==
  ASSUME FilesInv, Stray, initial' = initial
  PROVE  FilesInv'
<1>1. Rooted /\ Outside /\ AutoInv
      /\ auto = [kind |-> auto.kind, owners |-> auto.owners, cleaned |-> auto.cleaned, quiet |-> auto.quiet]
  BY DEF FilesInv, Records
<1>2. PICK dir \in DOMAIN nodes :
        /\ nodes[dir].kind = "dir" /\ \E top \in Removed \cup {Temporary} : Within(dir, top)
        /\ \/ \E name \in Names, made \in {Dir, File} :
                /\ ~exists(Append(dir, name))
                /\ nodes' = With(Append(dir, name), made)
           \/ \E file \in Children(dir) : unlink(file) = "ok" /\ nodes' = Without(file)
  BY DEF Stray
<1>3. dir \in Path
  BY <1>1 DEF Rooted, TreeOK, Path
<1>4. Rooted' /\ Outside' /\ NoNewLink
  <2>1. ASSUME NEW name \in Names, NEW made \in {Dir, File}, ~exists(Append(dir, name)),
               nodes' = With(Append(dir, name), made)
        PROVE  Rooted' /\ Outside' /\ NoNewLink
    <3>1. Append(dir, name) \in Path \ {<<>>} /\ Parent(Append(dir, name)) = dir
      BY <1>3, PathsAssumption, ParentOfAppend
    <3>2. PICK path : path = Append(dir, name)
      OBVIOUS
    <3>3. path \in Path \ {<<>>} /\ ~exists(path) /\ exists(Parent(path))
          /\ nodes[Parent(path)].kind = "dir" /\ nodes' = With(path, made)
      BY <1>2, <2>1, <3>1, <3>2 DEF exists
    <3> QED
      BY <1>1, <3>3, Created
  <2>2. ASSUME NEW file \in Children(dir), unlink(file) = "ok", nodes' = Without(file)
        PROVE  Rooted' /\ Outside' /\ NoNewLink
    <3>1. file \in DOMAIN nodes /\ file \in Path \ {<<>>} /\ Parent(file) = dir
      BY <1>1 DEF Children, Rooted, TreeOK, Path
    <3>2. Children(file) = {}
      BY <1>1, <2>2 DEF unlink, Children, Rooted, TreeOK
    <3>3. PICK top \in Removed \cup {Temporary} : Within(dir, top)
      BY <1>2
    <3>4. Within(file, top)
      <4>1. top \in Path
        BY PathsAssumption, TemporaryPath DEF Path
      <4> QED
        BY <3>1, <3>3, <4>1, BelowParent DEF Within
    <3>5. \/ \E above \in Removed : Within(file, above)
          \/ file \notin DOMAIN initial
      BY <1>1, <3>4, TreesAssumption DEF Outside
    <3> QED
      BY <1>1, <2>2, <3>1, <3>2, <3>5, Deleted
  <2> QED
    BY <1>2, <2>1, <2>2
<1>5. auto' = [auto EXCEPT !.quiet = FALSE] /\ proc' = Disturb(proc, {})
  BY DEF Stray, DisturbAuto
<1>6. AutoInv' /\ auto' = [kind |-> auto'.kind, owners |-> auto'.owners,
                           cleaned |-> auto'.cleaned, quiet |-> auto'.quiet]
  BY <1>1, <1>5, AutoKeeps
<1> QED
  BY <1>4, <1>5, <1>6, AllDisturbed
-----------------------------------------------------------------------------
LEMMA FilesInitially ==
  ASSUME FilesInit
  PROVE  FilesInv
<1>1. initial \in Trees /\ nodes = initial /\ proc = [p \in Procs |-> Resting] /\ auto = NoAuto
  BY DEF FilesInit
<1>2. Rooted
  BY <1>1, TreesAssumption DEF Rooted
<1>3. Outside
  BY <1>1 DEF Outside, exists
<1>4. Records
  BY <1>1 DEF Records, Record, Resting, NoAuto
<1>5. ASSUME NEW p \in Procs PROVE CallInv(p)
  BY <1>1 DEF CallInv, Working, Resting
<1>6. AutoInv
  BY <1>1 DEF AutoInv, NoAuto
<1> QED
  BY <1>2, <1>3, <1>4, <1>5, <1>6 DEF FilesInv

LEMMA FilesStep ==
  ASSUME FilesInv, [FilesNext]_files_vars
  PROVE  FilesInv'
<1>1. CASE TreeNext /\ initial' = initial
  <2>1. PICK p \in Procs :
          \/ \E dir \in Made : MkdirPCall(p, dir)
          \/ MkdirP(p)
          \/ \E dir \in Removed : RmRCall(p, dir)
          \/ RmREntry(p) \/ RmRDescend(p) \/ RmRUnlink(p) \/ RmREnd(p)
    BY <1>1 DEF TreeNext
  <2> QED
    BY <1>1, <2>1, MkdirPCallKeeps, MkdirPKeeps, RmRCallKeeps, RmREntryKeeps, RmRDescendKeeps,
       RmRUnlinkKeeps, RmREndKeeps
<1>2. CASE AutoNext /\ initial' = initial
  BY <1>2, AutoNextKeeps
<1>3. CASE Stray /\ initial' = initial
  BY <1>3, StrayKeeps
<1>4. CASE UNCHANGED files_vars
  <2>1. nodes' = nodes /\ proc' = proc /\ auto' = auto /\ initial' = initial
    BY <1>4 DEF files_vars
  <2>2. AutoInv' /\ auto' = [kind |-> auto'.kind, owners |-> auto'.owners,
                             cleaned |-> auto'.cleaned, quiet |-> auto'.quiet]
    BY <2>1, AutoKeeps, Untouched DEF FilesInv, Records
  <2> QED
    BY <2>1, <2>2, AllUnmoved
<1> QED
  BY <1>1, <1>2, <1>3, <1>4 DEF FilesNext

LEMMA FilesPromise == FilesInv => KeepsItsWord
<1> SUFFICES ASSUME FilesInv PROVE KeepsItsWord
  OBVIOUS
<1>1. ASSUME NEW p \in Procs
      PROVE  /\ proc[p].result = "ok" => Promised(p)
             /\ proc[p].result \notin {"none", "ok"} /\ proc[p].quiet =>
                  \/ proc[p].result \in {"ENOTDIR", "EACCES"}
                  \/ proc[p].op = "rm_r" /\ proc[p].result = "ENOENT" /\ ~exists(proc[p].arg)
             /\ proc[p].op = "rm_r" /\ proc[p].result # "none" /\ proc[p].quiet =>
                  Children(proc[p].arg) = {}
  <2>1. Record(p) /\ CallInv(p)
    BY DEF FilesInv, Records
  <2>2. proc[p].result # "none" /\ proc[p].quiet => Answers(p)
    BY <2>1 DEF CallInv
  <2>3. proc[p].result = "ok" => Promised(p)
    BY <2>1 DEF Record
  <2> QED
    BY <2>2, <2>3 DEF Answers, Children
<1>2. auto.kind # "none" /\ auto.owners = 0 /\ auto.quiet => ~exists(Temporary)
  BY DEF FilesInv, AutoInv
<1>3. Outside
  BY DEF FilesInv
<1> QED
  BY <1>1, <1>2, <1>3 DEF KeepsItsWord, Outside

(* mkdir_p() and rm_r() keep their word in every tree, whatever the other    *)
(* processes do; so do the temporaries.  A directory exists when mkdir_p()   *)
(* returns, unless a file or a link had its name already or someone put one  *)
(* there: those it takes for the directory.                                  *)
THEOREM FilesKeepTheirWord == FilesSpec => []KeepsItsWord
<1>1. FilesInit => FilesInv
  BY FilesInitially
<1>2. FilesInv /\ [FilesNext]_files_vars => FilesInv'
  BY FilesStep
<1> QED
  BY <1>1, <1>2, FilesPromise, PTL DEF FilesSpec
-----------------------------------------------------------------------------
(* Keys of variables.  The names of the built-in ones are listed since they  *)
(* cannot be shown to be strings.                                            *)
Name ==
  STRING \cup {"architecture", "execenvs", "parallelism", "platform", "unprivileged_user", "test_suites"}
Key == Seq(Name)

(* A tree: it has a root, and what a node lies below are inner nodes, which  *)
(* have no value.                                                            *)
IsNode(n) == n = [type |-> n.type, value |-> n.value] /\ (n.type \in Inner => n.value = NotSet)
IsTree(t) ==
  /\ t = [k \in DOMAIN t |-> t[k]] /\ DOMAIN t \subseteq Key /\ <<>> \in DOMAIN t
  /\ \A k \in DOMAIN t :
       IsNode(t[k]) /\ \A p \in Ancestors(k) : p \in DOMAIN t /\ t[p].type \in Inner

(* The built-in variables.                                                   *)
BuiltIn ==
  {<<>>, <<"architecture">>, <<"execenvs">>, <<"parallelism">>, <<"platform">>,
   <<"unprivileged_user">>, <<"test_suites">>}
TypeOf(k) ==
  CASE k = <<>> -> "static"
    [] k = <<"execenvs">> -> "strings_set"
    [] k = <<"parallelism">> -> "positive_int"
    [] k = <<"unprivileged_user">> -> "user"
    [] k = <<"test_suites">> -> "dynamic"
    [] OTHER -> "string"

(* The tree has the built-in variables, and others only below "test_suites". *)
(* A leaf among those has a value.                                           *)
Shaped(t) ==
  /\ IsTree(t)
  /\ \A k \in BuiltIn : k \in DOMAIN t /\ t[k].type = TypeOf(k)
  /\ \A k \in DOMAIN t \ BuiltIn :
       /\ Len(k) > 1 /\ k[1] = "test_suites"
       /\ \/ t[k].type = "dynamic"
          \/ t[k].type = "string" /\ t[k].value # NotSet

LEMMA KeyLength ==
  ASSUME NEW key \in Key PROVE Len(key) \in Nat /\ (key # <<>> <=> Len(key) > 0)
BY EmptySeq, LenProperties DEF Key

LEMMA PrefixOf ==
  ASSUME NEW key \in Key, NEW n \in 0..Len(key)
  PROVE  /\ Prefix(key, n) \in Key /\ Len(Prefix(key, n)) = n
         /\ \A i \in 1..n : Prefix(key, n)[i] = key[i]
BY Beginning DEF Key, Prefix

LEMMA KeysEqual ==
  ASSUME NEW key \in Key, NEW other \in Key, Len(key) = Len(other),
         \A i \in 1..Len(key) : key[i] = other[i]
  PROVE  key = other
BY SeqEqual DEF Key

LEMMA WholePrefix == ASSUME NEW key \in Key PROVE Prefix(key, Len(key)) = key
BY PrefixOf, KeysEqual, KeyLength

LEMMA PrefixOfPrefix ==
  ASSUME NEW key \in Key, NEW n \in 0..Len(key), NEW k \in 0..n
  PROVE  Prefix(Prefix(key, n), k) = Prefix(key, k)
<1>1. k \in 0..Len(key) /\ Len(key) \in Nat
  BY KeyLength
<1>2. Prefix(key, n) \in Key /\ Len(Prefix(key, n)) = n
      /\ \A i \in 1..n : Prefix(key, n)[i] = key[i]
  BY PrefixOf
<1>3. Prefix(key, k) \in Key /\ Len(Prefix(key, k)) = k
      /\ \A i \in 1..k : Prefix(key, k)[i] = key[i]
  BY <1>1, PrefixOf
<1>4. Prefix(Prefix(key, n), k) \in Key /\ Len(Prefix(Prefix(key, n), k)) = k
      /\ \A i \in 1..k : Prefix(Prefix(key, n), k)[i] = Prefix(key, n)[i]
  BY <1>2, PrefixOf
<1> QED
  BY <1>2, <1>3, <1>4, KeysEqual

LEMMA AncestorsOf ==
  ASSUME NEW key \in Key, NEW p \in Ancestors(key)
  PROVE  p \in Key /\ p # key /\ Ancestors(p) \subseteq Ancestors(key)
<1>1. Len(key) \in Nat
  BY KeyLength
<1>2. PICK n \in 0..(Len(key) - 1) : p = Prefix(key, n)
  BY DEF Ancestors
<1>3. p \in Key /\ Len(p) = n
  BY <1>1, <1>2, PrefixOf
<1>4. \A k \in 0..(Len(p) - 1) : Prefix(p, k) = Prefix(key, k) /\ k \in 0..(Len(key) - 1)
  BY <1>1, <1>2, <1>3, PrefixOfPrefix
<1> QED
  BY <1>1, <1>2, <1>3, <1>4 DEF Ancestors

(* Of some numbers that are bounded, one is the greatest.                    *)
LEMMA GreatestNumber ==
  ASSUME NEW b \in Nat, NEW S, S \subseteq 0..b, S # {}
  PROVE  \E n \in S : \A k \in S : k <= n
<1> DEFINE M == {b - n : n \in S}
<1>1. M \subseteq Nat /\ M # {}
  <2>1. \A n \in 0..b : b - n \in Nat
    OBVIOUS
  <2> QED
    BY <2>1
<1>2. \E m \in M : \A n \in M : ~(<<n, m>> \in OpToRel(<, Nat))
  BY <1>1, NatLessThanWellFounded, WFMin
<1>3. PICK m \in M : \A n \in M : ~(n < m)
  BY <1>1, <1>2 DEF OpToRel
<1>4. PICK n \in S : m = b - n
  BY <1>3
<1>5. \A k \in S : ~(b - k < b - n)
  BY <1>3, <1>4
<1> QED
  BY <1>4, <1>5

LEMMA DeepestIs ==
  ASSUME NEW t, <<>> \in DOMAIN t, NEW key \in Key
  PROVE  LET n == Deepest(t, key)
         IN /\ n \in 0..Len(key) /\ Prefix(key, n) \in DOMAIN t
            /\ \A k \in (n + 1)..Len(key) : Prefix(key, k) \notin DOMAIN t
            /\ n = Len(key) <=> key \in DOMAIN t
<1> DEFINE S == {n \in 0..Len(key) : Prefix(key, n) \in DOMAIN t}
<1>1. Len(key) \in Nat
  BY KeyLength
<1>2. Prefix(key, 0) = <<>>
  BY <1>1, PrefixOf, KeyLength
<1>3. 0 \in S
  BY <1>1, <1>2
<1>4. \E n \in S : \A k \in S : k <= n
  BY <1>1, <1>3, GreatestNumber
<1>5. \E n \in 0..Len(key) : Prefix(key, n) \in DOMAIN t
                             /\ \A k \in (n + 1)..Len(key) : Prefix(key, k) \notin DOMAIN t
  BY <1>1, <1>4
<1> DEFINE n == Deepest(t, key)
<1>6. n \in 0..Len(key) /\ Prefix(key, n) \in DOMAIN t
      /\ \A k \in (n + 1)..Len(key) : Prefix(key, k) \notin DOMAIN t
  BY <1>5 DEF Deepest
<1> HIDE DEF n
<1>7. n # Len(key) => Len(key) \in (n + 1)..Len(key)
  BY <1>1, <1>6
<1>8. n = Len(key) <=> key \in DOMAIN t
  BY <1>6, <1>7, WholePrefix
<1> QED
  BY <1>6, <1>8 DEF n
-----------------------------------------------------------------------------
(* Where the search for the node of a key ends, which is not in the tree.    *)
EndsAt(t, key, n) ==
  /\ n \in 0..(Len(key) - 1) /\ Prefix(key, n) \in DOMAIN t
  /\ \A k \in (n + 1)..Len(key) : Prefix(key, k) \notin DOMAIN t
Stuck(t, key) ==
  /\ key \notin DOMAIN t
  /\ \E n \in 0..(Len(key) - 1) : EndsAt(t, key, n) /\ t[Prefix(key, n)].type # "dynamic"
MayGrow(t, key) ==
  /\ key \notin DOMAIN t
  /\ \E n \in 0..(Len(key) - 1) : EndsAt(t, key, n) /\ t[Prefix(key, n)].type = "dynamic"
IsLeaf(t, key) == key \in DOMAIN t /\ t[key].type \notin Inner
WithLeaf(t, key, type) == IF key \in DOMAIN t THEN t ELSE WithNode(t, key, type, "dynamic")

LEMMA LookupRW ==
  ASSUME NEW t, IsTree(t), NEW key \in Key, NEW type
  PROVE  \/ Stuck(t, key) /\ lookup_rw(t, key, type).error = "unknown"
         \/ /\ key \in DOMAIN t /\ t[key].type \in Inner
            /\ lookup_rw(t, key, type).error = "type"
         \/ /\ IsLeaf(t, key) \/ MayGrow(t, key)
            /\ lookup_rw(t, key, type).error = ""
            /\ lookup_rw(t, key, type).tree = WithLeaf(t, key, type)
<1> DEFINE n == Deepest(t, key)
<1>1. /\ n \in 0..Len(key) /\ Prefix(key, n) \in DOMAIN t
      /\ \A k \in (n + 1)..Len(key) : Prefix(key, k) \notin DOMAIN t
      /\ n = Len(key) <=> key \in DOMAIN t
  BY DeepestIs DEF IsTree
<1>2. Len(key) \in Nat /\ Prefix(key, Len(key)) = key
  BY KeyLength, WholePrefix
<1> HIDE DEF n
<1>3. CASE n = Len(key)
  <2>1. key \in DOMAIN t /\ t[Prefix(key, n)] = t[key]
    BY <1>1, <1>2, <1>3
  <2>2. t[key].type \in Inner => lookup_rw(t, key, type).error = "type"
    BY <1>3, <2>1 DEF lookup_rw, n
  <2>3. t[key].type \notin Inner => lookup_rw(t, key, type).error = ""
    BY <1>3, <2>1 DEF lookup_rw, n
  <2>4. lookup_rw(t, key, type).tree = t
    BY <1>3 DEF lookup_rw, n
  <2> QED
    BY <2>1, <2>2, <2>3, <2>4 DEF IsLeaf, WithLeaf
<1>4. CASE n # Len(key) /\ t[Prefix(key, n)].type = "dynamic"
  <2>1. key \notin DOMAIN t /\ n < Len(key) /\ n \in 0..(Len(key) - 1)
    BY <1>1, <1>2, <1>4
  <2>2. MayGrow(t, key)
    BY <1>1, <1>4, <2>1 DEF MayGrow, EndsAt
  <2>3. lookup_rw(t, key, type).error = ""
        /\ lookup_rw(t, key, type).tree = WithNode(t, key, type, "dynamic")
    BY <1>4, <2>1 DEF lookup_rw, n
  <2> QED
    BY <2>1, <2>2, <2>3 DEF WithLeaf
<1>5. CASE n # Len(key) /\ t[Prefix(key, n)].type # "dynamic"
  <2>1. key \notin DOMAIN t /\ n < Len(key) /\ n \in 0..(Len(key) - 1)
    BY <1>1, <1>2, <1>5
  <2>2. Stuck(t, key)
    BY <1>1, <1>5, <2>1 DEF Stuck, EndsAt
  <2>3. lookup_rw(t, key, type).error = "unknown"
    BY <1>5, <2>1 DEF lookup_rw, n
  <2> QED
    BY <2>2, <2>3
<1> QED
  BY <1>3, <1>4, <1>5

(* What setting a key to a text does to a tree: nothing, if the key is       *)
(* unknown; or the leaf takes the value, and all others stay.  A leaf that   *)
(* is not there comes to be where it may, with the inner nodes above it.     *)
Wrote(t, key, text, u) ==
  /\ IsLeaf(t, key) \/ MayGrow(t, key)
  /\ u = [k \in DOMAIN u |-> u[k]] /\ DOMAIN u = DOMAIN t \cup Ancestors(key) \cup {key}
  /\ \A k \in DOMAIN t \ {key} : u[k] = t[k]
  /\ \A k \in Ancestors(key) \ DOMAIN t : u[k] = node("dynamic")
  /\ u[key].type = IF key \in DOMAIN t THEN t[key].type ELSE "string"
  /\ Accepts(u[key].type, text)
  /\ u[key] = [type |-> u[key].type, value |-> Parsed(u[key].type, text)]
Took(t, key, text, u) == (Stuck(t, key) /\ u = t) \/ Wrote(t, key, text, u)

LEMMA LeafWritten ==
  ASSUME NEW t, IsTree(t), NEW key \in Key, IsLeaf(t, key) \/ MayGrow(t, key), NEW text,
         Accepts(WithLeaf(t, key, "string")[key].type, text)
  PROVE  LET w == WithLeaf(t, key, "string")
         IN Wrote(t, key, text, [w EXCEPT ![key].value = Parsed(w[key].type, text)])
<1> DEFINE w == WithLeaf(t, key, "string")
<1> DEFINE v == Parsed(w[key].type, text)
<1> DEFINE u == [w EXCEPT ![key].value = v]
<1>1. w = [k \in DOMAIN w |-> w[k]] /\ DOMAIN w = DOMAIN t \cup Ancestors(key) \cup {key}
      /\ \A k \in DOMAIN t \ {key} : w[k] = t[k]
  <2>1. CASE key \in DOMAIN t
    BY <2>1 DEF WithLeaf, IsTree
  <2>2. CASE key \notin DOMAIN t
    BY <2>2 DEF WithLeaf, WithNode
  <2> QED
    BY <2>1, <2>2
<1>2. \A k \in Ancestors(key) \ DOMAIN t : k # key /\ w[k] = node("dynamic")
  <2>1. \A k \in Ancestors(key) : k # key
    BY AncestorsOf
  <2>2. CASE key \in DOMAIN t
    BY <2>2 DEF IsTree
  <2>3. CASE key \notin DOMAIN t
    BY <2>1, <2>3 DEF WithLeaf, WithNode
  <2> QED
    BY <2>2, <2>3
<1>3. w[key].type = (IF key \in DOMAIN t THEN t[key].type ELSE "string")
      /\ w[key] = [type |-> w[key].type, value |-> w[key].value]
  <2>1. CASE key \in DOMAIN t
    BY <2>1 DEF WithLeaf, IsTree, IsNode
  <2>2. CASE key \notin DOMAIN t
    BY <2>2 DEF WithLeaf, WithNode, node
  <2> QED
    BY <2>1, <2>2
<1> HIDE DEF w, v
<1>4. u = [k \in DOMAIN w |-> IF k = key THEN [w[key] EXCEPT !.value = v] ELSE w[k]]
  BY <1>1
<1>5. [w[key] EXCEPT !.value = v] = [type |-> w[key].type, value |-> v]
  BY <1>3
<1>6. u[key] = [type |-> w[key].type, value |-> v] /\ \A k \in DOMAIN w \ {key} : u[k] = w[k]
  BY <1>1, <1>4, <1>5
<1>7. u = [k \in DOMAIN u |-> u[k]] /\ DOMAIN u = DOMAIN w
  BY <1>4
<1>8. v = Parsed(w[key].type, text) /\ Accepts(w[key].type, text)
  BY DEF v, w
<1> HIDE DEF u
<1>9. u[key].type = w[key].type
  BY <1>6
<1>10. Wrote(t, key, text, u)
  BY <1>1, <1>2, <1>3, <1>6, <1>7, <1>8, <1>9 DEF Wrote
<1> QED
  BY <1>10 DEF u, v, w

(* "-v" and the assignments of a script.                                     *)
LEMMA SetStringTakes ==
  ASSUME NEW t, IsTree(t), NEW key \in Key, NEW text, tree_set_string(t, FALSE, key, text).error = ""
  PROVE  ValidKey(key) /\ Took(t, key, text, tree_set_string(t, FALSE, key, text).tree)
<1> DEFINE w == WithLeaf(t, key, "string")
<1> DEFINE r == tree_set_string(t, FALSE, key, text)
<1>1. ValidKey(key)
  BY DEF tree_set_string
<1>2. CASE Stuck(t, key) /\ lookup_rw(t, key, "string").error = "unknown"
  <2>1. r.tree = t
    BY <1>1, <1>2 DEF tree_set_string, unknown
  <2> QED
    BY <1>1, <1>2, <2>1 DEF Took
<1>3. CASE lookup_rw(t, key, "string").error = "type"
  <2>1. r.error = "type"
    BY <1>1, <1>3 DEF tree_set_string
  <2> QED
    BY <2>1
<1>4. CASE /\ IsLeaf(t, key) \/ MayGrow(t, key)
           /\ lookup_rw(t, key, "string").error = "" /\ lookup_rw(t, key, "string").tree = w
  <2>2. Accepts(w[key].type, text) /\ r.tree = [w EXCEPT ![key].value = Parsed(w[key].type, text)]
    BY <1>1, <1>4 DEF tree_set_string
  <2>3. Wrote(t, key, text, [w EXCEPT ![key].value = Parsed(w[key].type, text)])
    BY <1>4, <2>2, LeafWritten
  <2>4. Wrote(t, key, text, r.tree)
    BY <2>2, <2>3
  <2> QED
    BY <1>1, <2>4 DEF Took
<1> QED
  BY <1>2, <1>3, <1>4, LookupRW

LEMMA StoredText ==
  ASSUME NEW type, NEW v, set_lua_node(type, v) \notin {Abort, Refused}
  PROVE  set_lua_node(type, v) = v.text /\ Accepts(type, v.text)
BY DEF set_lua_node

LEMMA SetLuaTakes ==
  ASSUME NEW t, IsTree(t), NEW key \in Key, NEW v, set_lua(t, FALSE, key, v).error = ""
  PROVE  ValidKey(key) /\ Took(t, key, v.text, set_lua(t, FALSE, key, v).tree)
<1> DEFINE w == WithLeaf(t, key, "string")
<1> DEFINE r == set_lua(t, FALSE, key, v)
<1>1. ValidKey(key)
  BY DEF set_lua
<1>2. CASE Stuck(t, key) /\ lookup_rw(t, key, "string").error = "unknown"
  <2>1. r.tree = t
    BY <1>1, <1>2 DEF set_lua, unknown
  <2> QED
    BY <1>1, <1>2, <2>1 DEF Took
<1>3. CASE lookup_rw(t, key, "string").error = "type"
  <2>1. r.error = "type"
    BY <1>1, <1>3 DEF set_lua
  <2> QED
    BY <2>1
<1>4. CASE /\ IsLeaf(t, key) \/ MayGrow(t, key)
           /\ lookup_rw(t, key, "string").error = "" /\ lookup_rw(t, key, "string").tree = w
  <2> DEFINE stored == set_lua_node(w[key].type, v)
  <2>2. stored # Abort /\ stored # Refused
        /\ r.tree = [w EXCEPT ![key].value = Parsed(w[key].type, stored)]
    BY <1>1, <1>4 DEF set_lua
  <2>3. stored = v.text /\ Accepts(w[key].type, v.text)
    BY <2>2, StoredText
  <2>4. r.tree = [w EXCEPT ![key].value = Parsed(w[key].type, v.text)]
    BY <2>2, <2>3
  <2>5. Wrote(t, key, v.text, [w EXCEPT ![key].value = Parsed(w[key].type, v.text)])
    BY <1>4, <2>3, LeafWritten
  <2>6. Wrote(t, key, v.text, r.tree)
    BY <2>4, <2>5
  <2> QED
    BY <1>1, <2>6 DEF Took
<1> QED
  BY <1>2, <1>3, <1>4, LookupRW
-----------------------------------------------------------------------------
(* The built-in variables are defined one after the other.                   *)
DefinesTop(t, name, type, u) ==
  /\ u = [k \in DOMAIN u |-> u[k]] /\ DOMAIN u = DOMAIN t \cup {<<name>>}
  /\ \A k \in DOMAIN t \ {<<name>>} : u[k] = t[k]
  /\ u[<<name>>] = node(type)

LEMMA TopKey ==
  ASSUME NEW name \in Name
  PROVE  <<name>> \in Key /\ Len(<<name>>) = 1 /\ Ancestors(<<name>>) = {<<>>}
<1>1. <<name>> \in Key /\ Len(<<name>>) = 1
  BY DEF Key
<1>2. Prefix(<<name>>, 0) = <<>>
  <2>1. 0 \in 0..Len(<<name>>)
    BY <1>1
  <2> QED
    BY <1>1, <2>1, PrefixOf, KeyLength
<1> QED
  BY <1>1, <1>2 DEF Ancestors

LEMMA DefineTop ==
  ASSUME NEW t, <<>> \in DOMAIN t, NEW name \in Name, NEW type
  PROVE  DefinesTop(t, name, type, define(t, <<name>>, type))
<1>1. Ancestors(<<name>>) = {<<>>}
  BY TopKey
<1> QED
  BY <1>1 DEF DefinesTop, define, WithNode

Undefined == [k \in BuiltIn |-> node(TypeOf(k))]

LEMMA InitTree == init_config_tree = Undefined
<1> DEFINE t1 == define(EmptyTree, <<"architecture">>, "string")
<1> DEFINE t2 == define(t1, <<"execenvs">>, "strings_set")
<1> DEFINE t3 == define(t2, <<"parallelism">>, "positive_int")
<1> DEFINE t4 == define(t3, <<"platform">>, "string")
<1> DEFINE t5 == define(t4, <<"unprivileged_user">>, "user")
<1> DEFINE t6 == define(t5, <<"test_suites">>, "dynamic")
<1>1. init_config_tree = t6
  BY DEF init_config_tree, define_dynamic
<1>2. DOMAIN EmptyTree = {<<>>} /\ EmptyTree[<<>>] = node("static")
  BY DEF EmptyTree
<1> HIDE DEF t1, t2, t3, t4, t5, t6
<1>3. DefinesTop(EmptyTree, "architecture", "string", t1)
  BY <1>2, DefineTop DEF t1, Name
<1>4. DefinesTop(t1, "execenvs", "strings_set", t2)
  <2>1. <<>> \in DOMAIN t1
    BY <1>2, <1>3 DEF DefinesTop
  <2> QED
    BY <2>1, DefineTop DEF t2, Name
<1>5. DefinesTop(t2, "parallelism", "positive_int", t3)
  <2>1. <<>> \in DOMAIN t2
    BY <1>2, <1>3, <1>4 DEF DefinesTop
  <2> QED
    BY <2>1, DefineTop DEF t3, Name
<1>6. DefinesTop(t3, "platform", "string", t4)
  <2>1. <<>> \in DOMAIN t3
    BY <1>2, <1>3, <1>4, <1>5 DEF DefinesTop
  <2> QED
    BY <2>1, DefineTop DEF t4, Name
<1>7. DefinesTop(t4, "unprivileged_user", "user", t5)
  <2>1. <<>> \in DOMAIN t4
    BY <1>2, <1>3, <1>4, <1>5, <1>6 DEF DefinesTop
  <2> QED
    BY <2>1, DefineTop DEF t5, Name
<1>8. DefinesTop(t5, "test_suites", "dynamic", t6)
  <2>1. <<>> \in DOMAIN t5
    BY <1>2, <1>3, <1>4, <1>5, <1>6, <1>7 DEF DefinesTop
  <2> QED
    BY <2>1, DefineTop DEF t6, Name
<1>9. t6 = [k \in DOMAIN t6 |-> t6[k]] /\ DOMAIN t6 = BuiltIn
  BY <1>2, <1>3, <1>4, <1>5, <1>6, <1>7, <1>8 DEF DefinesTop, BuiltIn
<1>10. \A k \in BuiltIn : t6[k] = node(TypeOf(k))
  <2>1. t6[<<>>] = node("static")
    BY <1>2, <1>3, <1>4, <1>5, <1>6, <1>7, <1>8 DEF DefinesTop
  <2>2. t6[<<"architecture">>] = node("string")
    BY <1>3, <1>4, <1>5, <1>6, <1>7, <1>8 DEF DefinesTop
  <2>3. t6[<<"execenvs">>] = node("strings_set")
    BY <1>4, <1>5, <1>6, <1>7, <1>8 DEF DefinesTop
  <2>4. t6[<<"parallelism">>] = node("positive_int")
    BY <1>5, <1>6, <1>7, <1>8 DEF DefinesTop
  <2>5. t6[<<"platform">>] = node("string")
    BY <1>6, <1>7, <1>8 DEF DefinesTop
  <2>6. t6[<<"unprivileged_user">>] = node("user")
    BY <1>7, <1>8 DEF DefinesTop
  <2>7. t6[<<"test_suites">>] = node("dynamic")
    BY <1>8 DEF DefinesTop
  <2> QED
    BY <2>1, <2>2, <2>3, <2>4, <2>5, <2>6, <2>7 DEF BuiltIn, TypeOf
<1>11. t6 = Undefined
  BY <1>9, <1>10 DEF Undefined
<1> QED
  BY <1>1, <1>11

(* Four of them have values.                                                 *)
SetsLeaf(t, key, v, u) ==
  /\ u = [k \in DOMAIN u |-> u[k]] /\ DOMAIN u = DOMAIN t
  /\ \A k \in DOMAIN t \ {key} : u[k] = t[k]
  /\ u[key] = [type |-> t[key].type, value |-> v]

LEMMA SetsKeeps ==
  ASSUME NEW t, IsTree(t), NEW key \in DOMAIN t, t[key].type \notin Inner, NEW v, NEW u,
         SetsLeaf(t, key, v, u)
  PROVE  IsTree(u) /\ \A k \in DOMAIN t : u[k].type = t[k].type
<1>1. \A k \in DOMAIN t : IsNode(u[k]) /\ u[k].type = t[k].type
  <2> SUFFICES ASSUME NEW k \in DOMAIN t PROVE IsNode(u[k]) /\ u[k].type = t[k].type
    OBVIOUS
  <2>1. CASE k = key
    BY <2>1 DEF SetsLeaf, IsNode
  <2>2. CASE k # key
    BY <2>2 DEF SetsLeaf, IsTree
  <2> QED
    BY <2>1, <2>2
<1> QED
  BY <1>1 DEF SetsLeaf, IsTree

LEMMA SetsTop ==
  ASSUME NEW t, IsTree(t), NEW key \in DOMAIN t, NEW type, t[key].type = type, type \notin Inner,
         ValidKey(key), NEW v
  PROVE  SetsLeaf(t, key, v, tree_set(t, FALSE, key, type, v).tree)
<1>1. key \in Key
  BY DEF IsTree
<1>2. ~Stuck(t, key) /\ WithLeaf(t, key, type) = t
  BY DEF Stuck, WithLeaf
<1>3. lookup_rw(t, key, type).error = "" /\ lookup_rw(t, key, type).tree = t
  BY <1>1, <1>2, LookupRW
<1>4. is_a(t[key].type, type)
  BY DEF is_a
<1>5. tree_set(t, FALSE, key, type, v).tree = [t EXCEPT ![key].value = v]
  BY <1>3, <1>4 DEF tree_set
<1>6. t[key] = [type |-> t[key].type, value |-> t[key].value] /\ t = [k \in DOMAIN t |-> t[k]]
  BY DEF IsTree, IsNode
<1>7. [t[key] EXCEPT !.value = v] = [type |-> t[key].type, value |-> v]
  BY <1>6
<1>8. [t EXCEPT ![key].value = v] = [k \in DOMAIN t |-> IF k = key THEN [t[key] EXCEPT !.value = v] ELSE t[k]]
  BY <1>6
<1>9. SetsLeaf(t, key, v, [t EXCEPT ![key].value = v])
  BY <1>7, <1>8 DEF SetsLeaf
<1> QED
  BY <1>5, <1>9

LEMMA OneName ==
  ASSUME NEW name \in Name
  PROVE  <<name>> # <<>> /\ \A i \in DOMAIN <<name>> : <<name>>[i] = name
<1>1. ASSUME NEW key \in Key, Len(key) = 1 PROVE key # <<>> /\ \A i \in DOMAIN key : i = 1
  <2>1. key # <<>>
    BY <1>1, KeyLength
  <2>2. DOMAIN key = 1..Len(key)
    BY <1>1, LenProperties DEF Key
  <2> QED
    BY <1>1, <2>1, <2>2
<1>2. <<name>> # <<>> /\ \A i \in DOMAIN <<name>> : i = 1
  BY <1>1, TopKey
<1>3. <<name>>[1] = name
  OBVIOUS
<1> QED
  BY <1>2, <1>3

LEMMA ValidTop == ASSUME NEW name \in Name, name # "" PROVE ValidKey(<<name>>)
BY OneName DEF ValidKey

LEMMA UndefinedTree ==
  /\ IsTree(Undefined) /\ DOMAIN Undefined = BuiltIn
  /\ \A k \in BuiltIn : Undefined[k].type = TypeOf(k) /\ Undefined[k].value = NotSet
<1>1. BuiltIn \subseteq Key /\ \A k \in BuiltIn : k # <<>> => Ancestors(k) = {<<>>}
  <2>1. <<>> \in Key
    BY DEF Key
  <2> QED
    BY <2>1, TopKey DEF BuiltIn, Name
<1>2. Ancestors(<<>>) = {}
  <2>1. Len(<<>>) = 0
    OBVIOUS
  <2> QED
    BY <2>1 DEF Ancestors
<1>3. DOMAIN Undefined = BuiltIn /\ Undefined = [k \in DOMAIN Undefined |-> Undefined[k]]
  BY DEF Undefined
<1>4. \A k \in BuiltIn : Undefined[k].type = TypeOf(k) /\ Undefined[k].value = NotSet /\ IsNode(Undefined[k])
  BY DEF Undefined, node, IsNode
<1>5. <<>> \in BuiltIn /\ TypeOf(<<>>) \in Inner
  BY DEF BuiltIn, TypeOf, Inner
<1> QED
  BY <1>1, <1>2, <1>3, <1>4, <1>5 DEF IsTree

Standard(k) == IF k \in DOMAIN Default THEN Default[k] ELSE NotSet

LEMMA DefaultConfig ==
  /\ IsTree(default_config) /\ DOMAIN default_config = BuiltIn
  /\ \A k \in BuiltIn : default_config[k].type = TypeOf(k) /\ default_config[k].value = Standard(k)
<1> DEFINE architecture == <<"architecture">>
<1> DEFINE execenvs == <<"execenvs">>
<1> DEFINE parallelism == <<"parallelism">>
<1> DEFINE platform == <<"platform">>
<1> DEFINE t1 == tree_set(Undefined, FALSE, architecture, "string", Default[architecture]).tree
<1> DEFINE t2 == tree_set(t1, FALSE, execenvs, "strings_set", Default[execenvs]).tree
<1> DEFINE t3 == tree_set(t2, FALSE, parallelism, "positive_int", Default[parallelism]).tree
<1> DEFINE t4 == tree_set(t3, FALSE, platform, "string", Default[platform]).tree
<1>1. default_config = t4
  BY InitTree DEF default_config, set_defaults
<1>2. /\ {architecture, execenvs, parallelism, platform} \subseteq BuiltIn
      /\ TypeOf(architecture) = "string" /\ TypeOf(execenvs) = "strings_set"
      /\ TypeOf(parallelism) = "positive_int" /\ TypeOf(platform) = "string"
  BY DEF BuiltIn, TypeOf
<1>3. ValidKey(architecture) /\ ValidKey(execenvs) /\ ValidKey(parallelism) /\ ValidKey(platform)
  BY ValidTop DEF Name
<1>4. {"string", "strings_set", "positive_int"} \cap Inner = {}
  BY DEF Inner
<1>5. DOMAIN Default = {architecture, execenvs, parallelism, platform}
  BY DEF Default
<1>6. /\ architecture # execenvs /\ architecture # parallelism /\ architecture # platform
      /\ execenvs # parallelism /\ execenvs # platform /\ parallelism # platform
  OBVIOUS
<1> HIDE DEF architecture, execenvs, parallelism, platform, t1, t2, t3, t4
<1>7. /\ SetsLeaf(Undefined, architecture, Default[architecture], t1) /\ IsTree(t1)
      /\ \A k \in BuiltIn : k \in DOMAIN t1 /\ t1[k].type = TypeOf(k)
  <2>1. SetsLeaf(Undefined, architecture, Default[architecture], t1)
    BY <1>2, <1>3, <1>4, UndefinedTree, SetsTop DEF t1
  <2>2. IsTree(t1) /\ \A k \in DOMAIN Undefined : t1[k].type = Undefined[k].type
    BY <1>2, <1>4, <2>1, UndefinedTree, SetsKeeps
  <2> QED
    BY <2>1, <2>2, UndefinedTree DEF SetsLeaf
<1>8. /\ SetsLeaf(t1, execenvs, Default[execenvs], t2) /\ IsTree(t2)
      /\ \A k \in BuiltIn : k \in DOMAIN t2 /\ t2[k].type = TypeOf(k)
  <2>1. SetsLeaf(t1, execenvs, Default[execenvs], t2)
    BY <1>2, <1>3, <1>4, <1>7, SetsTop DEF t2
  <2>2. IsTree(t2) /\ \A k \in DOMAIN t1 : t2[k].type = t1[k].type
    BY <1>2, <1>4, <1>7, <2>1, SetsKeeps
  <2> QED
    BY <1>7, <2>1, <2>2 DEF SetsLeaf
<1>9. /\ SetsLeaf(t2, parallelism, Default[parallelism], t3) /\ IsTree(t3)
      /\ \A k \in BuiltIn : k \in DOMAIN t3 /\ t3[k].type = TypeOf(k)
  <2>1. SetsLeaf(t2, parallelism, Default[parallelism], t3)
    BY <1>2, <1>3, <1>4, <1>8, SetsTop DEF t3
  <2>2. IsTree(t3) /\ \A k \in DOMAIN t2 : t3[k].type = t2[k].type
    BY <1>2, <1>4, <1>8, <2>1, SetsKeeps
  <2> QED
    BY <1>8, <2>1, <2>2 DEF SetsLeaf
<1>10. /\ SetsLeaf(t3, platform, Default[platform], t4) /\ IsTree(t4)
       /\ \A k \in BuiltIn : k \in DOMAIN t4 /\ t4[k].type = TypeOf(k)
  <2>1. SetsLeaf(t3, platform, Default[platform], t4)
    BY <1>2, <1>3, <1>4, <1>9, SetsTop DEF t4
  <2>2. IsTree(t4) /\ \A k \in DOMAIN t3 : t4[k].type = t3[k].type
    BY <1>2, <1>4, <1>9, <2>1, SetsKeeps
  <2> QED
    BY <1>9, <2>1, <2>2 DEF SetsLeaf
<1>11. DOMAIN t4 = BuiltIn
  BY <1>7, <1>8, <1>9, <1>10, UndefinedTree DEF SetsLeaf
<1>12. ASSUME NEW k \in BuiltIn PROVE t4[k].value = Standard(k)
  <2>1. Undefined[k].value = NotSet /\ DOMAIN Undefined = BuiltIn
    BY UndefinedTree
  <2>2. CASE k \notin DOMAIN Default
    BY <1>5, <1>7, <1>8, <1>9, <1>10, <2>1, <2>2 DEF SetsLeaf, Standard
  <2>3. CASE k = architecture
    BY <1>2, <1>5, <1>6, <1>7, <1>8, <1>9, <1>10, <2>1, <2>3 DEF SetsLeaf, Standard
  <2>4. CASE k = execenvs
    BY <1>2, <1>5, <1>6, <1>7, <1>8, <1>9, <1>10, <2>1, <2>4 DEF SetsLeaf, Standard
  <2>5. CASE k = parallelism
    BY <1>2, <1>5, <1>6, <1>7, <1>8, <1>9, <1>10, <2>1, <2>5 DEF SetsLeaf, Standard
  <2>6. CASE k = platform
    BY <1>2, <1>5, <1>6, <1>7, <1>8, <1>9, <1>10, <2>1, <2>6 DEF SetsLeaf, Standard
  <2> QED
    BY <1>5, <2>2, <2>3, <2>4, <2>5, <2>6
<1> QED
  BY <1>1, <1>10, <1>11, <1>12
-----------------------------------------------------------------------------
(* What was said so far.                                                     *)
SaidTo(said, k) == {i \in DOMAIN said : said[i].key = k}
SaidLast(said, k) == said[CHOOSE i \in SaidTo(said, k) : \A j \in SaidTo(said, k) : j <= i].text
Adds(said, key, text, more) ==
  /\ IsSequence(more) /\ SaidTo(more, key) # {} /\ SaidLast(more, key) = text
  /\ \A k : k # key => SaidTo(more, k) = SaidTo(said, k)
  /\ \A k : k # key /\ SaidTo(said, k) # {} => SaidLast(more, k) = SaidLast(said, k)

LEMMA Saying ==
  ASSUME NEW said, IsSequence(said), NEW e
  PROVE  Adds(said, e.key, e.text, Append(said, e))
<1> DEFINE more == Append(said, e)
<1>1. /\ IsSequence(more) /\ Len(said) \in Nat /\ DOMAIN said = 1..Len(said)
      /\ DOMAIN more = 1..(Len(said) + 1) /\ more[Len(said) + 1] = e
      /\ \A i \in 1..Len(said) : more[i] = said[i]
  BY Appended
<1> HIDE DEF more
<1>2. Len(said) + 1 \in SaidTo(more, e.key) /\ \A j \in SaidTo(more, e.key) : j <= Len(said) + 1
  BY <1>1 DEF SaidTo
<1>3. \A i \in SaidTo(more, e.key) :
        (\A j \in SaidTo(more, e.key) : j <= i) => i = Len(said) + 1
  BY <1>1, <1>2 DEF SaidTo
<1>4. SaidLast(more, e.key) = e.text
  <2> DEFINE i == CHOOSE i \in SaidTo(more, e.key) : \A j \in SaidTo(more, e.key) : j <= i
  <2>1. i \in SaidTo(more, e.key) /\ \A j \in SaidTo(more, e.key) : j <= i
    BY <1>2
  <2>2. SaidLast(more, e.key) = more[i].text
    BY DEF SaidLast
  <2> HIDE DEF i
  <2>3. i = Len(said) + 1
    BY <1>3, <2>1
  <2> QED
    BY <1>1, <2>2, <2>3
<1>5. ASSUME NEW k, k # e.key PROVE SaidTo(more, k) = SaidTo(said, k)
  <2>1. \A i \in DOMAIN more : i \in DOMAIN said \/ i = Len(said) + 1
    BY <1>1
  <2>2. \A i \in DOMAIN said : i \in DOMAIN more /\ more[i] = said[i]
    BY <1>1
  <2> QED
    BY <1>1, <1>5, <2>1, <2>2 DEF SaidTo
<1>6. ASSUME NEW k, k # e.key, SaidTo(said, k) # {} PROVE SaidLast(more, k) = SaidLast(said, k)
  <2> DEFINE S == SaidTo(said, k)
  <2> DEFINE i == CHOOSE i \in S : \A j \in S : j <= i
  <2>1. S \subseteq 0..Len(said) /\ \A j \in S : j \in 1..Len(said)
    BY <1>1 DEF SaidTo
  <2>2. \E n \in S : \A j \in S : j <= n
    BY <1>1, <1>6, <2>1, GreatestNumber
  <2>3. i \in S
    BY <2>2
  <2>4. SaidLast(said, k) = said[i].text
    BY DEF SaidLast
  <2>5. SaidLast(more, k) = more[i].text
    BY <1>5, <1>6 DEF SaidLast
  <2> HIDE DEF S, i
  <2>6. more[i] = said[i]
    BY <1>1, <2>1, <2>3
  <2> QED
    BY <2>4, <2>5, <2>6
<1>7. Adds(said, e.key, e.text, more)
  BY <1>1, <1>2, <1>4, <1>5, <1>6 DEF Adds
<1> QED
  BY <1>7 DEF more

(* A leaf holds the last word, and what was said is a leaf, unless there     *)
(* cannot be one.                                                            *)
Word(said, k, type) == IF SaidTo(said, k) # {} THEN Parsed(type, SaidLast(said, k)) ELSE Standard(k)
Holds(t, said) ==
  \A k \in DOMAIN t :
    t[k].type \notin Inner =>
      t[k].value = Word(said, k, t[k].type) /\ (SaidTo(said, k) # {} => t[k].value # NotSet)
Heard(t, said) ==
  \A k : SaidTo(said, k) # {} =>
    /\ k \in Key /\ k # <<>>
    /\ \/ is_set(t, k)
       \/ k[1] # "test_suites" /\ k \notin BuiltIn
       \/ \E p \in Above(k) : is_set(t, p)

LEMMA BuiltInKeys ==
  ASSUME NEW k \in BuiltIn
  PROVE  /\ k \in Key /\ (k # <<>> => Len(k) = 1) /\ (TypeOf(k) = "dynamic" => k = <<"test_suites">>)
         /\ (k # <<>> /\ k[1] = "test_suites" => k = <<"test_suites">>)
         /\ (k # <<>> => TypeOf(k) # "static")
         /\ (TypeOf(k) = "static" => k = <<>>)
<1>1. <<>> \in Key
  BY DEF Key
<1>2. k \in Key /\ (k # <<>> => Len(k) = 1)
  BY <1>1, TopKey DEF BuiltIn, Name
<1>3. TypeOf(k) = "dynamic" => k = <<"test_suites">>
  BY DEF BuiltIn, TypeOf
<1>4. k # <<>> /\ k[1] = "test_suites" => k = <<"test_suites">>
  BY DEF BuiltIn
<1>5. TypeOf(k) = "static" => k = <<>>
  BY DEF BuiltIn, TypeOf
<1> QED
  BY <1>2, <1>3, <1>4, <1>5

LEMMA TestSuites == /\ <<"test_suites">> \in BuiltIn /\ <<"test_suites">> \in Key
                    /\ Len(<<"test_suites">>) = 1 /\ <<"test_suites">>[1] = "test_suites"
                    /\ <<"test_suites">> # <<>> /\ TypeOf(<<"test_suites">>) = "dynamic"
<1>1. <<"test_suites">> \in Key /\ Len(<<"test_suites">>) = 1
  BY TopKey DEF Name
<1>2. <<"test_suites">> \in BuiltIn /\ <<"test_suites">>[1] = "test_suites"
  BY DEF BuiltIn
<1>3. TypeOf(<<"test_suites">>) = "dynamic"
  BY DEF TypeOf
<1>4. <<"test_suites">> # <<>>
  BY <1>1, KeyLength
<1> QED
  BY <1>1, <1>2, <1>3, <1>4

(* What grows does so below "test_suites".                                   *)
LEMMA GrowsBelow ==
  ASSUME NEW t, Shaped(t), NEW key \in Key, MayGrow(t, key)
  PROVE  /\ Len(key) > 1 /\ key[1] = "test_suites"
         /\ \A p \in Ancestors(key) :
              IF p \in DOMAIN t THEN t[p].type \in Inner ELSE Len(p) > 1 /\ p[1] = "test_suites"
<1>1. Len(key) \in Nat
  BY KeyLength
<1>2. PICK n \in 0..(Len(key) - 1) : EndsAt(t, key, n) /\ t[Prefix(key, n)].type = "dynamic"
  BY DEF MayGrow
<1> DEFINE top == Prefix(key, n)
<1>3. top \in Key /\ Len(top) = n /\ \A i \in 1..n : top[i] = key[i]
  BY <1>1, PrefixOf
<1>4. top \in DOMAIN t /\ t[top].type = "dynamic" /\ n < Len(key)
      /\ \A k \in (n + 1)..Len(key) : Prefix(key, k) \notin DOMAIN t
  BY <1>1, <1>2 DEF EndsAt
<1> HIDE DEF top
<1>5. n >= 1 /\ top[1] = "test_suites"
  <2>1. CASE top \in BuiltIn
    <3>1. top = <<"test_suites">>
      BY <1>4, <2>1, BuiltInKeys DEF Shaped
    <3> QED
      BY <1>3, <3>1, TestSuites
  <2>2. CASE top \notin BuiltIn
    BY <1>3, <1>4, <2>2 DEF Shaped
  <2> QED
    BY <2>1, <2>2
<1>6. 1 \in 1..n /\ Len(key) > 1
  BY <1>1, <1>4, <1>5
<1>7. key[1] = "test_suites"
  BY <1>3, <1>5, <1>6
<1>8. ASSUME NEW p \in Ancestors(key)
      PROVE  IF p \in DOMAIN t THEN t[p].type \in Inner ELSE Len(p) > 1 /\ p[1] = "test_suites"
  <2>1. PICK m \in 0..(Len(key) - 1) : p = Prefix(key, m)
    BY DEF Ancestors
  <2>2. Len(p) = m /\ \A i \in 1..m : p[i] = key[i]
    BY <1>1, <2>1, PrefixOf
  <2>3. CASE m < n
    <3>1. Prefix(top, m) = p
      BY <1>1, <2>1, <2>3, PrefixOfPrefix DEF top
    <3>2. p \in Ancestors(top)
      BY <1>3, <2>3, <3>1 DEF Ancestors
    <3> QED
      BY <1>4, <3>2 DEF Shaped, IsTree
  <2>4. CASE m = n
    BY <1>4, <2>1, <2>4 DEF Inner, top
  <2>5. CASE m > n
    <3>1. p \notin DOMAIN t
      BY <1>1, <1>4, <2>1, <2>5
    <3>2. m > 1 /\ 1 \in 1..m
      BY <1>5, <2>5
    <3> QED
      BY <1>7, <2>2, <3>1, <3>2
  <2> QED
    BY <2>3, <2>4, <2>5
<1> QED
  BY <1>6, <1>7, <1>8

LEMMA ParsedIsSet ==
  ASSUME NEW type, NEW text \in Texts, Accepts(type, text)
  PROVE  Parsed(type, text) # NotSet
<1>1. text # NotSet /\ set_words(text) # NotSet /\ NotSet \notin find_user(text)
  BY NotSetAssumption
<1>2. CASE type = "user"
  <2>1. find_user(text) # {}
    BY <1>2 DEF Accepts
  <2>2. (CHOOSE u \in find_user(text) : TRUE) \in find_user(text)
    BY <2>1
  <2>3. Parsed(type, text) = CHOOSE u \in find_user(text) : TRUE
    BY <1>2 DEF Parsed
  <2> QED
    BY <1>1, <2>2, <2>3
<1>3. CASE type = "strings_set"
  BY <1>1, <1>3 DEF Parsed
<1>4. CASE type \notin {"user", "strings_set"}
  BY <1>1, <1>4 DEF Parsed
<1> QED
  BY <1>2, <1>3, <1>4

(* All of this stays when a key is set.                                      *)
LEMMA TookShaped ==
  ASSUME NEW t, Shaped(t), NEW key \in Key, NEW text \in Texts, NEW u, Took(t, key, text, u)
  PROVE  Shaped(u)
<1>1. CASE Stuck(t, key) /\ u = t
  BY <1>1
<1>2. CASE Wrote(t, key, text, u)
  <2>1. IsTree(t)
    BY DEF Shaped
  <2>2. /\ u = [k \in DOMAIN u |-> u[k]] /\ DOMAIN u = DOMAIN t \cup Ancestors(key) \cup {key}
        /\ \A k \in DOMAIN t \ {key} : u[k] = t[k]
        /\ \A k \in Ancestors(key) \ DOMAIN t : u[k] = node("dynamic")
        /\ u[key].type = IF key \in DOMAIN t THEN t[key].type ELSE "string"
        /\ u[key] = [type |-> u[key].type, value |-> Parsed(u[key].type, text)]
    BY <1>2 DEF Wrote
  <2>3. u[key].value # NotSet
    BY <1>2, <2>2, ParsedIsSet DEF Wrote
  <2>4. key \notin DOMAIN t => MayGrow(t, key)
    BY <1>2 DEF Wrote, IsLeaf
  <2>5. u[key].type \notin Inner /\ (key \in DOMAIN t => t[key].type \notin Inner)
    BY <1>2 DEF Wrote, IsLeaf, MayGrow, Inner
  <2>6. \A p \in Ancestors(key) : p # key /\ p \in Key /\ Ancestors(p) \subseteq Ancestors(key)
    BY AncestorsOf
  <2>7. \A k \in Ancestors(key) \ DOMAIN t : u[k].type = "dynamic" /\ IsNode(u[k])
    BY <2>2 DEF node, IsNode
  <2>8. \A p \in Ancestors(key) : u[p].type \in Inner
    <3> SUFFICES ASSUME NEW p \in Ancestors(key) PROVE u[p].type \in Inner
      OBVIOUS
    <3>1. CASE p \notin DOMAIN t
      BY <2>7, <3>1 DEF Inner
    <3>2. CASE p \in DOMAIN t /\ key \in DOMAIN t
      BY <2>1, <2>2, <2>6, <3>2 DEF IsTree
    <3>3. CASE p \in DOMAIN t /\ key \notin DOMAIN t
      <4>1. t[p].type \in Inner
        BY <2>4, <3>3, GrowsBelow
      <4> QED
        BY <2>2, <2>6, <3>3, <4>1
    <3> QED
      BY <3>1, <3>2, <3>3
  <2>9. DOMAIN u \subseteq Key /\ <<>> \in DOMAIN u
    BY <2>1, <2>2, <2>6 DEF IsTree
  <2>10. IsNode(u[key])
    BY <2>2, <2>5 DEF IsNode
  <2>11. ASSUME NEW k \in DOMAIN u
         PROVE  IsNode(u[k]) /\ \A p \in Ancestors(k) : p \in DOMAIN u /\ u[p].type \in Inner
    <3>1. CASE k = key
      BY <2>2, <2>8, <2>10, <3>1
    <3>2. CASE k \in Ancestors(key) /\ k \notin DOMAIN t
      BY <2>2, <2>6, <2>7, <2>8, <3>2
    <3>3. CASE k \in DOMAIN t /\ k # key
      <4>1. IsNode(t[k]) /\ \A p \in Ancestors(k) : p \in DOMAIN t /\ t[p].type \in Inner
        BY <2>1, <3>3 DEF IsTree
      <4>2. \A p \in Ancestors(k) : p # key
        BY <2>5, <4>1
      <4> QED
        BY <2>2, <3>3, <4>1, <4>2
    <3> QED
      BY <2>2, <3>1, <3>2, <3>3
  <2>12. IsTree(u)
    BY <2>2, <2>9, <2>11 DEF IsTree
  <2>13. \A k \in BuiltIn : k \in DOMAIN u /\ u[k].type = TypeOf(k)
    BY <2>2 DEF Shaped
  <2>14. ASSUME NEW k \in DOMAIN u \ BuiltIn
         PROVE  /\ Len(k) > 1 /\ k[1] = "test_suites"
                /\ u[k].type = "dynamic" \/ (u[k].type = "string" /\ u[k].value # NotSet)
    <3>1. CASE k \in DOMAIN t /\ k # key
      BY <2>2, <3>1 DEF Shaped
    <3>2. CASE k = key /\ key \in DOMAIN t
      <4>1. Len(k) > 1 /\ k[1] = "test_suites" /\ t[k].type \in {"dynamic", "string"}
        BY <3>2 DEF Shaped
      <4>2. t[k].type = "string"
        BY <2>5, <3>2, <4>1 DEF Inner
      <4> QED
        BY <2>2, <2>3, <3>2, <4>1, <4>2
    <3>3. CASE k = key /\ key \notin DOMAIN t
      <4>1. Len(key) > 1 /\ key[1] = "test_suites"
        BY <2>4, <3>3, GrowsBelow
      <4> QED
        BY <2>2, <2>3, <3>3, <4>1
    <3>4. CASE k \in Ancestors(key) /\ k \notin DOMAIN t
      <4>1. key \notin DOMAIN t
        BY <2>1, <3>4 DEF IsTree
      <4>2. Len(k) > 1 /\ k[1] = "test_suites"
        BY <2>4, <3>4, <4>1, GrowsBelow
      <4> QED
        BY <2>7, <3>4, <4>2
    <3> QED
      BY <2>2, <3>1, <3>2, <3>3, <3>4
  <2> QED
    BY <2>12, <2>13, <2>14 DEF Shaped
<1> QED
  BY <1>1, <1>2 DEF Took

LEMMA StaysSet ==
  ASSUME NEW t, NEW key, NEW text \in Texts, NEW u, Took(t, key, text, u), NEW k, k # key
  PROVE  is_set(u, k) <=> is_set(t, k)
<1>1. CASE u = t
  BY <1>1
<1>2. CASE Wrote(t, key, text, u)
  <2>1. CASE k \in DOMAIN t
    BY <1>2, <2>1 DEF Wrote, is_set, lookup_ro
  <2>2. CASE k \in Ancestors(key) /\ k \notin DOMAIN t
    BY <1>2, <2>2 DEF Wrote, is_set, lookup_ro, node
  <2>3. CASE k \notin DOMAIN t \cup Ancestors(key)
    BY <1>2, <2>3 DEF Wrote, is_set, lookup_ro
  <2> QED
    BY <2>1, <2>2, <2>3
<1> QED
  BY <1>1, <1>2 DEF Took

LEMMA WroteIsSet ==
  ASSUME NEW t, NEW key, NEW text \in Texts, NEW u, Wrote(t, key, text, u)
  PROVE  is_set(u, key) /\ u[key].value = Parsed(u[key].type, text)
<1>1. u[key].value = Parsed(u[key].type, text) /\ key \in DOMAIN u /\ Accepts(u[key].type, text)
  BY DEF Wrote
<1> QED
  BY <1>1, ParsedIsSet DEF is_set, lookup_ro

LEMMA TookHolds ==
  ASSUME NEW t, NEW said, Holds(t, said), NEW key, NEW text \in Texts,
         NEW u, Took(t, key, text, u), NEW more, Adds(said, key, text, more)
  PROVE  Holds(u, more)
<1>1. \A k : k # key => SaidTo(more, k) = SaidTo(said, k)
  BY DEF Adds
<1>2. ASSUME NEW k, k # key, NEW type PROVE Word(more, k, type) = Word(said, k, type)
  BY <1>2 DEF Adds, Word
<1>3. ASSUME NEW k \in DOMAIN t, k # key, u[k] = t[k], u[k].type \notin Inner
      PROVE  u[k].value = Word(more, k, u[k].type) /\ (SaidTo(more, k) # {} => u[k].value # NotSet)
  BY <1>1, <1>2, <1>3 DEF Holds
<1>4. CASE Stuck(t, key) /\ u = t
  BY <1>3, <1>4 DEF Stuck, Holds
<1>5. CASE Wrote(t, key, text, u)
  <2>1. u[key].value = Word(more, key, u[key].type) /\ u[key].value # NotSet
    BY <1>5, WroteIsSet DEF Adds, Word, is_set
  <2>2. ASSUME NEW k \in DOMAIN u, u[k].type \notin Inner, k # key
        PROVE  k \in DOMAIN t /\ u[k] = t[k]
    BY <1>5, <2>2 DEF Wrote, node, Inner
  <2> QED
    BY <1>3, <2>1, <2>2 DEF Holds
<1> QED
  BY <1>4, <1>5 DEF Took

(* What cannot be set has no place, or lies below a value.                   *)
LEMMA StuckBelow ==
  ASSUME NEW t, Shaped(t), NEW key \in Key, key # <<>>, Stuck(t, key)
  PROVE  \/ key[1] # "test_suites" /\ key \notin BuiltIn
         \/ \E p \in Above(key) : is_set(t, p)
<1>1. Len(key) \in Nat /\ Len(key) > 0 /\ key \notin BuiltIn
  BY KeyLength DEF Shaped, Stuck
<1>2. PICK n \in 0..(Len(key) - 1) : EndsAt(t, key, n) /\ t[Prefix(key, n)].type # "dynamic"
  BY DEF Stuck
<1> DEFINE top == Prefix(key, n)
<1>3. top \in Key /\ Len(top) = n /\ \A i \in 1..n : top[i] = key[i]
  BY <1>1, PrefixOf
<1>4. top \in DOMAIN t /\ t[top].type # "dynamic"
      /\ \A k \in (n + 1)..Len(key) : Prefix(key, k) \notin DOMAIN t
  BY <1>1, <1>2 DEF EndsAt
<1> HIDE DEF top
<1>5. CASE n = 0
  <2>1. Prefix(key, 1) \notin DOMAIN t
    BY <1>1, <1>4, <1>5
  <2>2. Prefix(key, 1) \in Key /\ Len(Prefix(key, 1)) = 1 /\ \A i \in 1..1 : Prefix(key, 1)[i] = key[i]
    <3>1. 1 \in 0..Len(key)
      BY <1>1
    <3> QED
      BY <3>1, PrefixOf
  <2>3. Prefix(key, 1) # <<"test_suites">>
    BY <2>1, TestSuites DEF Shaped
  <2>4. ASSUME key[1] = "test_suites" PROVE Prefix(key, 1) = <<"test_suites">>
    <3>1. \A i \in 1..1 : Prefix(key, 1)[i] = <<"test_suites">>[i]
      BY <2>2, <2>4, TestSuites
    <3> QED
      BY <2>2, <3>1, TestSuites, KeysEqual
  <2> QED
    BY <1>1, <2>3, <2>4
<1>6. CASE n > 0 /\ top \in BuiltIn
  <2>1. top # <<>> /\ n = 1
    BY <1>3, <1>6, KeyLength, BuiltInKeys
  <2>2. top # <<"test_suites">>
    BY <1>4, TestSuites DEF Shaped
  <2>3. top[1] # "test_suites"
    BY <1>6, <2>1, <2>2, BuiltInKeys
  <2> QED
    BY <1>1, <1>3, <2>1, <2>3
<1>7. CASE n > 0 /\ top \notin BuiltIn
  <2>1. is_set(t, top)
    BY <1>4, <1>7 DEF Shaped, is_set, lookup_ro
  <2>2. top \in Above(key)
    BY <1>1, <1>7 DEF top, Above
  <2> QED
    BY <2>1, <2>2
<1> QED
  BY <1>5, <1>6, <1>7

LEMMA TookHeard ==
  ASSUME NEW t, Shaped(t), NEW said, Heard(t, said), NEW key \in Key, key # <<>>, NEW text \in Texts,
         NEW u, Took(t, key, text, u), NEW more, Adds(said, key, text, more)
  PROVE  Heard(u, more)
<1>1. ASSUME NEW k, is_set(t, k) PROVE is_set(u, k)
  <2>1. CASE k # key
    BY <1>1, <2>1, StaysSet
  <2>2. CASE k = key
    <3>1. ~Stuck(t, key)
      BY <1>1, <2>2 DEF is_set, lookup_ro, Stuck
    <3> QED
      BY <2>2, <3>1, WroteIsSet DEF Took
  <2> QED
    BY <2>1, <2>2
<1>2. ASSUME NEW k, SaidTo(more, k) # {}
      PROVE  /\ k \in Key /\ k # <<>>
             /\ \/ is_set(u, k)
                \/ k[1] # "test_suites" /\ k \notin BuiltIn
                \/ \E p \in Above(k) : is_set(u, p)
  <2>1. CASE k # key
    <3>1. SaidTo(said, k) # {}
      BY <1>2, <2>1 DEF Adds
    <3> QED
      BY <1>1, <3>1 DEF Heard
  <2>2. CASE k = key /\ Stuck(t, key) /\ u = t
    BY <2>2, StuckBelow
  <2>3. CASE k = key /\ Wrote(t, key, text, u)
    BY <2>3, WroteIsSet
  <2> QED
    BY <2>1, <2>2, <2>3 DEF Took
<1> QED
  BY <1>2 DEF Heard

(* What the tables of the script hold, of the keys that are redirected.      *)
LuaSays(t, globals_of, own) ==
  \A k \in DOMAIN globals_of \ own :
    IF globals_of[k] = Table THEN ~is_set(t, k)
    ELSE lookup_ro(t, k) => t[k].value = Parsed(t[k].type, globals_of[k])

LEMMA TookLua ==
  ASSUME LuaSays(tree, lua, early), IsTree(tree), NEW a \in Assignments, a.key \in Key, a.key # <<>>,
         Reachable(a.key), NEW u, Took(tree, a.key, a.value.text, u), early' = early,
         lua' = Onto(Given(a), Onto(Tables(Above(a.key)), lua))
  PROVE  LuaSays(u, lua', early')
<1> DEFINE key == a.key
<1> DEFINE text == a.value.text
<1>1. text \in Texts /\ text # Table
  BY TextsAssumption DEF Texts
<1>2. DOMAIN Given(a) = {key} /\ Given(a)[key] = text
  BY DEF Given
<1>3. DOMAIN Tables(Above(key)) = {k \in Above(key) \ DOMAIN lua : ~is_set(tree, k)}
      /\ \A k \in DOMAIN Tables(Above(key)) : Tables(Above(key))[k] = Table
  BY DEF Tables
<1>4. /\ DOMAIN lua' = {key} \cup DOMAIN Tables(Above(key)) \cup DOMAIN lua
      /\ lua'[key] = text
      /\ \A k \in DOMAIN Tables(Above(key)) \ {key} : lua'[k] = Table
      /\ \A k \in DOMAIN lua \ {key} : lua'[k] = lua[k]
  BY <1>2, <1>3 DEF Onto
<1> HIDE DEF key, text
<1> SUFFICES ASSUME NEW k \in DOMAIN lua' \ early
             PROVE  IF lua'[k] = Table THEN ~is_set(u, k)
                    ELSE lookup_ro(u, k) => u[k].value = Parsed(u[k].type, lua'[k])
  BY DEF LuaSays
<1>5. CASE k = key
  <2>1. lua'[k] # Table
    BY <1>1, <1>4, <1>5
  <2>2. CASE Stuck(tree, key) /\ u = tree
    BY <1>5, <2>1, <2>2 DEF Stuck, lookup_ro
  <2>3. CASE Wrote(tree, key, text, u)
    BY <1>1, <1>4, <1>5, <2>1, <2>3, WroteIsSet
  <2> QED
    BY <2>2, <2>3 DEF Took, key, text
<1>6. k # key => (is_set(u, k) <=> is_set(tree, k))
  BY <1>1, StaysSet DEF key, text
<1>7. CASE k # key /\ k \in DOMAIN Tables(Above(key))
  BY <1>3, <1>4, <1>6, <1>7
<1>8. CASE k # key /\ k \in DOMAIN lua /\ lua[k] = Table
  BY <1>4, <1>6, <1>8 DEF LuaSays
<1>9. CASE k # key /\ k \in DOMAIN lua /\ lua[k] # Table
  <2>1. lua'[k] = lua[k] /\ (lookup_ro(tree, k) => tree[k].value = Parsed(tree[k].type, lua[k]))
    BY <1>4, <1>9 DEF LuaSays
  <2>2. k \notin Above(key)
    BY <1>9 DEF Reachable, ValueAt, key
  <2>3. k \in Ancestors(key) => k \in DOMAIN tree
    <3>1. key \in Key /\ Len(key) \in Nat
      BY KeyLength DEF key
    <3>2. Prefix(key, 0) = <<>>
      <4>1. 0 \in 0..Len(key)
        BY <3>1
      <4> QED
        BY <3>1, <4>1, PrefixOf, KeyLength
    <3>3. \A n \in 0..(Len(key) - 1) : n = 0 \/ n \in 1..(Len(key) - 1)
      BY <3>1
    <3> QED
      BY <2>2, <3>2, <3>3 DEF Ancestors, Above, IsTree
  <2>4. lookup_ro(u, k) => lookup_ro(tree, k) /\ u[k] = tree[k]
    <3>1. CASE u = tree
      BY <3>1
    <3>2. CASE Wrote(tree, key, text, u)
      BY <1>9, <2>3, <3>2 DEF Wrote, lookup_ro
    <3> QED
      BY <3>1, <3>2 DEF Took, key, text
  <2> QED
    BY <1>9, <2>1, <2>4
<1> QED
  BY <1>4, <1>5, <1>7, <1>8, <1>9
-----------------------------------------------------------------------------
(* As soon as there is a configuration, it has its shape, its leaves hold the*)
(* last words, and the tables of the script agree with it.  Before, a script *)
(* only has variables of its own.                                            *)
Sound(t, said) == Shaped(t) /\ Holds(t, said) /\ Heard(t, said)

ConfigInv ==
  /\ IsSequence(assigned)
  /\ phase = "choosing" => ~syntax_called
  /\ phase \in {"choosing", "script"} /\ ~syntax_called => assigned = <<>> /\ DOMAIN lua \subseteq early
  /\ phase = "script" /\ syntax_called => Sound(tree, assigned) /\ LuaSays(tree, lua, early)
  /\ phase \in {"overriding", "done", "failed"} => Sound(tree, assigned)

LEMMA DefaultSound == Sound(default_config, <<>>) /\ IsSequence(<<>>)
<1>1. \A k : SaidTo(<<>>, k) = {}
  BY DEF SaidTo
<1>2. Shaped(default_config)
  BY DefaultConfig DEF Shaped
<1>3. Holds(default_config, <<>>)
  BY <1>1, DefaultConfig DEF Holds, Word
<1>4. Heard(default_config, <<>>)
  BY <1>1 DEF Heard
<1>5. IsSequence(<<>>)
  <2>1. <<>> \in Seq({})
    OBVIOUS
  <2> QED
    BY <2>1 DEF IsSequence
<1> QED
  BY <1>2, <1>3, <1>4, <1>5 DEF Sound

LEMMA TookSound ==
  ASSUME NEW t, NEW said, Sound(t, said), NEW key \in Key, key # <<>>, NEW text \in Texts,
         NEW u, Took(t, key, text, u), NEW more, Adds(said, key, text, more)
  PROVE  Sound(u, more)
BY TookShaped, TookHolds, TookHeard DEF Sound

LEMMA ConfigStart == Init => ConfigInv
<1> SUFFICES ASSUME Init PROVE ConfigInv
  OBVIOUS
<1>1. DOMAIN lua = {}
  BY DEF Init, Nothing
<1> QED
  BY <1>1, DefaultSound DEF Init, ConfigInv

LEMMA FailKeeps == ASSUME Fail, phase' = "script" => FALSE PROVE ConfigInv'
<1>1. tree' = default_config /\ assigned' = <<>> /\ phase' \in {"failed", "done"}
  BY DEF Fail
<1>2. Sound(tree', assigned') /\ IsSequence(assigned')
  BY <1>1, DefaultSound
<1> QED
  BY <1>1, <1>2 DEF ConfigInv

LEMMA ChooseFileKeeps == ASSUME ConfigInv, ChooseFile PROVE ConfigInv'
<1>1. phase = "choosing" /\ UNCHANGED <<env, syntax_called, lua, early>>
  BY DEF ChooseFile
<1>2. assigned = <<>> /\ ~syntax_called /\ DOMAIN lua \subseteq early /\ IsSequence(assigned)
  BY <1>1 DEF ConfigInv
<1>3. CASE phase' = "overriding" /\ tree' = default_config /\ UNCHANGED assigned
  BY <1>1, <1>2, <1>3, DefaultSound DEF ConfigInv
<1>4. CASE Fail
  BY <1>4, FailKeeps DEF Fail
<1>5. CASE phase' = "script" /\ UNCHANGED <<tree, assigned>>
  BY <1>1, <1>2, <1>5 DEF ConfigInv
<1> QED
  BY <1>3, <1>4, <1>5 DEF ChooseFile

LEMMA ScriptErrorKeeps == ASSUME ScriptError PROVE ConfigInv'
BY FailKeeps DEF ScriptError, Fail

LEMMA AbortsKeeps == ASSUME ConfigInv, Aborts PROVE ConfigInv'
BY DEF ConfigInv, Aborts

LEMMA CallSyntaxKeeps == ASSUME ConfigInv, CallSyntax PROVE ConfigInv'
<1>1. phase = "script"
  BY DEF CallSyntax
<1>2. PICK call \in SyntaxCalls :
        IF lua_syntax(call) /\ ~syntax_called /\ setup(call)
        THEN /\ syntax_called' = TRUE /\ tree' = default_config
             /\ UNCHANGED <<phase, env, lua, early, assigned>>
        ELSE ScriptError
  BY DEF CallSyntax
<1>3. CASE ScriptError
  BY <1>3, ScriptErrorKeeps
<1>4. CASE ~syntax_called /\ syntax_called' = TRUE /\ tree' = default_config
           /\ UNCHANGED <<phase, env, lua, early, assigned>>
  <2>1. assigned' = <<>> /\ DOMAIN lua' \subseteq early'
    BY <1>1, <1>4 DEF ConfigInv
  <2>2. Sound(tree', assigned') /\ IsSequence(assigned')
    BY <1>4, <2>1, DefaultSound
  <2>3. LuaSays(tree', lua', early')
    BY <2>1 DEF LuaSays
  <2> QED
    BY <1>1, <1>4, <2>2, <2>3 DEF ConfigInv
<1> QED
  BY <1>2, <1>3, <1>4

LEMMA KeysGiven ==
  /\ \A a \in Assignments : a.key \in Key
  /\ \A o \in Overrides : o.key \in Key
<1>1. Seq(STRING) \subseteq Key
  BY SeqMonotonic DEF Key, Name
<1> QED
  BY <1>1, KeysAssumption

LEMMA RedirectedKeeps ==
  ASSUME ConfigInv, Running, NEW a \in Assignments, Reachable(a.key), redirected(a.key),
         set_lua(tree, FALSE, a.key, a.value).error = "",
         tree' = set_lua(tree, FALSE, a.key, a.value).tree,
         lua' = Onto(Given(a), Onto(Tables(Above(a.key)), lua)),
         assigned' = Append(assigned, [key |-> a.key, text |-> a.value.text]),
         UNCHANGED <<phase, env, syntax_called, early>>
  PROVE  ConfigInv'
<1>1. phase = "script" /\ syntax_called
  BY DEF Running, redirected
<1>2. Sound(tree, assigned) /\ LuaSays(tree, lua, early) /\ IsSequence(assigned)
  BY <1>1 DEF ConfigInv
<1>3. a.key \in Key /\ a.value.text \in Texts
  BY KeysGiven DEF Texts
<1>4. IsTree(tree)
  BY <1>2 DEF Sound, Shaped
<1>5. ValidKey(a.key) /\ Took(tree, a.key, a.value.text, tree')
  BY <1>3, <1>4, SetLuaTakes
<1>6. a.key # <<>>
  BY <1>5 DEF ValidKey
<1>7. Adds(assigned, a.key, a.value.text, assigned') /\ IsSequence(assigned')
  <2> DEFINE e == [key |-> a.key, text |-> a.value.text]
  <2>1. e.key = a.key /\ e.text = a.value.text
    OBVIOUS
  <2> HIDE DEF e
  <2>2. Adds(assigned, e.key, e.text, Append(assigned, e))
    BY <1>2, Saying
  <2>3. Adds(assigned, a.key, a.value.text, Append(assigned, e))
    BY <2>1, <2>2
  <2>4. assigned' = Append(assigned, e)
    BY DEF e
  <2> QED
    BY <2>3, <2>4 DEF Adds
<1>8. Sound(tree', assigned')
  BY <1>2, <1>3, <1>5, <1>6, <1>7, TookSound
<1>9. LuaSays(tree', lua', early')
  BY <1>2, <1>3, <1>4, <1>5, <1>6, TookLua
<1> QED
  BY <1>1, <1>7, <1>8, <1>9 DEF ConfigInv

LEMMA EarlyKeeps ==
  ASSUME ConfigInv, Running, NEW a \in Assignments, ~redirected(a.key),
         early' = early \cup {a.key}, lua' = Onto(Given(a), lua),
         UNCHANGED <<phase, env, tree, syntax_called, assigned>>
  PROVE  ConfigInv'
<1>1. phase = "script"
  BY DEF Running
<1>2. DOMAIN lua' = {a.key} \cup DOMAIN lua /\ \A k \in DOMAIN lua \ {a.key} : lua'[k] = lua[k]
  BY DEF Onto, Given
<1>3. CASE ~syntax_called
  BY <1>1, <1>2, <1>3 DEF ConfigInv
<1>4. CASE syntax_called
  <2>1. LuaSays(tree, lua, early) /\ Sound(tree, assigned) /\ IsSequence(assigned)
    BY <1>1, <1>4 DEF ConfigInv
  <2>2. LuaSays(tree, lua', early')
    BY <1>2, <2>1 DEF LuaSays
  <2> QED
    BY <1>1, <1>4, <2>1, <2>2 DEF ConfigInv
<1> QED
  BY <1>3, <1>4

LEMMA AssignKeeps == ASSUME ConfigInv, Assign PROVE ConfigInv'
<1>1. Running
  BY DEF Assign
<1>2. PICK a \in Assignments :
       IF syntax_called /\ Pushes(Above(a.key)) # {} THEN Aborts
       ELSE IF ~Reachable(a.key) THEN ScriptError
       ELSE IF redirected(a.key)
       THEN LET r == set_lua(tree, FALSE, a.key, a.value)
            IN IF WithUnderscore(a.key) THEN ScriptError
               ELSE IF r.error = "abort" THEN Aborts
               ELSE IF r.error # "" THEN ScriptError
               ELSE   /\ tree' = r.tree
                      /\ lua' = Onto(Given(a), Onto(Tables(Above(a.key)), lua))
                      /\ assigned' = Append(assigned, [key |-> a.key, text |-> a.value.text])
                      /\ UNCHANGED <<phase, env, syntax_called, early>>
       ELSE IF Len(a.key) > 1 THEN ScriptError
       ELSE /\ early' = early \cup {a.key}
            /\ lua' = Onto(Given(a), lua)
            /\ UNCHANGED <<phase, env, tree, syntax_called, assigned>>
  BY DEF Assign
<1>3. CASE Aborts
  BY <1>3, AbortsKeeps
<1>4. CASE ScriptError
  BY <1>4, ScriptErrorKeeps
<1>5. CASE ~Aborts /\ ~ScriptError /\ redirected(a.key)
  <2> DEFINE r == set_lua(tree, FALSE, a.key, a.value)
  <2>1. /\ Reachable(a.key) /\ r.error = "" /\ tree' = r.tree
        /\ lua' = Onto(Given(a), Onto(Tables(Above(a.key)), lua))
        /\ assigned' = Append(assigned, [key |-> a.key, text |-> a.value.text])
        /\ UNCHANGED <<phase, env, syntax_called, early>>
    BY <1>2, <1>5, Zenon
  <2> QED
    BY <1>1, <1>5, <2>1, RedirectedKeeps, Zenon
<1>6. CASE ~Aborts /\ ~ScriptError /\ ~redirected(a.key)
  <2>1. /\ early' = early \cup {a.key} /\ lua' = Onto(Given(a), lua)
        /\ UNCHANGED <<phase, env, tree, syntax_called, assigned>>
    BY <1>2, <1>6, Zenon
  <2> QED
    BY <1>1, <1>6, <2>1, EarlyKeeps, Zenon
<1> QED
  BY <1>3, <1>4, <1>5, <1>6

LEMMA ReadKeeps == ASSUME ConfigInv, Read PROVE ConfigInv'
<1>1. phase = "script" /\ syntax_called
  BY DEF Read, Running
<1>2. PICK key \in Reads :
       IF Pushes(Above(key) \cup {key}) # {} THEN Aborts
       ELSE IF ~Reachable(key) \/ WithUnderscore(key) THEN ScriptError
       ELSE /\ lua' = Onto(Tables(Above(key) \cup {key}), lua)
            /\ UNCHANGED <<phase, env, tree, syntax_called, early, assigned>>
  BY DEF Read
<1>3. CASE Aborts
  BY <1>3, AbortsKeeps
<1>4. CASE ScriptError
  BY <1>4, ScriptErrorKeeps
<1>5. CASE lua' = Onto(Tables(Above(key) \cup {key}), lua)
           /\ UNCHANGED <<phase, env, tree, syntax_called, early, assigned>>
  <2>1. LuaSays(tree, lua, early) /\ Sound(tree, assigned) /\ IsSequence(assigned)
    BY <1>1 DEF ConfigInv
  <2>2. \A k \in DOMAIN lua' : IF k \in DOMAIN lua THEN lua'[k] = lua[k]
                               ELSE lua'[k] = Table /\ ~is_set(tree, k)
    BY <1>5 DEF Onto, Tables
  <2>3. LuaSays(tree, lua', early)
    BY <2>1, <2>2 DEF LuaSays
  <2> QED
    BY <1>1, <1>5, <2>1, <2>3 DEF ConfigInv
<1> QED
  BY <1>2, <1>3, <1>4, <1>5

LEMMA EndOfFileKeeps == ASSUME ConfigInv, EndOfFile PROVE ConfigInv'
<1>1. CASE ScriptError
  BY <1>1, ScriptErrorKeeps
<1>2. CASE phase = "script" /\ syntax_called /\ phase' = "overriding"
           /\ UNCHANGED <<env, tree, syntax_called, lua, early, assigned>>
  BY <1>2 DEF ConfigInv
<1> QED
  BY <1>1, <1>2 DEF EndOfFile

LEMMA OverrideKeeps == ASSUME ConfigInv, Override PROVE ConfigInv'
<1>1. phase = "overriding" /\ UNCHANGED <<env, syntax_called, lua, early>>
  BY DEF Override
<1>2. PICK o \in Overrides :
       LET r == tree_set_string(tree, FALSE, o.key, o.text)
       IN IF r.error = ""
          THEN /\ tree' = r.tree
               /\ assigned' = Append(assigned, [key |-> o.key, text |-> o.text, from |-> "-v"])
               /\ UNCHANGED phase
          ELSE Fail
  BY DEF Override
<1>3. CASE Fail
  BY <1>3, FailKeeps DEF Fail
<1>4. CASE ~Fail
  <2>1. /\ tree_set_string(tree, FALSE, o.key, o.text).error = ""
        /\ tree' = tree_set_string(tree, FALSE, o.key, o.text).tree
        /\ assigned' = Append(assigned, [key |-> o.key, text |-> o.text, from |-> "-v"])
        /\ UNCHANGED phase
    BY <1>2, <1>4, Zenon
  <2>2. Sound(tree, assigned) /\ IsSequence(assigned)
    BY <1>1 DEF ConfigInv
  <2>3. o.key \in Key /\ o.text \in Texts
    BY KeysGiven DEF Texts
  <2>4. IsTree(tree)
    BY <2>2 DEF Sound, Shaped
  <2>5. ValidKey(o.key) /\ Took(tree, o.key, o.text, tree')
    BY <2>1, <2>3, <2>4, SetStringTakes
  <2>6. o.key # <<>>
    BY <2>5 DEF ValidKey
  <2>7. Adds(assigned, o.key, o.text, assigned') /\ IsSequence(assigned')
    <3> DEFINE e == [key |-> o.key, text |-> o.text, from |-> "-v"]
    <3>1. e.key = o.key /\ e.text = o.text
      OBVIOUS
    <3>2. assigned' = Append(assigned, e)
      BY <2>1
    <3> HIDE DEF e
    <3>3. Adds(assigned, e.key, e.text, Append(assigned, e))
      BY <2>2, Saying
    <3>4. Adds(assigned, o.key, o.text, Append(assigned, e))
      BY <3>1, <3>3
    <3> QED
      BY <3>2, <3>4 DEF Adds
  <2>8. Sound(tree', assigned')
    BY <2>2, <2>3, <2>5, <2>6, <2>7, TookSound
  <2>9. phase' = "overriding"
    BY <1>1, <2>1
  <2> QED
    BY <2>7, <2>8, <2>9 DEF ConfigInv
<1> QED
  BY <1>3, <1>4

LEMMA ConfigStep == ConfigInv /\ [Next]_vars => ConfigInv'
<1> SUFFICES ASSUME ConfigInv, [Next]_vars PROVE ConfigInv'
  OBVIOUS
<1>1. CASE ChooseFile
  BY <1>1, ChooseFileKeeps
<1>2. CASE CallSyntax
  BY <1>2, CallSyntaxKeeps
<1>3. CASE Assign
  BY <1>3, AssignKeeps
<1>4. CASE Read
  BY <1>4, ReadKeeps
<1>5. CASE EndOfFile
  BY <1>5, EndOfFileKeeps
<1>6. CASE Override
  BY <1>6, OverrideKeeps
<1>7. CASE Ready
  BY <1>7 DEF Ready, ConfigInv
<1>8. CASE UNCHANGED vars
  BY <1>8 DEF vars, ConfigInv
<1> QED
  BY <1>1, <1>2, <1>3, <1>4, <1>5, <1>6, <1>7, <1>8 DEF Next

LEMMA LuaFromInv == ConfigInv => LuaAgrees
BY DEF ConfigInv, LuaAgrees, LuaSays

(* What a script reads back from a variable is what the configuration holds: *)
(* redirect_newindex() and redirect_index() keep a copy in the Lua tables,   *)
(* and a copy that is a table never covers a value.                          *)
THEOREM ScriptsReadTheTruth == Spec => []LuaAgrees
BY ConfigStart, ConfigStep, LuaFromInv, PTL DEF Spec
-----------------------------------------------------------------------------
LEMMA SchemaKeys == Schema = BuiltIn
BY InitTree, UndefinedTree DEF Schema

LEMMA WhatIsSaid ==
  ASSUME NEW k
  PROVE  /\ k \in AssignedKeys <=> SaidTo(assigned, k) # {}
         /\ LastWord(k) = IF SaidTo(assigned, k) # {} THEN Parsed(tree[k].type, SaidLast(assigned, k))
                          ELSE Default[k]
<1>1. AssignedTo(k) = SaidTo(assigned, k)
  BY DEF AssignedTo, SaidTo
<1>2. LastText(k) = SaidLast(assigned, k)
  BY <1>1 DEF LastText, SaidLast
<1>3. k \in AssignedKeys <=> SaidTo(assigned, k) # {}
  BY DEF AssignedKeys, SaidTo
<1> QED
  BY <1>1, <1>2, <1>3 DEF LastWord

(* A variable that is set is a leaf that somebody or the program gave a      *)
(* value, and the value is the last word.                                    *)
LEMMA SetIsLastWord ==
  ASSUME Sound(tree, assigned), NEW k, is_set(tree, k)
  PROVE  /\ k \in DOMAIN tree /\ tree[k].type \notin Inner /\ k \in AssignedKeys \cup DOMAIN Default
         /\ tree[k].value = LastWord(k)
<1>1. k \in DOMAIN tree /\ tree[k].value # NotSet
  BY DEF is_set, lookup_ro
<1>2. tree[k].type \notin Inner
  BY <1>1 DEF Sound, Shaped, IsTree, IsNode
<1>3. tree[k].value = Word(assigned, k, tree[k].type)
  BY <1>1, <1>2 DEF Sound, Holds
<1> QED
  BY <1>1, <1>2, <1>3, WhatIsSaid DEF Word, Standard

LEMMA SaidIsSet ==
  ASSUME Sound(tree, assigned), NEW k \in DOMAIN tree, tree[k].type \notin Inner,
         k \in AssignedKeys \cup DOMAIN Default
  PROVE  is_set(tree, k)
<1>1. tree[k].value = Word(assigned, k, tree[k].type)
      /\ (SaidTo(assigned, k) # {} => tree[k].value # NotSet)
  BY DEF Sound, Holds
<1>2. CASE SaidTo(assigned, k) # {}
  BY <1>1, <1>2 DEF is_set, lookup_ro
<1>3. CASE SaidTo(assigned, k) = {}
  <2>1. k \in DOMAIN Default
    BY <1>3, WhatIsSaid
  <2>2. Default[k] # NotSet
    BY <2>1, NotSetAssumption
  <2> QED
    BY <1>1, <1>3, <2>1, <2>2 DEF is_set, lookup_ro, Word, Standard
<1> QED
  BY <1>2, <1>3

LEMMA AllShown ==
  ASSUME Sound(tree, assigned)
  PROVE  LET shown == all_properties(tree, <<>>, FALSE).props
             words == AssignedKeys \cup DOMAIN Default
         IN /\ DOMAIN shown = {k \in words : lookup_ro(tree, k) /\ tree[k].type \notin Inner}
            /\ \A k \in DOMAIN shown : shown[k] = LastWord(k)
<1> DEFINE shown == all_properties(tree, <<>>, FALSE).props
<1>1. <<>> \in DOMAIN tree /\ tree[<<>>].type \in Inner /\ DOMAIN tree \subseteq Key
  BY DEF Sound, Shaped, BuiltIn, TypeOf, Inner, IsTree
<1>2. shown = inner_properties(tree, <<>>)
  BY <1>1 DEF all_properties, lookup_ro
<1>3. ASSUME NEW k \in DOMAIN tree PROVE IsPrefix(<<>>, k)
  <2>1. k \in Key /\ Len(k) \in Nat /\ Len(<<>>) = 0
    BY <1>1, KeyLength
  <2>2. SubSeq(<<>>, 1, 0) = <<>> /\ SubSeq(k, 1, 0) = <<>>
    BY SubSeqEmpty
  <2> QED
    BY <2>1, <2>2 DEF IsPrefix
<1>4. DOMAIN shown = {k \in DOMAIN tree : tree[k].value # NotSet}
      /\ \A k \in DOMAIN shown : shown[k] = tree[k].value
  BY <1>2, <1>3 DEF inner_properties
<1> HIDE DEF shown
<1>5. ASSUME NEW k \in DOMAIN shown
      PROVE  /\ k \in AssignedKeys \cup DOMAIN Default /\ lookup_ro(tree, k) /\ tree[k].type \notin Inner
             /\ shown[k] = LastWord(k)
  <2>1. is_set(tree, k)
    BY <1>4 DEF is_set, lookup_ro
  <2> QED
    BY <1>4, <2>1, SetIsLastWord DEF lookup_ro
<1>6. ASSUME NEW k \in AssignedKeys \cup DOMAIN Default, lookup_ro(tree, k), tree[k].type \notin Inner
      PROVE  k \in DOMAIN shown
  <2>1. is_set(tree, k)
    BY <1>6, SaidIsSet DEF lookup_ro
  <2> QED
    BY <1>4, <2>1 DEF is_set, lookup_ro
<1>7. DOMAIN shown = {k \in AssignedKeys \cup DOMAIN Default : lookup_ro(tree, k) /\ tree[k].type \notin Inner}
  BY <1>5, <1>6
<1> QED
  BY <1>5, <1>7 DEF shown

(* A key is what it begins with and the rest.                                *)
LEMMA TwoAndRest ==
  ASSUME NEW key \in Key, Len(key) > 1 PROVE Prefix(key, 2) \o SubSeq(key, 3, Len(key)) = key
<1>1. Len(key) \in Nat /\ key \in Seq(Name)
  BY KeyLength DEF Key
<1>2. 1 \in 1..(Len(key) + 1) /\ 2 \in (1 - 1)..Len(key) /\ Len(key) \in 2..Len(key)
  BY <1>1
<1>3. SubSeq(key, 1, 2) \o SubSeq(key, 2 + 1, Len(key)) = SubSeq(key, 1, Len(key))
  BY <1>1, <1>2, ConcatAdjacentSubSeq
<1>4. SubSeq(key, 1, Len(key)) = key
  BY WholePrefix DEF Prefix
<1> QED
  BY <1>3, <1>4 DEF Prefix

(* Where a suite is, of which something was said.                            *)
LEMMA SuiteIsThere ==
  ASSUME Sound(tree, assigned), NEW k \in AssignedKeys, Len(k) > 1, k[1] = "test_suites"
  PROVE  LET suite == <<"test_suites", k[2]>>
         IN suite \in DOMAIN tree /\ suite = Prefix(k, 2) /\ Len(suite) = 2 /\ suite \in Key
<1> DEFINE suite == <<"test_suites", k[2]>>
<1>1. k \in Key /\ (is_set(tree, k) \/ \E p \in Above(k) : is_set(tree, p))
  <2>1. SaidTo(assigned, k) # {}
    BY WhatIsSaid
  <2> QED
    BY <2>1 DEF Sound, Heard
<1>2. Len(k) \in Nat /\ 2 \in 0..Len(k)
  BY <1>1, KeyLength
<1>3. Prefix(k, 2) \in Key /\ Len(Prefix(k, 2)) = 2 /\ \A i \in 1..2 : Prefix(k, 2)[i] = k[i]
  BY <1>1, <1>2, PrefixOf
<1>4. suite = Prefix(k, 2)
  <2>1. k[1] \in Name /\ k[2] \in Name
    BY <1>1, <1>2, ElementOfSeq DEF Key
  <2>2. suite \in Key /\ Len(suite) = 2 /\ suite[1] = "test_suites" /\ suite[2] = k[2]
    BY <2>1 DEF Key, Name
  <2> HIDE DEF suite
  <2>3. \A i \in 1..2 : i = 1 \/ i = 2
    OBVIOUS
  <2>4. \A i \in 1..2 : suite[i] = Prefix(k, 2)[i]
    BY <1>3, <2>2, <2>3
  <2> QED
    BY <1>3, <2>2, <2>4, KeysEqual
<1> HIDE DEF suite
<1>5. PICK p \in Key : is_set(tree, p) /\ \E n \in 1..Len(k) : p = Prefix(k, n)
  <2>1. CASE is_set(tree, k)
    BY <1>1, <1>2, <2>1, WholePrefix
  <2>2. CASE \E p \in Above(k) : is_set(tree, p)
    <3>1. PICK n \in 1..(Len(k) - 1) : is_set(tree, Prefix(k, n))
      BY <2>2 DEF Above
    <3>2. n \in 1..Len(k) /\ n \in 0..Len(k)
      BY <1>2
    <3> QED
      BY <1>1, <3>1, <3>2, PrefixOf
  <2> QED
    BY <1>1, <2>1, <2>2
<1>6. PICK n \in 1..Len(k) : p = Prefix(k, n)
  BY <1>5
<1>7. n \in 0..Len(k)
  BY <1>2
<1>8. Len(p) = n /\ \A i \in 1..n : p[i] = k[i]
  BY <1>1, <1>6, <1>7, PrefixOf
<1>9. p \in DOMAIN tree /\ tree[p].type \notin Inner
  BY <1>5, SetIsLastWord
<1>10. n # 1
  <2> SUFFICES ASSUME n = 1 PROVE FALSE
    OBVIOUS
  <2>1. \A i \in 1..1 : p[i] = <<"test_suites">>[i]
    BY <1>8, TestSuites
  <2>2. p = <<"test_suites">>
    BY <1>5, <1>8, <2>1, TestSuites, KeysEqual
  <2>3. tree[p].type = "dynamic"
    BY <2>2, TestSuites DEF Sound, Shaped
  <2> QED
    BY <1>9, <2>3 DEF Inner
<1>11. 2 \in 0..n
  BY <1>2, <1>10
<1>12. Prefix(p, 2) = suite
  BY <1>1, <1>4, <1>6, <1>7, <1>11, PrefixOfPrefix
<1>13. suite \in DOMAIN tree
  <2>1. CASE n = 2
    BY <1>8, <1>9, <1>12, <2>1, <1>5, WholePrefix
  <2>2. CASE n # 2
    <3>1. 2 \in 0..(Len(p) - 1)
      BY <1>2, <1>8, <1>11, <2>2
    <3>2. suite \in Ancestors(p)
      BY <1>12, <3>1 DEF Ancestors
    <3> QED
      BY <1>9, <3>2 DEF Sound, Shaped, IsTree
  <2> QED
    BY <2>1, <2>2
<1>14. suite \in DOMAIN tree /\ suite = Prefix(k, 2) /\ Len(suite) = 2 /\ suite \in Key
  BY <1>3, <1>4, <1>13
<1> QED
  BY <1>14 DEF suite

(* What is below a suite that has no value of its own, without the names of  *)
(* the suite.                                                                *)
Rest(k) == SubSeq(k, 3, Len(k))
BelowSuite(suite) == {k \in AssignedKeys : Len(k) > 2 /\ Prefix(k, 2) = suite /\ is_set(tree, k)}
Told(suite, own) ==
  /\ own = [name \in DOMAIN own |-> own[name]] /\ DOMAIN own = {Rest(k) : k \in BelowSuite(suite)}
  /\ \A name \in DOMAIN own : own[name] = LastWord(suite \o name)

LEMMA LongKey == ASSUME NEW k \in Key, Len(k) > 1 PROVE k \notin DOMAIN Default
<1>1. \A d \in DOMAIN Default : d \in BuiltIn /\ d # <<>>
  BY DEF Default, BuiltIn
<1>2. k \in DOMAIN Default => Len(k) = 1
  BY <1>1, BuiltInKeys
<1>3. PICK n \in Nat : n = Len(k)
  BY KeyLength
<1>4. n # 1
  BY <1>3
<1> QED
  BY <1>2, <1>3, <1>4

LEMMA SuiteProperties ==
  ASSUME Sound(tree, assigned), NEW suite \in Key, Len(suite) = 2, suite \in DOMAIN tree,
         ~is_set(tree, suite)
  PROVE  Told(suite, Stripped(inner_properties(tree, suite), Len(suite)))
<1> DEFINE props == inner_properties(tree, suite)
<1>1. DOMAIN tree \subseteq Key
  BY DEF Sound, Shaped, IsTree
<1>2. ASSUME NEW k \in DOMAIN tree
      PROVE  IsPrefix(suite, k) <=> Len(k) > 1 /\ Prefix(k, 2) = suite
  <2>1. SubSeq(suite, 1, 2) = suite
    BY WholePrefix DEF Prefix
  <2>2. Len(k) \in Nat
    BY <1>1, KeyLength
  <2> QED
    BY <2>1, <2>2 DEF IsPrefix, Prefix
<1>3. DOMAIN props = {k \in DOMAIN tree : IsPrefix(suite, k) /\ tree[k].value # NotSet}
      /\ \A k \in DOMAIN props : props[k] = tree[k].value
  BY DEF inner_properties
<1>4. ASSUME NEW k \in DOMAIN props
      PROVE  k \in BelowSuite(suite) /\ props[k] = LastWord(k) /\ suite \o Rest(k) = k
  <2>1. k \in DOMAIN tree /\ is_set(tree, k) /\ Len(k) > 1 /\ Prefix(k, 2) = suite /\ k \in Key
    BY <1>1, <1>2, <1>3 DEF is_set, lookup_ro
  <2>2. k \in AssignedKeys \cup DOMAIN Default /\ props[k] = LastWord(k)
    BY <1>3, <2>1, SetIsLastWord
  <2>3. k \notin DOMAIN Default
    BY <2>1, LongKey
  <2>4. k # suite /\ Len(k) \in Nat
    BY <2>1, KeyLength
  <2>5. Len(k) # 2
    BY <2>1, <2>4, WholePrefix
  <2>6. suite \o Rest(k) = k
    BY <2>1, TwoAndRest DEF Rest
  <2> QED
    BY <2>1, <2>2, <2>3, <2>4, <2>5, <2>6 DEF BelowSuite
<1>5. ASSUME NEW k \in BelowSuite(suite) PROVE k \in DOMAIN props
  <2>1. k \in DOMAIN tree /\ tree[k].value # NotSet /\ Len(k) > 2 /\ Prefix(k, 2) = suite
    BY DEF BelowSuite, is_set, lookup_ro
  <2>2. Len(k) > 1
    BY <1>1, <2>1, KeyLength
  <2> QED
    BY <1>2, <1>3, <2>1, <2>2
<1>6. DOMAIN props = BelowSuite(suite)
  BY <1>4, <1>5
<1> HIDE DEF props
<1>7. \A k \in DOMAIN props : SubSeq(k, Len(suite) + 1, Len(k)) = Rest(k)
  BY DEF Rest
<1> DEFINE own == Stripped(props, Len(suite))
<1>8. own = [name \in {SubSeq(k, Len(suite) + 1, Len(k)) : k \in DOMAIN props} |->
               props[CHOOSE p \in DOMAIN props : SubSeq(p, Len(suite) + 1, Len(p)) = name]]
  BY DEF Stripped
<1>9. own = [name \in DOMAIN own |-> own[name]]
      /\ DOMAIN own = {SubSeq(k, Len(suite) + 1, Len(k)) : k \in DOMAIN props}
      /\ \A name \in DOMAIN own :
           own[name] = props[CHOOSE p \in DOMAIN props : SubSeq(p, Len(suite) + 1, Len(p)) = name]
  BY <1>8
<1> HIDE DEF own
<1>10. DOMAIN own = {Rest(k) : k \in BelowSuite(suite)}
  <2>1. {SubSeq(k, Len(suite) + 1, Len(k)) : k \in DOMAIN props} = {Rest(k) : k \in DOMAIN props}
    BY <1>7, Zenon
  <2> QED
    BY <1>6, <1>9, <2>1
<1>11. ASSUME NEW name \in DOMAIN own PROVE own[name] = LastWord(suite \o name)
  <2> DEFINE k == CHOOSE p \in DOMAIN props : SubSeq(p, Len(suite) + 1, Len(p)) = name
  <2>1. \E p \in DOMAIN props : SubSeq(p, Len(suite) + 1, Len(p)) = name
    BY <1>9
  <2>2. k \in DOMAIN props /\ SubSeq(k, Len(suite) + 1, Len(k)) = name
    BY <2>1
  <2>3. own[name] = props[k]
    BY <1>9
  <2> HIDE DEF k
  <2>4. Rest(k) = name
    BY <1>7, <2>2
  <2> QED
    BY <1>4, <2>2, <2>3, <2>4
<1>12. Told(suite, own)
  BY <1>9, <1>10, <1>11 DEF Told
<1> QED
  BY <1>12 DEF own, props

User == <<"unprivileged_user">>

LEMMA TheUser ==
  ASSUME Sound(tree, assigned), is_set(tree, User)
  PROVE  lookup(tree, User, "user") = LastWord(User)
<1>1. tree[User].type = "user"
  BY DEF Sound, Shaped, BuiltIn, TypeOf, User
<1>2. lookup(tree, User, "user") = tree[User].value
  BY <1>1 DEF lookup, is_a
<1> QED
  BY <1>2, SetIsLastWord

Informed(suite) ==
  LET given == generate_config(suite)
      below == {k \in AssignedKeys : Len(k) > 2 /\ Prefix(k, 2) = <<"test_suites", suite>> /\ is_set(tree, k)}
      users == IF is_set(tree, <<"unprivileged_user">>) THEN UserNames ELSE {}
  IN IF is_set(tree, <<"test_suites", suite>>) THEN given.error = "value"
     ELSE given = [error |-> "",
                   props |-> [name \in users \cup {SubSeq(k, 3, Len(k)) : k \in below} |->
                                LastWord(IF name \in users THEN <<"unprivileged_user">>
                                         ELSE <<"test_suites", suite>> \o name)]]

LEMMA SuiteIsInformed ==
  ASSUME Sound(tree, assigned), NEW kk \in AssignedKeys, Len(kk) > 1, kk[1] = "test_suites"
  PROVE  Informed(kk[2])
<1> DEFINE suite == <<"test_suites", kk[2]>>
<1>1. suite \in DOMAIN tree /\ Len(suite) = 2 /\ suite \in Key
  BY SuiteIsThere
<1>2. generate_config(kk[2]) =
        LET own == all_properties(tree, suite, TRUE)
            user == [k \in UserNames |-> lookup(tree, User, "user")]
        IN IF own.error = "value" THEN own
           ELSE [error |-> "", props |-> IF is_set(tree, User) THEN Onto(user, own.props) ELSE own.props]
  BY Zenon DEF generate_config, User
<1> HIDE DEF suite
<1> DEFINE own == all_properties(tree, suite, TRUE)
<1>3. CASE is_set(tree, suite)
  <2>1. tree[suite].type \notin Inner /\ lookup_ro(tree, suite)
    BY <1>1, <1>3, SetIsLastWord DEF lookup_ro
  <2>2. own.error = "value"
    BY <2>1 DEF all_properties
  <2>3. generate_config(kk[2]).error = "value"
    BY <1>2, <2>2, Zenon
  <2> QED
    BY <1>3, <2>3, Zenon DEF suite, Informed
<1>4. CASE ~is_set(tree, suite)
  <2> DEFINE P == Stripped(inner_properties(tree, suite), Len(suite))
  <2>1. Told(suite, P)
    BY <1>1, <1>4, SuiteProperties
  <2>2. tree[suite].type \in Inner /\ lookup_ro(tree, suite)
    <3>1. suite # <<>> /\ Len(suite) # 1
      BY <1>1, KeyLength
    <3>2. suite \notin BuiltIn
      BY <3>1, BuiltInKeys
    <3> QED
      BY <1>1, <1>4, <3>2 DEF Sound, Shaped, Inner, is_set, lookup_ro
  <2>3. own.props = P /\ own.error = ""
    BY <2>2, Zenon DEF all_properties
  <2> HIDE DEF P, own
  <2>4. own.error # "value"
    BY <2>3, Zenon
  <2> DEFINE users == IF is_set(tree, User) THEN UserNames ELSE {}
  <2> DEFINE all == [name \in users \cup {Rest(k) : k \in BelowSuite(suite)} |->
                       LastWord(IF name \in users THEN User ELSE suite \o name)]
  <2>5. (IF is_set(tree, User) THEN Onto([k \in UserNames |-> lookup(tree, User, "user")], P) ELSE P) = all
    <3>1. CASE is_set(tree, User)
      <4> DEFINE user == [k \in UserNames |-> lookup(tree, User, "user")]
      <4>1. DOMAIN user = UserNames /\ \A k \in UserNames : user[k] = LastWord(User)
        BY <3>1, TheUser
      <4> HIDE DEF user
      <4>2. Onto(user, P) = [name \in UserNames \cup DOMAIN P |-> IF name \in UserNames THEN user[name] ELSE P[name]]
        BY <4>1 DEF Onto
      <4>3. \A name \in UserNames \cup DOMAIN P :
              (IF name \in UserNames THEN user[name] ELSE P[name])
              = LastWord(IF name \in UserNames THEN User ELSE suite \o name)
        BY <2>1, <4>1 DEF Told
      <4>4. Onto(user, P) = [name \in UserNames \cup DOMAIN P |->
                               LastWord(IF name \in UserNames THEN User ELSE suite \o name)]
        BY <4>2, <4>3
      <4>5. users = UserNames /\ DOMAIN P = {Rest(k) : k \in BelowSuite(suite)}
        BY <2>1, <3>1 DEF Told
      <4>6. Onto(user, P) = all
        BY <4>4, <4>5
      <4> QED
        BY <3>1, <4>6 DEF user
    <3>2. CASE ~is_set(tree, User)
      <4>1. users = {} /\ DOMAIN P = {Rest(k) : k \in BelowSuite(suite)}
        BY <2>1, <3>2 DEF Told
      <4>2. P = [name \in DOMAIN P |-> LastWord(suite \o name)]
        BY <2>1 DEF Told
      <4>3. all = [name \in DOMAIN P |-> LastWord(suite \o name)]
        BY <4>1
      <4> QED
        BY <3>2, <4>2, <4>3
    <3> QED
      BY <3>1, <3>2
  <2> HIDE DEF all
  <2>6. generate_config(kk[2]) = [error |-> "", props |-> all]
    BY <1>2, <2>3, <2>4, <2>5, Zenon DEF own
  <2>7. all = [name \in (IF is_set(tree, <<"unprivileged_user">>) THEN UserNames ELSE {})
                        \cup {SubSeq(k, 3, Len(k)) :
                                k \in {k \in AssignedKeys : Len(k) > 2 /\ Prefix(k, 2) = suite /\ is_set(tree, k)}} |->
                 LastWord(IF name \in (IF is_set(tree, <<"unprivileged_user">>) THEN UserNames ELSE {})
                          THEN <<"unprivileged_user">> ELSE suite \o name)]
    BY Zenon DEF all, users, User, Rest, BelowSuite
  <2> QED
    BY <1>4, <2>6, <2>7, Zenon DEF suite, Informed
<1> QED
  BY <1>3, <1>4, Zenon

LEMMA SuitesAreInformed == ASSUME Sound(tree, assigned) PROVE SuitesInformed
<1>1. \A suite \in {k[2] : k \in {k \in AssignedKeys : Len(k) > 1 /\ k[1] = "test_suites"}} : Informed(suite)
  BY SuiteIsInformed
<1> QED
  BY <1>1, Zenon DEF SuitesInformed, Informed

LEMMA FinalFromInv == ConfigInv => FinalIsLastWord
<1> SUFFICES ASSUME ConfigInv, phase = "done" PROVE FinalIsLastWord
  BY DEF FinalIsLastWord
<1>1. Sound(tree, assigned)
  BY DEF ConfigInv
<1>2. \A k \in AssignedKeys :
        \/ is_set(tree, k)
        \/ k[1] # "test_suites" /\ k \notin Schema
        \/ \E p \in Above(k) : is_set(tree, p)
  BY <1>1, WhatIsSaid, SchemaKeys DEF Sound, Heard
<1>3. lookup(tree, <<"parallelism">>, "positive_int") = LastWord(<<"parallelism">>)
  <2>1. <<"parallelism">> \in DOMAIN tree /\ tree[<<"parallelism">>].type = "positive_int"
    BY <1>1 DEF Sound, Shaped, BuiltIn, TypeOf
  <2>2. "positive_int" \notin Inner /\ <<"parallelism">> \in DOMAIN Default
    BY DEF Inner, Default
  <2>3. is_set(tree, <<"parallelism">>)
    BY <1>1, <2>1, <2>2, SaidIsSet
  <2>4. lookup(tree, <<"parallelism">>, "positive_int") = tree[<<"parallelism">>].value
    BY <2>1, <2>3 DEF lookup, is_a
  <2> QED
    BY <1>1, <2>3, <2>4, SetIsLastWord
<1> QED
  BY <1>1, <1>2, <1>3, AllShown, SuitesAreInformed DEF FinalIsLastWord

(* A run is configured by the last word on every variable, and the tests of  *)
(* a suite by what was said of the suite (load_config(), redirect_newindex(),*)
(* tree::set_string() and generate_config()).                                *)
THEOREM LastWordCounts == Spec => []FinalIsLastWord
BY ConfigStart, ConfigStep, FinalFromInv, PTL DEF Spec
=============================================================================
