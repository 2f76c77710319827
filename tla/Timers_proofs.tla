--------------------------- MODULE Timers_proofs ----------------------------
(***************************************************************************)
(* Proofs about utils/signals/timer.cpp (module Timers), for any set of    *)
(* timers, any delays and any bounds.                                      *)
(***************************************************************************)
EXTENDS Timers, WellFoundedInduction, TLAPS

(***************************************************************************)
(* The inductive invariant.  None of the properties is inductive alone: at *)
(* most one callback needs that a timer in the buckets has not fired yet;  *)
(* the assertion on buckets needs that a timer the handler took out is     *)
(* strictly older than all that remain, which a new timer preserves only   *)
(* because its deadline lies after the clock it sampled and that clock is  *)
(* not before the deadline of any fired timer.                             *)
(***************************************************************************)

\* The timers in the buckets are programmed and have not fired.
ActiveUnfired ==
  \A t \in active : state[t] = "programmed" /\ fired[t] = 0

\* Timers that do not exist yet have no past.
UnbornUntouched ==
  \A t \in Timer : state[t] = "unborn" => fired[t] = 0 /\ t \notin active

\* A programmed timer out of the buckets has fired and is older than the rest,
\* except in the middle of its own constructor or unprogram().
Taken(t) ==
  /\ state[t] = "programmed" /\ t \notin active
  /\ ~(t = cur /\ pc \in {"ctor", "late"})

TakenAreOlder ==
  \A t \in Timer : Taken(t) => fired[t] = 1 /\ \A u \in active : when[u] > when[t]

\* Inside the constructor.
CtorInv ==
  pc = "ctor" =>
    /\ cur \in Timer /\ cur \notin active
    /\ state[cur] = "programmed" /\ fired[cur] = 0
    /\ when[cur] > sampled
    /\ \A t \in Timer : fired[t] > 0 => when[t] <= sampled

\* Inside unprogram().
UnprogramInv ==
  /\ pc \in {"unprogram", "late"} => cur \in Timer /\ state[cur] = "programmed"
  /\ pc = "late" => cur \notin active

IInv ==
  /\ TypeOK
  /\ FiredOnce
  /\ NeverEarly
  /\ ~globals => active = {}
  /\ ActiveUnfired
  /\ UnbornUntouched
  /\ TakenAreOlder
  /\ CtorInv
  /\ UnprogramInv

-----------------------------------------------------------------------------
(* Helpers. *)

\* Earliest() is the least element: reprogram_system_timer() finds a bucket that
\* is the first one not in the past.
LEMMA EarliestIsLeast ==
  ASSUME NEW S, S \subseteq Nat, S # {}
  PROVE  Earliest(S) \in S /\ \A v \in S : Earliest(S) <= v
<1>1. \E w \in S : \A v \in S : ~(<<v, w>> \in OpToRel(<, Nat))
  BY NatLessThanWellFounded, WFMin
<1>2. \E w \in S : \A v \in S : w <= v
  <2>1. PICK w \in S : \A v \in S : ~(<<v, w>> \in OpToRel(<, Nat))
    BY <1>1
  <2>2. ASSUME NEW v \in S  PROVE w <= v
    <3>1. ~(v < w)
      BY <2>1 DEF OpToRel
    <3> QED
      BY <3>1
  <2> QED
    BY <2>2
<1> QED
  BY <1>2 DEF Earliest

\* Whatever reprogram_system_timer() decides, the delay it programs is not
\* negative.
LEMMA ReprogramTypes ==
  ASSUME TypeOK, NEW ts, ts \subseteq Timer, NEW n \in Nat, Reprogram(ts, n)
  PROVE  itimer' \in Nat /\ activation' \in Nat
<1>1. Upcoming(ts, n) \subseteq Nat /\ \A w \in Upcoming(ts, n) : w >= n
  BY DEF Upcoming, TypeOK
<1>2. CASE Upcoming(ts, n) # {} /\ MustReprogram(Earliest(Upcoming(ts, n)), n)
  <2>1. Earliest(Upcoming(ts, n)) \in Nat /\ Earliest(Upcoming(ts, n)) >= n
    BY <1>1, <1>2, EarliestIsLeast
  <2> QED
    BY <1>2, <2>1 DEF Reprogram
<1>3. CASE ~(Upcoming(ts, n) # {} /\ MustReprogram(Earliest(Upcoming(ts, n)), n))
  BY <1>3 DEF Reprogram, TypeOK
<1> QED
  BY <1>2, <1>3

-----------------------------------------------------------------------------
(* The invariant, action by action. *)

LEMMA InitIInv == Init => IInv
<1> SUFFICES ASSUME Init  PROVE IInv
  OBVIOUS
<1>1. TypeOK
  BY DEF Init, TypeOK, Pcs
<1>2. FiredOnce /\ NeverEarly /\ UnbornUntouched
  BY DEF Init, FiredOnce, NeverEarly, UnbornUntouched
<1>3. (~globals => active = {}) /\ ActiveUnfired
  BY DEF Init, ActiveUnfired
<1>4. TakenAreOlder
  BY DEF Init, TakenAreOlder, Taken
<1>5. CtorInv /\ UnprogramInv
  BY DEF Init, CtorInv, UnprogramInv
<1> QED
  BY <1>1, <1>2, <1>3, <1>4, <1>5 DEF IInv

\* The constructor's first step: the new deadline is after the sampled clock.
LEMMA CtorEnterIInv ==
  ASSUME IInv, NEW t \in Timer, NEW d \in Delta, CtorEnter(t, d)
  PROVE  IInv'
<1> USE DEF CtorEnter, IInv
<1>0. d \in Nat /\ d > 0
  BY DeltaAssumption
<1>1. TypeOK'
  BY <1>0 DEF TypeOK, Pcs
<1>2. fired[t] = 0 /\ t \notin active /\ when[t] \in Nat /\ now \in Nat
  BY DEF UnbornUntouched, TypeOK
<1>3. FiredOnce' /\ NeverEarly' /\ (~globals => active = {})'
  BY <1>2 DEF FiredOnce, NeverEarly, TypeOK
<1>4. ActiveUnfired' /\ UnbornUntouched'
  BY <1>2 DEF ActiveUnfired, UnbornUntouched, TypeOK
<1>5. TakenAreOlder'
  <2> SUFFICES ASSUME NEW x \in Timer, Taken(x)'
               PROVE  fired[x] = 1 /\ \A u \in active : when'[u] > when'[x]
    BY DEF TakenAreOlder
  <2>1. x # t /\ Taken(x)
    BY DEF Taken, TypeOK
  <2> QED
    BY <1>2, <2>1 DEF TakenAreOlder, TypeOK
<1>6. CtorInv'
  <2>1. when'[t] > now /\ cur' = t /\ sampled' = now /\ state'[t] = "programmed"
    BY <1>0, <1>2 DEF TypeOK
  <2>2. ASSUME NEW x \in Timer, fired[x] > 0  PROVE when'[x] <= now
    BY <1>2, <2>2 DEF NeverEarly, TypeOK
  <2> QED
    BY <1>2, <2>1, <2>2 DEF CtorInv
<1>7. UnprogramInv'
  BY DEF UnprogramInv
<1> QED
  BY <1>1, <1>3, <1>4, <1>5, <1>6, <1>7

\* The new timer enters the buckets, behind every timer that has fired.
LEMMA CtorFinishIInv ==
  ASSUME IInv, NewGlobalState \/ ProgramNew
  PROVE  IInv'
<1> USE DEF IInv
<1>1. /\ pc = "ctor" /\ pc' = "exit"
      /\ cur \in Timer /\ cur \notin active /\ when[cur] > sampled
      /\ state[cur] = "programmed" /\ fired[cur] = 0
      /\ active' = active \union {cur} /\ globals'
      /\ UNCHANGED <<now, pending, when, state, fired, cur, sampled, crashed>>
  BY DEF NewGlobalState, ProgramNew, CtorInv
<1>2. itimer' \in Nat /\ activation' \in Nat
  <2>1. CASE NewGlobalState
    BY <2>1, <1>1 DEF NewGlobalState, TypeOK
  <2>2. CASE ProgramNew
    <3>1. active \union {cur} \subseteq Timer /\ sampled \in Nat
      BY <1>1 DEF TypeOK
    <3> QED
      BY <2>2, <3>1, ReprogramTypes DEF ProgramNew
  <2> QED
    BY <2>1, <2>2
<1>3. TypeOK'
  BY <1>1, <1>2 DEF TypeOK, Pcs
<1>4. FiredOnce' /\ NeverEarly' /\ (~globals => active = {})'
  BY <1>1 DEF FiredOnce, NeverEarly
<1>5. ActiveUnfired' /\ UnbornUntouched'
  BY <1>1 DEF ActiveUnfired, UnbornUntouched
<1>6. TakenAreOlder'
  <2> SUFFICES ASSUME NEW x \in Timer, Taken(x)'
               PROVE  fired[x] = 1 /\ \A u \in active' : when[u] > when[x]
    BY <1>1 DEF TakenAreOlder
  <2>1. x # cur /\ Taken(x)
    BY <1>1 DEF Taken
  <2>2. fired[x] = 1 /\ \A u \in active : when[u] > when[x]
    BY <2>1 DEF TakenAreOlder
  <2>3. when[cur] > when[x]
    BY <1>1, <2>2 DEF CtorInv, TypeOK
  <2> QED
    BY <1>1, <2>2, <2>3
<1>7. CtorInv' /\ UnprogramInv'
  BY <1>1 DEF CtorInv, UnprogramInv
<1> QED
  BY <1>3, <1>4, <1>5, <1>6, <1>7

LEMMA UnprogramEnterIInv ==
  ASSUME IInv, NEW t \in Timer, UnprogramEnter(t)
  PROVE  IInv'
<1> USE DEF UnprogramEnter, IInv
<1>1. TypeOK'
  BY DEF TypeOK, Pcs
<1>2. TakenAreOlder'
  BY DEF TakenAreOlder, Taken
<1> QED
  BY <1>1, <1>2 DEF FiredOnce, NeverEarly, ActiveUnfired, UnbornUntouched,
                    CtorInv, UnprogramInv

LEMMA UnprogramNullIInv ==
  ASSUME IInv, UnprogramNull
  PROVE  IInv'
BY DEF IInv, UnprogramNull, TypeOK, Pcs, FiredOnce, NeverEarly, ActiveUnfired,
       UnbornUntouched, TakenAreOlder, Taken, CtorInv, UnprogramInv

\* The timer leaves the buckets.
LEMMA UnprogramRemoveIInv ==
  ASSUME IInv, UnprogramOne \/ UnprogramLast
  PROVE  IInv'
<1> USE DEF IInv
<1>1. /\ pc = "unprogram" /\ pc' = "late"
      /\ cur \in Timer /\ state[cur] = "programmed"
      /\ active' = active \ {cur} /\ (~globals' => active' = {})
      /\ globals' \in BOOLEAN
      /\ UNCHANGED <<now, pending, when, state, fired, cur, sampled, crashed>>
  BY DEF UnprogramOne, UnprogramLast, Remaining, UnprogramInv, TypeOK
<1>2. itimer' \in Nat /\ activation' \in Nat
  <2>1. CASE UnprogramOne
    <3>1. Remaining(cur) \subseteq Timer /\ now \in Nat
      BY DEF Remaining, TypeOK
    <3> QED
      BY <2>1, <3>1, ReprogramTypes DEF UnprogramOne
  <2>2. CASE UnprogramLast
    BY <2>2 DEF UnprogramLast
  <2> QED
    BY <2>1, <2>2
<1>3. TypeOK'
  BY <1>1, <1>2 DEF TypeOK, Pcs
<1>4. FiredOnce' /\ NeverEarly' /\ ActiveUnfired' /\ UnbornUntouched'
  BY <1>1 DEF FiredOnce, NeverEarly, ActiveUnfired, UnbornUntouched
<1>5. TakenAreOlder'
  BY <1>1 DEF TakenAreOlder, Taken
<1>6. CtorInv' /\ UnprogramInv'
  BY <1>1 DEF CtorInv, UnprogramInv
<1> QED
  BY <1>1, <1>3, <1>4, <1>5, <1>6

\* The late callback: only of a timer that did not run it.
LEMMA UnprogramLateIInv ==
  ASSUME IInv, UnprogramLate
  PROVE  IInv'
<1> USE DEF IInv, UnprogramLate, FiresLate
<1>1. cur \in Timer /\ cur \notin active /\ state[cur] = "programmed"
  BY DEF UnprogramInv
<1>2. fired' \in [Timer -> Nat] /\ \A x \in Timer : x # cur => fired'[x] = fired[x]
  BY <1>1 DEF TypeOK
<1>3. TypeOK'
  BY <1>1, <1>2 DEF TypeOK, Pcs
<1>4. FiredOnce' /\ NeverEarly'
  BY <1>1 DEF FiredOnce, NeverEarly, TypeOK
<1>5. ActiveUnfired' /\ UnbornUntouched'
  BY <1>1, <1>2 DEF ActiveUnfired, UnbornUntouched, TypeOK
<1>6. TakenAreOlder'
  <2> SUFFICES ASSUME NEW x \in Timer, Taken(x)'
               PROVE  fired'[x] = 1 /\ \A u \in active : when[u] > when[x]
    BY DEF TakenAreOlder
  <2>1. x # cur /\ Taken(x)
    BY <1>1 DEF Taken, TypeOK
  <2> QED
    BY <1>2, <2>1 DEF TakenAreOlder
<1>7. CtorInv' /\ UnprogramInv'
  BY DEF CtorInv, UnprogramInv
<1> QED
  BY <1>3, <1>4, <1>5, <1>6, <1>7

LEMMA UnmaskIInv ==
  ASSUME IInv, Unmask
  PROVE  IInv'
<1> USE DEF IInv, Unmask
<1>1. TypeOK'
  BY DEF TypeOK, Pcs
<1>2. TakenAreOlder'
  BY DEF TakenAreOlder, Taken
<1> QED
  BY <1>1, <1>2 DEF FiredOnce, NeverEarly, ActiveUnfired, UnbornUntouched,
                    CtorInv, UnprogramInv

LEMMA TickIInv ==
  ASSUME IInv, Tick
  PROVE  IInv'
<1> USE DEF IInv, Tick
<1>1. TypeOK'
  BY DEF TypeOK, Pcs
<1>2. NeverEarly'
  BY DEF NeverEarly, TypeOK
<1>3. TakenAreOlder'
  BY DEF TakenAreOlder, Taken
<1> QED
  BY <1>1, <1>2, <1>3 DEF FiredOnce, ActiveUnfired, UnbornUntouched, CtorInv,
                          UnprogramInv

\* The handler: the timers due fire for the first time and are older than those
\* that stay.
LEMMA FireIInv ==
  ASSUME IInv, Fire
  PROVE  IInv'
<1> USE DEF IInv, Fire
<1>1. active \ Expired(active, now) \subseteq Timer /\ now \in Nat
  BY DEF TypeOK
<1>2. itimer' \in Nat /\ activation' \in Nat
  BY <1>1, ReprogramTypes
<1>3. TypeOK'
  <2>1. fired' \in [Timer -> Nat]
    BY DEF TypeOK
  <2>2. active' \subseteq Timer /\ pending' \in BOOLEAN
    BY <1>1
  <2> QED
    BY <1>2, <2>1, <2>2 DEF TypeOK, Pcs
<1>4. FiredOnce' /\ NeverEarly'
  BY DEF FiredOnce, NeverEarly, ActiveUnfired, Expired, TypeOK
<1>5. ActiveUnfired' /\ UnbornUntouched' /\ (~globals => active = {})'
  BY DEF ActiveUnfired, UnbornUntouched, Expired, TypeOK
<1>6. TakenAreOlder'
  <2> SUFFICES ASSUME NEW x \in Timer, Taken(x)'
               PROVE  fired'[x] = 1 /\ \A u \in active' : when[u] > when[x]
    BY DEF TakenAreOlder
  <2>1. CASE x \in active
    <3>1. x \in Expired(active, now)
      BY <2>1 DEF Taken
    <3>2. fired[x] = 0 /\ when[x] <= now
      BY <2>1, <3>1 DEF ActiveUnfired, Expired
    <3>3. \A u \in active' : when[u] > now
      BY DEF Expired, TypeOK
    <3> QED
      BY <1>1, <3>1, <3>2, <3>3 DEF TypeOK
  <2>2. CASE x \notin active
    <3>1. Taken(x) /\ x \notin Expired(active, now)
      BY <2>2 DEF Taken, Expired
    <3> QED
      BY <3>1 DEF TakenAreOlder
  <2> QED
    BY <2>1, <2>2
<1>7. CtorInv' /\ UnprogramInv'
  BY DEF CtorInv, UnprogramInv
<1> QED
  BY <1>3, <1>4, <1>5, <1>6, <1>7

LEMMA StutterIInv ==
  ASSUME IInv, UNCHANGED vars
  PROVE  IInv'
BY DEF vars, IInv, TypeOK, Pcs, FiredOnce, NeverEarly, ActiveUnfired,
       UnbornUntouched, TakenAreOlder, Taken, CtorInv, UnprogramInv

-----------------------------------------------------------------------------
(* The theorems. *)

\* Every reachable state of timer.cpp satisfies the inductive invariant.
THEOREM Invariance == Spec => []IInv
<1>1. IInv /\ [Next]_vars => IInv'
  <2> SUFFICES ASSUME IInv, [Next]_vars  PROVE IInv'
    OBVIOUS
  <2>1. CASE Ctor
    BY <2>1, CtorEnterIInv, CtorFinishIInv DEF Ctor
  <2>2. CASE Unprogram
    BY <2>2, UnprogramEnterIInv, UnprogramNullIInv, UnprogramRemoveIInv,
       UnprogramLateIInv DEF Unprogram
  <2>3. CASE Unmask
    BY <2>3, UnmaskIInv
  <2>4. CASE Tick
    BY <2>4, TickIInv
  <2>5. CASE Fire
    BY <2>5, FireIInv
  <2>6. CASE UNCHANGED vars
    BY <2>6, StutterIInv
  <2> QED
    BY <2>1, <2>2, <2>3, <2>4, <2>5, <2>6 DEF Next
<1> QED
  BY <1>1, InitIInv, PTL DEF Spec

\* The state of timer.cpp is well typed; in particular no delay that is given to
\* setitimer(2) is negative.
THEOREM TypesCorrect == Spec => []TypeOK
BY Invariance, PTL DEF IInv

\* The callback of a timer runs at most once, whatever the handler and
\* unprogram() do (do_fired() asserts it).
THEOREM CallbackOnce == Spec => []FiredOnce
BY Invariance, PTL DEF IInv

\* No callback runs before its deadline.
THEOREM CallbackNotEarly == Spec => []NeverEarly
BY Invariance, PTL DEF IInv

\* The assertion of remove_from_all_timers() never fails.
THEOREM BucketAssertion == Spec => []BucketHoldsTimer
<1>1. IInv => BucketHoldsTimer
  <2> SUFFICES ASSUME IInv, pc = "unprogram", cur \notin active, NEW u \in active
               PROVE  when[u] # when[cur]
    BY DEF BucketHoldsTimer
  <2>1. cur \in Timer /\ Taken(cur)
    BY DEF IInv, UnprogramInv, Taken
  <2>2. when[u] > when[cur] /\ when[u] \in Nat /\ when[cur] \in Nat
    BY <2>1 DEF IInv, TakenAreOlder, TypeOK
  <2> QED
    BY <2>2
<1> QED
  BY <1>1, Invariance, PTL
=============================================================================
