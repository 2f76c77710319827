------------------------------ MODULE Datetime ------------------------------
(* Deltas and timestamps of utils/datetime.cpp: seconds and microseconds,    *)
(* added, compared and subtracted through a count of microseconds.           *)
EXTENDS Integers

CONSTANT PerSecond   \* microseconds in a second

ASSUME PerSecondAssumption == PerSecond \in Nat \ {0}

delta(seconds, useconds) == [seconds |-> seconds, useconds |-> useconds]

(* Defect: the microseconds are not reduced.                                 *)
from_microsecondsFlat(n) == delta(n \div PerSecond, n)

(* Of deltas and of timestamps, neither of which is negative.                *)
from_microseconds(n) == delta(n \div PerSecond, n % PerSecond)
to_microseconds(d) == d.seconds * PerSecond + d.useconds

delta_plus(d, e) == from_microseconds(to_microseconds(d) + to_microseconds(e))

less(t, u) == to_microseconds(t) < to_microseconds(u)
less_equal(t, u) == to_microseconds(t) <= to_microseconds(u)
plus(t, d) == from_microseconds(to_microseconds(t) + to_microseconds(d))

(* The time from u to t.  "gettimeofday isn't necessarily monotonic so       *)
(* return the smallest non-zero delta if time went backwards."               *)
since(t, u) ==
  IF less(t, u) THEN from_microseconds(1)
  ELSE from_microseconds(to_microseconds(t) - to_microseconds(u))
=============================================================================
