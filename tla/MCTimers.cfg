\* Three timers that may coincide or not.  SIGALRM has its default disposition, as
\* in the program, and the handler's clock is past the activation it was armed for.
SPECIFICATION LiveSpec
CONSTANTS
  t1 = t1
  t2 = t2
  t3 = t3
  NoTimer = NoTimer
  Timer <- MCTimer
  Delta <- MCDelta
  Horizon = 4
  MaxNow = 6
  MaxSkew = 1
  MinLatency = 1
  OldDisposition = "default"
CHECK_DEADLOCK FALSE
INVARIANTS FiredOnce NeverEarly
PROPERTY FiresEventually
