\* SIGALRM is ignored so that only the missing global state can end a behaviour.
SPECIFICATION Spec
CONSTANTS
  t1 = t1
  t2 = t2
  t3 = t3
  NoTimer = NoTimer
  Timer <- MCTimer
  Delta <- MCDelta
  Horizon = 6
  MaxNow = 8
  MaxSkew = 1
  MinLatency = 1
  OldDisposition = "ignored"
SYMMETRY MCSymmetry
CHECK_DEADLOCK FALSE
INVARIANTS GlobalsWhileProgrammed
