\* Three subprocesses or followups, two PIDs, so that the kernel reuses them, and
\* two directories, with one failure of each kind.
SPECIFICATION LiveSpec
CONSTANTS
  p1 = p1
  p2 = p2
  NoPid = NoPid
  Pid <- MCPid
  MaxSignals = 1
  MaxForeign = 0
  MaxExecs = 3
  MaxDirs = 2
  MaxForkFails = 1
  MaxRmFails = 2
CHECK_DEADLOCK FALSE
INVARIANT Accounted
PROPERTY WaitsEnd
