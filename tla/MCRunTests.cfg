\* One or two slots; one test has a cleanup routine and one is exclusive.
SPECIFICATION FairSpec
CONSTANTS
  t1 = t1
  t2 = t2
  t3 = t3
  x1 = x1
  p1 = p1
  p2 = p2
  progA = progA
  progB = progB
  NoPid = NoPid
  NoTest = NoTest
  ProgramOf <- MCProgramOf
  Test = {t1, t2, t3, x1}
  Exclusive = {x1}
  WithCleanup = {t2}
  Pid = {p1, p2}
  MaxSlots = 2
  MaxSignals = 1
CHECK_DEADLOCK FALSE
INVARIANTS CommittedComplete SlotsRespected
PROPERTY Terminates
