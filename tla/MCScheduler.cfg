\* One test with both cleanups and one with a cleanup routine.
SPECIFICATION FairSpec
CONSTANTS
  plain = plain
  full = full
  fake = fake
  prog = prog
  NoChild = NoChild
  Test = {full, plain}
  WithCleanup = {full, plain}
  WithExecenv = {full}
  WithFake = {}
  Program = {}
  CoreDumps = FALSE
  MaxSignals = 2
  MaxFailures = 1
CHECK_DEADLOCK FALSE
INVARIANTS GoodMeansClean EndsOrderly
PROPERTIES StartedIsReported StopsAfterInterrupt
