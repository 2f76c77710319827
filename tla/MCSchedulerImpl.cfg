\* Core dumps, listing of tests, a known result and one test with both cleanups.
SPECIFICATION Spec
CONSTANTS
  plain = plain
  full = full
  fake = fake
  prog = prog
  NoChild = NoChild
  Test = {full, fake}
  WithCleanup = {full}
  WithExecenv = {full}
  WithFake = {fake}
  Program = {prog}
  CoreDumps = TRUE
  MaxSignals = 1
  MaxFailures = 1
CHECK_DEADLOCK FALSE
PROPERTY ImplementsTestRun
