SPECIFICATION LibrariesSpec
CONSTANTS
  NotSet = NotSet
  Accepted <- MCAccepted
  SyntaxCalls <- MCSyntaxCalls
  Assignments <- MCAssignments
  Reads <- MCReads
  Overrides <- MCOverrides
  Execenvs = {"host", "jail"}
  Words <- MCWords
  Users <- MCUsers
  MaxSteps = 4
  MaxOverrides = 2
  CustomKeys = {"custom.x"}
  BadValue = BadValue
  BadMetadata = BadMetadata
  Values <- MCValues
  Elements <- MCElements
  MaxTrees = 4
  MaxSetters = 3
  Procs = {"p1", "p2"}
  Trees <- MCTrees
  Made <- MCMade
  Removed <- MCRemoved
  Temporary <- MCTemporary
  Names = {"n"}
  MaxStrays = 2
  PerSecond = 3
  Timers = {"t1", "t2"}
  Delays <- MCDelays
  ClockSteps <- MCClockSteps
  MaxReal = 5
  MaxStepped = 1
  MaxTests = 1
CHECK_DEADLOCK FALSE
INVARIANTS FinalIsLastWord LuaAgrees KeepsItsWord TimelyUnlessStepped
PROPERTY BuiltKeepsToItself
