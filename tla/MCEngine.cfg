SPECIFICATION EngineSpec
CONSTANTS
  CustomKeys = {"custom.x"}
  BadValue = BadValue
  BadMetadata = BadMetadata
  TopFile <- MCTopFile
  SyntaxCalls <- MCSyntaxCalls
  Suites <- MCSuites
  Includes <- MCIncludes
  Definitions <- MCDefinitions
  Missing <- MCMissing
  Lists <- MCLists
  Filters <- MCFilters
  Hosts <- MCHosts
  MaxSteps = 5
  MaxDepth = 3
  MaxFailures = 1
  AtfLines <- MCAtfLines
  GtestLines <- MCGtestLines
  TapLines <- MCTapLines
  AtfListLines <- MCAtfListLines
  GtestListLines <- MCGtestListLines
  ExitCodes = {0, 1, 90}
  Signals = {1, 6}
  MaxLines = 4
  MaxResultLines = 2
  Cases = {"t1", "t2"}
  Defs <- MCDefs
  User <- MCUser
  Special = {"/", "."}
  Limit = 4
  CoreLimit = 2
  MaxFaults = 2
CHECK_DEADLOCK FALSE
INVARIANTS LoadedAsDefined YieldedExactly RunOnlyIfMet
INVARIANTS GoodIsEarned DeathIsBroken ListIsComplete RunsIsolated NoJailForgotten
