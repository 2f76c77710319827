SPECIFICATION Spec
CONSTANTS
  CustomKeys = {"custom.x"}
  BadValue = BadValue
  BadMetadata = BadMetadata
  Programs <- MCPrograms
  Endings <- MCEndings
  Environment <- MCEnvironment
  Commands <- MCCommands
  Rank <- MCRank
  Atoms <- MCAtoms
  MaxResults = 3
  MaxRuns = 3
  Roots <- MCRoots
  Code <- MCCode
  MaxTime = 3
  Actions <- MCActions
  Empty = {"a3"}
  NameOf <- MCNameOf
  Versions = {2}
  Faults = {"full"}
  MaxFaults = 3
  Statements = {"s1", "s2"}
  Transactions = {"t1"}
  SqlOf <- MCSqlOf
  Number = 5
  Words = {x, y}
  IntRange = 4
  MaxRows = 2
SYMMETRY MCSymmetry
CHECK_DEADLOCK FALSE
INVARIANT DataSurvives
