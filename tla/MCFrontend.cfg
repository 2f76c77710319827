SPECIFICATION Spec
CONSTANTS
  CommandLines <- MCCommandLines
  Worlds <- MCWorlds
  Messages <- MCMessages
  Tables <- MCTables
  Tag <- MCTag
  Prefix <- MCBlanks
  Separator <- MCBlanks
  Columns <- MCColumns
  Terminals <- MCTerminals
  Wide = 11
  Trees <- MCTrees
  Inputs <- MCInputs
  Variables <- MCVariables
  Vectors <- MCVectors
INVARIANTS
  ExitIsTruthful
  UsesWhatWasGiven
  FitsTheScreen
  ExpandsAsStructured
CHECK_DEADLOCK FALSE
