CONSTANTS
  MaxMovesSmaller = 2
  MaxMovesBigger = 3
  Symbol <- MCSymbol
  Inputs <- MCInputs
  UniversalityInputs <- MCUniversality
  StaleRuns <- FreshRun
SPECIFICATION LifoSpec
INVARIANTS
  SearchInv
  Correct
  WitnessIsRight
PROPERTIES
  ImplementsSearch
  Terminates
CHECK_DEADLOCK FALSE
