CONSTANTS
  MaxMovesSmaller = 2
  MaxMovesBigger = 2
  MaxMovesProduct = 2
  MaxMovesSubset = 2
  MaxValue = 3
  SpareCalls = 1
  Letters <- MCLetters
  first_epsilon = 2
  Jobs <- MCJobs
  Inputs <- MCInputs
SPECIFICATION MCSpec
INVARIANTS
  ConstructionsAreRight
  EveryValueWithItsHolders
  FindsWhatIsThere
PROPERTIES
  NaiveTestEndsRight
  Ends
CHECK_DEADLOCK FALSE
