CONSTANTS
  EPSILON = 9
  DONT_CARE = 8
  Letters <- MCLetters
  Jobs <- MCJobs
SPECIFICATION Spec
INVARIANTS
  SyncTypesExact
  CompositionIsRight
PROPERTIES
  CompositionEnds
CHECK_DEADLOCK FALSE
