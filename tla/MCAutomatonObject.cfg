SPECIFICATION MCSpec
CONSTANTS
  Calls <- MCCalls
  EPSILON = 2
  MaxStates = 5
  MaxCalls = 4
INVARIANTS
  VectorsInOrder
  QueriesAgree
PROPERTIES
  ImplementsValue
CHECK_DEADLOCK FALSE
