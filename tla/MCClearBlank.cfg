SPECIFICATION MCSpec
CONSTANTS
  Calls <- MCCalls
  EPSILON = 2
  MaxStates = 5
  MaxCalls = 4
INVARIANT ClearedIsBlank
CHECK_DEADLOCK FALSE
