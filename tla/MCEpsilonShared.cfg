CONSTANTS
  EPSILON = 9
  DONT_CARE = 8
  Letters <- MCLetters
  Starts <- EpsilonShared
  CallsOn <- MCCallsOn
  Words <- MCWords
  Parts <- MCParts
  MaxBuilds = 2
  MaxMoves = 3
SPECIFICATION Spec
INVARIANT
  RelationKept
CHECK_DEADLOCK FALSE
