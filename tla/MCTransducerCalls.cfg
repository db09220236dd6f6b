CONSTANTS
  EPSILON = 9
  DONT_CARE = 8
  Letters <- MCLetters
  Starts <- MCStarts
  CallsOn <- MCCallsOn
  Words <- MCWords
  Parts <- MCParts
  MaxBuilds = 2
  MaxMoves = 3
SPECIFICATION Spec
INVARIANTS
  BuiltAsAsked
  TapesTransformed
  ComposedOverTapes
  RelationKept
  ReadsTheRelation
CHECK_DEADLOCK FALSE
