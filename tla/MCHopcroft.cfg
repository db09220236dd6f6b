CONSTANTS
  FewestMovesFour = 4
  MaxMovesFour = 4
  Dfas <- MCDfas
SPECIFICATION Spec
INVARIANTS
  PartitionsInStep
  MinimizedIsRight
PROPERTIES
  HopcroftEnds
CHECK_DEADLOCK FALSE
