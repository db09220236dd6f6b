CONSTANTS
  MaxMovesThree = 4
  FanSize = 5
  Jobs <- MCJobs
SPECIFICATION Spec
INVARIANTS
  MacrostatesAreRight
PROPERTIES
  ReductionEndsRight
CHECK_DEADLOCK FALSE
