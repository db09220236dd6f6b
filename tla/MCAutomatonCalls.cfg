CONSTANTS
  MaxMoves = 3
  MaxMovesEpsilon = 4
  MaxPower = 4
  Bound = 3
  EPSILON <- Silent
  epsilon <- Silent
  Jobs <- MCJobs
  CallsOn <- MCCallsOn
SPECIFICATION MCSpec
INVARIANTS
  TypeOK
  MembershipExact
  LoopInv
  CombinedLanguage
  WordsAreRight
  TurnedIntoAnother
  EquationSolved
PROPERTIES
  ImplementsSet
  LoopsEnd
  CombinationEnds
CHECK_DEADLOCK FALSE
