CONSTANTS
  NumStates = 3
  Symbol <- MCSymbol
  Inputs <- MCInputs
  Clients = {"acyclic", "flat"}
SPECIFICATION Spec
INVARIANT AnswersAsDocumented
CHECK_DEADLOCK FALSE
