CONSTANTS
  NumStates = 3
  Symbol <- MCSymbol
  Inputs <- MCInputs
  Clients <- MCClients
SPECIFICATION Spec
INVARIANTS
  SearchIsRight
  AnswerIsRight
  TrimIsRight
PROPERTIES
  TrimEnds
CHECK_DEADLOCK FALSE
