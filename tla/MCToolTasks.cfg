SPECIFICATION Spec
CONSTANTS
  Call = {c1, c2}
  None = None
  Faults = {"launch", "read", "exchange", "panic", "drop", "proof", "temp"}
SYMMETRY Symmetry
INVARIANTS
  TurnSettled
  TasksKept
  StopComplete
PROPERTIES AnsweredOnce
CHECK_DEADLOCK FALSE
