SPECIFICATION FairSpec
CONSTANTS
  Call = {c1, c2}
  None = None
  Faults = {}
PROPERTIES
  CancelEnds
  DeadlineAnswers
CHECK_DEADLOCK FALSE
