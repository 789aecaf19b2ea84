SPECIFICATION Spec
CONSTANTS
  Call = {c1, c2}
  None = None
  Faults = {}
PROPERTIES FailureIsReal
CHECK_DEADLOCK FALSE
