SPECIFICATION FairSpec
CONSTANTS
  Agent = {a1}
  MaxStarts = 3
  None = None
  StartupTimeout = TRUE
  Faults = {"prepare", "install", "init", "submit", "join", "temp", "panic", "exception"}
INVARIANTS
  OneDriver
  IdleHasVm
PROPERTIES
  DespawnClean
  FlowEnds
CHECK_DEADLOCK FALSE
