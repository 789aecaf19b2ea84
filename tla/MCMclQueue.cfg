SPECIFICATION FairSpec
CONSTANTS
  Command = {d, c1}
  Own = {d}
  None = None
  MaxStarts = 2
  Faults = {"leave", "panic", "start"}
  Ticking = FALSE
INVARIANTS
  ExecutionKept
  DrainExact
PROPERTIES
  
  ServiceSpec
  StopDrains
CHECK_DEADLOCK FALSE
