SPECIFICATION FairSpec
CONSTANTS
  Command = {d, c1}
  Own = {d}
  None = None
  MaxStarts = 1
  Faults = {"parse"}
  Ticking = FALSE
PROPERTIES HeadAdvances
CHECK_DEADLOCK FALSE
