SPECIFICATION Spec
CONSTANTS
  Command = {d, c1}
  Own = {d}
  None = None
  MaxStarts = 1
  Faults = {"unsure", "audit"}
  Ticking = FALSE
INVARIANTS CleanupKept
CHECK_DEADLOCK FALSE
