SPECIFICATION FairSpec
CONSTANTS
  r1 = r1
  r2 = r2
  Request = {r1, r2}
  Asks <- Wanted
  Operation <- Operations
  None = None
  Defaults <- DefaultSettings
  Faults = {"busy", "io", "rollback", "panic", "submit", "file", "sync", "cancel", "stop"}
  MaxCrashes = 1
  MaxStops = 1
INVARIANTS
  StorageTypeOK
  SelectorsExact
  Contiguous
PROPERTIES
  StoreSpec
  Answered
CHECK_DEADLOCK FALSE
