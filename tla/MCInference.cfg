SPECIFICATION FairSpec
CONSTANTS
  None = None
  MaxImages = 1
  Request <- MCRequest
  Wanted <- MCWanted
  Says <- MCSays
  MaxChunks = 3
  MaxTurns = 2
  MaxVm = 2
  Capacity = 1
  Faults <- MCFaults
INVARIANTS InferenceTypeOK OneWorker   BodySound
PROPERTIES  Answered
CHECK_DEADLOCK FALSE
