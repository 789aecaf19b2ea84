SPECIFICATION FairSpec
CONSTANTS
  m1 = m1
  m2 = m2
  Member = {m1, m2}
  Request = {1, 2}
  Closing = {3, 4}
  Kinds = {"start", "stop", "restart"}
  Documents <- Texts
  None = None
  MaxThreads = 2
  MaxClient = 1
  Faults = {"thread", "panic", "agent", "flow", "work"}
INVARIANTS
  GoneClean
  MembersKnown

  
  
CHECK_DEADLOCK FALSE
