SPECIFICATION FairSpec
CONSTANTS
  c1 = c1
  c2 = c2
  n1 = n1
  n2 = n2
  i1 = i1
  i2 = i2
  Connection = {c1, c2}
  Unsteady = {c1}
  Request = {1, 2, 3}
  Plan <- Clients
  None = None
  Error = Error
  PerConnection = 2
  Total = 2
  MaxChanges = 1
  TooBig <- Large
  Faults = {"read", "task"}
INVARIANTS
  GatewayTypeOK
  GoneClean
  AckFirst

  
  
CHECK_DEADLOCK FALSE
