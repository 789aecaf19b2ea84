CONSTANTS
  Event = {e1, e2}
  MaxDelay = 2
  None = None
  FixedFrame = FALSE
SPECIFICATION FairSpec
INVARIANTS
  CountersExact
  NoLostWake
PROPERTIES
  OrderKept
  LoopAnswers
