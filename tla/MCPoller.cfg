CONSTANTS
  None = None
  a = a
  b = b
  Nodes = {a, b}
  Loads <- MixedLoads
  Crashing = {a}
  SuspendLimit = 2
  ResumeLimit = 1
  VectorLen = 2
  LoopNodes = 9
SPECIFICATION FairSpec
INVARIANTS
  SuspendCounts
  RefsStayValid
  AllocatedOnce
  PollOnlyInDoPollers
  NeverUndercounted
  NoLostWakeup
  NeedyIsListed
PROPERTIES
  ArrivalTaken
