CONSTANTS
  None = None
  a = a
  b = b
  Nodes = {a}
  Loads <- BusyLoad
  Crashing = {}
  SuspendLimit = 2
  ResumeLimit = 1
  VectorLen = 2
  LoopNodes = 9
SPECIFICATION FairSpec
PROPERTIES
  LoopWaits
