SPECIFICATION FairSpec
CONSTANTS
  None = None
  n1 = n1
  n2 = n2
  n3 = n3
  g1 = g1
  g2 = g2
  p1 = p1
  Nodes = {n1}
  Signalers = {g1}
  Pollers = {p1}
  Events <- OverflowEvents
  Boot <- NoEvents
  Running = {n1}
  Resumable = {}
  Crashing = {}
  Timeouts = FALSE
  ChanDepth = 1
  MaxSuspends = 0
  MaxToggles = 1
  MaxTime = 6
PROPERTIES
  SignalledIsCalled
CHECK_DEADLOCK FALSE
