SPECIFICATION Spec
CONSTANTS
  None = None
  n1 = n1
  n2 = n2
  n3 = n3
  g1 = g1
  g2 = g2
  p1 = p1
  Nodes = {n1}
  Signalers = {g1, g2}
  Pollers = {}
  Events <- StartEvents
  Boot <- NoEvents
  Running = {}
  Resumable = {}
  Crashing = {}
  Timeouts = FALSE
  ChanDepth = 4
  MaxSuspends = 0
  MaxToggles = 0
  MaxTime = 4
INVARIANTS
  DispatchedNodeHasHandler
CHECK_DEADLOCK FALSE
