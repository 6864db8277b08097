SPECIFICATION Spec
CONSTANTS
  None = None
  n1 = n1
  n2 = n2
  n3 = n3
  g1 = g1
  g2 = g2
  p1 = p1
  Nodes = {n1, n2}
  Signalers = {g1, g2}
  Pollers = {p1}
  Events <- TwoNodeEvents
  Boot <- NoEvents
  Running = {n1}
  Resumable = {n1}
  Crashing = {n2}
  Timeouts = TRUE
  ChanDepth = 2
  MaxSuspends = 1
  MaxToggles = 2
  MaxTime = 4
INVARIANTS
  TypeOK
  LoopOrHandlers
  NoLostWakeup
  CountsQueued
  EventConserved
PROPERTIES
  DispatchesInOrder
