SPECIFICATION FairSpec
CONSTANTS
  None = None
  n1 = n1
  n2 = n2
  n3 = n3
  g1 = g1
  g2 = g2
  p1 = p1
  Nodes = {n1}
  Signalers = {g1, g2}
  Pollers = {}
  Events <- LiveEvents
  Boot <- BootEvents
  Running = {n1}
  Resumable = {n1}
  Crashing = {}
  Timeouts = FALSE
  ChanDepth = 5
  MaxSuspends = 1
  MaxToggles = 0
  MaxTime = 6
INVARIANTS
  NoFalseTimeout
  TimerNeverStuck
  
  OneResumePerSuspend
  EventConserved
PROPERTIES
  SuspendUntilResume
  EventHandled
  
