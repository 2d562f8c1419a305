SPECIFICATION Spec
CONSTANTS
  Interval = 2
  PeerInterval = 2
  OpeningDelay = 3
  MinGrace = 3
  Late = 1
  Horizon = 16
  Losses = 2
  Stops = 2
INVARIANTS
  SilenceIsRecorded

  
CHECK_DEADLOCK FALSE
