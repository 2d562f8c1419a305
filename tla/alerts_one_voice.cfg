SPECIFICATION Spec
CONSTANTS
  de = de
  bg = bg
  x = x
  y = y
  Node = {de, bg}
  Rank <- Ranks
  Late = {}
  Target = {x}
  DownAfter = 2
  UpAfter = 1
  Repeat = 3
  Stagger = 3
  Backfill = 2
  Delay = 1
  OwnRoutes = FALSE
  MaxTime = 9
  Settled = 10
  MaxChanges = 3
  MaxFailures = 1
  MaxLosses = 0
  MaxStops = 0
INVARIANTS
  TypeOK
  
  RecoveryAnswersReport
  BlipsAreQuiet
  
CHECK_DEADLOCK FALSE
