SPECIFICATION FairSpec
CONSTANTS
  de = de
  bg = bg
  x = x
  y = y
  Node = {de, bg}
  Rank <- Ranks
  Late = {bg}
  Target = {x}
  DownAfter = 1
  UpAfter = 1
  Repeat = 3
  Stagger = 1
  Backfill = 2
  Delay = 6
  OwnRoutes = FALSE
  MaxTime = 4
  Settled = 2
  MaxChanges = 2
  MaxFailures = 0
  MaxLosses = 1
  MaxStops = 1

  
CHECK_DEADLOCK FALSE
PROPERTIES
  OutagesAreReported
