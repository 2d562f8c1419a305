SPECIFICATION FairSpec
CONSTANTS
  b = b
  c = c
  cpu = cpu
  mem = mem
  Peer = {b}
  Reaching = {}
  Watched = {}
  Metric = {cpu}
  Rungs = 1
  Width <- Widths
  SealGrace = 1
  Backfill = 1
  MaxSeriesRows = 2
  Start = 2
  MaxTime = 4
  MaxRestarts = 0
PROPERTY
  MetricsAreHeld
CHECK_DEADLOCK FALSE
