SPECIFICATION Spec
CONSTANTS
  b = b
  c = c
  cpu = cpu
  mem = mem
  Peer = {b}
  Reaching = {b}
  Watched = {}
  Metric = {cpu, mem}
  Rungs = 1
  Width <- Widths
  SealGrace = 1
  Backfill = 1
  MaxSeriesRows = 2
  Start = 2
  MaxTime = 5
  MaxRestarts = 0
INVARIANT
  ResumesExactly
CHECK_DEADLOCK FALSE
