SPECIFICATION FairSpec
CONSTANTS
  b = b
  c = c
  cpu = cpu
  mem = mem
  Peer = {b}
  Reaching = {b}
  Watched = {c}
  Metric = {cpu}
  Rungs = 1
  Width <- Widths
  SealGrace = 1
  Backfill = 1
  MaxSeriesRows = 2
  Start = 2
  MaxTime = 4
  MaxRestarts = 1
INVARIANT
  NothingSkipped
  SealedIsComplete
PROPERTY
  PeersCatchUp
CHECK_DEADLOCK FALSE
