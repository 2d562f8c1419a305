SPECIFICATION Spec
CONSTANTS
  Top = 1
  Width <- MCWidth
  Retain <- MCRetain
  SampleRetention = 5
  SealGrace = 2
  SampleInterval = 2
  RawWindow = 3
  MaxPoints = 4
  Windows = {6, 10, 13}
  MaxTime = 16
  MaxChanges = 1
  MaxFailures = 1
  MaxStops = 1
INVARIANTS
  RolledIsExact
  NothingIsLost
  ChartsAreWhole
  KeepsUp
CHECK_DEADLOCK FALSE
