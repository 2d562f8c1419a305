SPECIFICATION StreakSpec
CONSTANTS
  Top = 1
  Width <- MCWidth
  Retain <- MCRetain
  SampleRetention = 5
  SealGrace = 2
  SampleInterval = 2
  RawWindow = 3
  MaxPoints = 4
  Windows = {6, 10, 13}
  MaxTime = 10
  MaxChanges = 2
  MaxFailures = 0
  MaxStops = 1
INVARIANTS
  StreakTypeOK
  UnbrokenIfUndisturbed
  RecentIsExact
CHECK_DEADLOCK FALSE
