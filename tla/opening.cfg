SPECIFICATION FairSpec
CONSTANTS
  m1 = m1
  m2 = m2
  Sample = {m1}
  Grace = 2
  MaxTime = 4
  MaxStops = 3
  MaxRollBacks = 1
INVARIANTS
  TypeOK
  UsableWhenUp
  
  RetiredForGood
  NoSecondCopy
PROPERTIES
  RefusedIsUntouched
  
  
CHECK_DEADLOCK FALSE
