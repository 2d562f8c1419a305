SPECIFICATION Spec
CONSTANTS
  h1 = h1
  h2 = h2
  h3 = h3
  h4 = h4
  p1 = p1
  p2 = p2
  Host = {h1, h2, h3, h4}
  Local = {h4}
  Browser = {h1}
  Password = {p1, p2}
  FreeAttempts = 1
  FirstLockout = 1
  MaxLockout = 3
  ForgetAfter = 4
  MaxTracked = 2
  SessionLifetime = 2
  MaxTime = 7
  MaxRestarts = 1
SYMMETRY Symmetry
INVARIANTS
  TypeOK
  TableIsBounded
  WaitsGrow
  SessionsAreEarned
PROPERTIES
  LockoutsHold
CHECK_DEADLOCK FALSE
