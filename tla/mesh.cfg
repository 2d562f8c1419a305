SPECIFICATION FairSpec
CONSTANTS
  a = a
  b = b
  c = c
  Node = {a, b, c}
  PushOnlyNode = {}
  Published = {a, b, c}
  Link <- AllButLegacy
  LegacyRemoval <- LegacyAtB
  Clock <- OneEach
  Target = {c}
  Switching = {a}
  MaxSwitches = 1
  MaxRounds = 1
INVARIANTS
  WatchedIsNotProbed
PROPERTIES
  RemovalHolds
  ImplementsMembership
  DecisionsTravel
  RemovedNodeIsLeftAlone
  MeshCloses
CHECK_DEADLOCK FALSE
