SPECIFICATION RequestSpec
CONSTANTS
  NumBuckets = 2
  NoBucket = NoBucket
  c1 = c1
  ExpIds = {e1}
  GroupIds = {g1, g2, g3}
  Variants <- MCVariants
  Conditions = {c1}
  Context <- Global
  GroupContexts <- MCGroupContexts
  GroupTraffics = {1, 2}
  None = None
  Deleted = Deleted
  Workers = {w1}
  Keys = {k1, k2}
  Faults = TRUE
INVARIANTS
  GlobalWinnerIsDefault
  LiveHaveContexts
PROPERTIES
  ImplementsSerial
  DiscardTakesEffect
CHECK_DEADLOCK FALSE
