SPECIFICATION RequestSpec
CONSTANTS
  NumBuckets = 2
  NoBucket = NoBucket
  c1 = c1
  ExpIds = {e1}
  GroupIds = {g1, g2}
  Variants <- MCVariants
  Conditions = {c1}
  Context <- Targeted
  GroupContexts <- MCGroupContexts
  GroupTraffics = {2}
  None = None
  Deleted = Deleted
  Workers = {w1, w2}
  Keys = {k1, k2}
  Faults = FALSE
SYMMETRY Symmetric
CHECK_DEADLOCK FALSE
PROPERTY TerminalIsFinal
