SPECIFICATION Spec
CONSTANTS
  c1 = c1
  c2 = c2
  k1 = k1
  k2 = k2
  v0 = v0
  v1 = v1
  v2 = v2
  Conditions = {c1, c2}
  Keys = {k1, k2}
  Workers = {w1}
  Requests <- MCRequests
  Start <- MCStart
  HighPerformance = TRUE
  MaxVersions = 4
  Deleted = Deleted
  None = None
PROPERTY
  ImplementsStore
INVARIANT
  RedisCurrent
CHECK_DEADLOCK FALSE
