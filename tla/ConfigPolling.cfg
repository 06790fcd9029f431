SPECIFICATION FairPollingSpec
CONSTANTS
  c1 = c1
  c2 = c2
  k1 = k1
  v0 = v0
  v1 = v1
  v2 = v2
  Conditions = {c1, c2}
  Keys = {k1}
  Workers = {w1, w2}
  Requests <- MCRequests
  Start <- MCStart
  HighPerformance = FALSE
  MaxVersions = 3
  TicksPerSecond = 2
  Deleted = Deleted
  None = None
INVARIANT
  CacheFresh
  SkipsOnlyUnmodified
PROPERTY
  Converges
