SPECIFICATION FairSpec
CONSTANTS
  Callers = {a}
  Pollers = {p, q}
  Clients = {"cac", "exp"}
  Calls <- MCCalls
  Answers <- MCAnswers
  UseStale = TRUE
  HasFallback = TRUE
  Ttl = 0
  MaxCreates <- MCMaxCreates
  MaxVersion <- MCMaxVersion
  MaxTime <- MCMaxTime
  None = None
INVARIANT SnapshotPaired
PROPERTIES
  CallsReturn
  PollingCatchesUp
  PollingStops
CHECK_DEADLOCK FALSE
