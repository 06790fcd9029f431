SPECIFICATION Spec
CONSTANTS
  v1 = v1
  v2 = v2
  Values = {v1, v2}
  Workers = {w1}
  None = None
  Absent = Absent
  Count = 4
  Sent <- MCSent
  Otherwise = Otherwise
  Enum <- MCEnum
  Definitions <- MCDefinitions
  TicksPerSecond = 2
  MaxTime = 5
  MaxChanges = 2
  Ids = {a, b}
  Dimensions = {os}
  ExperimentKeys = {k1, k2}
  MaxVersions = 4
  MaxUpdates = 2
  Latest = Latest
  Keys = {k1}
  FunctionNames = {f1}
  Schemas <- NonEmpty
  Codes <- NonEmpty
INVARIANTS
  EvaluationExact
  RemoteResolved
  GroupsNotOlder
  ComputePublished
PROPERTIES
  Completes
  RecentChangeArrives
  OnlyResumeConflicts
  NextVersionBringsSetting
CHECK_DEADLOCK FALSE
