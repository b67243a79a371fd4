CONSTANTS
  Graph <- MCGraph
  StopTime = 2
  Durations = {1, 2}
  Outages = {2}
  Calls <- MCCalls
  Places <- MCPlaces
  StartTimes = {0, 2}
  ErrorRates = {100}
  BaseErrors = {5}
  MaxCalls = 3
SPECIFICATION Spec
CHECK_DEADLOCK FALSE
INVARIANTS
  TypeOK
  NoParallelLinks
  CallDelivers
  ExportIsTopology
  LoneFailureLasts
  LinkFollowsItsFailures
