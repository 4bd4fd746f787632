SPECIFICATION FairSpec
CONSTANTS
  Job = {j1}
  Worker = {w1}
  Cron = {}
  RowId = {1, 2, 3}
  FirstRows <- MetricRows
  LateRows <- NoRows
  OldRows = {}
  RequestTargets = {"metrics"}
  Page = 2
  MaxRetries = 1
  QueueCap = 1
  MaxFaults = 0
  MaxCrashes = 0
PROPERTY JobCompletes
CHECK_DEADLOCK FALSE
