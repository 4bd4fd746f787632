SPECIFICATION Spec
CONSTANTS
  Job = {j1, j2}
  Worker = {w1}
  Cron = {c1}
  RowId = {1, 2, 3}
  FirstRows <- TwoLogs
  LateRows <- LateLog
  OldRows = {1, 2}
  RequestTargets = {"all"}
  Page = 1
  MaxRetries = 1
  QueueCap = 1
  MaxFaults = 0
  MaxCrashes = 1
INVARIANTS LogErasure 
 
CHECK_DEADLOCK FALSE
