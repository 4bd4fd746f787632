SPECIFICATION FairSpec
CONSTANTS
  Job = {j1}
  Worker = {w1, w2}
  Cron = {}
  RowId = {1, 2, 3}
  FirstRows <- SharedRows
  LateRows <- NoRows
  OldRows = {}
  RequestTargets = {"logs", "metrics"}
  Page = 2
  MaxRetries = 0
  QueueCap = 1
  MaxFaults = 2
  MaxCrashes = 0
INVARIANTS TypeOK   UnmarkedErasure CompletedIsAudited
PROPERTY JobsGoOn
CHECK_DEADLOCK FALSE
