SPECIFICATION Spec
CONSTANTS
  Signal = "metrics"
  Event <- TwoTenants
  Copies = 1
  Worker = {w1, w2}
  Cron = {}
  BatchSize = 2
  MaxRetries = 1
  MaxStreams = 1
  MaxFaults = 1
INVARIANTS RememberedIsReadable StreamLimit
SYMMETRY Consumers
CHECK_DEADLOCK FALSE
