SPECIFICATION Spec
CONSTANTS
  Signal = "logs"
  Event <- TwoStreams
  Copies = 1
  Worker = {w1, w2}
  Cron = {}
  BatchSize = 2
  MaxRetries = 1
  MaxStreams = 1
  MaxFaults = 2
INVARIANTS TypeOK RememberedIsTailed NothingLost ObjectHasRow
PROPERTIES KeepsEventLog
SYMMETRY Consumers
CHECK_DEADLOCK FALSE
