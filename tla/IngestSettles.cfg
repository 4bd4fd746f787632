SPECIFICATION FairSpec
CONSTANTS
  Signal = "logs"
  Event <- OneEvent
  Copies = 2
  Worker = {w1, w2}
  Cron = {c1}
  BatchSize = 1
  MaxRetries = 1
  MaxStreams = 1
  MaxFaults = 2
 
PROPERTY EverythingSettles
CHECK_DEADLOCK FALSE
