SPECIFICATION FairSpec
CONSTANTS
  Event = {e1, e2, e3, e4}
  Flush = {f1}
  Alarm = alarm
  MaxRequest = 2
  MaxItems = 2
  Slice = 1
  MaxRetries = 1
  MaxFaults = 2
  MaxCrashes = 1
INVARIANTS AcceptedIsKept
PROPERTY AcceptedIsDelivered
CHECK_DEADLOCK FALSE
