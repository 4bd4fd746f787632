SPECIFICATION FairSpec
CONSTANTS
  Client <- TwoClients
  Line <- TwoLines
  Publisher = {p1, p2}
  Wants <- Filtered
  MaxConnections = 2
  BufferSize = 1
  Reader = {}
INVARIANTS AnsweredIsRead MapsAgree
PROPERTY HubSettles
CHECK_DEADLOCK FALSE
