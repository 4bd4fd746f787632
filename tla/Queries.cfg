SPECIFICATION Spec
CONSTANTS
  Word <- W
  Quoted <- Q
  Duration <- D
  Matches <- M
  Number <- N
  MaxRange = 50
  MinStep = 1
  MaxK = 100
  MaxPoints = 1100
  Stream <- Streams
  Chunk <- Chunks
  Late = {2, 6}
  Request <- Requests
  Expression <- Expressions
  MaxStreams = 2
  MaxChunks = 3
  MaxRows = 3
  PoolSize = 2
  MaxRequests = 2
  MaxChanges = 2
INVARIANTS  OwnEntriesOnly LogAnswerIsExact 
CHECK_DEADLOCK FALSE
