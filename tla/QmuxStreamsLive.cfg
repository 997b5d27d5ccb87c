SPECIFICATION FairSpec
CONSTANTS
  NumUni = 3
  NumOwn = 0
  ConnWindow = 1
  StreamWindow = 1
  StreamLimit = 2
  QueueCap = 1
  AcceptCap = 1
  MaxBytes = 1
  Chunk = 1
  Readable = {0, 1, 2}
  Calls = {"reset", "short"}
  MaxFronts = 1
INVARIANTS
  IndicesExact
PROPERTIES
  AllRead
CHECK_DEADLOCK FALSE
