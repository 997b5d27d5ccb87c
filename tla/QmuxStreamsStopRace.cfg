SPECIFICATION Spec
CONSTANTS
  NumUni = 1
  NumOwn = 0
  ConnWindow = 1
  StreamWindow = 1
  StreamLimit = 1
  QueueCap = 1
  AcceptCap = 1
  MaxBytes = 1
  Chunk = 1
  Readable = {0}
  Calls = {"reset", "stop"}
  MaxFronts = 2
INVARIANTS
  LiveStreamStaysLive
CHECK_DEADLOCK FALSE
