SPECIFICATION Spec
CONSTANTS
  NumUni = 1
  NumOwn = 0
  ConnWindow = 3
  StreamWindow = 2
  StreamLimit = 1
  QueueCap = 2
  AcceptCap = 1
  MaxBytes = 4
  Chunk = 2
  Readable = {0}
  Calls = {"reset", "stop", "cancel", "refinish", "short"}
  MaxFronts = 2
INVARIANTS
  Accounts
  EndIsExact
  DeliveredInOrder
CHECK_DEADLOCK FALSE
