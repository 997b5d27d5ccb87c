SPECIFICATION Spec
CONSTANTS
  NumUni = 1
  NumOwn = 1
  ConnWindow = 2
  StreamWindow = 2
  StreamLimit = 2
  QueueCap = 2
  AcceptCap = 1
  MaxBytes = 2
  Chunk = 2
  Readable = {0, 1}
  Calls = {"reset", "closed"}
  MaxFronts = 1
PROPERTIES
  ConnImplementsWindow
  StreamsImplementWindow
CHECK_DEADLOCK FALSE
