SPECIFICATION FairSpec
CONSTANTS
  Scripts <- Endings
  WireCap = 1
  AcceptCap = 1
INVARIANTS
  HandshakeSafe
  ConnectExplains
PROPERTIES
  CallsReturn
  ClosePropagates
CHECK_DEADLOCK FALSE
