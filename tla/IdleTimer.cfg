SPECIFICATION IdleSpec
VIEW Ages
CONSTANTS
  Idle = 2
  Rtt = 0
  ParkMax = 3
  WedgeMax = 2
  InboundCap = 1
  MaxTime = 1000
INVARIANTS
  JudgedFairly
  SilentPeerReclaimed
CHECK_DEADLOCK FALSE
