SPECIFICATION Spec
CONSTANTS
  Plans <- MCPlans
  Server = TRUE
  MaxBytes = 2
  ReadMax = 2
  DgramCapacity = 1
  EarlyStop = FALSE
INVARIANTS
  DriverAwake
  CallsServed
  OpensWithinLimit
  OneCause
CHECK_DEADLOCK FALSE
