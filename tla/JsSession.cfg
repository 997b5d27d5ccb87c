SPECIFICATION Spec
CONSTANTS
  Plans <- MCPlans
  ConnWindow = 2
  StreamWindow = 2
  MaxFrame = 2
INVARIANTS
  Accounts
  NoSleeper
  Admitted
  FinMeansAll
  GracefulSeenGraceful
CHECK_DEADLOCK FALSE
