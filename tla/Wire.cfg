SPECIFICATION Spec
CONSTANTS
    Plans <- MCPlans
    Capacity = 1
    Timeout = 2
    MaxPings = 1
    MaxRecord = 60
INVARIANTS
  SameMeaning
PROPERTIES
  EndHeard
  OnlySilenceKills
CHECK_DEADLOCK FALSE
