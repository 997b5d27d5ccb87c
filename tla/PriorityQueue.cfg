SPECIFICATION Spec
CONSTANTS
  Streams = {s1, s2}
  Priorities = {0, 1}
  Capacity = 2
  MaxFrames = 3
SYMMETRY StreamSymmetry
INVARIANTS
  IInv
  ConsumerAwake
  SlotsServed
PROPERTIES
  PriorityThenRoundRobin
CHECK_DEADLOCK FALSE
