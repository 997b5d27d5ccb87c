SPECIFICATION WindowSpec
CONSTANTS
  Window = 3
  MaxSpend = 7
INVARIANTS
  WindowInv
  MemoryBound
CHECK_DEADLOCK FALSE
