SPECIFICATION IoSpec
CONSTANTS
  Plans <- MCPlans
  Callers <- MCCallers
  ERROR_FIRST = 5
  ERROR_LAST = 108
  MaxCode = 100
  Window = 2
  SEND_DROP = 90
  RECV_DROP = 91
  HeaderLen = 1
  Mtu = 3
INVARIANTS
  SessionsAgree
  HandedOnce
  StreamCodesExact
  BytesExact
  DatagramsExact
PROPERTIES
  CloserSeesLocal
  CloseCompletes
  CodeReachesPeer
  AcceptServed
CHECK_DEADLOCK FALSE
