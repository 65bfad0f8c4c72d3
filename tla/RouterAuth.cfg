SPECIFICATION RouterFairSpec
CONSTANTS
  Caller = {r1, r2, r3}
  JwtID = {j1, j2}
  Horizon = 2
  FaultSet <- OneFault
INVARIANTS
  CredentialServedOnce
  ServedRequestIsGenuine
PROPERTIES
  GenuineRefusedForCause
  EveryRequestAnswered
CHECK_DEADLOCK FALSE
