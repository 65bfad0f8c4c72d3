SPECIFICATION FairSpec
CONSTANTS
  c1 = c1
  c2 = c2
  c3 = c3
  c4 = c4
  Caller = {c1, c2, c3, c4}
  Calls <- TwoRegisters
INVARIANTS
  OneLease
  DeregisterIsFinal
PROPERTIES
  ReadinessNeverReturns
  ImplementsAtomicRegistration
  EveryCallReturns
CHECK_DEADLOCK FALSE
