SPECIFICATION Spec
CONSTANTS
  Id = {i1, i2}
  Root = {t1}
  Trace = {x1, x2}
  MaxSequence = 3
INVARIANTS
  BodyReleased
  CleanEOFIsComplete
PROPERTIES
  FailureIsFinal
  ImplementsResultDelivery
CHECK_DEADLOCK FALSE
