SPECIFICATION Spec
CONSTANTS
  Id = {i1, i2}
  Root = {t1, t2}
  Trace = {x1, x2}
  MaxSequence = 3
INVARIANTS
  BodyReleased
  DeliveredBelongsToParent
PROPERTIES
  ImplementsResultDelivery
CHECK_DEADLOCK FALSE
