SPECIFICATION Spec
CONSTANTS
  Caller = {c1, c2, c3}
  JwtID = {j1, j2}
  Horizon = 3
INVARIANTS
  GrantsNeverOverlap
  RefusedForCause
  HoldsOnlyLiveGrants
PROPERTIES
  ImplementsOneUse
CHECK_DEADLOCK FALSE
