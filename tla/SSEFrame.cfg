SPECIFICATION Spec
CONSTANTS
  Wire <- Wires
  Limit = {3, 4, 5}
  Buffer = {2, 3}
INVARIANTS
  DeliveredIsWhatWasSent
  BoundedMemory
PROPERTY RefusedForCause
CHECK_DEADLOCK FALSE
