SPECIFICATION Spec
CONSTANTS
  Id = {i1, i2}
  Root = {t1, t2}
  Trace = {x1, x2}
  MaxSequence = 3
INVARIANT InvocationIDOnlyAfterAccepted
CHECK_DEADLOCK FALSE
