SPECIFICATION FairSpec
CONSTANTS
  Name = {"a", "b"}
  Root = {"t1", "t2"}
  Trace = {"x1", "x2"}
  MaxLimit = 2
  Limit = {0, 2, 3}
  Platform <- Parents
  Response <- Responses
INVARIANTS
  BodyClosedOnce
  AnswerIsOfThisCall
  TypedErrorIsAPlatformError
  CloseFailureIsReported
  WalkIsExact
PROPERTIES
  CancelledCallReturns
CHECK_DEADLOCK FALSE
