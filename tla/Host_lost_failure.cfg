SPECIFICATION Spec
INVARIANT ServerFailureIsReported
CHECK_DEADLOCK FALSE
