SPECIFICATION FairSpec
INVARIANTS
  DeregisteredExactlyIfRegistered
  UncancelledReturnNamesCause
  AbandonedChildIsReported
PROPERTIES
  DeregisterAfterDrain
  StopLeadsToReturn
  ChildrenNeverBlock
CHECK_DEADLOCK FALSE
