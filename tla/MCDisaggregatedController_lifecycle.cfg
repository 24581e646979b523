SPECIFICATION FairSpec
CONSTANTS
  Wants <- MCWants
  Named = FALSE
  Varying <- MCVarying
  MaxFaults = 1
  MaxLag = 2
  MaxChanges = 1
INVARIANT RouterHasAccount
INVARIANT RunningHasService
INVARIANT FailedHasReason
INVARIANT Settled
PROPERTY DeletionCompletes
PROPERTY ImplementsLifecycle
CHECK_DEADLOCK FALSE
