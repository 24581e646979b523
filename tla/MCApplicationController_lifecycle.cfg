SPECIFICATION FairSpec
CONSTANTS
  MaxFaults = 2
  MaxLag = 2
  MaxChanges = 2
INVARIANT FailedHasReason
INVARIANT WorkloadHasModel
PROPERTY FailedIsFinal
PROPERTY StatusFollowsLws
PROPERTY LwsRestored
PROPERTY DeletionCompletes
PROPERTY ImplementsLifecycle
CHECK_DEADLOCK FALSE
