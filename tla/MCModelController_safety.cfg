SPECIFICATION FairSpec
CONSTANTS
  MaxFaults = 3
  MaxLag = 2
  MaxPods = 2
INVARIANT ReadyIsDownloaded
PROPERTY TerminalIsFinal
PROPERTY PodEndIsReported
PROPERTY DeletionCompletes
PROPERTY ImplementsLifecycle
CHECK_DEADLOCK FALSE
