SPECIFICATION Spec
CONSTANTS
  MaxFaults = 1
  MaxLag = 2
  MaxPods = 0
INVARIANT WorkerMountsStorage
CHECK_DEADLOCK FALSE
