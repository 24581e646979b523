SPECIFICATION Spec
CONSTANTS
  Wants <- MCOneWant
  Named = FALSE
  Varying <- MCVarying
  MaxFaults = 0
  MaxLag = 2
  MaxChanges = 0
INVARIANT WaitIsRevisited
CHECK_DEADLOCK FALSE
