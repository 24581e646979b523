SPECIFICATION FairSpec
CONSTANTS
  i1 = i1
  i2 = i2
  Requests <- TwoRequests
  Usages = {0, 1}
  MaxChunks = 3
INVARIANT PassedIsCharged
INVARIANT BuffersReleased
INVARIANT RecordedIsSeen
INVARIANT ExitIsClean
PROPERTY ShutdownCompletes
CHECK_DEADLOCK FALSE
