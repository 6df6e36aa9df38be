SPECIFICATION FairSpec
CONSTANTS
  t1 = t1
  t2 = t2
  r1 = r1
  r2 = r2
  None = None
  Timer <- TwoTimers
  Request <- TwoRequests
  MaxFaults = 1
INVARIANT TypeOK
INVARIANT RunningIsScheduled
INVARIANT EntryIsAlive
PROPERTY KeepsWaking
PROPERTY StoppedDrains
