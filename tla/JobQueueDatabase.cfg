CONSTANTS
  MaxJobs = 2
  Scopes = {s1, s2}
  Workers = {w1, w2}
  Apis = {a1}
  NoWorker = NoWorker
  NoScope = NoScope
  Backend = "database"
  LockPeriod = 1
  StalePeriod = 0
  MaxFaults = 1
  MaxMessages = 0
SPECIFICATION FairSpec
INVARIANT ExclusiveExecution
PROPERTY EveryJobSettles
