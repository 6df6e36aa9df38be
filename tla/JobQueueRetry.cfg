CONSTANTS
  MaxJobs = 1
  Scopes = {s1}
  Workers = {w1, w2}
  Apis = {a1}
  NoWorker = NoWorker
  NoScope = NoScope
  Backend = "celery"
  LockPeriod = 1
  StalePeriod = 0
  MaxFaults = 2
  MaxMessages = 1
SPECIFICATION RetryingSpec
INVARIANT FreshWorkerOwnsClaim
PROPERTY EveryJobSettles
