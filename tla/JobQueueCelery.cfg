CONSTANTS
  MaxJobs = 2
  Scopes = {s1, s2}
  Workers = {w1, w2}
  Apis = {a1}
  NoWorker = NoWorker
  NoScope = NoScope
  Backend = "celery"
  LockPeriod = 1
  StalePeriod = 0
  MaxFaults = 1
  MaxMessages = 1
SPECIFICATION Spec
SYMMETRY Symmetry
INVARIANT TypeOK
INVARIANT FreshWorkerOwnsClaim
INVARIANT RunningIsReclaimable
 
PROPERTY NoResurrection
PROPERTY ImplementsLease
