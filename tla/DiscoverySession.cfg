SPECIFICATION FairSpec
CONSTANTS
  r1 = r1
  r2 = r2
  p1 = p1
  p2 = p2
  k1 = k1
  k2 = k2
  e1 = e1
  e2 = e2
  None = None
  Request <- OneRequest
  Policy <- OnePolicy
  Candidate <- TwoCandidates
  Risk <- TwoRisks
  Evidence <- TwoEvidences
  MaxSessions = 1
  MaxRevision = 2
  MaxFaults = 2
INVARIANT TypeOK
INVARIANT CheckpointCovered
INVARIANT ReadyMeansPublished
INVARIANT FrozenFileAgrees
INVARIANT ReplayIsOfTarget
 
PROPERTY RunningEnds
CHECK_DEADLOCK FALSE
