SPECIFICATION Spec
CONSTANTS
  r1 = r1
  r2 = r2
  p1 = p1
  p2 = p2
  k1 = k1
  k2 = k2
  e1 = e1
  e2 = e2
  None = None
  Request <- TwoRequests
  Policy <- OnePolicy
  Candidate <- TwoCandidates
  Risk <- TwoRisks
  Evidence <- TwoEvidences
  MaxSessions = 1
  MaxRevision = 2
  MaxFaults = 0
INVARIANT FrozenBracketsKept
CHECK_DEADLOCK FALSE
