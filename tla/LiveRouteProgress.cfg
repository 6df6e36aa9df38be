SPECIFICATION FairSpec
CONSTANTS
  c1 = c1
  c2 = c2
  s1 = s1
  CycleThreads <- OneCycle
  SubmitThreads <- NoSubmit
  MaxSignals = 1
  MaxWakes = 3
  MaxEpisodes = 1
  MaxFaults = 1
  SwitchesTurn = FALSE
  LoadMayFail = FALSE
INVARIANT OneOpenOwner
PROPERTY PositionGetsOwner
PROPERTY PositionGetsProtected
CHECK_DEADLOCK FALSE
