SPECIFICATION Spec
CONSTANTS
  c1 = c1
  c2 = c2
  s1 = s1
  CycleThreads <- OneCycle
  SubmitThreads <- NoSubmit
  MaxSignals = 2
  MaxWakes = 3
  MaxEpisodes = 1
  MaxFaults = 1
  SwitchesTurn = TRUE
  LoadMayFail = FALSE
INVARIANT NothingSkippedSilently
 
CHECK_DEADLOCK FALSE
