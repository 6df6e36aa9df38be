SPECIFICATION Spec
CONSTANTS
  c1 = c1
  c2 = c2
  s1 = s1
  CycleThreads <- OneCycle
  SubmitThreads <- OneSubmit
  MaxSignals = 1
  MaxWakes = 2
  MaxEpisodes = 1
  MaxFaults = 1
  SwitchesTurn = TRUE
  LoadMayFail = TRUE
INVARIANT TypeOK
PROPERTY EnteredOnce
CHECK_DEADLOCK FALSE
