SPECIFICATION Spec
CONSTANTS
  c1 = c1
  c2 = c2
  s1 = s1
  CycleThreads <- TwoCycles
  SubmitThreads <- NoSubmit
  MaxSignals = 1
  MaxWakes = 2
  MaxEpisodes = 0
  MaxFaults = 0
  SwitchesTurn = FALSE
  LoadMayFail = FALSE
PROPERTY EnteredOnce
CHECK_DEADLOCK FALSE
