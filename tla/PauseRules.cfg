\* Two threads, three closes, a page that holds two of them.
CONSTANTS
  timer = timer
  request = request
  None = None
  Cycle <- MCCycle
  Losses = 2
  Wins = 2
  Profit = 2
  Lookback = 0
  Cooldown = 1
  Page = 2
  Results <- MCResults
  MaxCloses = 3
  MaxTime = 1
  MaxFaults = 1
SPECIFICATION Spec
SYMMETRY Symmetry
CHECK_DEADLOCK FALSE
INVARIANTS TypeOK  WinsCountedOnce
PROPERTY NoEntryInPause
