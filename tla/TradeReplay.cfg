\* Target 4, stop -2, protection at 3 to 1, a second leg at 2: every level is distinct.
SPECIFICATION Spec
CHECK_DEADLOCK FALSE
CONSTANTS
  Target = 4
  Stop = 2
  Trigger = 3
  Trail = 1
  Step = 2
  MaxLegs = 2
  Hold = 3
  Late = 1
  Levels <- MCLevels
INVARIANT TypeOK
INVARIANT GridMatchesStage4
 
 
 
 
