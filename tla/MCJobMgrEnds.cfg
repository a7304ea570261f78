SPECIFICATION FairSpec
CONSTANTS
  Job = {j1}
  Idx = {1, 2, 3}
  Dep <- Join
  MaxStop = 0
  MaxRetry = 1
  MaxRaise = 1
  MaxStuck = 1
  MaxCrash = 1
PROPERTIES
  JobEnds
CHECK_DEADLOCK FALSE
