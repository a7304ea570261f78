SPECIFICATION Spec
CONSTANTS
  Job = {j1}
  Idx = {1, 2, 3}
  Dep <- Join
  MaxStop = 1
  MaxRetry = 1
  MaxRaise = 1
  MaxStuck = 0
  MaxCrash = 1
INVARIANTS
  CountersMatch
  HandedInOrder
  OverIsQuiet
  NoZombie
  ChargedOnce
CHECK_DEADLOCK FALSE
