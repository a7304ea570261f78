SPECIFICATION Spec
CONSTANTS
  w1 = w1
  w2 = w2
  Worker <- MCWorker
  Size <- MCSize
  MaxId = 2
  MaxCid = 2
  NAddress = 3
  Quota = 2
  MaxEvent = 5
  MaxFault = 2
INVARIANTS AddressOnce AddressKept UsageMatches NoStray NoPhantom StatusTells
PROPERTIES AllSettles
CHECK_DEADLOCK FALSE
