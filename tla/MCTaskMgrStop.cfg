SPECIFICATION FairSpec
CONSTANTS
  Task = {1}
  VnodeCount = 2
  Worker = {w1}
  NoWorker = NoWorker
  NetCount = 1
  MaxRetry = 1
  AtSameTime = {1}
  RunOnAll = {}
  GpuTask = {}
  MaxFault = 1
  MaxFlap = 1
PROPERTIES
  StopTakesEffect
CHECK_DEADLOCK FALSE
