SPECIFICATION Spec
CONSTANTS
  Task = {1, 2}
  VnodeCount = 1
  Worker = {w1}
  NoWorker = NoWorker
  NetCount = 1
  MaxRetry = 1
  AtSameTime = {2}
  RunOnAll = {1}
  GpuTask = {1, 2}
  MaxFault = 0
  MaxFlap = 1
INVARIANTS
  NetsExclusive
  BilledOnce
CHECK_DEADLOCK FALSE
