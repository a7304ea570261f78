SPECIFICATION Spec
CONSTANTS
  Task = {1}
  VnodeCount = 2
  Worker = {w1}
  NoWorker = NoWorker
  NetCount = 1
  MaxRetry = 1
  AtSameTime = {}
  RunOnAll = {1}
  GpuTask = {}
  MaxFault = 1
  MaxFlap = 0
INVARIANTS
  FreshVerdict
  NoOrphanVnode
PROPERTIES
  RetiredStaysDown
CHECK_DEADLOCK FALSE
