SPECIFICATION Spec
CONSTANTS
  Vnode <- MCVnode
  Gpu = {1, 2}
  Handler = {c1, c2}
  GpuNeed <- MCNeed
  MaxTry <- MCTry
  MaxFault = 1
INVARIANTS GpuTable
PROPERTIES EndTold
CHECK_DEADLOCK FALSE
