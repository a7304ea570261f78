SPECIFICATION Spec
CONSTANTS
  Node <- MCNode
  CPort <- MCCPort
  Port <- MCPort
  MaxOp = 4
  MaxFault = 2
INVARIANTS PortOnce PortKept RuleLeadsToOwner RowServed
CHECK_DEADLOCK FALSE
