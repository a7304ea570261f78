SPECIFICATION Spec
CONSTANTS
  Node = {n1, n2}
  Container = {c1}
  Image = {i1}
  Tmp = tmp
  n1 = n1
  n2 = n2
  MaxEvent = 5
INVARIANTS ImageTold RejoinSeen 
SYMMETRY Symmetry
CHECK_DEADLOCK FALSE
