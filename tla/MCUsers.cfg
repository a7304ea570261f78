SPECIFICATION Spec
CONSTANTS
  Thread = {t1, t2}
  User = {u1, u2}
  Group = {g1, g2}
  Limit = {1, 2}
  Lockout = 1
  MaxEvent = 3
SYMMETRY Symmetry
INVARIANTS LocksFree FreshCopies AccountKept PairOnce
CHECK_DEADLOCK FALSE
