SPECIFICATION Spec
CONSTANTS
  User = {u1, u2}
  Width = 4
  SysLevel = 2
  UserLevel = {2, 3}
  MaxHeld = 2
  MaxRecover = 1
  MaxCrash = 1
SYMMETRY Symmetry
INVARIANTS
  BlocksDisjoint
  AddressOnce
  NothingLost
PROPERTIES
  CenterIsSpace
CHECK_DEADLOCK FALSE
