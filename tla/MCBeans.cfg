SPECIFICATION Spec
CONSTANTS
  User = {u1}
  App = {a1}
  Low <- ConstLow
  High = 2
  First = 1
  Marks = {2}
  Rich = 2
  Grant = 1
  MaxQueue = 1
  MaxBytes = 1
  MaxEvent = 2
INVARIANTS PaidOnce FreshBeans GrantedOnce
PROPERTIES OutOfBeansStops
CHECK_DEADLOCK FALSE
