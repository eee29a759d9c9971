CONSTANTS
  Keys = {k1, k2}
  Requests = {r1, r2, r3}
  Items = {i1, i2, i3}
  None = None
  MaxSize = 2
  ObjSize = 1
  Faults = {"expire_in_use"}
SPECIFICATION Spec
INVARIANT RefcountNotNegative
CHECK_DEADLOCK FALSE
