CONSTANTS
  Keys = {k1, k2}
  Requests = {r1, r2, r3}
  Items = {i1, i2, i3}
  None = None
  MaxSize = 2
  ObjSize = 1
  Faults = {}
SPECIFICATION FairSpec
INVARIANTS
  TypeOK
  RefcountExact
  NoDanglingItem
  StoreExact
PROPERTIES
  WaiterAnswered
CHECK_DEADLOCK FALSE
