CONSTANTS
  Clients = {c1, c2, c3}
  Objects = {o1}
  None = None
  Rearm = 1
  DelaySets <- MCDelaySets
  MaxDelay = 3
  MaxTime = 3
SYMMETRY Symmetry
SPECIFICATION Spec
INVARIANTS
  TypeOK
  ListExact
  SortedWhenUniform
PROPERTIES
  FlushVisitsAll
CHECK_DEADLOCK FALSE
