CONSTANTS
  Servers = {s1, s2}
  Clients = {c1}
  MaxConn = 1
  MaxRestart = 1
SPECIFICATION Spec
INVARIANT DoneMeansStarted
CHECK_DEADLOCK FALSE
