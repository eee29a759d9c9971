CONSTANTS
  Servers = {s1, s2}
  Clients = {c1, c2, c3}
  MaxConn = 2
  MaxRestart = 2
SPECIFICATION FairSpec
INVARIANTS
  TypeOK
  FinishSafe
  DrainingServers
  CountersExact
PROPERTIES
  NoAcceptAfterQuit
  StopEnds
  AcceptResumes
CHECK_DEADLOCK FALSE
