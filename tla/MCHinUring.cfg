SPECIFICATION FairSpec
CONSTANTS
  Timer = Timer
  Ring = {accept, r1, r2}
  Poll = {console}
  Files = {file}
  Patient = {accept}
  Depth = 2
  MaxRequests = 2
INVARIANTS RequestsExact TickNeverQueued
PROPERTIES RequestCompletes
