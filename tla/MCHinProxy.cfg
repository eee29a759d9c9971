SPECIFICATION FairSpec
CONSTANTS
  r1 = r1
  r2 = r2
  h1 = h1
  Requests = {r1, r2}
  Host <- MCHost
  Upload = {r2}
  MaxClose = 2
  Keep = TRUE
INVARIANTS ParentAnsweredOnce ConnectionsExact
PROPERTIES EveryRequestEnds
