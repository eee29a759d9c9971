SPECIFICATION Spec
CONSTANTS
  r1 = r1
  r2 = r2
  r3 = r3
  Requests = {r1, r2, r3}
  Mixes <- MCMixes
  MaxSocket = 1
  Faults = {"close"}
INVARIANTS SurvivesClose
