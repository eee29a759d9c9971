CONSTANTS
  ReadSz = 3
  MaxLen = 7
  Setups <- MCSetups
SPECIFICATION FairSpec
INVARIANTS
  TypeOK
  IntakeExact
  FaithfulCopy
  FinishedComplete
  SafeFree
PROPERTIES
  OwnerNotifiedOnce
  Completes
  ImplementsCopy
CHECK_DEADLOCK FALSE
