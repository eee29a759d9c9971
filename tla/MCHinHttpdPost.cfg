SPECIFICATION Spec
CONSTANTS
  Requests <- MCUploads
  MaxReq = 2
  Cut = TRUE
INVARIANT FinishWaitsForPost
