SPECIFICATION FairSpec
CONSTANTS
  Requests <- MCRequests
  MaxReq = 3
  Cut = FALSE
INVARIANTS TypeOK NoUseAfterFree AnswersInOrder RequestBoundary PipelineServed
PROPERTIES ConnectionEnds
