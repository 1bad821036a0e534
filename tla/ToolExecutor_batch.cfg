SPECIFICATION FairSpec
CONSTANTS
  N = 3
  MaxConcurrency = 2
INVARIANTS
  OverlapAllowed
  BatchComplete
  OnlyApprovedInputs
PROPERTIES
  ResponsesStable
  BatchReturns
CHECK_DEADLOCK FALSE
