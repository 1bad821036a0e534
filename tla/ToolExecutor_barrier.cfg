SPECIFICATION Spec
CONSTANTS
  N = 2
  MaxConcurrency = 2
INVARIANT MutationAlone
CHECK_DEADLOCK FALSE
