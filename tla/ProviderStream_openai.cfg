SPECIFICATION Spec
CONSTANTS
  Cap = 1
  MaxRetries = 0
  MaxBlocks = 2
  MaxFrags = 1
INVARIANT EveryProviderWhole
CHECK_DEADLOCK FALSE
