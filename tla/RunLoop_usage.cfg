SPECIFICATION Spec
CONSTANTS
  Parent = Parent
  Children = {}
  MaxTurns = 2
  Limit = 2
  Costs = {1}
  HasFallback = FALSE
INVARIANT TotalUsageReported
CHECK_DEADLOCK FALSE
