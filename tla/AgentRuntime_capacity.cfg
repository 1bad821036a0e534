SPECIFICATION FairSpec
CONSTANTS
  id1 = id1
  id2 = id2
  s1 = s1
  s2 = s2
  NoSession = NoSession
  NoRun = NoRun
  NoInit = NoInit
  AgentCloser = AgentCloser
  Sessions = {s1, s2}
  Ids = {id1, id2}
  IdOf <- DistinctIds
  Runs = {r1, r2}
  Closers = {c1}
  Inits = {}
  McpTools = {}
  MaxConcurrentRuns = 1
  MaxWrites = 0
INVARIANTS
  TypeOK
  CapacityBound
PROPERTIES
  CancelledRunFinishes
ACTION_CONSTRAINT AgentStaysOpen
CHECK_DEADLOCK FALSE
