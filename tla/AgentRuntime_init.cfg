SPECIFICATION FairSpec
CONSTANTS
  id1 = id1
  id2 = id2
  s1 = s1
  s2 = s2
  NoSession = NoSession
  NoRun = NoRun
  NoInit = NoInit
  AgentCloser = AgentCloser
  Sessions = {s1, s2}
  Ids = {id1}
  IdOf <- SharedId
  Runs = {}
  Closers = {}
  Inits = {i1, i2}
  McpTools = {t1, t2}
  MaxConcurrentRuns = 1
  MaxWrites = 1
INVARIANTS
  McpClosedAfterInit
  ToolsReachSessions
PROPERTIES
  AgentCloseReturns
CHECK_DEADLOCK FALSE
