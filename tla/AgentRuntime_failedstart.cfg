SPECIFICATION Spec
CONSTANTS
  id1 = id1
  id2 = id2
  s1 = s1
  s2 = s2
  NoSession = NoSession
  NoRun = NoRun
  NoInit = NoInit
  AgentCloser = AgentCloser
  Sessions = {s1}
  Ids = {id1}
  IdOf <- OneSession
  Runs = {r1}
  Closers = {}
  Inits = {}
  McpTools = {}
  MaxConcurrentRuns = 1
  MaxWrites = 0
INVARIANTS
  NoRunAfterMcpClose
CHECK_DEADLOCK FALSE
