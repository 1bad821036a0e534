SPECIFICATION Spec
CONSTANTS
  MaxEdits = 1
  Connectors = {n1}
  Callers = {k1, k2}
  Closers = {z1}
  MaxConnections = 3
  MaxAttempts = 3
  MaxRequests = 5
  MaxSessions = 2
  MaxLines = 4
  MaxUUIDs = 3
  HeadLines = 2
  TailLines = 1
  Titles = {"a", "b"}
  Tags = {}
  Agents = {a1, a2}
  MaxOps = 5
  Paths = {p, q}
  MessageIds = {m, n}
  MaxWrites = 2
  MaxCheckpoints = 2
  Projects = {"p", "q"}
  Displays = {"d", "e"}
  MaxEntries = 3
  Models = {o1, o2}
  Savers = {s1, s2}
  MaxSpent = 1
  Windows = 2
  MaxResponses = 4
  Runs = {r1, r2}
  MaxContents = 3
  MaxTime = 2
  MaxJobs = 2
  MaxMessages = 5
  MaxParts = 2
  Parent = Parent
  Children = {k1, k2}
  MaxTurns = 3
  Limit = 4
  ResponseCosts = {1, 2}
  HasFallback = TRUE
  Cap = 2
  MaxRetries = 1
  MaxBlocks = 2
  MaxFrags = 2
INVARIANTS
  ResultsFollow
  BudgetHolds
  ChildrenCharged
  ErrorsReported
  AcceptedIsWhole
  CallsAdmitted
  ConnectionsKept
  SessionFilesHold
  StoresHold
  RecordsHold
  TrackersHold
  ResultsFinal
  RequestsHold
PROPERTIES
  CancelEndsRun
  ProducerEnds
  NoBlindOverwrite
  CallReturns
CHECK_DEADLOCK FALSE
