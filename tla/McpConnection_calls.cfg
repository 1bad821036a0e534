SPECIFICATION FairSpec
CONSTANTS
  Reqs = {r1, r2}
  Closers = {c1, c2}
  Nobody = Nobody
INVARIANTS
  ResponsesMatched
PROPERTIES
  ImplementsConnection
  CallersReturn
CHECK_DEADLOCK FALSE
