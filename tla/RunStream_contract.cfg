SPECIFICATION FairSpec
CONSTANTS
  EventCap = 2
  MaxEvents = 3
  Readers = {a, b}
  Waiters = {w1, w2}
  Terminal = Terminal
INVARIANTS
  TerminalDelivered
  ErrorAgrees
PROPERTIES
  ImplementsContract
  WaitsEnd
CHECK_DEADLOCK FALSE
