SPECIFICATION Spec
CONSTANTS
  EventCap = 1
  MaxEvents = 1
  Readers = {a}
  Waiters = {}
  Terminal = Terminal
INVARIANT DrainedCallerClears
CHECK_DEADLOCK FALSE
