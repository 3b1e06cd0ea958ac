SPECIFICATION Spec
CONSTANTS
  Requests = {q1, q2}
  NoRequest = NoRequest
  Limit = 1
  MaxUpdate = 2
  MaxSessions = 2
  MaxRefusals = 1
  MaxLost = 1
INVARIANTS HandledExactly
PROPERTIES StaleNeverHandled Delivered
CHECK_DEADLOCK FALSE
