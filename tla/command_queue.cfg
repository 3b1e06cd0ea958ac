SPECIFICATION Spec
CONSTANTS
  Procs = {p1, p2}
  Workers = {w1}
  Senders = {d1}
  Updates = {u1, u2}
  Actors = {a1, a2}
  Kinds = {"python", "http"}
  MaxRows = 2
  MaxEvents = 2
  MaxWorkers = 2
  PythonWorkers = 1
  QueueLimit = 2
  MaxTries = 2
  QueueEvents = {"edit", "recreate", "revoke", "crash", "stall", "close", "dbError", "prune"}
  None = None
INVARIANTS TypeOK LimitsKept OneExecutor AdmittedRevision
PROPERTIES PromiseKept
CHECK_DEADLOCK FALSE
SYMMETRY Symmetry
