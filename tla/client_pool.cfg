SPECIFICATION Spec
CONSTANTS
  Callers = {c1, c2, c3}
  Clients = {k1, k2, k3}
  MaxHeld = 3
  PoolEvents = {"drop", "close", "cancel"}
  None = None
INVARIANTS TypeOK CountsCover OneSession
PROPERTIES LeasedStaysConnected
CHECK_DEADLOCK FALSE
SYMMETRY Symmetry
