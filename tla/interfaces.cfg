SPECIFICATION Spec
CONSTANTS
  Users = {u1}
  Codes = {c1, c2}
  CodeTTL = 1
  ConfirmTTL = 0
  Day = 1
  MaxPoints = 2
  MaxNow = 1
  Defaults = {n1}
  Customs = {x1, x2}
  Administrators = {a1}
  Idlers = {}
  MaxWrites = 2
  Listed = {n1, n2}
  Unlisted = {}
  Refreshers = {f1, f2}
  Challenges = {h1, h2}
  Tokens = {t1}
  Rotation = 2
  Grace = 2
  NonceTTL = 2
  Skew = 1
  Lifetime = 2
  PruneEvery = 1
  MaxFailures = 1
  FailureWindow = 1
  MaxClock = 3
  MaxKeys = 2
  Streams = {s1, s2}
  Capacity = 2
  Backups = 1
  MaxLines = 3
  MaxFiles = 3
  Runs = {q1, q2}
  MaxChanges = 3
  Editors = {e1, e2}
  MaxRevision = 4
INVARIANTS InterfacesTypeOK GrantsHold CommandsHold NoSilentLoss
PROPERTIES ActsAsAdmin EditsKeepOthers
CHECK_DEADLOCK FALSE
