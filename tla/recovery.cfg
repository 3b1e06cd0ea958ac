SPECIFICATION Spec
CONSTANTS
  Ids = {i1}
  Old = {o1}
  Concurrency = 1
  Window = 1
PROPERTIES Recovers
CHECK_DEADLOCK FALSE
