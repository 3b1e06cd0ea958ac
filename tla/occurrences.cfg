SPECIFICATION Spec
CONSTANTS
  Tasks = {t1}
  Keys = {k1, k2}
  Runs = {r1, r2, r3}
  MaxOcc = 3
  MaxUserRuns = 1
  None = None
  Events = {"skip", "liveEdit", "rearm", "overrun", "crash", "retire"}
INVARIANTS TimerMatchesRow NeverEarly
PROPERTIES NoOccurrenceLost
CHECK_DEADLOCK FALSE
SYMMETRY Symmetry
