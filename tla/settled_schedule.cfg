SPECIFICATION Spec
CONSTANTS
  Tasks = {t1}
  Keys = {k1, k2}
  Runs = {r1, r2, r3}
  MaxOcc = 2
  MaxUserRuns = 2
  None = None
  Events = {"run", "test", "skip", "rearm", "crash", "retire"}
INVARIANTS ScheduleHasTimer ConsumedOnce LiveStateAgrees
PROPERTIES OutcomeIsFinal ManualKeepsSchedule
CHECK_DEADLOCK FALSE
SYMMETRY Symmetry
