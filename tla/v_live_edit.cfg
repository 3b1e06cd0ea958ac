SPECIFICATION Spec
CONSTANTS
  Tasks = {t1}
  Keys = {k1}
  Runs = {r1, r2}
  MaxOcc = 2
  MaxUserRuns = 0
  None = None
  Events = {"liveEdit"}
INVARIANT ScheduleHasTimer
CHECK_DEADLOCK FALSE
