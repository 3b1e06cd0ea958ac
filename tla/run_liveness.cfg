SPECIFICATION FairSpec
CONSTANTS
  Tasks = {t1}
  Keys = {k1}
  Runs = {r1, r2}
  MaxOcc = 1
  MaxUserRuns = 1
  None = None
  Events = {"run", "test", "cancel"}
PROPERTIES CancelEndsRun KeyIsFreed
CHECK_DEADLOCK FALSE
