SPECIFICATION Spec
CONSTANTS
  Tasks = {t1, t2}
  Keys = {k1}
  Runs = {r1, r2, r3}
  MaxOcc = 1
  MaxUserRuns = 2
  None = None
  Events = {"run", "test", "cancel", "close"}
INVARIANTS TypeOK NoLeakedReservation MutualExclusion RunningRowIsLive
CHECK_DEADLOCK FALSE
SYMMETRY Symmetry
