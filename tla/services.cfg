SPECIFICATION ServicesSpec
CONSTANTS
  Parts = {"runner", "login", "chats", "wait", "workflow", "schedule"}
  Ids = {i1, i2}
  Old = {o1}
  Concurrency = 1
  Window = 1
  Flows = {f1, f2}
  NoFlow = NoFlow
  Users = {u1, u2}
  Photos = {1, 2}
  MaxMessage = 2
  Limit = 2
  Workflows <- Definitions
  MaxDepth = 3
  MaxAttempts = 2
  Schedules <- Calendars
  Zones <- Changes
  DayLength = 4
  WeekLength = 3
  LastDay = 2
INVARIANTS ServicesTypeOK RunnerContained AccountsLeaveNothing AcceptedRuns ProgressTold NoReplyMissed EarliestIsArmed
CHECK_DEADLOCK FALSE
