SPECIFICATION ServicesSpec
CONSTANTS
  Parts = {"wait"}
  Ids = {i1}
  Old = {}
  Concurrency = 1
  Window = 1
  Flows = {f1}
  NoFlow = NoFlow
  Users = {u1}
  Photos = {1, 2}
  MaxMessage = 2
  Limit = 2
  Workflows <- Definitions
  MaxDepth = 3
  MaxAttempts = 2
  Schedules <- Calendars
  Zones <- Changes
  DayLength = 4
  WeekLength = 3
  LastDay = 2
INVARIANT SettledOnce
CHECK_DEADLOCK FALSE
