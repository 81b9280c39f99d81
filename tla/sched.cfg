SPECIFICATION FairSpec
CONSTANTS
  p1 = p1
  p2 = p2
  t1 = t1
  t2 = t2
  Procs <- Both
  Slots <- TwoTicks
  Order <- AllJobs
  TimeOf <- DayTimes
  SkipOnWeeklyDay = TRUE
  DayLen = 3
  WeeklyDays = {0}
  CycleDays = {1}
  RetryDelay = 1
  StaleAfter = 1
  MaxClock = 5
  Loads <- AllLoads
INVARIANTS MarksHonest
PROPERTIES DueGetsDone
CHECK_DEADLOCK FALSE
