SPECIFICATION PartsSpec
CONSTANTS
  Sources = {c1, plan}
  Watched = {c1}
  Callers = {r1}
  MaxChanges = 2
  MaxFails = 1
  OpenParts = {"queue", "board", "members"}
  Contents = {"a", "b"}
  NoContent = "none"
  LastDay = 3
  PushDays = 1
  HistoryDays = 1
  RetentionDays = 1
  MaxClock = 2
  Doses <- AllDoses
INVARIANTS QueueHonest TeammateSees
PROPERTIES JobsServed MembershipHolds
CHECK_DEADLOCK FALSE
