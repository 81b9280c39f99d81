SPECIFICATION PartsSpec
CONSTANTS
  w1 = w1
  w2 = w2
  s1 = s1
  Workflows <- AllWorkflows
  Skills <- AllSkills
  Sends <- SendingOnes
  Titles = {"paper", "mail"}
  Windows <- TwoWindows
  LastSlot = 3
  Wishes <- MoveOrDrop
  MaxCards = 2
  MaxHandlers = 2
  MaxBatch = 2
  Bookings <- AllBookings
  Weeks = {"w"}
  Kept = 2
  MaxDrafts = 2
  Endings <- AllEndings
  Efforts <- AllEfforts
  OpenParts = {"runs", "calendar", "evidence", "pack", "review"}
INVARIANTS LedgerHonest CalendarKept EvidenceHonest WritebackConfirmed
PROPERTIES SkillCancelSticks RunSettles
CHECK_DEADLOCK FALSE
