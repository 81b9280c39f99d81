SPECIFICATION PartsSpec
CONSTANTS
  c1 = c1
  t1 = t1
  Tasks <- OneTask
  Captures <- OneCapture
  LastDay = 2
  MaxRuns = 1
  OwnDays <- SecondDay
  Profiles <- Users
  LastCycle = 2
  Things = {"errand", "issue"}
  Issues = {"issue"}
  Captured = {"errand"}
  Jobs = {1, 2}
  Loads <- AllLoads
  Items = {"i"}
  Regular = {"i1", "i2"}
  Adhocs = {"a"}
  ItemOf <- Belongs
  LastPlanned = 3
  Budgets <- AllBudgets
  Tables <- BothTables
  OkrRows = 2
  Records <- AllRecords
  Passings <- AllPassings
  OpenParts = {"outputs"}

PROPERTY PastDayShown
CHECK_DEADLOCK FALSE
