SPECIFICATION PartsSpec
CONSTANTS
  MaxMsgs = 1
  Policies <- TwoPolicies
  Loads <- Short
  Rules = {"r", "s"}
  Talks = {"chat"}
  Processes = {"bot", "console"}
  MaxCandidates = 3
  MaxChats = 2
  Tasks <- AllTasks
  Linear = {"L"}
  Github = {"G"}
  NoIssue = "none"
  Mentions <- GithubNames
  Sayings <- BothSayings
  Downs <- LinearDown
  LastDay = 2
  Reviews = {1, 2}
  Rounds <- FourRounds
  Calls = {1, 2, 3, 4}
  Payers = {"r1", "r2"}
  Callers = {"service"}
  Costs = {0, 2}
  Dearest = 2
  TaskLimit = 3
  DayLimit = 3
  LastBill = 2
  OpenParts = {"chat"}
PROPERTY FailureShown
CHECK_DEADLOCK FALSE
