SPECIFICATION PartsSpec
CONSTANTS
  MaxMsgs = 3
  Policies <- TwoPolicies
  Loads <- BothLoads
  Rules = {"r", "s"}
  Talks = {"chat"}
  Processes = {"bot", "console"}
  MaxCandidates = 3
  MaxChats = 2
  Tasks <- AllTasks
  Linear = {"L"}
  Github = {"G"}
  NoIssue = "none"
  Sayings <- BothSayings
  Downs <- LinearDown
  LastDay = 2
  Mentions <- GithubNames
  Reviews = {1, 2}
  Rounds <- FourRounds
  Calls = {1, 2, 3, 4}
  Payers = {"r1", "r2"}
  Callers = {"service"}
  Costs = {0, 2}
  Dearest = 2
  TaskLimit = 3
  DayLimit = 3
  LastBill = 2
  OpenParts = {"chat", "rules", "drift", "web", "meter", "desk"}
INVARIANTS AgentsKept SpendBounded DriftAsked
PROPERTIES RequestsAnswered RulesKept TurnsSettle DeskKept
CHECK_DEADLOCK FALSE
