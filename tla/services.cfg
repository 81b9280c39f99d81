SPECIFICATION PartsSpec
CONSTANTS
  Users = {ann, bob}
  Teams = {red}
  NoTeam = none
  Threads = {t1, t2}
  ParentReuse = TRUE
  Loads <- Both
  OpenParts = {"session", "skill", "okr", "replies", "accounts", "notes", "days"}
  Names = {"admin", "ann"}
  Admin = "admin"
  Passwords = {1, 2}
  Consoles = {"ui"}
  Tokens = {1, 2}
  TTL = 1
  LastDate = 2
  Uses <- AllUses
  Dirs = {"home", "other"}
  Home = "home"
  Link = "nowhere"
  Nowhere = "nowhere"
  Settings = {1, 2}
  LastHead = 2
  Chores <- AllChores
  Krs = {"k", "m"}
  Files = 2
  Top = 3
  BigJump = 2
  KeptRuns = 1
  MaxRuns = 2
  Proposals <- Proposed
  Efforts <- AllEfforts
  Suggestions = {"s1", "s2"}
  Options = {"c1", "c2"}
  Messages = 2
  MaxTold = 2
  MaxKept = 2
  Ticks = {1, 2}
  Talks <- AllTalks
INVARIANTS AccountsNotMixed AnswersMeanTold SessionsHold NotesTell
PROPERTIES SessionHonest InstallKeeps ProgressHonest
SYMMETRY Symmetry
CHECK_DEADLOCK FALSE
