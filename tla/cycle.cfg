SPECIFICATION FairSpec
CONSTANTS
  Users = {u1, u2}
  Teams = {t1, t2}
  Founded = {t1}
  Cycles = {c1}
  Contents = {a, b}
  NoTeam = NoTeam
  NoContent = NoContent
  Loads <- AllLoads
INVARIANTS VersionsHonest RemoteIsNewest
PROPERTIES ImplementsMirror Converges
CHECK_DEADLOCK FALSE
