----------------------------- MODULE Membership -----------------------------
(***************************************************************************)
(* The teams and their members in the remote database                      *)
(* (supabase/migrations/20260907000000_init.sql): the row an account gets, *)
(* the four functions that create, join and leave a team and change its    *)
(* invite code, and the update by which people rename themselves.          *)
(*                                                                         *)
(* A function runs in one transaction.  Each of its statements reads what  *)
(* is committed when it begins; the row of the caller is locked where the  *)
(* function says so, until the transaction ends.  What a transaction       *)
(* writes is seen at its end, and its writes are its last statements, so   *)
(* that they are one step here.                                            *)
(***************************************************************************)
EXTENDS Naturals, Sequences

CONSTANTS
  Users,
  Labels,  \* what a member may be shown as (member_id)
  Slots,   \* the calls that may be under way at once, numbered from 1
  Demands  \* bounds: calls of the functions, renamings, and transactions that are cancelled

VARIABLES
  members, \* the row of each user
  teams,   \* the teams in the order they were created: their code and who created them
  issued,  \* the invite codes are numbered
  calls,   \* the calls of the functions that are under way
  lock,    \* the call that holds the row of a user
  left,    \* the teams somebody left
  demand

vars == <<members, teams, issued, calls, lock, left, demand>>

NoTeam == 0
NoRow == [team |-> NoTeam, label |-> "none"]
Ops == {"create", "join", "leave", "rotate", "rename"}
Row == [team : Nat, label : Labels] \union {NoRow}
Team == [code : Nat, by : Users]
Call == {call \in [op : Ops, by : Users, code : Nat, label : Labels \union {"none"},
                  pc : {"sent", "locked", "found"}, team : Nat, dead : SUBSET Nat] :
           call.op = "rename" => call.label \in Labels}
None == [op |-> "none"]
Free == 0
Demand == [calls : Nat, renames : Nat, cancels : Nat]

Init ==
  /\ members = [u \in Users |-> NoRow] /\ teams = <<>> /\ issued = 0
  /\ calls = [c \in Slots |-> None] /\ lock = [u \in Users |-> Free] /\ left = {} /\ demand \in Demands

Spend(what) == demand[what] > 0 /\ demand' = [demand EXCEPT ![what] = @ - 1]
Dead == (1..issued) \ {teams[t].code : t \in DOMAIN teams}
Taken(t, label, u) == t # NoTeam /\ \E v \in Users \ {u} : members[v] = [team |-> t, label |-> label]

(* handle_new_user: every account gets a row, which is in no team.         *)
SignUp(u) ==
  /\ members[u] = NoRow /\ \E l \in Labels : members' = [members EXCEPT ![u] = [team |-> NoTeam, label |-> l]]
  /\ UNCHANGED <<teams, issued, calls, lock, left, demand>>

(* A console sends the call (callRpc); the facts it has of its team may be *)
(* old, so that none of the calls can be ruled out.                        *)
Send(call) ==
  /\ \E c \in Slots : calls[c] = None /\ calls' = [calls EXCEPT ![c] = call]
  /\ UNCHANGED <<members, teams, issued, lock, left>>
Request(u) ==
  LET blank == [op |-> "leave", by |-> u, code |-> 0, label |-> "none", pc |-> "sent", team |-> NoTeam, dead |-> {}] IN
  \/ Spend("calls") /\ \E op \in {"create", "leave", "rotate"} : Send([blank EXCEPT !.op = op])
  \/ Spend("calls") /\ \E code \in 1..issued : Send([blank EXCEPT !.op = "join", !.code = code, !.dead = Dead])
  \/ Spend("renames") /\ \E l \in Labels : Send([blank EXCEPT !.op = "rename", !.label = l])

To(c, pc) == [calls EXCEPT ![c].pc = pc]
Ended(c) == [calls EXCEPT ![c] = None]
Unlocked(c) == [u \in Users |-> IF lock[u] = c THEN Free ELSE lock[u]]

(* select team_id into existing ... for update                             *)
(* Mutant of Locks: the row is read and not locked.                        *)
LocksNothing(c) == lock
Locks(c) == [lock EXCEPT ![calls[c].by] = c]
Lock(c) == LET u == calls[c].by IN
  /\ calls[c].op \in {"create", "join"} /\ calls[c].pc = "sent" /\ lock[u] = Free
  /\ IF members[u] = NoRow \/ members[u].team # NoTeam
     THEN calls' = Ended(c) /\ UNCHANGED lock
     ELSE calls' = To(c, "locked") /\ lock' = Locks(c)
  /\ UNCHANGED <<members, teams, issued, left, demand>>

(* create_team: the team, and its creator in it.                           *)
CreateTeam(c) == LET u == calls[c].by IN
  /\ calls[c].op = "create" /\ calls[c].pc = "locked"
  /\ teams' = Append(teams, [code |-> issued + 1, by |-> u]) /\ issued' = issued + 1
  /\ members' = [members EXCEPT ![u].team = Len(teams) + 1]
  /\ calls' = Ended(c) /\ lock' = Unlocked(c) /\ UNCHANGED <<left, demand>>

(* join_team: which team has the code; then into it, unless somebody there *)
(* is shown by the same label.                                             *)
FindTeam(c) == LET found == {t \in DOMAIN teams : teams[t].code = calls[c].code} IN
  /\ calls[c].op = "join" /\ calls[c].pc = "locked"
  /\ \/ \E t \in found : calls' = [To(c, "found") EXCEPT ![c].team = t] /\ UNCHANGED lock
     \/ found = {} /\ calls' = Ended(c) /\ lock' = Unlocked(c)
  /\ UNCHANGED <<members, teams, issued, left, demand>>

JoinTeam(c) == LET u == calls[c].by  t == calls[c].team IN
  /\ calls[c].op = "join" /\ calls[c].pc = "found"
  /\ IF Taken(t, members[u].label, u)
     THEN calls' = Ended(c) /\ UNCHANGED members
     ELSE /\ calls' = Ended(c) /\ members' = [members EXCEPT ![u].team = t]
  /\ lock' = Unlocked(c) /\ UNCHANGED <<teams, issued, left, demand>>

(* leave_team: one statement, which waits for the row.                     *)
LeaveTeam(c) == LET u == calls[c].by IN
  /\ calls[c].op = "leave" /\ calls[c].pc = "sent" /\ lock[u] = Free
  /\ IF members[u] = NoRow
     THEN calls' = Ended(c) /\ UNCHANGED <<members, left>>
     ELSE /\ calls' = Ended(c) /\ members' = [members EXCEPT ![u].team = NoTeam]
          /\ left' = left \union ({members[u].team} \ {NoTeam})
  /\ UNCHANGED <<teams, issued, lock, demand>>

(* rotate_invite_code: the team is read and its code replaced, with no     *)
(* lock in between.                                                        *)
ReadTeam(c) == LET t == members[calls[c].by].team IN
  /\ calls[c].op = "rotate" /\ calls[c].pc = "sent"
  /\ calls' = IF t = NoTeam THEN Ended(c) ELSE [To(c, "found") EXCEPT ![c].team = t]
  /\ UNCHANGED <<members, teams, issued, lock, left, demand>>

RotateCode(c) ==
  /\ calls[c].op = "rotate" /\ calls[c].pc = "found"
  /\ teams' = [teams EXCEPT ![calls[c].team].code = issued + 1] /\ issued' = issued + 1
  /\ calls' = Ended(c) /\ UNCHANGED <<members, lock, left, demand>>

(* members_update_self: the statement begins, waits for the row, and may   *)
(* not be one that finds another team in the row than when it began.       *)
BeginRename(c) ==
  /\ calls[c].op = "rename" /\ calls[c].pc = "sent"
  /\ calls' = [To(c, "found") EXCEPT ![c].team = members[calls[c].by].team]
  /\ UNCHANGED <<members, teams, issued, lock, left, demand>>

Rename(c) == LET u == calls[c].by IN
  /\ calls[c].op = "rename" /\ calls[c].pc = "found" /\ lock[u] = Free
  /\ IF members[u] = NoRow \/ members[u].team # calls[c].team \/ Taken(members[u].team, calls[c].label, u)
     THEN calls' = Ended(c) /\ UNCHANGED members
     ELSE calls' = Ended(c) /\ members' = [members EXCEPT ![u].label = calls[c].label]
  /\ UNCHANGED <<teams, issued, lock, left, demand>>

(* A transaction that is cancelled, or loses its connection, has done      *)
(* nothing.                                                                *)
Cancel(c) ==
  /\ calls[c] # None /\ Spend("cancels")
  /\ calls' = Ended(c) /\ lock' = Unlocked(c)
  /\ UNCHANGED <<members, teams, issued, left>>

(***************************************************************************)
(* Specification                                                           *)
(***************************************************************************)
ServerStep == \E c \in Slots :
  \/ Lock(c) \/ CreateTeam(c) \/ FindTeam(c) \/ JoinTeam(c) \/ LeaveTeam(c)
  \/ ReadTeam(c) \/ RotateCode(c) \/ BeginRename(c) \/ Rename(c)
Next == ServerStep \/ (\E u \in Users : SignUp(u) \/ Request(u)) \/ \E c \in Slots : Cancel(c)

Spec == Init /\ [][Next]_vars /\ WF_vars(ServerStep)

TypeOK ==
  /\ members \in [Users -> Row] /\ teams \in Seq(Team) /\ issued \in Nat /\ calls \in [Slots -> Call \union {None}]
  /\ lock \in [Users -> Slots \union {Free}] /\ left \subseteq DOMAIN teams /\ demand \in Demand

(***************************************************************************)
(* Properties                                                              *)
(***************************************************************************)
(* Nobody changes from one team to another without having left, whatever   *)
(* calls are under way at once (init.sql "the team-hopping guard").        *)
NoHop == \A u \in Users : members[u].team # NoTeam => members'[u].team \in {members[u].team, NoTeam}

(* A team that nobody is in has been left: two calls at once do not leave  *)
(* one behind that its creator never was in.                               *)
NoneStranded == \A t \in DOMAIN teams : t \in left \/ \E u \in Users : members[u].team = t

(* Two members of a team are never shown by one label, though one renames  *)
(* while the other joins.                                                  *)
LabelsApart == \A u \in Users : ~Taken(members[u].team, members[u].label, u)

(* A code that was replaced before a call was made opens no team to it.    *)
OldCodesDead == \A c \in Slots : calls[c].op = "join" /\ calls[c].pc = "found" => calls[c].code \notin calls[c].dead

(* Every call is answered, and no lock is kept.                            *)
CallsEnd == (\A c \in Slots : calls[c] = None) /\ \A u \in Users : lock[u] = Free

(* init.sql:472 says of the change of a code that it is "Restricted to a   *)
(* current member of that team".                                           *)
RotatedByMember ==
  [][\A t \in DOMAIN teams : teams'[t].code # teams[t].code => \E u \in Users : members[u].team = t]_vars

(* team.ts:316 answers that the old code is dead at once.                  *)
JoinedByLiveCode ==
  [][\A u \in Users : members'[u].team \in DOMAIN teams \ {members[u].team} =>
       \E c \in Slots : calls[c].op = "join" /\ calls[c].by = u /\ calls[c].code = teams[members'[u].team].code]_vars
=============================================================================
