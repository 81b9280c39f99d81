---------------------------- MODULE TeamSession ----------------------------
(***************************************************************************)
(* The stored Supabase session of one machine (src/team/session.ts) and    *)
(* the console's team operations on it (src/team/team.ts): sign-in and     *)
(* sign-out, membership changes, the refresh of the cached team facts, and *)
(* the calls of the sync loop, each of which may exchange the refresh      *)
(* token on its way.                                                       *)
(*                                                                         *)
(* Every operation is a thread that gives way at each await: between       *)
(* reading the session file and writing it back others may have written.   *)
(* The remote end is external: GoTrue's rotating refresh tokens and the    *)
(* team RPCs.  A token is a sign-in and a generation, the access and the   *)
(* refresh token of that generation.                                       *)
(***************************************************************************)
EXTENDS Naturals, Sequences, FiniteSets

CONSTANTS
  Users, Teams, NoTeam,
  Threads,       \* operations that may be in flight at once
  ParentReuse,   \* the remote takes the parent of the active token once more
  Loads          \* bounds: the loads a behaviour may have

(* A load: how many operations overlap, how many sign-ins and other        *)
(* operations there are, how many access tokens expire, requests or        *)
(* answers are lost, and how much the users do on other devices.           *)
Load == [atOnce : Nat, signIns : Nat, ops : Nat, expiries : Nat, faults : Nat,
         elsewhere : Nat]

ASSUME LoadAssumption == Loads \subseteq Load
ASSUME TeamAssumption == NoTeam \notin Teams
ASSUME ThreadsAssumption == IsFiniteSet(Threads)
ASSUME ReuseAssumption == ParentReuse \in BOOLEAN

VARIABLES
  grants,   \* remote: of each sign-in the user, the active generation, live
  member,   \* remote: the team of each user
  stale,    \* the tokens whose access token has expired
  stored,   \* the session file: {} or {record}
  thread,   \* the operations in flight
  been,     \* the memberships there have been
  crossed,  \* the teams filed for an account from another one's record
  doubt,    \* the membership changed, or a read failed, since the last read
  left      \* what is left of the load

vars == <<grants, member, been, crossed, stale, stored, thread, doubt, left>>

Rest == [op |-> "none", stage |-> "none", pc |-> "idle", copy |-> {}, base |-> {},
         since |-> {}, team |-> NoTeam, answer |-> {}, tried |-> FALSE]
New(op) == [Rest EXCEPT !.op = op, !.since = {s.token : s \in stored}]
UserOf(token) == grants[token[1]].user
Token(n) == <<n, grants[n].active>>

Init ==
  /\ grants = <<>>
  /\ member \in [Users -> Teams \union {NoTeam}]
  /\ been = {<<u, member[u]>> : u \in Users}
  /\ crossed = {} /\ stale = {} /\ stored = {} /\ doubt = FALSE
  /\ thread = [t \in Threads |-> Rest]
  /\ left \in Loads

Set(t, x) == thread' = [thread EXCEPT ![t] = x]

(* The operation is over without what it asked for, with the file f: a     *)
(* sign-out clears the file all the same.                                  *)
GiveUp(t, x, f) ==
  /\ Set(t, Rest)
  /\ stored' = IF x.stage = "logout" THEN {} ELSE f
  /\ doubt' = (doubt \/ x.stage \in {"rpc", "self", "rest"})

(* supabaseFetch with the file f: the stored session is read, and its      *)
(* token refreshed first when it has expired.                              *)
Fetch(t, x, f) ==
  \/ f = {} /\ GiveUp(t, x, f)
  \/ \E s \in f :
       /\ Set(t, [x EXCEPT !.copy = {s}, !.tried = FALSE,
                           !.pc = IF s.token \in stale THEN "refresh" ELSE "call"])
       /\ stored' = f /\ UNCHANGED doubt

(* refreshTeamFacts: the record it will write back is read here.           *)
Facts(t, x, f) == Fetch(t, [x EXCEPT !.base = f, !.stage = "self"], f)

(* The facts are cached: the whole record is written back.                 *)
Keep(t, x) ==
  /\ stored' = {[s EXCEPT !.team = x.team] : s \in x.base}
  /\ Set(t, Rest) /\ UNCHANGED doubt

(***************************************************************************)
(* The operations, up to their first await                                 *)
(***************************************************************************)
Starts(t) ==
  /\ thread[t].pc = "idle"
  /\ Cardinality({o \in Threads : thread[o].pc # "idle"}) < left.atOnce
Ask(t) == /\ Starts(t) /\ stored # {} /\ left.ops > 0
          /\ left' = [left EXCEPT !.ops = @ - 1]
          /\ UNCHANGED <<grants, member, been, crossed, stale>>

SyncCall(t) == Ask(t) /\ Fetch(t, [New("sync") EXCEPT !.stage = "sync"], stored)
RefreshTeam(t) == Ask(t) /\ Facts(t, New("refresh"), stored)
SignOut(t) == Ask(t) /\ Fetch(t, [New("signOut") EXCEPT !.stage = "logout"], stored)

(* createTeam and joinTeam.                                                *)
JoinTeam(t, m) ==
  /\ Ask(t) /\ \A s \in stored : s.team = NoTeam
  /\ Fetch(t, [New("join") EXCEPT !.stage = "rpc", !.team = m], stored)

(* leaveTeam and rotateInviteCode.                                         *)
LeaveOrRotate(t, op) ==
  /\ Ask(t) /\ \A s \in stored : s.team # NoTeam
  /\ Fetch(t, [New(op) EXCEPT !.stage = "rpc"], stored)

(* The remote opens a session, with a grant of its own.                    *)
Opened(t, u, f) ==
  /\ Starts(t) /\ left.signIns > 0
  /\ left' = [left EXCEPT !.signIns = @ - 1]
  /\ grants' = Append(grants, [user |-> u, active |-> 0, live |-> TRUE])
  /\ Set(t, [New("signIn") EXCEPT !.pc = "body", !.base = f,
                                 !.answer = {<<Len(grants) + 1, 0>>}])
  /\ UNCHANGED <<member, been, crossed, stale, stored, doubt>>

(* The right password: the record on file is read, and then the body of    *)
(* the answer awaited.                                                     *)
SignIn(t, u) == Opened(t, u, stored)

(* signUp, of a user who has neither signed in nor been in a team, without *)
(* a confirmation by mail: it takes no record over.                        *)
SignUp(t, u) ==
  /\ \A n \in DOMAIN grants : grants[n].user # u
  /\ \A m \in Teams : <<u, m>> \notin been
  /\ Opened(t, u, {})

(* Mutant of Inherited: the cached team is the new account's, too.         *)
InheritedAlways(base, u) ==
  IF base = {} THEN NoTeam ELSE (CHOOSE s \in base : TRUE).team

(* The team of the record that was read before, unless another account is  *)
(* on file now.                                                            *)
Inherited(base, u) ==
  IF base = {} \/ \E s \in stored : s.user # u
  THEN NoTeam ELSE (CHOOSE s \in base : TRUE).team

(* The body is there: the record is filed.  If another account came or the *)
(* file was cleared in the meantime, the team may be of neither.           *)
SignedIn(t) ==
  LET x == thread[t] IN
  /\ x.pc = "body"
  /\ \E k \in x.answer :
       LET u == UserOf(k)  team == Inherited(x.base, u) IN
       /\ crossed' = IF {s.user : s \in x.base} # {s.user : s \in stored} /\ team # NoTeam
                     THEN crossed \union {<<u, team>>} ELSE crossed
       /\ Facts(t, x, {[user |-> u, token |-> k, team |-> team]})
  /\ UNCHANGED <<grants, member, been, stale, left>>

(***************************************************************************)
(* refreshStoredSession                                                    *)
(***************************************************************************)
Fault == left.faults > 0 /\ left' = [left EXCEPT !.faults = @ - 1]

(* The remote exchanges the token: the active one for the next, its parent *)
(* for the active one with a new access token; any other is rejected.      *)
RefreshServed(t) ==
  LET x == thread[t] IN
  \E s \in x.copy :
    LET n == s.token[1]  g == s.token[2]  a == grants[n].active IN
    /\ x.pc = "refresh"
    /\ IF grants[n].live /\ g = a
       THEN /\ grants' = [grants EXCEPT ![n].active = a + 1]
            /\ Set(t, [x EXCEPT !.pc = "answer", !.answer = {<<n, a + 1>>}])
            /\ UNCHANGED stale
       ELSE LET again == grants[n].live /\ ParentReuse /\ g = a - 1 IN
            /\ Set(t, [x EXCEPT !.pc = "answer",
                               !.answer = IF again THEN {Token(n)} ELSE {}])
            /\ stale' = IF again THEN stale \ {Token(n)} ELSE stale
            /\ UNCHANGED grants
    /\ UNCHANGED <<member, been, crossed, stored, doubt, left>>

(* The answer: a new token is written with the rest of the copy the        *)
(* operation has, a rejection ends the session.                            *)
Refreshed(t) ==
  LET x == thread[t] IN
  /\ x.pc = "answer"
  /\ \/ x.answer = {} /\ GiveUp(t, x, {})
     \/ \E s \in x.copy, token \in x.answer :
          LET new == [s EXCEPT !.token = token] IN
          /\ Set(t, [x EXCEPT !.pc = "call", !.copy = {new}, !.answer = {}])
          /\ stored' = {new} /\ UNCHANGED doubt
  /\ UNCHANGED <<grants, member, been, crossed, stale, left>>

(* Mutant of Unreachable: it is treated like a rejection.                  *)
UnreachableEnds(t) ==
  LET x == thread[t] IN
  /\ x.pc \in {"body", "refresh", "answer", "call"} /\ Fault
  /\ GiveUp(t, x, {})
  /\ UNCHANGED <<grants, member, been, crossed, stale>>

(* A request or an answer is lost, or the remote answers 5xx: the file is  *)
(* kept.                                                                   *)
Unreachable(t) ==
  LET x == thread[t] IN
  /\ x.pc \in {"body", "refresh", "answer", "call"} /\ Fault
  /\ GiveUp(t, x, stored)
  /\ UNCHANGED <<grants, member, been, crossed, stale>>

(***************************************************************************)
(* The authenticated call                                                  *)
(***************************************************************************)
(* 401: refreshed and called again, once.                                  *)
Unauthorized(t) ==
  LET x == thread[t] IN
  /\ x.pc = "call" /\ \E s \in x.copy : s.token \in stale
  /\ IF x.tried THEN GiveUp(t, x, stored)
     ELSE /\ Set(t, [x EXCEPT !.pc = "refresh", !.tried = TRUE])
          /\ UNCHANGED <<stored, doubt>>
  /\ UNCHANGED <<grants, member, been, crossed, stale, left>>

(* What user v sees of user u's row: their own, or a team mate's.          *)
Visible(v, u) == IF v = u \/ member[v] = member[u] THEN member[u] ELSE NoTeam

(* The caller's own row.  With a team its name and roster are read next.   *)
SelfRead(t, x, v) ==
  \E b \in x.base :
    LET team == Visible(v, b.user)
        y == [x EXCEPT !.team = team, !.stage = "rest"] IN
    /\ IF team = NoTeam
       THEN Set(t, Rest) /\ stored' = {[b EXCEPT !.team = NoTeam]} /\ doubt' = FALSE
       ELSE \/ /\ stored = {} /\ Set(t, Rest) /\ doubt' = TRUE /\ UNCHANGED stored
            \/ \E s \in stored :
                 /\ Set(t, [y EXCEPT !.copy = {s}, !.tried = FALSE,
                              !.pc = IF s.token \in stale THEN "refresh" ELSE "call"])
                 /\ doubt' = FALSE /\ UNCHANGED stored
    /\ UNCHANGED <<grants, member, been, crossed, stale, left>>

(* create_team, join_team and leave_team.                                  *)
Become(u, m) == /\ member' = [member EXCEPT ![u] = m]
                /\ been' = been \union {<<u, m>>}
Changed(x, v) ==
  \/ x.op = "join" /\ member[v] = NoTeam /\ Become(v, x.team)
  \/ x.op = "leave" /\ member[v] # NoTeam /\ Become(v, NoTeam)
  \/ x.op = "rotate" /\ member[v] # NoTeam /\ UNCHANGED <<member, been>>

(* The answer of the RPC, and refreshQuietly.                              *)
Rpc(t, x, v) ==
  \/ /\ Changed(x, v) /\ Facts(t, x, stored) /\ UNCHANGED left
  \/ /\ Changed(x, v) /\ Fault /\ GiveUp(t, x, stored)   \* the answer is lost
  \/ /\ (x.op = "join") = (member[v] # NoTeam)           \* refused
     /\ GiveUp(t, x, stored) /\ UNCHANGED <<member, been, left>>

Logout(t, v, n) ==
  /\ grants' = [grants EXCEPT ![n].live = FALSE]
  /\ stored' = {} /\ Set(t, Rest) /\ UNCHANGED <<member, been, crossed, stale, doubt, left>>

Call(t) ==
  LET x == thread[t] IN
  \E s \in x.copy :
    LET v == UserOf(s.token) IN
    /\ x.pc = "call" /\ s.token \notin stale
    /\ \/ x.stage = "sync" /\ Set(t, Rest)
          /\ UNCHANGED <<grants, member, been, crossed, stale, stored, doubt, left>>
       \/ x.stage = "rpc" /\ Rpc(t, x, v) /\ UNCHANGED <<grants, crossed, stale>>
       \/ x.stage = "self" /\ SelfRead(t, x, v)
       \/ x.stage = "rest" /\ Keep(t, x) /\ UNCHANGED <<grants, member, been, crossed, stale, left>>
       \/ x.stage = "logout" /\ Logout(t, v, s.token[1])

(***************************************************************************)
(* Time and other devices                                                  *)
(***************************************************************************)
(* An access token expires; no operation lasts as long as a token lives.   *)
Expire(n) ==
  /\ Token(n) \notin stale
  /\ \A t \in Threads : thread[t].pc # "idle" => Token(n) \in thread[t].since
  /\ left.expiries > 0
  /\ left' = [left EXCEPT !.expiries = @ - 1]
  /\ stale' = stale \union {Token(n)}
  /\ UNCHANGED <<grants, member, been, crossed, stored, thread, doubt>>

Elsewhere(u) ==
  /\ left.elsewhere > 0
  /\ left' = [left EXCEPT !.elsewhere = @ - 1]
  /\ \/ /\ \E m \in Teams \union {NoTeam} : Become(u, m)
        /\ doubt' = TRUE /\ UNCHANGED grants
     \/ /\ grants' = [n \in DOMAIN grants |->
             [grants[n] EXCEPT !.live = @ /\ grants[n].user # u]]
        /\ UNCHANGED <<member, been, doubt>>
  /\ UNCHANGED <<crossed, stale, stored, thread>>

Operation(t) ==
  \/ SyncCall(t) \/ RefreshTeam(t) \/ SignOut(t)
  \/ \E op \in {"leave", "rotate"} : LeaveOrRotate(t, op)
  \/ \E m \in Teams : JoinTeam(t, m)
  \/ \E u \in Users : SignIn(t, u) \/ SignUp(t, u)

Next ==
  \/ \E t \in Threads : \/ Operation(t) \/ SignedIn(t) \/ RefreshServed(t) \/ Refreshed(t)
                        \/ Unreachable(t) \/ Unauthorized(t) \/ Call(t)
  \/ \E n \in DOMAIN grants : Expire(n)
  \/ \E u \in Users : Elsewhere(u)

Spec == Init /\ [][Next]_vars

(***************************************************************************)
(* Properties                                                              *)
(***************************************************************************)
Records == [user : Users, token : Nat \X Nat, team : Teams \union {NoTeam}]

Held == stored \union UNION {thread[t].copy \union thread[t].base : t \in Threads}

(* The variables have their types, the file holds one session at most, and *)
(* every token anyone holds is one issued to the account it is held for.   *)
TypeOK ==
  /\ grants \in Seq([user : Users, active : Nat, live : BOOLEAN])
  /\ member \in [Users -> Teams \union {NoTeam}]
  /\ been \union crossed \subseteq Users \X (Teams \union {NoTeam}) /\ doubt \in BOOLEAN
  /\ stale \subseteq Nat \X Nat /\ left \in Load
  /\ Held \subseteq Records /\ \A s, r \in stored : s = r
  /\ \A s \in Held : /\ s.token[1] \in DOMAIN grants /\ UserOf(s.token) = s.user
                     /\ s.token[2] <= grants[s.token[1]].active

Quiet == \A t \in Threads : thread[t].pc = "idle"

(* The cached team is one the account on file has been in, though          *)
(* sign-ins, refreshes and reads overlap; only a sign-in while which the   *)
(* file changed hands may have brought another one's, and nothing after it *)
(* spreads that to a third account.                                        *)
AccountsNotMixed ==
  \A s \in stored : s.team # NoTeam => <<s.user, s.team>> \in been \union crossed

(* "A different account must not inherit the previous one's cached team":  *)
(* not so when operations overlap.                                         *)
AccountsAlwaysApart ==
  \A s \in stored : s.team # NoTeam => <<s.user, s.team>> \in been

(* One operation at a time; what follows fails when they overlap.          *)
Alone == left.atOnce = 1

(* A session is neither lost nor brought back: only signing out, here or   *)
(* elsewhere, ends it, not expired tokens, lost answers or an unreachable  *)
(* remote; a sign-out ends signed out even when the remote cannot be       *)
(* reached; and from then on only a sign-in signs the machine in           *)
(* (team/session.ts, team/team.ts).                                        *)
SurvivingStep ==
  stored # {} /\ stored' = {} =>
    \/ \A s \in stored : ~grants[s.token[1]].live
    \/ \E t \in Threads : thread[t].op = "signOut" /\ thread'[t].op = "none"
SignedOutStep ==
  /\ stored = {} /\ stored' # {} =>
       \E t \in Threads : thread[t].op = "signIn" /\ thread[t].pc = "body"
  /\ \A t \in Threads :
       thread[t].op = "signOut" /\ thread'[t].op = "none" => stored' = {}
SessionHonest == [][Alone => SurvivingStep /\ SignedOutStep]_vars

(* "Local sign-out always wins", whatever is in flight.                    *)
SignOutWins == [][SignedOutStep]_vars

(* With nothing in flight the cached team is the one the user is in,       *)
(* unless it changed elsewhere or the last attempt to read it failed.      *)
FactsCurrent ==
  Alone /\ Quiet /\ ~doubt => \A s \in stored : s.team = member[s.user]
=============================================================================
