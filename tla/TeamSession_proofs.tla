------------------------- MODULE TeamSession_proofs -------------------------
(***************************************************************************)
(* What the session file promises, proved for any number of accounts,      *)
(* teams and operations in flight: no account is given a team it has never *)
(* been in, however the operations overlap, but for a sign-in under which  *)
(* the file changes hands; and while they do not, nothing                  *)
(* but a sign-out ends a session, nothing but a sign-in begins one, and    *)
(* what is cached of the team is so.                                       *)
(*                                                                         *)
(* After it four parts of the sum of MC_Services: the sessions of the      *)
(* console (Accounts), the checkouts of skills and the settings beside     *)
(* them (SkillRepo), the key results with their history (OkrWriteback),    *)
(* and what the user's answers are taken for (Replies).                    *)
(***************************************************************************)
EXTENDS MC_Services, FiniteSetTheorems, TLAPS

\* What an operation in flight is made of.
Ops == {"none", "sync", "refresh", "signOut", "join", "leave", "rotate", "signIn"}
Stages == {"none", "sync", "logout", "rpc", "self", "rest"}
Operations ==
  [op : Ops, stage : Stages, pc : {"idle", "body", "refresh", "answer", "call"},
   copy : SUBSET Records, base : SUBSET Records, since : SUBSET (Nat \X Nat),
   team : Teams \union {NoTeam}, answer : SUBSET (Nat \X Nat), tried : BOOLEAN]
Grants == [user : Users, active : Nat, live : BOOLEAN]

\* The teams that an account may be filed with.
Met == been \union crossed

\* With the sign-ins g: a token that one of them was given.
Issued(k, g) == k \in Nat \X Nat /\ k[1] \in 1..Len(g) /\ k[2] <= g[k[1]].active

\* With the teams b that the accounts may be filed with: a record of one account,
\* with a token issued to it and such a team.
Good(s, g, b) ==
  /\ s \in Records /\ Issued(s.token, g) /\ g[s.token[1]].user = s.user
  /\ s.team # NoTeam => <<s.user, s.team>> \in b

Filed(f, g, b) == (\A s \in f : Good(s, g, b)) /\ (\A s, r \in f : s = r)

\* An operation that holds and will write back nothing but good records: its
\* answer belongs to the sign-in of its copy, and the team that it has read to
\* the account it will be written for.
Sane(x, g, b) ==
  /\ x \in Operations
  /\ Filed(x.copy, g, b) /\ Filed(x.base, g, b)
  /\ \A k \in x.since : Issued(k, g)
  /\ x.pc = "answer" =>
       \A s \in x.copy, k \in x.answer : k[1] = s.token[1] /\ Issued(k, g)
  /\ x.pc = "body" => \A k \in x.answer : Issued(k, g)
  /\ x.stage = "rest" =>
       x.team # NoTeam /\ \A s \in x.base : <<s.user, x.team>> \in b

SessionInv ==
  /\ grants \in Seq(Grants) /\ member \in [Users -> Teams \union {NoTeam}]
  /\ been \subseteq Users \X (Teams \union {NoTeam})
  /\ crossed \subseteq Users \X (Teams \union {NoTeam})
  /\ doubt \in BOOLEAN /\ left \in Load
  /\ \A k \in stale : Issued(k, grants)
  /\ \A u \in Users : <<u, member[u]>> \in been
  /\ Filed(stored, grants, Met)
  /\ thread \in [Threads -> Operations]
  /\ \A t \in Threads : Sane(thread[t], grants, Met)

\* Sign-ins are only added, and only exchange tokens for newer ones.
Grown(g, h) ==
  /\ h \in Seq(Grants) /\ Len(g) <= Len(h)
  /\ \A n \in 1..Len(g) : h[n].user = g[n].user /\ g[n].active <= h[n].active

LEMMA GrantTypes ==
  ASSUME NEW g \in Seq(Grants), NEW n \in 1..Len(g)
  PROVE  g[n] \in Grants /\ g[n].user \in Users /\ g[n].active \in Nat /\ g[n].live \in BOOLEAN
<1>1. g[n] \in Grants
  OBVIOUS
<1>. QED  BY <1>1 DEF Grants

LEMMA InvTypes == ASSUME SessionInv PROVE TypeOK /\ AccountsNotMixed
<1>1. \A s \in Held : Good(s, grants, Met)
  BY DEF SessionInv, Filed, Sane, Held
<1>2. \A s \in Held : s \in Records /\ s.token[1] \in DOMAIN grants
                      /\ UserOf(s.token) = s.user /\ s.token[2] <= grants[s.token[1]].active
  <2>. grants \in Seq(Grants)
    BY DEF SessionInv
  <2>1. DOMAIN grants = 1..Len(grants)
    OBVIOUS
  <2>. QED  BY <1>1, <2>1 DEF Good, Issued, UserOf
<1>3. stale \subseteq Nat \X Nat
  BY DEF SessionInv, Issued
<1>4. TypeOK
  BY <1>2, <1>3 DEF SessionInv, TypeOK, Filed, Grants
<1>. QED  BY <1>4 DEF AccountsNotMixed, SessionInv, Filed, Good, Met

LEMMA RestOk == Rest \in Operations /\ \A g, b : Sane(Rest, g, b)
BY DEF Rest, Operations, Ops, Stages, Sane, Filed

LEMMA InitInv == ASSUME Init PROVE SessionInv
<1>1. left \in Load
  BY LoadAssumption DEF Init
<1>2. \A t \in Threads : thread[t] = Rest
  BY DEF Init
<1>3. thread \in [Threads -> Operations]
  BY RestOk DEF Init
<1>4. \A t \in Threads : Sane(thread[t], grants, Met)
  BY <1>2, RestOk
<1>5. been \subseteq Users \X (Teams \union {NoTeam}) /\ crossed \subseteq Users \X (Teams \union {NoTeam})
  BY DEF Init
<1>6. \A u \in Users : <<u, member[u]>> \in been
  BY DEF Init
<1>7. grants \in Seq(Grants) /\ stale = {} /\ stored = {}
  BY DEF Init
<1>. QED  BY <1>1, <1>3, <1>4, <1>5, <1>6, <1>7 DEF Init, SessionInv, Filed

\* What is good stays good when sign-ins and memberships are added.
LEMMA IssuedStays ==
  ASSUME NEW g \in Seq(Grants), NEW h, Grown(g, h), NEW k, Issued(k, g) PROVE Issued(k, h)
<1>1. k[1] \in 1..Len(g) /\ k[2] \in Nat /\ k \in Nat \X Nat
  BY DEF Issued
<1>2. k[1] \in 1..Len(h)
  BY <1>1 DEF Grown
<1>3. g[k[1]].active \in Nat /\ h[k[1]].active \in Nat
  BY <1>1, <1>2, GrantTypes DEF Grown
<1>. QED  BY <1>1, <1>2, <1>3 DEF Issued, Grown

LEMMA GoodStays ==
  ASSUME NEW g \in Seq(Grants), NEW h, Grown(g, h), NEW b, NEW c, b \subseteq c,
         NEW s, Good(s, g, b)
  PROVE  Good(s, h, c)
<1>1. Issued(s.token, h)
  BY IssuedStays DEF Good
<1>. QED  BY <1>1 DEF Good, Grown, Issued

LEMMA FiledStays ==
  ASSUME NEW g \in Seq(Grants), NEW h, Grown(g, h), NEW b, NEW c, b \subseteq c,
         NEW f, Filed(f, g, b)
  PROVE  Filed(f, h, c)
BY GoodStays DEF Filed

LEMMA SaneStays ==
  ASSUME NEW g \in Seq(Grants), NEW h, Grown(g, h), NEW b, NEW c, b \subseteq c,
         NEW x, Sane(x, g, b)
  PROVE  Sane(x, h, c)
<1>1. Filed(x.copy, h, c) /\ Filed(x.base, h, c)
  BY FiledStays DEF Sane
<1>2. \A k : Issued(k, g) => Issued(k, h)
  BY IssuedStays
<1>. QED  BY <1>1, <1>2 DEF Sane

\* What is around the operations stays as the invariant has it.
World ==
  /\ Grown(grants, grants') /\ Met \subseteq Met'
  /\ member' \in [Users -> Teams \union {NoTeam}]
  /\ been' \subseteq Users \X (Teams \union {NoTeam})
  /\ crossed' \subseteq Users \X (Teams \union {NoTeam})
  /\ left' \in Load
  /\ \A k \in stale' : Issued(k, grants')
  /\ \A u \in Users : <<u, member'[u]>> \in been'

\* One operation goes on, or is over.
LEMMA ThreadStep ==
  ASSUME SessionInv, World, doubt' \in BOOLEAN, NEW t \in Threads, NEW y, Set(t, y),
         Sane(y, grants', Met'), Filed(stored', grants', Met')
  PROVE  SessionInv'
<1>1. \A o \in Threads : Sane(thread'[o], grants', Met')
  <2>. SUFFICES ASSUME NEW o \in Threads PROVE Sane(thread'[o], grants', Met')
    OBVIOUS
  <2>1. CASE o = t
    BY <2>1 DEF Set, SessionInv
  <2>2. CASE o # t
    <3>1. thread'[o] = thread[o] /\ Sane(thread[o], grants, Met)
      BY <2>2 DEF Set, SessionInv
    <3>. QED  BY <3>1, SaneStays DEF World, SessionInv
  <2>. QED  BY <2>1, <2>2
<1>2. thread' \in [Threads -> Operations]
  BY DEF Set, SessionInv, Sane
<1>. QED  BY <1>1, <1>2 DEF World, SessionInv, Grown

\* The operations stay, and with them the file.
LEMMA WorldStep ==
  ASSUME SessionInv, World, doubt' \in BOOLEAN, UNCHANGED <<stored, thread>>
  PROVE  SessionInv'
<1>1. \A o \in Threads : Sane(thread[o], grants', Met')
  BY SaneStays DEF World, SessionInv
<1>2. Filed(stored, grants', Met')
  BY FiledStays DEF World, SessionInv
<1>. QED  BY <1>1, <1>2 DEF World, SessionInv, Grown

LEMMA StillWorld ==
  ASSUME SessionInv, UNCHANGED <<grants, member, been, crossed>>, stale' \subseteq stale,
         left' \in Load
  PROVE  World
<1>1. Grown(grants, grants')
  <2>. grants \in Seq(Grants)
    BY DEF SessionInv
  <2>1. \A n \in 1..Len(grants) : grants[n].active <= grants[n].active
    BY GrantTypes
  <2>. QED  BY <2>1 DEF Grown
<1>. QED  BY <1>1 DEF World, SessionInv, Met

\* An operation that gives up leaves the file it is given, or none.
LEMMA GivesUp ==
  ASSUME SessionInv, World, NEW t \in Threads, NEW x, NEW f,
         Filed(f, grants', Met'), GiveUp(t, x, f)
  PROVE  SessionInv'
<1>1. Set(t, Rest) /\ Filed(stored', grants', Met')
  BY DEF GiveUp, Filed
<1>2. doubt' \in BOOLEAN
  BY DEF GiveUp, SessionInv
<1>. QED  BY <1>1, <1>2, RestOk, ThreadStep

\* An operation goes on with the session that is read.
LEMMA Fetches ==
  ASSUME SessionInv, World, NEW t \in Threads, NEW x, NEW f,
         Sane(x, grants', Met'), Filed(f, grants', Met'), Fetch(t, x, f)
  PROVE  SessionInv'
<1>1. CASE f = {} /\ GiveUp(t, x, f)
  BY <1>1, GivesUp
<1>2. ASSUME NEW s \in f, NEW pc \in {"refresh", "call"},
             Set(t, [x EXCEPT !.copy = {s}, !.tried = FALSE, !.pc = pc]),
             stored' = f, doubt' = doubt
      PROVE  SessionInv'
  <2>1. PICK y : y = [x EXCEPT !.copy = {s}, !.tried = FALSE, !.pc = pc]
    OBVIOUS
  <2>2. Good(s, grants', Met') /\ s \in Records
    BY DEF Filed, Good
  <2>3. y \in Operations /\ y.copy = {s} /\ y.base = x.base /\ y.since = x.since /\ y.pc = pc
        /\ y.stage = x.stage /\ y.team = x.team
    BY <2>1, <2>2 DEF Sane, Operations
  <2>4. Sane(y, grants', Met')
    BY <2>2, <2>3 DEF Sane, Filed
  <2>5. Set(t, y)
    BY <1>2, <2>1
  <2>6. doubt' \in BOOLEAN /\ Filed(stored', grants', Met')
    BY <1>2 DEF SessionInv
  <2>. QED  BY <2>4, <2>5, <2>6, ThreadStep
<1>3. CASE \E s \in f :
       /\ Set(t, [x EXCEPT !.copy = {s}, !.tried = FALSE,
                           !.pc = IF s.token \in stale THEN "refresh" ELSE "call"])
       /\ stored' = f /\ UNCHANGED doubt
  BY <1>2, <1>3
<1>. QED  BY <1>1, <1>3 DEF Fetch

LEMMA ReadsFacts ==
  ASSUME SessionInv, World, NEW t \in Threads, NEW x, NEW f,
         Sane(x, grants', Met'), Filed(f, grants', Met'), Facts(t, x, f)
  PROVE  SessionInv'
<1>1. PICK y : y = [x EXCEPT !.base = f, !.stage = "self"]
  OBVIOUS
<1>2. f \subseteq Records
  BY DEF Filed, Good
<1>3. y \in Operations /\ y.copy = x.copy /\ y.base = f /\ y.since = x.since /\ y.pc = x.pc
      /\ y.answer = x.answer /\ y.stage = "self"
  BY <1>1, <1>2 DEF Sane, Operations, Stages
<1>4. Sane(y, grants', Met')
  BY <1>3 DEF Sane, Filed
<1>5. Fetch(t, y, f)
  BY <1>1 DEF Facts
<1>. QED  BY <1>4, <1>5, Fetches

\* An operation begins with nothing in hand.
LEMMA Begins ==
  ASSUME SessionInv, NEW op \in Ops, NEW st \in Stages \ {"rest"},
         NEW m \in Teams \union {NoTeam}, NEW x,
         \/ x = New(op)
         \/ x = [New(op) EXCEPT !.stage = st]
         \/ x = [New(op) EXCEPT !.stage = st, !.team = m]
  PROVE  Sane(x, grants, Met)
<1>1. PICK h : h = {s.token : s \in stored}
  OBVIOUS
<1>2. \A k \in h : Issued(k, grants)
  BY <1>1 DEF SessionInv, Filed, Good
<1>3. h \in SUBSET (Nat \X Nat)
  BY <1>2 DEF Issued
<1>4. PICK n : n = New(op)
  OBVIOUS
<1>5. n = [Rest EXCEPT !.op = op, !.since = h]
  BY <1>1, <1>4 DEF New
<1>6. n \in Operations /\ n.copy = {} /\ n.base = {} /\ n.since = h /\ n.pc = "idle" /\ n.stage = "none"
  BY <1>3, <1>5, RestOk DEF Operations, Rest
<1>7. x \in Operations /\ x.copy = {} /\ x.base = {} /\ x.since = h /\ x.pc = "idle" /\ x.stage # "rest"
  BY <1>4, <1>6 DEF Operations, Stages
<1>. QED  BY <1>2, <1>7 DEF Sane, Filed

LEMMA LessLeft ==
  ASSUME SessionInv
  PROVE  /\ left.ops > 0 => [left EXCEPT !.ops = @ - 1] \in Load
         /\ left.signIns > 0 => [left EXCEPT !.signIns = @ - 1] \in Load
         /\ left.expiries > 0 => [left EXCEPT !.expiries = @ - 1] \in Load
         /\ left.faults > 0 => [left EXCEPT !.faults = @ - 1] \in Load
         /\ left.elsewhere > 0 => [left EXCEPT !.elsewhere = @ - 1] \in Load
<1>. left \in Load
  BY DEF SessionInv
<1>1. left.ops > 0 => [left EXCEPT !.ops = @ - 1] \in Load
  BY DEF Load
<1>2. left.signIns > 0 => [left EXCEPT !.signIns = @ - 1] \in Load
  BY DEF Load
<1>3. left.expiries > 0 => [left EXCEPT !.expiries = @ - 1] \in Load
  BY DEF Load
<1>4. left.faults > 0 => [left EXCEPT !.faults = @ - 1] \in Load
  BY DEF Load
<1>5. left.elsewhere > 0 => [left EXCEPT !.elsewhere = @ - 1] \in Load
  BY DEF Load
<1>. QED  BY <1>1, <1>2, <1>3, <1>4, <1>5

LEMMA AskedStep ==
  ASSUME SessionInv, NEW t \in Threads,
         \/ SyncCall(t) \/ RefreshTeam(t) \/ SignOut(t)
         \/ \E op \in {"leave", "rotate"} : LeaveOrRotate(t, op)
         \/ \E m \in Teams : JoinTeam(t, m)
  PROVE  SessionInv'
<1>1. Ask(t)
  BY DEF SyncCall, RefreshTeam, SignOut, LeaveOrRotate, JoinTeam
<1>2. World
  BY <1>1, LessLeft, StillWorld DEF Ask
<1>3. grants' = grants /\ Met' = Met /\ Filed(stored, grants, Met)
  BY <1>1 DEF Ask, SessionInv, Met
<1>4. ASSUME NEW x, Sane(x, grants, Met), Fetch(t, x, stored) PROVE SessionInv'
  BY <1>2, <1>3, <1>4, Fetches
<1>5. CASE SyncCall(t)
  BY <1>5, <1>4, Begins DEF SyncCall, Ops, Stages
<1>6. CASE SignOut(t)
  BY <1>6, <1>4, Begins DEF SignOut, Ops, Stages
<1>7. CASE RefreshTeam(t)
  <2>1. PICK x : x = New("refresh")
    OBVIOUS
  <2>2. "refresh" \in Ops /\ "self" \in Stages \ {"rest"}
    BY DEF Ops, Stages
  <2>3. Sane(x, grants, Met)
    BY <2>1, <2>2, Begins
  <2>4. Facts(t, x, stored)
    BY <1>7, <2>1 DEF RefreshTeam
  <2>. QED  BY <1>2, <1>3, <2>3, <2>4, ReadsFacts
<1>8. ASSUME NEW op \in {"leave", "rotate"}, LeaveOrRotate(t, op) PROVE SessionInv'
  BY <1>8, <1>4, Begins DEF LeaveOrRotate, Ops, Stages
<1>9. ASSUME NEW m \in Teams, JoinTeam(t, m) PROVE SessionInv'
  BY <1>9, <1>4, Begins DEF JoinTeam, Ops, Stages
<1>. QED  BY <1>5, <1>6, <1>7, <1>8, <1>9

\* A sign-in is opened: its token is the newest there is, and the record that it
\* will take over is the one on file, or none.
LEMMA OpenedFacts ==
  ASSUME SessionInv, NEW t \in Threads, NEW u \in Users, NEW f, f \in {stored, {}}, Opened(t, u, f),
         NEW k, k = <<Len(grants) + 1, 0>>
  PROVE  \E y : /\ World /\ Set(t, y) /\ Sane(y, grants', Met') /\ y.pc = "body" /\ y.op = "signIn"
                /\ y.since = {s.token : s \in stored} /\ y.stage = "none" /\ y.answer = {k}
                /\ grants'[k[1]].active = 0 /\ k[1] = Len(grants) + 1 /\ k[2] = 0
                /\ Grown(grants, grants') /\ \A n \in 1..Len(grants) : grants'[n] = grants[n]
<1>. DEFINE g == [user |-> u, active |-> 0, live |-> TRUE]
<1>0. grants \in Seq(Grants) /\ g \in Grants
  BY DEF SessionInv, Grants
<1>1. /\ grants' \in Seq(Grants) /\ Len(grants') = Len(grants) + 1 /\ grants'[Len(grants) + 1] = g
      /\ \A n \in 1..Len(grants) : grants'[n] = grants[n]
      /\ Grown(grants, grants')
  <2>1. grants' \in Seq(Grants) /\ Len(grants') = Len(grants) + 1 /\ grants'[Len(grants) + 1] = g
        /\ \A n \in 1..Len(grants) : grants'[n] = grants[n]
    BY <1>0 DEF Opened
  <2>2. Len(grants) <= Len(grants')
    BY <1>0, <2>1
  <2>3. \A n \in 1..Len(grants) : grants[n].active <= grants[n].active
    BY <1>0, GrantTypes
  <2>4. Grown(grants, grants')
    BY <2>1, <2>2, <2>3 DEF Grown
  <2>. QED  BY <2>1, <2>4
<1>2. \A c \in stale : Issued(c, grants')
  BY <1>0, <1>1, IssuedStays DEF SessionInv
<1>3. World
  BY <1>1, <1>2, LessLeft DEF World, Opened, SessionInv, Met
<1>4. Len(grants) \in Nat /\ k[1] = Len(grants) + 1 /\ k[2] = 0 /\ k \in Nat \X Nat
  BY <1>0
<1>5. Issued(k, grants') /\ grants'[k[1]].active = 0
  BY <1>1, <1>4 DEF Issued
<1>6. PICK n : n = New("signIn")
  OBVIOUS
<1>7. PICK y : y = [n EXCEPT !.pc = "body", !.base = f, !.answer = {k}]
  OBVIOUS
<1>8. Set(t, y)
  BY <1>6, <1>7 DEF Opened
<1>9. Sane(n, grants, Met) /\ n.stage = "none" /\ n.op = "signIn" /\ n.copy = {}
      /\ n.since = {s.token : s \in stored}
  <2>1. n = [Rest EXCEPT !.op = "signIn", !.since = {s.token : s \in stored}]
    BY <1>6 DEF New
  <2>2. "signIn" \in Ops /\ "self" \in Stages \ {"rest"}
    BY DEF Ops, Stages
  <2>3. Sane(n, grants, Met)
    BY <1>6, <2>2, Begins
  <2>. QED  BY <2>1, <2>3 DEF Rest
<1>10. Sane(n, grants', Met')
  BY <1>0, <1>1, <1>3, <1>9, SaneStays DEF World
<1>11. Filed(f, grants', Met') /\ f \subseteq Records
  <2>1. Filed(f, grants, Met)
    BY DEF SessionInv, Filed
  <2>2. Filed(f, grants', Met')
    BY <1>0, <1>1, <1>3, <2>1, FiledStays DEF World
  <2>. QED  BY <2>1, <2>2 DEF Filed, Good
<1>12. y \in Operations /\ y.copy = {} /\ y.base = f /\ y.since = n.since /\ y.pc = "body"
       /\ y.stage = "none" /\ y.answer = {k} /\ y.op = "signIn"
  BY <1>4, <1>7, <1>9, <1>11 DEF Sane, Operations
<1>13. Sane(y, grants', Met')
  <2>1. Filed({}, grants', Met')
    BY DEF Filed
  <2>2. \A c \in y.since : Issued(c, grants')
    BY <1>10, <1>12 DEF Sane
  <2>3. \A c \in y.answer : Issued(c, grants')
    BY <1>5, <1>12
  <2>. QED  BY <1>11, <1>12, <2>1, <2>2, <2>3 DEF Sane
<1>. QED  BY <1>1, <1>3, <1>4, <1>5, <1>8, <1>9, <1>12, <1>13

LEMMA OpenedStep ==
  ASSUME SessionInv, NEW t \in Threads, NEW u \in Users, SignIn(t, u) \/ SignUp(t, u)
  PROVE  SessionInv'
<1>1. PICK f \in {stored, {}} : Opened(t, u, f)
  BY DEF SignIn, SignUp
<1>0. PICK k : k = <<Len(grants) + 1, 0>>
  OBVIOUS
<1>2. PICK y : World /\ Set(t, y) /\ Sane(y, grants', Met')
  BY <1>0, <1>1, OpenedFacts
<1>3. Filed(stored', grants', Met') /\ doubt' = doubt
  BY <1>1, <1>2, FiledStays DEF Opened, World, SessionInv
<1>. QED  BY <1>2, <1>3, ThreadStep DEF SessionInv

\* The record that is filed has the token of the sign-in, and a team only if the
\* account was filed with it, or the file changed hands.
LEMMA SignedInFacts ==
  ASSUME SessionInv, NEW t \in Threads, SignedIn(t)
  PROVE  \E k \in thread[t].answer : \E r :
           /\ World /\ Facts(t, thread[t], {r}) /\ r.token = k /\ Filed({r}, grants', Met')
           /\ Sane(thread[t], grants', Met') /\ grants' = grants
<1>. DEFINE x == thread[t]
<1>1. PICK k \in x.answer :
       LET u == UserOf(k)  team == Inherited(x.base, u) IN
       /\ crossed' = IF {s.user : s \in x.base} # {s.user : s \in stored} /\ team # NoTeam
                     THEN crossed \union {<<u, team>>} ELSE crossed
       /\ Facts(t, x, {[user |-> u, token |-> k, team |-> team]})
  BY DEF SignedIn
<1>2. PICK u : u = UserOf(k)
  OBVIOUS
<1>3. PICK m : m = Inherited(x.base, u)
  OBVIOUS
<1>4. PICK r : r = [user |-> u, token |-> k, team |-> m]
  OBVIOUS
<1>5. x.pc = "body" /\ UNCHANGED <<grants, member, been, stale, left>>
  BY DEF SignedIn
<1>6. Sane(x, grants, Met) /\ Issued(k, grants) /\ grants \in Seq(Grants) /\ Filed(stored, grants, Met)
  BY <1>5 DEF SessionInv, Sane
<1>7. k \in Nat \X Nat /\ k[1] \in 1..Len(grants) /\ u \in Users /\ grants[k[1]].user = u
  BY <1>2, <1>6, GrantTypes DEF Issued, UserOf
<1>8. CASE m = NoTeam
  <2>1. crossed' = crossed
    BY <1>1, <1>2, <1>3, <1>8
  <2>2. World /\ Met' = Met
    BY <1>5, <2>1, StillWorld DEF Met, SessionInv
  <2>3. r \in Records /\ r.user = u /\ r.token = k /\ r.team = NoTeam
    BY <1>4, <1>7, <1>8 DEF Records
  <2>4. Filed({r}, grants', Met')
    BY <1>5, <1>6, <1>7, <2>3 DEF Filed, Good
  <2>. QED  BY <1>1, <1>2, <1>3, <1>4, <1>5, <1>6, <2>2, <2>3, <2>4
<1>9. CASE m # NoTeam
  <2>1. x.base # {} /\ \A s \in stored : s.user = u
    BY <1>3, <1>9 DEF Inherited
  <2>2. PICK b \in x.base : x.base = {b} /\ m = b.team
    <3>1. PICK b \in x.base : x.base = {b}
      BY <1>6, <2>1 DEF Sane, Filed
    <3>. QED  BY <1>3, <2>1, <3>1 DEF Inherited
  <2>3. Good(b, grants, Met) /\ m \in Teams \union {NoTeam}
    BY <1>6, <2>2 DEF Sane, Filed, Good, Records
  <2>4. Met \subseteq Met' /\ <<u, m>> \in Met' /\ crossed' \subseteq Users \X (Teams \union {NoTeam})
    <3>1. CASE {s.user : s \in x.base} # {s.user : s \in stored}
      <4>1. crossed' = crossed \union {<<u, m>>}
        BY <1>1, <1>2, <1>3, <1>9, <3>1
      <4>2. been' = been /\ crossed \subseteq Users \X (Teams \union {NoTeam})
        BY <1>5 DEF SessionInv
      <4>. QED  BY <1>7, <2>3, <4>1, <4>2 DEF Met
    <3>2. CASE {s.user : s \in x.base} = {s.user : s \in stored}
      <4>1. crossed' = crossed /\ been' = been
        BY <1>1, <1>2, <1>3, <1>5, <3>2
      <4>2. PICK s \in stored : s.user = b.user
        BY <2>2, <3>2
      <4>3. b.user = u
        BY <2>1, <4>2
      <4>4. <<u, m>> \in Met
        BY <1>9, <2>2, <2>3, <4>3 DEF Good
      <4>. QED  BY <4>1, <4>4 DEF Met, SessionInv
    <3>. QED  BY <3>1, <3>2
  <2>5. Grown(grants, grants)
    BY <1>6, GrantTypes DEF Grown
  <2>6. World
    BY <1>5, <2>4, <2>5 DEF World, SessionInv
  <2>7. r \in Records /\ r.user = u /\ r.token = k /\ r.team = m
    BY <1>4, <1>7, <2>3 DEF Records
  <2>8. Filed({r}, grants', Met')
    BY <1>5, <1>6, <1>7, <2>4, <2>7 DEF Filed, Good
  <2>9. Sane(x, grants', Met')
    BY <1>5, <1>6, <2>4, <2>5, SaneStays
  <2>. QED  BY <1>1, <1>2, <1>3, <1>4, <1>5, <2>6, <2>7, <2>8, <2>9
<1>. QED  BY <1>8, <1>9

LEMMA SignedInStep ==
  ASSUME SessionInv, NEW t \in Threads, SignedIn(t)
  PROVE  SessionInv'
<1>1. PICK r : World /\ Facts(t, thread[t], {r}) /\ Filed({r}, grants', Met')
               /\ Sane(thread[t], grants', Met')
  BY SignedInFacts
<1>. QED  BY <1>1, ReadsFacts

\* The remote exchanges a token.
LEMMA ServedStep ==
  ASSUME SessionInv, NEW t \in Threads, RefreshServed(t)
  PROVE  SessionInv'
<1>. DEFINE x == thread[t]
<1>0. PICK s \in x.copy :
        LET n == s.token[1]  g == s.token[2]  a == grants[n].active IN
        /\ x.pc = "refresh"
        /\ IF grants[n].live /\ g = a
           THEN /\ grants' = [grants EXCEPT ![n].active = a + 1]
                /\ Set(t, [x EXCEPT !.pc = "answer", !.answer = {<<n, a + 1>>}])
                /\ UNCHANGED stale
           ELSE LET again == grants[n].live /\ ParentReuse /\ g = a - 1 IN
                /\ Set(t, [x EXCEPT !.pc = "answer",
                                   !.answer = IF again THEN {Token(n)} ELSE {}])
                /\ stale' = IF again THEN stale \ {Token(n)} ELSE stale
                /\ UNCHANGED grants
        /\ UNCHANGED <<member, been, crossed, stored, doubt, left>>
  BY DEF RefreshServed
<1>. DEFINE n == s.token[1]
            a == grants[n].active
<1>1. Sane(x, grants, Met) /\ Good(s, grants, Met) /\ n \in 1..Len(grants) /\ n \in Nat
      /\ grants \in Seq(Grants)
  BY DEF SessionInv, Sane, Filed, Good, Issued
<1>2. grants[n] \in Grants /\ a \in Nat
  BY <1>1, GrantTypes
<1>4. ASSUME NEW A \in SUBSET (Nat \X Nat), NEW h, Grown(grants, h), grants' = h,
             \A k \in A : k[1] = n /\ Issued(k, h),
             Set(t, [x EXCEPT !.pc = "answer", !.answer = A]), stale' \subseteq stale
      PROVE  SessionInv'
  <2>1. PICK y : y = [x EXCEPT !.pc = "answer", !.answer = A]
    OBVIOUS
  <2>2. y \in Operations /\ y.copy = x.copy /\ y.base = x.base /\ y.since = x.since
        /\ y.answer = A /\ y.stage = x.stage /\ y.team = x.team /\ y.pc = "answer"
    BY <1>1, <2>1 DEF Sane, Operations
  <2>0. Met' = Met
    BY <1>0 DEF Met
  <2>3. Sane(x, grants', Met')
    BY <1>0, <1>1, <1>4, <2>0, SaneStays
  <2>4. \A c \in x.copy : c.token[1] = n
    BY <1>0, <1>1 DEF Sane, Filed
  <2>5. Sane(y, grants', Met')
    BY <1>4, <2>2, <2>3, <2>4 DEF Sane
  <2>6. Issued(s.token, grants)
    BY <1>1 DEF Good
  <2>7. World
    <3>1. \A k \in stale : Issued(k, grants')
      BY <1>1, <1>4, IssuedStays DEF SessionInv
    <3>. QED  BY <1>0, <1>4, <2>0, <3>1 DEF World, SessionInv
  <2>8. Filed(stored', grants', Met')
    BY <1>0, <1>1, <1>4, <2>0, FiledStays DEF SessionInv
  <2>. QED  BY <1>0, <2>1, <2>5, <2>7, <2>8, <1>4, ThreadStep DEF SessionInv
<1>5. Issued(s.token, grants) /\ s.token = <<n, s.token[2]>> /\ s.token[2] \in Nat /\ s.token[2] <= a
  BY <1>1 DEF Good, Issued
<1>6. CASE grants[n].live /\ s.token[2] = a
  <2>1. PICK h : h = [grants EXCEPT ![n].active = a + 1]
    OBVIOUS
  <2>2. h \in Seq(Grants) /\ Len(h) = Len(grants) /\ h[n].user = grants[n].user /\ h[n].active = a + 1
        /\ \A i \in 1..Len(grants) : i # n => h[i] = grants[i]
    <3>1. PICK e : e = [grants[n] EXCEPT !.active = a + 1]
      OBVIOUS
    <3>2. e \in Grants /\ e.user = grants[n].user /\ e.active = a + 1
      BY <1>2, <3>1 DEF Grants
    <3>3. h = [grants EXCEPT ![n] = e]
      BY <2>1, <3>1
    <3>. QED  BY <1>1, <3>2, <3>3
  <2>3. Grown(grants, h)
    <3>1. \A i \in 1..Len(grants) : grants[i].active \in Nat
      BY <1>1, GrantTypes
    <3>. QED  BY <1>1, <1>2, <2>2, <3>1 DEF Grown
  <2>4. \A k \in {<<n, a + 1>>} : k[1] = n /\ Issued(k, h)
    <3>1. <<n, a + 1>> \in Nat \X Nat /\ <<n, a + 1>>[1] = n /\ <<n, a + 1>>[2] = a + 1
      BY <1>1, <1>2
    <3>2. a + 1 <= h[n].active /\ n \in 1..Len(h)
      BY <1>1, <1>2, <2>2
    <3>. QED  BY <3>1, <3>2 DEF Issued
  <2>5. {<<n, a + 1>>} \in SUBSET (Nat \X Nat)
    BY <1>1, <1>2
  <2>6. grants' = h /\ stale' = stale /\ Set(t, [x EXCEPT !.pc = "answer", !.answer = {<<n, a + 1>>}])
    BY <1>0, <1>6, <2>1
  <2>. QED  BY <1>4, <2>3, <2>4, <2>5, <2>6
<1>7. CASE ~(grants[n].live /\ s.token[2] = a)
  <2>1. PICK A : A = IF grants[n].live /\ ParentReuse /\ s.token[2] = a - 1 THEN {Token(n)} ELSE {}
    OBVIOUS
  <2>2. grants' = grants /\ stale' \subseteq stale /\ Set(t, [x EXCEPT !.pc = "answer", !.answer = A])
    BY <1>0, <1>7, <2>1
  <2>3. Token(n) = <<n, a>> /\ <<n, a>> \in Nat \X Nat /\ Issued(<<n, a>>, grants)
    BY <1>1, <1>2 DEF Token, Issued
  <2>4. Grown(grants, grants)
    BY <1>1, GrantTypes DEF Grown
  <2>5. \A k \in A : k[1] = n /\ Issued(k, grants)
    BY <2>1, <2>3
  <2>6. A \in SUBSET (Nat \X Nat)
    BY <2>1, <2>3
  <2>. QED  BY <1>4, <2>2, <2>4, <2>5, <2>6
<1>. QED  BY <1>6, <1>7

\* The new token is filed with the copy's account and team.
LEMMA RefreshedStep ==
  ASSUME SessionInv, NEW t \in Threads, Refreshed(t)
  PROVE  SessionInv'
<1>. DEFINE x == thread[t]
<1>1. World /\ grants' = grants /\ Met' = Met
  BY StillWorld DEF Refreshed, SessionInv, Met
<1>2. Sane(x, grants, Met) /\ x.pc = "answer"
  BY DEF Refreshed, SessionInv
<1>3. CASE x.answer = {} /\ GiveUp(t, x, {})
  BY <1>1, <1>3, GivesUp DEF Filed
<1>4. ASSUME NEW s \in x.copy, NEW k \in x.answer, NEW r, r = [s EXCEPT !.token = k],
             Set(t, [x EXCEPT !.pc = "call", !.copy = {r}, !.answer = {}]),
             stored' = {r}, doubt' = doubt
      PROVE  SessionInv'
  <2>1. Good(s, grants, Met) /\ k[1] = s.token[1] /\ Issued(k, grants)
    BY <1>2 DEF Sane, Filed
  <2>2. Good(r, grants, Met)
    <3>1. r \in Records /\ r.token = k /\ r.user = s.user /\ r.team = s.team
      BY <1>4, <2>1 DEF Good, Records, Issued
    <3>. QED  BY <2>1, <3>1 DEF Good
  <2>3. PICK y : y = [x EXCEPT !.pc = "call", !.copy = {r}, !.answer = {}]
    OBVIOUS
  <2>4. y \in Operations /\ y.copy = {r} /\ y.base = x.base /\ y.since = x.since /\ y.pc = "call"
        /\ y.stage = x.stage /\ y.team = x.team
    <3>1. r \in Records
      BY <2>2 DEF Good
    <3>. QED  BY <1>2, <2>3, <3>1 DEF Sane, Operations
  <2>5. Sane(y, grants, Met) /\ Filed({r}, grants, Met)
    BY <1>2, <2>2, <2>4 DEF Sane, Filed
  <2>. QED  BY <1>1, <1>4, <2>3, <2>5, ThreadStep DEF SessionInv
<1>. QED  BY <1>3, <1>4 DEF Refreshed

LEMMA UnreachableStep ==
  ASSUME SessionInv, NEW t \in Threads, Unreachable(t)
  PROVE  SessionInv'
<1>1. World /\ Filed(stored, grants', Met')
  BY StillWorld, LessLeft DEF Unreachable, Fault, SessionInv, Met
<1>. QED  BY <1>1, GivesUp DEF Unreachable

\* What an operation that only changes its place and its guess keeps.
LEMMA Moves ==
  ASSUME SessionInv, World, grants' = grants, Met' = Met, NEW t \in Threads, NEW y,
         stored' = stored, doubt' \in BOOLEAN, Set(t, y), Sane(y, grants, Met)
  PROVE  SessionInv'
BY ThreadStep DEF SessionInv

LEMMA UnauthorizedStep ==
  ASSUME SessionInv, NEW t \in Threads, Unauthorized(t)
  PROVE  SessionInv'
<1>. DEFINE x == thread[t]
<1>1. World /\ Filed(stored, grants', Met') /\ grants' = grants /\ Met' = Met
  BY StillWorld DEF Unauthorized, SessionInv, Met
<1>2. CASE x.tried
  BY <1>1, <1>2, GivesUp DEF Unauthorized
<1>3. CASE ~x.tried
  <2>1. PICK y : y = [x EXCEPT !.pc = "refresh", !.tried = TRUE]
    OBVIOUS
  <2>2. Sane(x, grants, Met)
    BY DEF SessionInv
  <2>3. y \in Operations /\ y.copy = x.copy /\ y.base = x.base /\ y.since = x.since /\ y.pc = "refresh"
        /\ y.stage = x.stage /\ y.team = x.team
    BY <2>1, <2>2 DEF Sane, Operations
  <2>4. Sane(y, grants, Met)
    BY <2>2, <2>3 DEF Sane
  <2>. QED  BY <1>1, <1>3, <2>1, <2>4, Moves DEF Unauthorized, SessionInv
<1>. QED  BY <1>2, <1>3 DEF Unauthorized

\* The row that is read is the account's own, so that its team is one it has
\* been in; the file is left, or loses its team.
LEMMA SelfReadStep ==
  ASSUME SessionInv, NEW t \in Threads, NEW v \in Users, SelfRead(t, thread[t], v)
  PROVE  SessionInv'
<1>. DEFINE x == thread[t]
<1>0. PICK b \in x.base :
    LET team == Visible(v, b.user)
        y == [x EXCEPT !.team = team, !.stage = "rest"] IN
    /\ IF team = NoTeam
       THEN Set(t, Rest) /\ stored' = {[b EXCEPT !.team = NoTeam]} /\ doubt' = FALSE
       ELSE \/ /\ stored = {} /\ Set(t, Rest) /\ doubt' = TRUE /\ UNCHANGED stored
            \/ \E s \in stored :
                 /\ Set(t, [y EXCEPT !.copy = {s}, !.tried = FALSE,
                              !.pc = IF s.token \in stale THEN "refresh" ELSE "call"])
                 /\ doubt' = FALSE /\ UNCHANGED stored
    /\ UNCHANGED <<grants, member, been, crossed, stale, left>>
  BY DEF SelfRead
<1>1. World /\ grants' = grants /\ Met' = Met
  BY <1>0, StillWorld DEF SessionInv, Met
<1>2. Sane(x, grants, Met) /\ Good(b, grants, Met) /\ b.user \in Users
      /\ Filed(stored, grants, Met)
  BY DEF SessionInv, Sane, Filed, Good, Records
<1>3. Visible(v, b.user) # NoTeam => <<b.user, Visible(v, b.user)>> \in Met
  BY <1>2 DEF Visible, SessionInv, Met
<1>4. Visible(v, b.user) \in Teams \union {NoTeam}
  BY <1>2 DEF Visible, SessionInv
<1>5. CASE Visible(v, b.user) = NoTeam
  <2>1. PICK r : r = [b EXCEPT !.team = NoTeam]
    OBVIOUS
  <2>2. r \in Records /\ r.user = b.user /\ r.token = b.token /\ r.team = NoTeam
    BY <1>2, <2>1 DEF Good, Records
  <2>3. Filed({r}, grants, Met)
    BY <1>2, <2>2 DEF Good, Filed
  <2>. QED  BY <1>0, <1>1, <1>5, <2>1, <2>3, RestOk, ThreadStep
<1>6. CASE Visible(v, b.user) # NoTeam
  <2>1. CASE Set(t, Rest) /\ doubt' = TRUE /\ UNCHANGED stored
    BY <1>1, <2>1, RestOk, Moves
  <2>2. ASSUME NEW s \in stored, NEW pc \in {"refresh", "call"},
               Set(t, [[x EXCEPT !.team = Visible(v, b.user), !.stage = "rest"]
                        EXCEPT !.copy = {s}, !.tried = FALSE, !.pc = pc]),
               doubt' = FALSE, stored' = stored
        PROVE  SessionInv'
    <3>1. PICK y : y = [x EXCEPT !.team = Visible(v, b.user), !.stage = "rest"]
      OBVIOUS
    <3>2. PICK z : z = [y EXCEPT !.copy = {s}, !.tried = FALSE, !.pc = pc]
      OBVIOUS
    <3>3. Good(s, grants, Met) /\ s \in Records
      BY <1>2 DEF Filed, Good
    <3>4. y \in Operations /\ y.base = x.base /\ y.since = x.since /\ y.stage = "rest"
          /\ y.team = Visible(v, b.user)
      BY <1>2, <1>4, <3>1 DEF Sane, Operations, Stages
    <3>5. z \in Operations /\ z.copy = {s} /\ z.base = x.base /\ z.since = x.since /\ z.stage = "rest"
          /\ z.team = Visible(v, b.user) /\ z.pc \notin {"answer", "body"}
      BY <3>2, <3>3, <3>4 DEF Operations
    <3>6. \A c \in x.base : c = b
      BY <1>2 DEF Sane, Filed
    <3>7. Sane(z, grants, Met)
      BY <1>2, <1>3, <1>6, <3>3, <3>5, <3>6 DEF Sane, Filed
    <3>. QED  BY <1>1, <2>2, <3>1, <3>2, <3>7, Moves
  <2>3. CASE \E s \in stored :
                 /\ Set(t, [[x EXCEPT !.team = Visible(v, b.user), !.stage = "rest"]
                              EXCEPT !.copy = {s}, !.tried = FALSE,
                              !.pc = IF s.token \in stale THEN "refresh" ELSE "call"])
                 /\ doubt' = FALSE /\ UNCHANGED stored
    BY <2>2, <2>3
  <2>. QED  BY <1>0, <1>6, <2>1, <2>3
<1>. QED  BY <1>5, <1>6

\* The record that was read before is filed with the team that was read for it.
LEMMA KeepStep ==
  ASSUME SessionInv, NEW t \in Threads, Keep(t, thread[t]), thread[t].stage = "rest",
         UNCHANGED <<grants, member, been, crossed, stale, left>>
  PROVE  SessionInv'
<1>. DEFINE x == thread[t]
<1>1. World /\ grants' = grants /\ Met' = Met
  BY StillWorld DEF SessionInv, Met
<1>2. Sane(x, grants, Met)
  BY DEF SessionInv
<1>3. \A s \in x.base : Good([s EXCEPT !.team = x.team], grants, Met)
  <2>. SUFFICES ASSUME NEW s \in x.base PROVE Good([s EXCEPT !.team = x.team], grants, Met)
    OBVIOUS
  <2>1. PICK r : r = [s EXCEPT !.team = x.team]
    OBVIOUS
  <2>2. Good(s, grants, Met) /\ <<s.user, x.team>> \in Met /\ x.team \in Teams \union {NoTeam}
    BY <1>2 DEF Sane, Filed, Operations
  <2>3. r \in Records /\ r.user = s.user /\ r.token = s.token /\ r.team = x.team
    BY <2>1, <2>2 DEF Good, Records
  <2>4. Good(r, grants, Met)
    BY <2>2, <2>3 DEF Good
  <2>. QED  BY <2>1, <2>4
<1>4. Filed(stored', grants, Met)
  BY <1>2, <1>3 DEF Keep, Sane, Filed
<1>. QED  BY <1>1, <1>4, RestOk, ThreadStep DEF Keep, SessionInv

\* A user becomes a member, or none: it is remembered.
LEMMA BecomeWorld ==
  ASSUME SessionInv, NEW u \in Users, NEW m \in Teams \union {NoTeam}, Become(u, m),
         grants' = grants, stale' = stale, crossed' = crossed, left' \in Load
  PROVE  World
<1>1. Grown(grants, grants)
  <2>. grants \in Seq(Grants)
    BY DEF SessionInv
  <2>. QED  BY GrantTypes DEF Grown
<1>. QED  BY <1>1 DEF World, Become, SessionInv, Met

LEMMA RpcStep ==
  ASSUME SessionInv, NEW t \in Threads, NEW v \in Users, Rpc(t, thread[t], v),
         grants' = grants, stale' = stale, crossed' = crossed
  PROVE  SessionInv'
<1>. DEFINE x == thread[t]
<1>1. Sane(x, grants, Met) /\ x.team \in Teams \union {NoTeam}
  BY DEF SessionInv, Sane, Operations
<1>2. left' \in Load
  BY LessLeft DEF Rpc, Fault, SessionInv
<1>3. ASSUME Changed(x, v) PROVE World
  BY <1>1, <1>2, <1>3, BecomeWorld, StillWorld DEF Changed
<1>4. ASSUME World PROVE Sane(x, grants', Met') /\ Filed(stored, grants', Met')
  BY <1>1, <1>4, SaneStays, FiledStays DEF World, SessionInv
<1>5. CASE Changed(x, v) /\ Facts(t, x, stored)
  BY <1>3, <1>4, <1>5, ReadsFacts
<1>6. CASE Changed(x, v) /\ GiveUp(t, x, stored)
  BY <1>3, <1>4, <1>6, GivesUp
<1>7. CASE GiveUp(t, x, stored) /\ UNCHANGED <<member, been, left>>
  BY <1>2, <1>4, <1>7, StillWorld, GivesUp
<1>. QED  BY <1>5, <1>6, <1>7 DEF Rpc

\* A sign-in ends: its tokens are those it had.
LEMMA EndedWorld ==
  ASSUME SessionInv, NEW L,
         grants' = [n \in DOMAIN grants |-> [grants[n] EXCEPT !.live = @ /\ L[n]]],
         \A n \in DOMAIN grants : L[n] \in BOOLEAN,
         UNCHANGED <<member, been, crossed, stale>>, left' \in Load
  PROVE  World
<1>0. grants \in Seq(Grants) /\ DOMAIN grants = 1..Len(grants)
  BY DEF SessionInv
<1>1. \A n \in 1..Len(grants) : grants'[n] \in Grants /\ grants'[n].user = grants[n].user
                                 /\ grants'[n].active = grants[n].active
  <2>. TAKE n \in 1..Len(grants)
  <2>1. PICK e : e = [grants[n] EXCEPT !.live = @ /\ L[n]]
    OBVIOUS
  <2>2. grants[n] \in Grants /\ (grants[n].live /\ L[n]) \in BOOLEAN
    BY <1>0, GrantTypes
  <2>3. e \in Grants /\ e.user = grants[n].user /\ e.active = grants[n].active
    BY <2>1, <2>2 DEF Grants
  <2>. QED  BY <1>0, <2>1, <2>3
<1>2. grants' \in Seq(Grants) /\ Len(grants') = Len(grants)
  <2>1. grants' \in [1..Len(grants) -> Grants]
    BY <1>0, <1>1
  <2>2. Len(grants) \in Nat
    BY <1>0
  <2>. QED  BY <2>1, <2>2
<1>3. Grown(grants, grants')
  BY <1>0, <1>1, <1>2, GrantTypes DEF Grown
<1>4. \A k \in stale : Issued(k, grants')
  BY <1>0, <1>3, IssuedStays DEF SessionInv
<1>. QED  BY <1>3, <1>4 DEF World, SessionInv, Met

LEMMA LogoutStep ==
  ASSUME SessionInv, NEW t \in Threads, NEW v, NEW n \in 1..Len(grants), Logout(t, v, n)
  PROVE  SessionInv'
<1>0. grants \in Seq(Grants) /\ DOMAIN grants = 1..Len(grants)
  BY DEF SessionInv
<1>1. PICK e : e = [grants[n] EXCEPT !.live = FALSE]
  OBVIOUS
<1>2. e \in Grants /\ e.user = grants[n].user /\ e.active = grants[n].active
  BY <1>0, <1>1, GrantTypes DEF Grants
<1>3. grants' = [grants EXCEPT ![n] = e]
  BY <1>1 DEF Logout
<1>4. grants' \in Seq(Grants) /\ Len(grants') = Len(grants) /\ grants'[n] = e
      /\ \A i \in 1..Len(grants) : i # n => grants'[i] = grants[i]
  BY <1>0, <1>2, <1>3
<1>5. Grown(grants, grants')
  <2>1. \A i \in 1..Len(grants) : grants[i].active <= grants[i].active
    BY <1>0, GrantTypes
  <2>. QED  BY <1>0, <1>2, <1>4, <2>1 DEF Grown
<1>6. \A k \in stale : Issued(k, grants')
  BY <1>0, <1>5, IssuedStays DEF SessionInv
<1>7. World
  BY <1>5, <1>6 DEF World, Logout, SessionInv, Met
<1>. QED  BY <1>7, RestOk, ThreadStep DEF Logout, SessionInv, Filed

LEMMA CallStep ==
  ASSUME SessionInv, NEW t \in Threads, Call(t)
  PROVE  SessionInv'
<1>. DEFINE x == thread[t]
<1>1. PICK s \in x.copy :
    LET v == UserOf(s.token) IN
    /\ x.pc = "call" /\ s.token \notin stale
    /\ \/ x.stage = "sync" /\ Set(t, Rest)
          /\ UNCHANGED <<grants, member, been, crossed, stale, stored, doubt, left>>
       \/ x.stage = "rpc" /\ Rpc(t, x, v) /\ UNCHANGED <<grants, crossed, stale>>
       \/ x.stage = "self" /\ SelfRead(t, x, v)
       \/ x.stage = "rest" /\ Keep(t, x) /\ UNCHANGED <<grants, member, been, crossed, stale, left>>
       \/ x.stage = "logout" /\ Logout(t, v, s.token[1])
  BY DEF Call
<1>2. Good(s, grants, Met) /\ grants \in Seq(Grants)
  BY DEF SessionInv, Sane, Filed
<1>3. s.token[1] \in 1..Len(grants) /\ UserOf(s.token) \in Users
  BY <1>2, GrantTypes DEF Good, Issued, UserOf
<1>4. CASE Set(t, Rest) /\ UNCHANGED <<grants, member, been, crossed, stale, stored, doubt, left>>
  <2>1. World
    BY <1>4, StillWorld DEF SessionInv
  <2>. QED  BY <1>4, <2>1, RestOk, Moves DEF SessionInv, Met
<1>. QED  BY <1>1, <1>3, <1>4, RpcStep, SelfReadStep, KeepStep, LogoutStep

LEMMA TimeStep ==
  ASSUME SessionInv, \/ \E n \in DOMAIN grants : Expire(n)
                     \/ \E u \in Users : Elsewhere(u)
  PROVE  SessionInv'
<1>0. grants \in Seq(Grants) /\ DOMAIN grants = 1..Len(grants)
  BY DEF SessionInv
<1>1. ASSUME NEW n \in DOMAIN grants, Expire(n) PROVE SessionInv'
  <2>1. Issued(Token(n), grants)
    BY <1>0, <1>1, GrantTypes DEF Issued, Token
  <2>2. Grown(grants, grants')
    BY <1>0, <1>1, GrantTypes DEF Expire, Grown
  <2>3. World
    BY <1>1, <2>1, <2>2, LessLeft DEF World, Expire, SessionInv, Met
  <2>. QED  BY <1>1, <2>3, WorldStep DEF Expire, SessionInv
<1>2. ASSUME NEW u \in Users, Elsewhere(u) PROVE SessionInv'
  <2>0. left' \in Load
    BY <1>2, LessLeft DEF Elsewhere
  <2>1. CASE grants' = grants
    <3>1. World
      BY <1>2, <2>0, <2>1, BecomeWorld, StillWorld DEF Elsewhere
    <3>. QED  BY <1>2, <3>1, WorldStep DEF Elsewhere, SessionInv
  <2>2. CASE grants' # grants
    <3>1. PICK L : L = [n \in DOMAIN grants |-> grants[n].user # u]
      OBVIOUS
    <3>2. grants' = [n \in DOMAIN grants |-> [grants[n] EXCEPT !.live = @ /\ L[n]]]
      BY <1>2, <2>2, <3>1 DEF Elsewhere
    <3>3. \A n \in DOMAIN grants : L[n] \in BOOLEAN
      BY <3>1
    <3>4. UNCHANGED <<member, been, crossed, doubt, stale, stored, thread>>
      BY <1>2, <2>2 DEF Elsewhere
    <3>5. World
      BY <2>0, <3>2, <3>3, <3>4, EndedWorld
    <3>. QED  BY <3>4, <3>5, WorldStep DEF SessionInv
  <2>. QED  BY <2>1, <2>2
<1>. QED  BY <1>1, <1>2

LEMMA Inductive == ASSUME SessionInv, [Next]_vars PROVE SessionInv'
<1>1. ASSUME NEW t \in Threads, Operation(t) PROVE SessionInv'
  BY <1>1, AskedStep, OpenedStep DEF Operation
<1>2. CASE UNCHANGED vars
  <2>1. World
    BY <1>2, StillWorld DEF vars, SessionInv
  <2>. QED  BY <1>2, <2>1, WorldStep DEF vars, SessionInv
<1>. QED  BY <1>1, <1>2, SignedInStep, ServedStep, RefreshedStep, UnreachableStep, UnauthorizedStep,
             CallStep, TimeStep DEF Next

LEMMA SessionAlwaysInv == Spec => []SessionInv
BY InitInv, Inductive, PTL DEF Spec

\* The session file has its type, and every token that anyone holds is one
\* issued to the account it is held for (team/session.ts).
THEOREM TypeCorrect == Spec => []TypeOK
BY SessionAlwaysInv, InvTypes, PTL

\* The cached team is one the account on file has been in, whatever sign-ins,
\* refreshes and reads overlap, and whatever is changed elsewhere; only a sign-in
\* under which the file changes hands, between its two reads of it, may file an
\* account with a team of the one before, and no step after it spreads that to
\* another account (signIn and refreshTeamFacts of team/team.ts).
THEOREM AccountsStayApart == Spec => []AccountsNotMixed
BY SessionAlwaysInv, InvTypes, PTL

(***************************************************************************)
(* One operation at a time                                                 *)
(***************************************************************************)
\* A token that the remote still exchanges: the active one or its parent.
Recent(k, g) == g[k[1]].active <= k[2] + 1

\* The active token, which cannot expire before the operation x is over.
Lasting(k, x, g, st) ==
  k = <<k[1], g[k[1]].active>> /\ k \notin st /\ k \notin x.since

\* An operation that is over is forgotten, one in flight knows what it is.
Known(x) ==
  /\ x.pc = "idle" => x = Rest
  /\ x.pc # "idle" => x.op # "none"
  /\ x.pc = "body" => x.op = "signIn" /\ x.stage = "none"
  /\ x.pc \notin {"idle", "body"} => x.stage # "none"
  /\ x.stage = "logout" <=> x.op = "signOut"
  /\ x.stage \in {"self", "rest"} => x.base # {}

\* What the only operation can rely on.  Its copy is what is on file; only an
\* expired token is exchanged, and only a session that was ended is rejected;
\* the record it will write back is of the same sign-in, and where its token is
\* not the one on file, that one is the newest and outlasts the operation, so
\* that the remote will still take the old one.
Current(x, f, g, st) ==
  /\ f # {} /\ x.copy = f
  /\ \A s \in f :
       /\ \A k \in x.since : k[1] = s.token[1] => k[2] <= s.token[2]
       /\ x.pc = "refresh" => s.token \in st
       /\ x.pc = "answer" =>
            /\ x.answer = {} => ~g[s.token[1]].live
            /\ \A k \in x.answer : s.token[2] < k[2] /\ Lasting(k, x, g, st)
       /\ x.stage \in {"self", "rest"} =>
            \A b \in x.base :
              /\ b.token[1] = s.token[1] /\ Recent(b.token, g)
              /\ b.token = s.token \/ Lasting(s.token, x, g, st)

\* What a sign-in relies on whose body is awaited: its token is the newest of a
\* sign-in that was not there before.
Arrived(x, g) == \A k \in x.answer : g[k[1]].active = k[2] /\ \A j \in x.since : j[1] # k[1]

Going(x, f, g, st) == IF x.pc = "body" THEN Arrived(x, g) ELSE Current(x, f, g, st)

\* The team that is cached, or will be, is the one the account is in.
FactsRead(x, f, m) ==
  /\ x.stage \in {"none", "sync"} => \A s \in f : s.team = m[s.user]
  /\ x.stage = "rest" => \A b \in x.base : x.team = m[b.user]

Busy(t) == thread[t].pc # "idle"

LoneFacts ==
  /\ \A t \in Threads : Known(thread[t])
  /\ \A t, o \in Threads : Busy(t) /\ Busy(o) => t = o
  /\ \A s \in stored : Recent(s.token, grants)
  /\ \A t \in Threads : Busy(t) => Going(thread[t], stored, grants, stale)
  /\ ~doubt => /\ Quiet => \A s \in stored : s.team = member[s.user]
               /\ \A t \in Threads : Busy(t) => FactsRead(thread[t], stored, member)

AloneInv == SessionInv /\ (Alone => LoneFacts)

\* What a step promises beside the invariant.
LoneStep == LoneFacts' /\ SurvivingStep /\ SignedOutStep

LEMMA RestKnown == Known(Rest) /\ Rest.pc = "idle" /\ Rest.op = "none"
BY DEF Known, Rest

\* The only operation goes on.
LEMMA LoneMoves ==
  ASSUME SessionInv, LoneFacts, NEW t \in Threads, \A o \in Threads : Busy(o) => o = t,
         NEW y, Set(t, y), y.pc # "idle", Known(y), Going(y, stored', grants', stale'),
         \A s \in stored' : Recent(s.token, grants'),
         ~doubt' => FactsRead(y, stored', member'),
         stored # {} => stored' # {},
         stored = {} => stored' = {} \/ (thread[t].op = "signIn" /\ thread[t].pc = "body")
  PROVE  LoneStep
<1>1. thread'[t] = y /\ \A o \in Threads : o # t => thread'[o] = thread[o]
  BY DEF Set, SessionInv
<1>2. \A o \in Threads : thread'[o].pc # "idle" => o = t
  BY <1>1 DEF Busy
<1>3. ~Quiet'
  BY <1>1 DEF Quiet
<1>4. LoneFacts'
  BY <1>1, <1>2, <1>3 DEF LoneFacts, Busy
<1>5. SurvivingStep
  BY DEF SurvivingStep
<1>6. \A o \in Threads : ~(thread[o].op = "signOut" /\ thread'[o].op = "none")
  BY <1>1 DEF Known
<1>7. SignedOutStep
  BY <1>6 DEF SignedOutStep
<1>. QED  BY <1>4, <1>5, <1>7 DEF LoneStep

LEMMA LoneGoes ==
  ASSUME SessionInv, LoneFacts, NEW t \in Threads, \A o \in Threads : Busy(o) => o = t,
         NEW y, Set(t, y), y.pc \in {"refresh", "answer", "call"}, Known(y),
         Current(y, stored', grants', stale'),
         \A s \in stored' : Recent(s.token, grants'),
         ~doubt' => FactsRead(y, stored', member'),
         stored = {} => thread[t].op = "signIn" /\ thread[t].pc = "body"
  PROVE  LoneStep
<1>1. stored' # {}
  BY DEF Current
<1>2. Going(y, stored', grants', stale')
  BY DEF Going
<1>. QED  BY <1>1, <1>2, LoneMoves

\* The only operation is over.
LEMMA LoneEnds ==
  ASSUME SessionInv, LoneFacts, NEW t \in Threads, Busy(t), Set(t, Rest), 
         \A s \in stored' : Recent(s.token, grants'),
         ~doubt' => \A s \in stored' : s.team = member'[s.user],
         stored' = {} => thread[t].op = "signOut" \/ \A s \in stored : ~grants[s.token[1]].live,
         thread[t].op = "signOut" => stored' = {},
         stored = {} => stored' = {}
  PROVE  LoneStep
<1>1. thread'[t] = Rest /\ \A o \in Threads : o # t => thread'[o] = thread[o]
  BY DEF Set, SessionInv
<1>2. \A o \in Threads : thread'[o].pc = "idle"
  BY <1>1, RestKnown DEF Busy, LoneFacts
<1>3. LoneFacts'
  BY <1>1, <1>2, RestKnown DEF LoneFacts, Busy
<1>5. SurvivingStep
  BY <1>1, RestKnown DEF SurvivingStep
<1>6. \A o \in Threads : thread[o].op = "signOut" /\ thread'[o].op = "none" => o = t
  BY <1>1
<1>7. SignedOutStep
  BY <1>6 DEF SignedOutStep
<1>. QED  BY <1>3, <1>5, <1>7 DEF LoneStep

\* With one operation at a time the one that begins is the only one.
LEMMA BeginsAlone ==
  ASSUME SessionInv, Alone, NEW t \in Threads, Starts(t)
  PROVE  \A o \in Threads : ~Busy(o)
<1>. DEFINE B == {o \in Threads : thread[o].pc # "idle"}
<1>1. IsFiniteSet(B)
  BY ThreadsAssumption, FS_Subset
<1>2. Cardinality(B) \in Nat /\ Cardinality(B) < 1
  BY <1>1, FS_CardinalityType DEF Starts, Alone
<1>3. Cardinality(B) = 0
  BY <1>2
<1>4. B = {}
  BY <1>1, <1>3, FS_EmptySet
<1>. QED  BY <1>4 DEF Busy

\* The operation reads the session there is, and calls or refreshes with it.
LEMMA LoneFetch ==
  ASSUME SessionInv, LoneFacts, NEW t \in Threads, \A o \in Threads : Busy(o) => o = t,
         NEW x \in Operations, NEW f, Filed(f, grants', Met'), f # {}, Fetch(t, x, f),
         x.op # "none", x.stage # "none", x.stage = "logout" <=> x.op = "signOut",
         x.stage \in {"self", "rest"} =>
            x.base # {} /\ \A b \in x.base, s \in f :
              /\ b.token[1] = s.token[1] /\ Recent(b.token, grants')
              /\ b.token = s.token \/ Lasting(s.token, x, grants', stale'),
         \A s \in f : \A k \in x.since : k[1] = s.token[1] => k[2] <= s.token[2],
         \A s \in f : Recent(s.token, grants'),
         ~doubt => FactsRead(x, f, member'), stale' = stale,
         stored = {} => thread[t].op = "signIn" /\ thread[t].pc = "body"
  PROVE  LoneStep
<1>1. PICK s \in f :
       /\ Set(t, [x EXCEPT !.copy = {s}, !.tried = FALSE,
                           !.pc = IF s.token \in stale THEN "refresh" ELSE "call"])
       /\ stored' = f /\ UNCHANGED doubt
  BY DEF Fetch
<1>2. PICK y : y = [x EXCEPT !.copy = {s}, !.tried = FALSE,
                             !.pc = IF s.token \in stale THEN "refresh" ELSE "call"]
  OBVIOUS
<1>3. /\ y.copy = {s} /\ y.base = x.base /\ y.since = x.since /\ y.op = x.op /\ y.answer = x.answer
      /\ y.pc = (IF s.token \in stale THEN "refresh" ELSE "call") /\ y.stage = x.stage /\ y.team = x.team
  BY <1>2 DEF Operations
<1>4. f = {s}
  BY DEF Filed
<1>5. Known(y) /\ y.pc \in {"refresh", "answer", "call"} /\ Set(t, y)
  BY <1>1, <1>2, <1>3 DEF Known
<1>6. Current(y, f, grants', stale')
  BY <1>3, <1>4 DEF Current, Lasting
<1>7. ~doubt' => FactsRead(y, f, member')
  BY <1>1, <1>3 DEF FactsRead
<1>8. Current(y, stored', grants', stale') /\ (~doubt' => FactsRead(y, stored', member'))
      /\ \A r \in stored' : Recent(r.token, grants')
  BY <1>1, <1>6, <1>7
<1>. QED  BY <1>5, <1>8, LoneGoes

\* An operation begins with what is on file.
LEMMA NewFields ==
  ASSUME SessionInv, NEW op \in Ops, NEW h, h = {s.token : s \in stored}, NEW n, n = New(op)
  PROVE  n \in Operations /\ n.op = op /\ n.base = {} /\ n.since = h
<1>1. h \in SUBSET (Nat \X Nat)
  BY DEF SessionInv, Filed, Good, Issued
<1>2. n = [Rest EXCEPT !.op = op, !.since = h]
  BY DEF New
<1>. QED  BY <1>1, <1>2, RestOk DEF Operations, Rest

LEMMA LoneAsked ==
  ASSUME SessionInv, Alone, LoneFacts, NEW t \in Threads,
         \/ SyncCall(t) \/ RefreshTeam(t) \/ SignOut(t)
         \/ \E op \in {"leave", "rotate"} : LeaveOrRotate(t, op)
         \/ \E m \in Teams : JoinTeam(t, m)
  PROVE  LoneStep
<1>1. Ask(t)
  BY DEF SyncCall, RefreshTeam, SignOut, LeaveOrRotate, JoinTeam
<1>2. \A o \in Threads : ~Busy(o)
  BY <1>1, BeginsAlone DEF Ask
<1>3. Filed(stored, grants', Met') /\ stored # {} /\ grants' = grants /\ member' = member
      /\ stale' = stale
  BY <1>1 DEF Ask, SessionInv, Met
<1>4. \A s \in stored : Recent(s.token, grants) /\ (~doubt => s.team = member[s.user])
                         /\ s.token[2] \in Nat
  BY <1>2 DEF LoneFacts, Quiet, Busy, SessionInv, Filed, Good, Issued
<1>5. PICK h : h = {s.token : s \in stored}
  OBVIOUS
<1>6. h \subseteq Nat \X Nat
  BY <1>5 DEF SessionInv, Filed, Good, Issued
<1>7. ASSUME NEW x \in Operations, x.op # "none", x.stage \in {"sync", "rpc", "self", "logout"},
             x.since = h, x.stage = "self" => x.base = stored,
             x.stage = "logout" <=> x.op = "signOut", Fetch(t, x, stored)
      PROVE  LoneStep
  <2>3. x.stage \in {"self", "rest"} =>
            x.base # {} /\ \A c \in x.base, s \in stored :
              /\ c.token[1] = s.token[1] /\ Recent(c.token, grants')
              /\ c.token = s.token \/ Lasting(s.token, x, grants', stale')
    BY <1>3, <1>4, <1>7 DEF Filed
  <2>4. \A s \in stored : \A k \in x.since : k[1] = s.token[1] => k[2] <= s.token[2]
    <3>1. \A s \in stored : \A k \in x.since : k = s.token
      BY <1>3, <1>5, <1>7 DEF Filed
    <3>. QED  BY <1>4, <3>1
  <2>5. ~doubt => FactsRead(x, stored, member')
    BY <1>3, <1>4, <1>7 DEF FactsRead
  <2>. QED  BY <1>2, <1>3, <1>4, <1>7, <2>3, <2>4, <2>5, LoneFetch
<1>8. \A op \in Ops : \A n : n = New(op) => n \in Operations /\ n.op = op /\ n.since = h
  BY <1>5, NewFields
<1>9. CASE SyncCall(t)
  <2>1. PICK n : n = New("sync")
    OBVIOUS
  <2>2. PICK x : x = [n EXCEPT !.stage = "sync"]
    OBVIOUS
  <2>3. n \in Operations /\ n.op = "sync" /\ n.since = h
    BY <1>8, <2>1 DEF Ops
  <2>4. x \in Operations /\ x.op = "sync" /\ x.since = h /\ x.stage = "sync"
    BY <2>2, <2>3 DEF Operations, Stages
  <2>5. Fetch(t, x, stored)
    BY <1>9, <2>1, <2>2 DEF SyncCall
  <2>. QED  BY <1>7, <2>4, <2>5
<1>10. CASE SignOut(t)
  <2>1. PICK n : n = New("signOut")
    OBVIOUS
  <2>2. PICK x : x = [n EXCEPT !.stage = "logout"]
    OBVIOUS
  <2>3. n \in Operations /\ n.op = "signOut" /\ n.since = h
    BY <1>8, <2>1 DEF Ops
  <2>4. x \in Operations /\ x.op = "signOut" /\ x.since = h /\ x.stage = "logout"
    BY <2>2, <2>3 DEF Operations, Stages
  <2>5. Fetch(t, x, stored)
    BY <1>10, <2>1, <2>2 DEF SignOut
  <2>. QED  BY <1>7, <2>4, <2>5
<1>11. CASE RefreshTeam(t)
  <2>1. PICK n : n = New("refresh")
    OBVIOUS
  <2>2. PICK x : x = [n EXCEPT !.base = stored, !.stage = "self"]
    OBVIOUS
  <2>3. n \in Operations /\ n.op = "refresh" /\ n.since = h
    BY <1>8, <2>1 DEF Ops
  <2>4. x \in Operations /\ x.op = "refresh" /\ x.since = h /\ x.stage = "self" /\ x.base = stored
    BY <1>3, <2>2, <2>3 DEF Operations, Stages, Filed, Good
  <2>5. Fetch(t, x, stored)
    BY <1>11, <2>1, <2>2 DEF RefreshTeam, Facts
  <2>. QED  BY <1>7, <2>4, <2>5
<1>12. ASSUME NEW op \in {"leave", "rotate"}, LeaveOrRotate(t, op) PROVE LoneStep
  <2>1. PICK n : n = New(op)
    OBVIOUS
  <2>2. PICK x : x = [n EXCEPT !.stage = "rpc"]
    OBVIOUS
  <2>3. n \in Operations /\ n.op = op /\ n.since = h
    BY <1>8, <2>1 DEF Ops
  <2>4. x \in Operations /\ x.op = op /\ x.since = h /\ x.stage = "rpc"
    BY <2>2, <2>3 DEF Operations, Stages
  <2>5. Fetch(t, x, stored)
    BY <1>12, <2>1, <2>2 DEF LeaveOrRotate
  <2>. QED  BY <1>7, <2>4, <2>5
<1>13. ASSUME NEW m \in Teams, JoinTeam(t, m) PROVE LoneStep
  <2>1. PICK n : n = New("join")
    OBVIOUS
  <2>2. PICK x : x = [n EXCEPT !.stage = "rpc", !.team = m]
    OBVIOUS
  <2>3. n \in Operations /\ n.op = "join" /\ n.since = h
    BY <1>8, <2>1 DEF Ops
  <2>4. x \in Operations /\ x.op = "join" /\ x.since = h /\ x.stage = "rpc"
    BY <2>2, <2>3 DEF Operations, Stages
  <2>5. Fetch(t, x, stored)
    BY <1>13, <2>1, <2>2 DEF JoinTeam
  <2>. QED  BY <1>7, <2>4, <2>5
<1>. QED  BY <1>9, <1>10, <1>11, <1>12, <1>13

\* What a file or a copy tells of its token, and what the remote knows of it.
LEMMA TokenTypes ==
  ASSUME NEW g \in Seq(Grants), NEW b, NEW s, Good(s, g, b)
  PROVE  /\ s \in Records /\ s.token[1] \in 1..Len(g) /\ s.token[1] \in Nat /\ s.token[2] \in Nat
         /\ s.token = <<s.token[1], s.token[2]>> /\ s.user \in Users
         /\ g[s.token[1]].active \in Nat /\ s.token[2] <= g[s.token[1]].active
         /\ g[s.token[1]].live \in BOOLEAN /\ g[s.token[1]].user = s.user
<1>1. s.token \in Nat \X Nat /\ s.token[1] \in 1..Len(g) /\ s \in Records
  BY DEF Good, Issued
<1>2. s.user \in Users
  BY <1>1 DEF Records
<1>3. s.token[1] \in Nat /\ s.token[2] \in Nat /\ s.token = <<s.token[1], s.token[2]>>
  BY <1>1
<1>. QED  BY <1>1, <1>2, <1>3, GrantTypes DEF Good, Issued

LEMMA LoneOpened ==
  ASSUME SessionInv, Alone, LoneFacts, NEW t \in Threads, NEW u \in Users,
         SignIn(t, u) \/ SignUp(t, u)
  PROVE  LoneStep
<1>1. PICK f \in {stored, {}} : Opened(t, u, f)
  BY DEF SignIn, SignUp
<1>2. PICK k : k = <<Len(grants) + 1, 0>>
  OBVIOUS
<1>3. PICK y : /\ Set(t, y) /\ y.pc = "body" /\ y.op = "signIn"
               /\ y.since = {s.token : s \in stored} /\ y.stage = "none" /\ y.answer = {k}
               /\ grants'[k[1]].active = 0 /\ k[1] = Len(grants) + 1 /\ k[2] = 0
               /\ \A n \in 1..Len(grants) : grants'[n] = grants[n]
  BY <1>1, <1>2, OpenedFacts
<1>4. \A o \in Threads : ~Busy(o)
  BY <1>1, BeginsAlone DEF Opened
<1>5. stored' = stored /\ doubt' = doubt /\ member' = member
  BY <1>1 DEF Opened
<1>6. grants \in Seq(Grants) /\ Len(grants) \in Nat
  BY DEF SessionInv
<1>7. \A s \in stored : s.token[1] \in 1..Len(grants)
  BY <1>6, TokenTypes DEF SessionInv, Filed
<1>8. \A j \in y.since : j[1] # k[1]
  BY <1>3, <1>6, <1>7
<1>9. Going(y, stored', grants', stale')
  BY <1>3, <1>8 DEF Going, Arrived
<1>10. Known(y)
  BY <1>3 DEF Known
<1>11. \A s \in stored' : Recent(s.token, grants')
  BY <1>3, <1>5, <1>7 DEF LoneFacts, Recent
<1>12. ~doubt' => FactsRead(y, stored', member')
  BY <1>3, <1>4, <1>5 DEF LoneFacts, FactsRead, Quiet, Busy
<1>. QED  BY <1>3, <1>4, <1>5, <1>9, <1>10, <1>11, <1>12, LoneMoves

LEMMA LoneSignedIn ==
  ASSUME SessionInv, LoneFacts, NEW t \in Threads, SignedIn(t)
  PROVE  LoneStep
<1>. DEFINE x == thread[t]
<1>1. x.pc = "body" /\ stale' = stale
  BY DEF SignedIn
<1>2. Busy(t)
  BY <1>1 DEF Busy
<1>3. PICK k \in x.answer : \E r :
        /\ World /\ Facts(t, x, {r}) /\ r.token = k /\ Filed({r}, grants', Met')
        /\ Sane(x, grants', Met') /\ grants' = grants
  BY SignedInFacts
<1>4. PICK r : /\ Facts(t, x, {r}) /\ r.token = k /\ Filed({r}, grants', Met')
               /\ Sane(x, grants', Met') /\ grants' = grants
  BY <1>3
<1>5. \A o \in Threads : Busy(o) => o = t
  BY <1>2 DEF LoneFacts
<1>6. Known(x) /\ Arrived(x, grants)
  BY <1>1, <1>2 DEF LoneFacts, Going
<1>7. PICK y : y = [x EXCEPT !.base = {r}, !.stage = "self"]
  OBVIOUS
<1>8. r \in Records
  BY <1>4 DEF Filed, Good
<1>9. x \in Operations
  BY <1>4 DEF Sane
<1>10. y \in Operations /\ y.op = x.op /\ y.base = {r} /\ y.since = x.since /\ y.stage = "self"
  BY <1>7, <1>8, <1>9 DEF Operations, Stages
<1>11. y.op = "signIn"
  BY <1>1, <1>6, <1>10 DEF Known
<1>12. Fetch(t, y, {r})
  BY <1>4, <1>7 DEF Facts
<1>13. grants[k[1]].active = k[2] /\ \A j \in x.since : j[1] # k[1]
  BY <1>6 DEF Arrived
<1>14. k[2] \in Nat
  BY <1>9 DEF Operations
<1>15. Recent(r.token, grants')
  BY <1>4, <1>13, <1>14 DEF Recent
<1>16. \A j \in y.since : j[1] # r.token[1]
  BY <1>4, <1>10, <1>13
<1>17. ~doubt => FactsRead(y, {r}, member')
  BY <1>10 DEF FactsRead
<1>18. thread[t].op = "signIn" /\ thread[t].pc = "body"
  BY <1>1, <1>6 DEF Known
<1>. QED  BY <1>1, <1>4, <1>5, <1>10, <1>11, <1>12, <1>15, <1>16, <1>17, <1>18, LoneFetch

\* The only operation, t, has the session on file in hand, and every other is over.
LEMMA Working ==
  ASSUME SessionInv, LoneFacts, NEW t \in Threads, Busy(t), thread[t].pc # "body"
  PROVE  /\ \A o \in Threads : Busy(o) => o = t
         /\ Known(thread[t]) /\ Current(thread[t], stored, grants, stale)
         /\ ~doubt => FactsRead(thread[t], stored, member)
         /\ thread[t].copy = stored /\ stored # {}
         /\ \A s \in stored : stored = {s} /\ Good(s, grants, Met) /\ Recent(s.token, grants)
         /\ Sane(thread[t], grants, Met) /\ grants \in Seq(Grants)
BY DEF LoneFacts, Going, Current, SessionInv, Filed

\* An unreachable remote: the file stays, or is cleared by a sign-out.
LEMMA LoneGivesUp ==
  ASSUME SessionInv, LoneFacts, NEW t \in Threads, Busy(t), thread[t].pc # "body", grants' = grants,
         NEW f, GiveUp(t, thread[t], f),
         f = stored \/ (f = {} /\ \A s \in stored : ~grants[s.token[1]].live),
         member' = member \/ thread[t].stage = "rpc"
  PROVE  LoneStep
<1>. DEFINE x == thread[t]
<1>1. Set(t, Rest) /\ stored' = (IF x.stage = "logout" THEN {} ELSE f)
      /\ doubt' = (doubt \/ x.stage \in {"rpc", "self", "rest"})
  BY DEF GiveUp
<1>2. \A s \in stored' : s \in stored /\ Recent(s.token, grants')
  BY <1>1, Working
<1>3. ~doubt' => \A s \in stored' : s.team = member'[s.user]
  <2>1. SUFFICES ASSUME ~doubt', stored' # {} PROVE \A s \in stored' : s.team = member'[s.user]
    OBVIOUS
  <2>2. x \in Operations /\ Known(x) /\ x.pc # "idle" /\ FactsRead(x, stored, member)
    BY <1>1, <2>1, Working DEF Busy, Sane
  <2>3. x.stage = "sync" /\ member' = member
    BY <1>1, <2>1, <2>2 DEF Operations, Stages, Known
  <2>. QED  BY <1>2, <2>2, <2>3 DEF FactsRead
<1>4. stored' = {} => x.op = "signOut" \/ \A s \in stored : ~grants[s.token[1]].live
  BY <1>1, Working DEF Known
<1>5. x.op = "signOut" => stored' = {}
  BY <1>1, Working DEF Known
<1>6. stored # {}
  BY Working
<1>. QED  BY <1>1, <1>2, <1>3, <1>4, <1>5, <1>6, LoneEnds

LEMMA LoneUnreachable ==
  ASSUME SessionInv, LoneFacts, NEW t \in Threads, Unreachable(t)
  PROVE  LoneStep
<1>. DEFINE x == thread[t]
<1>1. CASE x.pc # "body"
  BY <1>1, LoneGivesUp DEF Unreachable, Busy
<1>2. CASE x.pc = "body"
  <2>1. Busy(t) /\ Known(x) /\ x.stage = "none" /\ x.op = "signIn"
    BY <1>2 DEF Busy, LoneFacts, Known
  <2>2. Set(t, Rest) /\ stored' = stored /\ doubt' = doubt /\ grants' = grants /\ member' = member
    <3>1. doubt \in BOOLEAN
      BY DEF SessionInv
    <3>. QED  BY <2>1, <3>1 DEF Unreachable, GiveUp
  <2>3. ~doubt => \A s \in stored : s.team = member[s.user]
    BY <2>1 DEF LoneFacts, FactsRead
  <2>4. \A s \in stored : Recent(s.token, grants)
    BY DEF LoneFacts
  <2>5. stored' = {} => x.op = "signOut" \/ \A s \in stored : ~grants[s.token[1]].live
    BY <2>2
  <2>. QED  BY <2>1, <2>2, <2>3, <2>4, <2>5, LoneEnds
<1>. QED  BY <1>1, <1>2

LEMMA LoneUnauthorized ==
  ASSUME SessionInv, LoneFacts, NEW t \in Threads, Unauthorized(t)
  PROVE  LoneStep
<1>. DEFINE x == thread[t]
<1>1. Busy(t) /\ x.pc = "call"
  BY DEF Unauthorized, Busy
<1>2. CASE x.tried
  BY <1>1, <1>2, LoneGivesUp DEF Unauthorized
<1>3. CASE ~x.tried
  <2>1. PICK y : y = [x EXCEPT !.pc = "refresh", !.tried = TRUE]
    OBVIOUS
  <2>2. x \in Operations /\ Known(x) /\ Current(x, stored, grants, stale)
    BY <1>1, Working DEF Sane
  <2>3. y.op = x.op /\ y.copy = x.copy /\ y.base = x.base /\ y.since = x.since /\ y.pc = "refresh"
        /\ y.stage = x.stage /\ y.team = x.team
    BY <2>1, <2>2 DEF Operations
  <2>4. \A s \in stored : s.token \in stale
    BY <1>1, Working DEF Unauthorized
  <2>5. Known(y) /\ Current(y, stored, grants, stale)
    BY <1>1, <2>2, <2>3, <2>4 DEF Known, Current, Lasting
  <2>6. Set(t, y) /\ stored' = stored /\ grants' = grants /\ stale' = stale /\ doubt' = doubt /\ member' = member
    BY <1>3, <2>1 DEF Unauthorized
  <2>7. ~doubt' => FactsRead(y, stored', member')
    BY <1>1, <2>3, <2>6, Working DEF FactsRead
  <2>8. Current(y, stored', grants', stale') /\ \A s \in stored' : Recent(s.token, grants')
    BY <1>1, <2>5, <2>6, Working
  <2>9. stored # {} /\ \A o \in Threads : Busy(o) => o = t
    BY <1>1, Working
  <2>. QED  BY <2>3, <2>5, <2>6, <2>7, <2>8, <2>9, LoneGoes
<1>. QED  BY <1>2, <1>3

\* The remote takes the token on file as long as the session lives, since it is
\* the active one or its parent.
LEMMA LoneServed ==
  ASSUME ParentReuse, SessionInv, LoneFacts, NEW t \in Threads, RefreshServed(t)
  PROVE  LoneStep
<1>. DEFINE x == thread[t]
<1>1. Busy(t) /\ x.pc = "refresh" /\ stored' = stored /\ doubt' = doubt /\ member' = member
  BY DEF RefreshServed, Busy
<1>2. PICK s \in x.copy :
        LET n == s.token[1]  g == s.token[2]  a == grants[n].active IN
        /\ IF grants[n].live /\ g = a
           THEN /\ grants' = [grants EXCEPT ![n].active = a + 1]
                /\ Set(t, [x EXCEPT !.pc = "answer", !.answer = {<<n, a + 1>>}])
                /\ UNCHANGED stale
           ELSE LET again == grants[n].live /\ ParentReuse /\ g = a - 1 IN
                /\ Set(t, [x EXCEPT !.pc = "answer",
                                   !.answer = IF again THEN {Token(n)} ELSE {}])
                /\ stale' = IF again THEN stale \ {Token(n)} ELSE stale
                /\ UNCHANGED grants
  BY DEF RefreshServed
<1>. DEFINE n == s.token[1]
            g == s.token[2]
            a == grants[n].active
<1>3. /\ Good(s, grants, Met) /\ stored = {s} /\ Recent(s.token, grants) /\ x.copy = {s}
      /\ Known(x) /\ Current(x, stored, grants, stale) /\ x \in Operations
      /\ grants \in Seq(Grants) /\ \A o \in Threads : Busy(o) => o = t
  BY <1>1, Working DEF Sane
<1>4. n \in 1..Len(grants) /\ n \in Nat /\ g \in Nat /\ a \in Nat /\ g <= a /\ a <= g + 1
      /\ s.token = <<n, g>> /\ grants[n].live \in BOOLEAN
  BY <1>3, TokenTypes DEF Recent
<1>5. s.token \in stale /\ (\A k \in x.since : k[1] = n => k[2] <= g)
      /\ (x.stage \in {"self", "rest"} => \A b \in x.base : b.token = s.token)
  BY <1>1, <1>3 DEF Current, Lasting
<1>6. \A k \in stale : k[1] = n => k[2] <= a
  BY <1>4 DEF SessionInv, Issued
<1>7. ASSUME NEW A, NEW h, Set(t, [x EXCEPT !.pc = "answer", !.answer = A]), grants' = h,
             Recent(s.token, h), A = {} => ~h[n].live,
             \A k \in A : k = <<n, h[n].active>> /\ g < k[2] /\ k \notin stale'
      PROVE  LoneStep
  <2>1. PICK y : y = [x EXCEPT !.pc = "answer", !.answer = A]
    OBVIOUS
  <2>2. y.op = x.op /\ y.copy = x.copy /\ y.base = x.base /\ y.since = x.since /\ y.pc = "answer"
        /\ y.stage = x.stage /\ y.team = x.team /\ y.answer = A
    BY <1>3, <2>1 DEF Operations
  <2>3. \A k \in A : s.token[2] < k[2] /\ Lasting(k, y, h, stale')
    <3>1. \A k \in A : k = <<n, h[n].active>> /\ g < h[n].active /\ h[n].active = k[2] /\ k[1] = n
      BY <1>7
    <3>2. \A k \in A : k \notin x.since
      <4>. SUFFICES ASSUME NEW k \in A, k \in x.since PROVE FALSE
        OBVIOUS
      <4>1. k[2] <= g /\ g < k[2] /\ k[2] \in Nat
        BY <1>3, <1>5, <3>1 DEF Operations
      <4>. QED  BY <1>4, <4>1
    <3>. QED  BY <1>7, <2>2, <3>1, <3>2 DEF Lasting
  <2>4. x.stage \in {"self", "rest"} => \A b \in x.base :
           /\ b.token[1] = s.token[1] /\ Recent(b.token, h) /\ b.token = s.token
    BY <1>5, <1>7
  <2>5. Current(y, {s}, h, stale')
    BY <1>3, <1>5, <1>7, <2>2, <2>3, <2>4 DEF Current
  <2>6. Current(y, stored', grants', stale') /\ \A r \in stored' : Recent(r.token, grants')
    BY <1>1, <1>3, <1>7, <2>5
  <2>7. ~doubt' => FactsRead(y, stored', member')
    BY <1>1, <2>2, Working DEF FactsRead
  <2>8. Known(y) /\ Set(t, y) /\ y.pc \in {"refresh", "answer", "call"} /\ stored # {}
    BY <1>1, <1>3, <1>7, <2>1, <2>2 DEF Known
  <2>. QED  BY <1>3, <2>6, <2>7, <2>8, LoneGoes
<1>8. CASE grants[n].live /\ g = a
  <2>1. PICK h : h = [grants EXCEPT ![n].active = a + 1]
    OBVIOUS
  <2>2. h[n].active = a + 1
    <3>1. grants[n] \in Grants
      BY <1>3, <1>4, GrantTypes
    <3>. QED  BY <1>3, <1>4, <2>1, <3>1 DEF Grants
  <2>3. PICK A : A = {<<n, a + 1>>}
    OBVIOUS
  <2>4. grants' = h /\ stale' = stale /\ Set(t, [x EXCEPT !.pc = "answer", !.answer = A])
    BY <1>2, <1>8, <2>1, <2>3
  <2>5. Recent(s.token, h)
    BY <1>4, <1>8, <2>2 DEF Recent
  <2>6. \A k \in A : k = <<n, a + 1>> /\ g < k[2] /\ k \notin stale'
    BY <1>4, <1>6, <1>8, <2>3, <2>4
  <2>. QED  BY <1>7, <2>2, <2>3, <2>4, <2>5, <2>6
<1>9. CASE grants[n].live /\ g # a
  <2>1. g = a - 1
    BY <1>4, <1>9
  <2>2. PICK A : A = {Token(n)}
    OBVIOUS
  <2>3. grants' = grants /\ stale' = stale \ {Token(n)} /\ Set(t, [x EXCEPT !.pc = "answer", !.answer = A])
    BY <1>2, <1>9, <2>1, <2>2
  <2>4. \A k \in A : k = <<n, grants[n].active>> /\ g < k[2] /\ k \notin stale'
    BY <1>4, <2>1, <2>2, <2>3 DEF Token
  <2>. QED  BY <1>3, <1>7, <2>2, <2>3, <2>4
<1>10. CASE ~grants[n].live
  <2>1. PICK A : A = {}
    OBVIOUS
  <2>2. grants' = grants /\ Set(t, [x EXCEPT !.pc = "answer", !.answer = A])
    BY <1>2, <1>10, <2>1
  <2>3. \A k \in A : k = <<n, grants[n].active>> /\ g < k[2] /\ k \notin stale'
    BY <2>1
  <2>. QED  BY <1>3, <1>7, <1>10, <2>1, <2>2, <2>3
<1>. QED  BY <1>4, <1>8, <1>9, <1>10

LEMMA LoneRefreshed ==
  ASSUME SessionInv, LoneFacts, NEW t \in Threads, Refreshed(t)
  PROVE  LoneStep
<1>. DEFINE x == thread[t]
<1>1. Busy(t) /\ x.pc = "answer" /\ grants' = grants /\ member' = member /\ stale' = stale
  BY DEF Refreshed, Busy
<1>2. Known(x) /\ Current(x, stored, grants, stale) /\ x \in Operations /\ x.copy = stored
      /\ Sane(x, grants, Met) /\ grants \in Seq(Grants) /\ \A o \in Threads : Busy(o) => o = t
  BY <1>1, Working DEF Sane
<1>3. CASE x.answer = {} /\ GiveUp(t, x, {})
  <2>1. \A s \in stored : ~grants[s.token[1]].live
    BY <1>1, <1>2, <1>3 DEF Current
  <2>. QED  BY <1>1, <1>3, <2>1, LoneGivesUp
<1>4. ASSUME NEW s \in x.copy, NEW k \in x.answer, NEW r, r = [s EXCEPT !.token = k],
             Set(t, [x EXCEPT !.pc = "call", !.copy = {r}, !.answer = {}]),
             stored' = {r}, doubt' = doubt
      PROVE  LoneStep
  <2>1. stored = {s} /\ Good(s, grants, Met) /\ s \in stored
    BY <1>1, <1>2, <1>4, Working
  <2>2. k[1] = s.token[1] /\ Issued(k, grants) /\ s.token[2] < k[2] /\ Lasting(k, x, grants, stale)
    BY <1>1, <1>2, <2>1 DEF Sane, Current
  <2>3. r.token = k /\ r.user = s.user /\ r.team = s.team
    BY <1>4, <2>1 DEF Good, Records
  <2>4. PICK y : y = [x EXCEPT !.pc = "call", !.copy = {r}, !.answer = {}]
    OBVIOUS
  <2>5. y.op = x.op /\ y.copy = {r} /\ y.base = x.base /\ y.since = x.since /\ y.pc = "call"
        /\ y.stage = x.stage /\ y.team = x.team /\ y.answer = {}
    BY <1>2, <2>4 DEF Operations
  <2>6. s.token[1] \in 1..Len(grants) /\ s.token[2] \in Nat /\ k[2] \in Nat
        /\ grants[s.token[1]].active \in Nat /\ s.user \in Users
    BY <1>2, <2>1, <2>2, TokenTypes DEF Issued
  <2>7. Recent(k, grants) /\ Lasting(k, y, grants, stale)
    BY <2>2, <2>5, <2>6 DEF Recent, Lasting
  <2>8. \A e \in x.since : e[1] = k[1] => e[2] <= k[2]
    <3>1. \A e \in x.since : e[2] \in Nat /\ (e[1] = s.token[1] => e[2] <= s.token[2])
      BY <1>2, <2>1 DEF Current, Operations
    <3>. QED  BY <2>2, <2>6, <3>1
  <2>9. x.stage \in {"self", "rest"} => \A b \in x.base : b.token[1] = k[1] /\ Recent(b.token, grants)
    BY <1>2, <2>1, <2>2 DEF Current
  <2>10. Current(y, {r}, grants, stale)
    BY <2>3, <2>5, <2>7, <2>8, <2>9 DEF Current
  <2>11. Current(y, stored', grants', stale') /\ \A q \in stored' : Recent(q.token, grants')
    BY <1>1, <1>4, <2>3, <2>7, <2>10
  <2>12. ~doubt' => FactsRead(y, stored', member')
    BY <1>1, <1>4, <2>1, <2>3, <2>5, Working DEF FactsRead
  <2>13. Known(y) /\ Set(t, y) /\ y.pc \in {"refresh", "answer", "call"} /\ stored # {}
    BY <1>1, <1>2, <1>4, <2>1, <2>4, <2>5 DEF Known
  <2>. QED  BY <1>2, <2>11, <2>12, <2>13, LoneGoes
<1>. QED  BY <1>3, <1>4 DEF Refreshed

\* After a change of the membership the facts are read anew, or in doubt.
LEMMA LoneRpc ==
  ASSUME SessionInv, LoneFacts, NEW t \in Threads, Busy(t), thread[t].pc = "call", NEW v \in Users,
         thread[t].stage = "rpc", Rpc(t, thread[t], v), grants' = grants, crossed' = crossed, stale' = stale
  PROVE  LoneStep
<1>. DEFINE x == thread[t]
<1>1. Known(x) /\ Current(x, stored, grants, stale) /\ x \in Operations
      /\ Sane(x, grants, Met) /\ grants \in Seq(Grants) /\ \A o \in Threads : Busy(o) => o = t
  BY Working DEF Sane
<1>2. CASE GiveUp(t, x, stored)
  BY <1>2, LoneGivesUp
<1>3. CASE Changed(x, v) /\ Facts(t, x, stored)
  <2>1. PICK y : y = [x EXCEPT !.base = stored, !.stage = "self"]
    OBVIOUS
  <2>2. Filed(stored, grants, Met) /\ stored # {} /\ stored \subseteq Records
    BY Working DEF SessionInv, Filed, Good
  <2>3. y \in Operations /\ y.op = x.op /\ y.since = x.since /\ y.stage = "self" /\ y.base = stored
    BY <1>1, <2>1, <2>2 DEF Operations, Stages
  <2>4. Fetch(t, y, stored)
    BY <1>3, <2>1 DEF Facts
  <2>5. x.op # "none" /\ x.op # "signOut"
    BY <1>1 DEF Known, Busy
  <2>6. \A s \in stored : Recent(s.token, grants) /\ \A r \in stored : r = s
    BY Working
  <2>7. \A s \in stored : \A k \in x.since : k[1] = s.token[1] => k[2] <= s.token[2]
    BY <1>1 DEF Current
  <2>8. ~doubt => FactsRead(y, stored, member')
    BY <2>3 DEF FactsRead
  <2>9. Met \subseteq Met'
    BY <1>3 DEF Changed, Become, Met
  <2>10. Filed(stored, grants', Met')
    BY <2>2, <2>9 DEF Filed, Good
  <2>. QED  BY <1>1, <2>2, <2>3, <2>4, <2>5, <2>6, <2>7, <2>8, <2>10, LoneFetch
<1>. QED  BY <1>2, <1>3 DEF Rpc

LEMMA LoneSelfRead ==
  ASSUME SessionInv, LoneFacts, NEW t \in Threads, Busy(t), thread[t].stage = "self",
         thread[t].pc = "call", NEW u \in stored, u.token \notin stale,
         SelfRead(t, thread[t], u.user)
  PROVE  LoneStep
<1>. DEFINE x == thread[t]
            v == u.user
<1>1. PICK b \in x.base :
    LET team == Visible(v, b.user)
        y == [x EXCEPT !.team = team, !.stage = "rest"] IN
    /\ IF team = NoTeam
       THEN Set(t, Rest) /\ stored' = {[b EXCEPT !.team = NoTeam]} /\ doubt' = FALSE
       ELSE \/ /\ stored = {} /\ Set(t, Rest) /\ doubt' = TRUE /\ UNCHANGED stored
            \/ \E s \in stored :
                 /\ Set(t, [y EXCEPT !.copy = {s}, !.tried = FALSE,
                              !.pc = IF s.token \in stale THEN "refresh" ELSE "call"])
                 /\ doubt' = FALSE /\ UNCHANGED stored
    /\ UNCHANGED <<grants, member, been, crossed, stale, left>>
  BY DEF SelfRead
<1>2. /\ Known(x) /\ Current(x, stored, grants, stale) /\ x \in Operations /\ Sane(x, grants, Met)
      /\ grants \in Seq(Grants) /\ stored = {u} /\ Good(u, grants, Met)
      /\ Recent(u.token, grants) /\ \A o \in Threads : Busy(o) => o = t
  BY Working DEF Sane
<1>3. Good(b, grants, Met) /\ b.token[1] = u.token[1] /\ Recent(b.token, grants) /\ \A c \in x.base : c = b
  BY <1>2 DEF Sane, Filed, Current
<1>4. b.user = v /\ Visible(v, b.user) = member[b.user]
  BY <1>2, <1>3 DEF Good, Visible
<1>5. grants' = grants /\ member' = member /\ stale' = stale
  BY <1>1
<1>6. CASE Visible(v, b.user) = NoTeam
  <2>1. PICK r : r = [b EXCEPT !.team = NoTeam]
    OBVIOUS
  <2>2. r.user = b.user /\ r.token = b.token /\ r.team = NoTeam
    BY <1>3, <2>1 DEF Good, Records
  <2>3. Set(t, Rest) /\ stored' = {r}
    BY <1>1, <1>6, <2>1
  <2>4. x.op # "signOut"
    BY <1>2 DEF Known
  <2>. QED  BY <1>3, <1>4, <1>5, <1>6, <2>2, <2>3, <2>4, LoneEnds
<1>7. CASE Visible(v, b.user) # NoTeam
  <2>1. Set(t, [[x EXCEPT !.team = Visible(v, b.user), !.stage = "rest"]
                  EXCEPT !.copy = {u}, !.tried = FALSE, !.pc = "call"])
        /\ doubt' = FALSE /\ stored' = stored
    BY <1>1, <1>2, <1>7
  <2>2. PICK y : y = [x EXCEPT !.team = Visible(v, b.user), !.stage = "rest"]
    OBVIOUS
  <2>3. PICK z : z = [y EXCEPT !.copy = {u}, !.tried = FALSE, !.pc = "call"]
    OBVIOUS
  <2>4. z.copy = {u} /\ z.base = x.base /\ z.since = x.since /\ z.stage = "rest" /\ z.op = x.op
        /\ z.team = member[b.user] /\ z.pc = "call"
    BY <1>2, <1>4, <2>2, <2>3 DEF Operations
  <2>5. Known(z) /\ Current(z, stored, grants, stale)
    BY <1>2, <2>4 DEF Known, Current, Lasting, Busy
  <2>6. FactsRead(z, stored, member)
    BY <1>3, <2>4 DEF FactsRead
  <2>7. Set(t, z) /\ Current(z, stored', grants', stale') /\ FactsRead(z, stored', member')
        /\ \A r \in stored' : Recent(r.token, grants')
    BY <1>2, <1>5, <2>1, <2>2, <2>3, <2>5, <2>6
  <2>. QED  BY <1>2, <2>4, <2>5, <2>7, LoneGoes
<1>. QED  BY <1>6, <1>7

LEMMA LoneKeep ==
  ASSUME SessionInv, LoneFacts, NEW t \in Threads, Busy(t), thread[t].pc = "call", thread[t].stage = "rest",
         Keep(t, thread[t]), UNCHANGED <<grants, member, been, crossed, stale, left>>
  PROVE  LoneStep
<1>. DEFINE x == thread[t]
<1>1. Known(x) /\ Current(x, stored, grants, stale) /\ x \in Operations /\ Sane(x, grants, Met)
      /\ (~doubt => FactsRead(x, stored, member)) /\ stored # {}
  BY Working DEF Sane
<1>2. PICK b \in x.base : x.base = {b}
  BY <1>1 DEF Known, Sane, Filed
<1>3. PICK r : r = [b EXCEPT !.team = x.team]
  OBVIOUS
<1>4. r.user = b.user /\ r.token = b.token /\ r.team = x.team
  BY <1>1, <1>2, <1>3 DEF Sane, Filed, Good, Records
<1>5. stored' = {r} /\ Set(t, Rest) /\ doubt' = doubt
  BY <1>2, <1>3 DEF Keep
<1>6. Recent(b.token, grants)
  BY <1>1 DEF Current
<1>7. ~doubt => x.team = member[b.user]
  BY <1>1 DEF FactsRead
<1>8. x.op # "signOut"
  BY <1>1 DEF Known
<1>. QED  BY <1>1, <1>4, <1>5, <1>6, <1>7, <1>8, LoneEnds

LEMMA LoneCall ==
  ASSUME SessionInv, LoneFacts, NEW t \in Threads, Call(t)
  PROVE  LoneStep
<1>. DEFINE x == thread[t]
<1>1. PICK s \in x.copy :
    LET v == UserOf(s.token) IN
    /\ x.pc = "call" /\ s.token \notin stale
    /\ \/ x.stage = "sync" /\ Set(t, Rest)
          /\ UNCHANGED <<grants, member, been, crossed, stale, stored, doubt, left>>
       \/ x.stage = "rpc" /\ Rpc(t, x, v) /\ UNCHANGED <<grants, crossed, stale>>
       \/ x.stage = "self" /\ SelfRead(t, x, v)
       \/ x.stage = "rest" /\ Keep(t, x) /\ UNCHANGED <<grants, member, been, crossed, stale, left>>
       \/ x.stage = "logout" /\ Logout(t, v, s.token[1])
  BY DEF Call
<1>2. Busy(t)
  BY <1>1 DEF Busy
<1>3. Known(x) /\ stored = {s} /\ s \in stored /\ Good(s, grants, Met) /\ Recent(s.token, grants)
      /\ (~doubt => FactsRead(x, stored, member)) /\ grants \in Seq(Grants)
  BY <1>1, <1>2, Working
<1>4. UserOf(s.token) = s.user /\ s.user \in Users
  BY <1>3, TokenTypes DEF Good, UserOf
<1>5. CASE x.stage = "sync" /\ Set(t, Rest) /\ UNCHANGED <<grants, member, been, crossed, stale, stored, doubt, left>>
  BY <1>2, <1>3, <1>5, LoneEnds DEF FactsRead, Known
<1>6. CASE x.stage = "logout" /\ Logout(t, UserOf(s.token), s.token[1])
  BY <1>2, <1>3, <1>6, LoneEnds DEF Logout, Known
<1>. QED  BY <1>1, <1>2, <1>3, <1>4, <1>5, <1>6, LoneRpc, LoneSelfRead, LoneKeep

\* What is current stays so when sign-ins end and no token is exchanged.
LEMMA CurrentStays ==
  ASSUME NEW g, NEW h, NEW f, NEW x, NEW st, Current(x, f, g, st),
         \A n \in 1..Len(g) : h[n].active = g[n].active /\ (~g[n].live => ~h[n].live),
         \A s \in f : s.token[1] \in 1..Len(g),
         x.pc = "answer" => \A s \in f, k \in x.answer : k[1] = s.token[1]
  PROVE  Current(x, f, h, st)
<1>1. \A s \in f : \A k : k[1] = s.token[1] =>
        /\ Recent(k, g) => Recent(k, h)
        /\ Lasting(k, x, g, st) => Lasting(k, x, h, st)
  BY DEF Recent, Lasting
<1>. QED  BY <1>1 DEF Current

\* Nobody here does anything.
LEMMA LoneStays ==
  ASSUME SessionInv, LoneFacts, UNCHANGED <<stored, thread>>,
         \A k : Recent(k, grants) => Recent(k, grants'),
         \A t \in Threads : Busy(t) => Going(thread[t], stored, grants', stale'),
         ~doubt' => ~doubt /\ member' = member
  PROVE  LoneStep
<1>1. LoneFacts'
  BY DEF LoneFacts, Busy, Quiet
<1>2. SurvivingStep /\ SignedOutStep
  BY DEF SurvivingStep, SignedOutStep
<1>. QED  BY <1>1, <1>2 DEF LoneStep

LEMMA LoneTime ==
  ASSUME SessionInv, LoneFacts, \/ \E n \in DOMAIN grants : Expire(n)
                                \/ \E u \in Users : Elsewhere(u)
  PROVE  LoneStep
<1>0. grants \in Seq(Grants) /\ DOMAIN grants = 1..Len(grants)
  BY DEF SessionInv
<1>1. ASSUME NEW n \in DOMAIN grants, Expire(n) PROVE LoneStep
  <2>1. grants' = grants /\ stale' = stale \union {Token(n)} /\ UNCHANGED <<stored, thread, member, doubt>>
    BY <1>1 DEF Expire
  <2>2. ASSUME NEW t \in Threads, Busy(t) PROVE Going(thread[t], stored, grants, stale')
    <3>. DEFINE x == thread[t]
    <3>0. CASE x.pc = "body"
      BY <2>2, <3>0 DEF LoneFacts, Going
    <3>. SUFFICES ASSUME x.pc # "body" PROVE Going(x, stored, grants, stale')
      BY <3>0
    <3>1. Current(x, stored, grants, stale) /\ Token(n) \in x.since
      BY <1>1, <2>2, Working DEF Expire, Busy
    <3>2. \A k : Lasting(k, x, grants, stale) => Lasting(k, x, grants, stale')
      BY <2>1, <3>1 DEF Lasting
    <3>3. \A k \in stale : k \in stale'
      BY <2>1
    <3>. QED  BY <3>1, <3>2, <3>3 DEF Current, Going
  <2>. QED  BY <2>1, <2>2, LoneStays
<1>2. ASSUME NEW u \in Users, Elsewhere(u) PROVE LoneStep
  <2>1. stale' = stale /\ UNCHANGED <<stored, thread>>
    BY <1>2 DEF Elsewhere
  <2>2. CASE grants' = grants
    <3>1. \A t \in Threads : Busy(t) => Going(thread[t], stored, grants', stale')
      BY <2>1, <2>2 DEF LoneFacts
    <3>2. doubt' = TRUE \/ (doubt' = doubt /\ member' = member)
      BY <1>2 DEF Elsewhere
    <3>. QED  BY <2>1, <2>2, <3>1, <3>2, LoneStays
  <2>3. CASE grants' # grants
    <3>1. grants' = [n \in DOMAIN grants |-> [grants[n] EXCEPT !.live = @ /\ grants[n].user # u]]
          /\ UNCHANGED <<member, doubt>>
      BY <1>2, <2>3 DEF Elsewhere
    <3>2. \A n \in 1..Len(grants) : grants'[n].active = grants[n].active
                                    /\ (~grants[n].live => ~grants'[n].live)
      <4>. TAKE n \in 1..Len(grants)
      <4>1. PICK e : e = [grants[n] EXCEPT !.live = @ /\ grants[n].user # u]
        OBVIOUS
      <4>2. e.active = grants[n].active /\ (~grants[n].live => ~e.live)
        BY <1>0, <4>1, GrantTypes DEF Grants
      <4>. QED  BY <1>0, <3>1, <4>1, <4>2
    <3>3. \A s \in stored : Recent(s.token, grants')
      BY <1>0, <3>2, TokenTypes DEF SessionInv, Filed, LoneFacts, Recent
    <3>4. ASSUME NEW t \in Threads, Busy(t) PROVE Going(thread[t], stored, grants', stale')
      <4>. DEFINE x == thread[t]
      <4>0. CASE x.pc = "body"
        <5>1. Arrived(x, grants) /\ Sane(x, grants, Met)
          BY <3>4, <4>0 DEF LoneFacts, Going, SessionInv
        <5>2. \A k \in x.answer : k[1] \in 1..Len(grants)
          BY <4>0, <5>1 DEF Sane, Issued
        <5>. QED  BY <3>2, <4>0, <5>1, <5>2 DEF Going, Arrived
      <4>. SUFFICES ASSUME x.pc # "body" PROVE Going(x, stored, grants', stale')
        BY <4>0
      <4>1. Current(x, stored, grants, stale) /\ Sane(x, grants, Met)
        BY <3>4, Working
      <4>2. \A s \in stored : s.token[1] \in 1..Len(grants)
        BY <1>0, TokenTypes DEF SessionInv, Filed
      <4>3. x.pc = "answer" => \A s \in stored, k \in x.answer : k[1] = s.token[1]
        BY <4>1 DEF Sane, Current
      <4>4. Current(x, stored, grants', stale)
        BY <3>2, <4>1, <4>2, <4>3, CurrentStays
      <4>. QED  BY <2>1, <4>4 DEF Going
    <3>5. LoneFacts'
      BY <2>1, <3>1, <3>3, <3>4 DEF LoneFacts, Busy, Quiet
    <3>6. SurvivingStep /\ SignedOutStep
      BY <2>1 DEF SurvivingStep, SignedOutStep
    <3>. QED  BY <3>5, <3>6 DEF LoneStep
  <2>. QED  BY <2>2, <2>3
<1>. QED  BY <1>1, <1>2

\* A behaviour has one load.
LEMMA AloneStays == ASSUME SessionInv, [Next]_vars PROVE Alone' = Alone
<1>. left \in Load
  BY DEF SessionInv
<1>1. ASSUME NEW t \in Threads PROVE Operation(t) => left'.atOnce = left.atOnce
  BY DEF Operation, SyncCall, RefreshTeam, SignOut, LeaveOrRotate, JoinTeam, SignIn, SignUp, Opened, Ask, Load
<1>2. ASSUME NEW t \in Threads
      PROVE  SignedIn(t) \/ RefreshServed(t) \/ Refreshed(t) \/ Unreachable(t) \/ Unauthorized(t)
               => left'.atOnce = left.atOnce
  BY DEF SignedIn, RefreshServed, Refreshed, Unreachable, Unauthorized, Fault, Load
<1>3. ASSUME NEW t \in Threads PROVE Call(t) => left'.atOnce = left.atOnce
  BY DEF Call, Rpc, SelfRead, Logout, Fault, Load
<1>4. ASSUME NEW n PROVE Expire(n) => left'.atOnce = left.atOnce
  BY DEF Expire, Load
<1>5. ASSUME NEW u PROVE Elsewhere(u) => left'.atOnce = left.atOnce
  BY DEF Elsewhere, Load
<1>. QED  BY <1>1, <1>2, <1>3, <1>4, <1>5 DEF Next, Alone, vars

LEMMA LoneNext ==
  ASSUME ParentReuse, SessionInv, Alone, LoneFacts, Next
  PROVE  LoneStep
<1>1. ASSUME NEW t \in Threads, Operation(t) PROVE LoneStep
  BY <1>1, LoneAsked, LoneOpened DEF Operation
<1>. QED  BY <1>1, LoneSignedIn, LoneServed, LoneRefreshed, LoneUnreachable, LoneUnauthorized, LoneCall,
             LoneTime DEF Next

LEMMA InitAlone == ASSUME Init PROVE AloneInv
<1>1. \A t \in Threads : thread[t] = Rest
  BY DEF Init
<1>2. LoneFacts
  BY <1>1, RestKnown DEF LoneFacts, Busy, Init
<1>. QED  BY <1>2, InitInv DEF AloneInv

LEMMA AloneInductive ==
  ASSUME ParentReuse, AloneInv, [Next]_vars
  PROVE  AloneInv' /\ [Alone => SurvivingStep /\ SignedOutStep]_vars
<1>1. SessionInv' /\ Alone' = Alone
  BY Inductive, AloneStays DEF AloneInv
<1>2. CASE Next
  BY <1>1, <1>2, LoneNext DEF AloneInv, LoneStep
<1>3. CASE UNCHANGED vars
  BY <1>1, <1>3 DEF AloneInv, LoneFacts, Busy, Quiet, vars
<1>. QED  BY <1>2, <1>3

\* With a remote that takes the parent of the active token once more, as
\* GoTrue does, and one operation at a time: nothing but a sign-out ends a
\* session, nothing but a sign-in begins one, and a sign-out ends signed out,
\* whatever expires, is lost or cannot be reached, and however long it goes on
\* (refreshStoredSession and supabaseFetch of team/session.ts).
THEOREM SessionAlwaysHonest == ASSUME ParentReuse PROVE Spec => SessionHonest
<1>1. AloneInv /\ [Next]_vars => AloneInv' /\ [Alone => SurvivingStep /\ SignedOutStep]_vars
  BY AloneInductive
<1>. QED  BY <1>1, InitAlone, PTL DEF Spec, SessionHonest

\* So is the cached team the one that the user is in, unless it was changed
\* elsewhere or the last attempt to read it failed (refreshTeamFacts).
THEOREM FactsStayCurrent == ASSUME ParentReuse PROVE Spec => []FactsCurrent
<1>1. AloneInv => FactsCurrent
  BY DEF AloneInv, LoneFacts, FactsCurrent
<1>2. AloneInv /\ [Next]_vars => AloneInv'
  BY AloneInductive
<1>. QED  BY <1>1, <1>2, InitAlone, PTL DEF Spec

(***************************************************************************)
(* The accounts of the console and the sessions of its browsers            *)
(***************************************************************************)
Roles == {"none", "admin", "member"}

\* The table and what a sign-up carries; a row that is there has a role.
AccountRows ==
  /\ accounts \in [Names -> [role : Roles, pw : Passwords \union {0, 1}]]
  /\ \A n \in Names : accounts[n].role = "none" => accounts[n] = Console!NoUser
  /\ sign \in [Console!Procs -> [name : Names \union {Admin, "none"}, role : Roles, pw : Passwords \union {0}]]
  /\ \A p \in Console!Procs : \/ sign[p] = Console!Idle
                              \/ sign[p].role # "none" /\ (p # "cli" => sign[p].name \in Names)
  /\ use \in Console!Load

\* The sessions there are, in memory and in the file.
Sessions ==
  /\ sessions \in [Consoles -> [read : BOOLEAN, tokens : SUBSET Tokens]]
  /\ issued \in [Tokens -> [name : Names \union {"none"}, role : Roles, expires : Nat]]
  /\ date \in Nat \ {0}
  /\ ended \subseteq granted /\ granted \subseteq Tokens /\ file \subseteq Tokens
  /\ \A t \in granted : issued[t] # Console!NoToken

\* What ended is neither in memory nor in the file, what was granted and has
\* neither ended nor run out is in the file, and in the memory that was read.
SessionsKept(p) ==
  /\ ended \intersect file = {} /\ ended \intersect sessions[p].tokens = {}
  /\ \A t \in granted \ quit : issued[t].expires > date =>
       t \in file /\ (sessions[p].read => t \in sessions[p].tokens)

\* Who was told it will be the owner finds no owner, and an owner has a row.
OwnerToBe(p) ==
  /\ p # "cli" /\ sign[p].role = "admin" => owners = {}
  /\ owners # {} => Console!Known # {}
  /\ owners = {} \/ \E n \in Names : owners = {n}

ConsoleInv ==
  /\ AccountRows /\ Sessions
  /\ Console!Alone => \A p \in Console!Running : SessionsKept(p) /\ OwnerToBe(p)

\* The operator of the instance is the one of the library.
LEMMA ConsoleCardinality == ASSUME NEW S PROVE Console!Cardinality(S) = Cardinality(S)
  BY Zenon DEF Console!Cardinality, Cardinality

LEMMA AloneIsOne ==
  ASSUME ConsoleInv, Console!Alone
  PROVE  \E c : use.consoles = {c} /\ Console!Running = {c} /\ c \in Consoles
<1>1. use.consoles \subseteq Consoles
  BY DEF ConsoleInv, AccountRows, Console!Load
<1>2. IsFiniteSet(use.consoles)
  BY <1>1, ConsoleAssumption, FS_Subset
<1>3. \E c : use.consoles = {c}
  BY <1>2, FS_Singleton, ConsoleCardinality DEF Console!Alone
<1>. QED  BY <1>1, <1>3 DEF Console!Running

\* Who runs does not change.
LEMMA SameConsoles ==
  ASSUME AccountRows,
         \/ use' = use
         \/ use' = [use EXCEPT !.faults = @ - 1] /\ use.faults > 0
         \/ use' = [use EXCEPT !.resets = @ - 1] /\ use.resets > 0
         \/ use' = [use EXCEPT !.restarts = @ - 1] /\ use.restarts > 0
  PROVE  use' \in Console!Load /\ use'.consoles = use.consoles
  BY DEF AccountRows, Console!Load

LEMMA ConsoleInit == Console!Init => ConsoleInv
<1>. SUFFICES ASSUME Console!Init PROVE ConsoleInv
  OBVIOUS
<1>1. AccountRows
  BY ConsoleAssumption DEF Console!Init, AccountRows, Roles, Console!NoUser, Console!Idle, Console!Procs
<1>2. Sessions
  BY DEF Console!Init, Sessions, Console!Unread, Roles, Console!NoToken
<1>3. ASSUME NEW p \in Console!Running PROVE SessionsKept(p) /\ OwnerToBe(p)
  <2>1. p \in Console!Procs
    BY <1>3 DEF Console!Running, Console!Procs
  <2>2. sign[p].role = "none"
    BY <2>1 DEF Console!Init, Console!Idle
  <2>3. SessionsKept(p)
    BY <1>3 DEF Console!Init, SessionsKept, Console!Unread, Console!Running
  <2>. QED  BY <2>2, <2>3 DEF Console!Init, OwnerToBe
<1>. QED  BY <1>1, <1>2, <1>3 DEF ConsoleInv

\* What a console holds, and what it leaves in the file, when it looks.
LEMMA HeldKept ==
  ASSUME Sessions, NEW p \in Consoles, SessionsKept(p)
  PROVE  /\ Console!Held(p) \intersect ended = {} /\ Console!Swept(p) \intersect ended = {}
         /\ \A t \in granted \ quit : issued[t].expires > date => t \in Console!Held(p) /\ t \in Console!Swept(p)
  BY DEF Sessions, SessionsKept, Console!Held, Console!Swept, Console!Alive

\* The step leaves the accounts, or keeps their shape.
LEMMA ConsoleStep ==
  ASSUME ConsoleInv, AccountRows', Sessions', use'.consoles = use.consoles,
         \A p \in Console!Running : Console!Alone /\ Console!Running = {p} /\ SessionsKept(p) /\ OwnerToBe(p)
           => SessionsKept(p)' /\ OwnerToBe(p)'
  PROVE  ConsoleInv'
<1>1. Console!Running' = Console!Running /\ (Console!Alone' <=> Console!Alone)
  BY DEF Console!Running, Console!Alone
<1>2. ASSUME Console!Alone, NEW p \in Console!Running PROVE SessionsKept(p)' /\ OwnerToBe(p)'
  <2>1. Console!Running = {p}
    BY <1>2, AloneIsOne
  <2>. QED  BY <1>2, <2>1 DEF ConsoleInv
<1>. QED  BY <1>1, <1>2 DEF ConsoleInv

\* The names there are stay there.
LEMMA OwnersStay ==
  ASSUME AccountRows, NEW p, OwnerToBe(p), owners' = owners, sign'[p].role = "admin" => sign'[p] = sign[p],
         Console!Known \subseteq Console!Known'
  PROVE  OwnerToBe(p)'
  BY DEF OwnerToBe

\* A console looks: it reads the file if it has not, and leaves what it keeps.
LEMMA TouchKeeps ==
  ASSUME Sessions, NEW p \in Consoles, SessionsKept(p),
         sessions' = [sessions EXCEPT ![p] = [read |-> TRUE, tokens |-> Console!Held(p)]],
         file' = Console!Swept(p), UNCHANGED <<issued, granted, quit, ended, date>>
  PROVE  SessionsKept(p)'
  BY HeldKept DEF Sessions, SessionsKept

\* A session that is made is new; its cookie is given when the file was written.
LEMMA SessionMade ==
  ASSUME Sessions, NEW p \in Consoles, NEW n \in Names, NEW role \in Roles, NEW fails \in BOOLEAN,
         Console!Session(p, n, role, fails), UNCHANGED <<quit, ended, date>>
  PROVE  Sessions' /\ (SessionsKept(p) => SessionsKept(p)')
<1>. DEFINE t == Console!Fresh
            new == [name |-> n, role |-> role, expires |-> date + TTL]
<1>1. t \in Tokens /\ issued[t] = Console!NoToken
  BY DEF Console!Session, Console!Fresh
<1>2. /\ issued' = [issued EXCEPT ![t] = new]
      /\ granted' = IF fails THEN granted ELSE granted \union {t}
      /\ Console!Persist(p, Console!Held(p) \union {t}, fails)
  BY DEF Console!Session
<1>. HIDE DEF t
<1>3. t \notin granted
  BY <1>1 DEF Sessions
<1>4. new \in [name : Names \union {"none"}, role : Roles, expires : Nat] /\ new # Console!NoToken
  BY ConsoleAssumption DEF Sessions, Console!NoToken
<1>. HIDE DEF new
<1>5. Console!Held(p) \subseteq Tokens /\ Console!Swept(p) \subseteq Tokens
  BY DEF Sessions, Console!Held, Console!Swept, Console!Alive
<1>6. Sessions'
  BY <1>1, <1>2, <1>3, <1>4, <1>5 DEF Sessions, Console!Persist
<1>7. ASSUME SessionsKept(p) PROVE SessionsKept(p)'
  BY <1>1, <1>2, <1>3, <1>7, HeldKept DEF Sessions, SessionsKept, Console!Persist
<1>. QED  BY <1>6, <1>7

LEMMA RunningConsole == ASSUME AccountRows, NEW p \in Console!Running PROVE p \in Consoles /\ p \in Console!Procs
  BY DEF Console!Running, Console!Procs

\* The table is opened with the accounts of before, if it was empty.
LEMMA OpensKeeps == ASSUME ConsoleInv, NEW archived \in BOOLEAN, Console!Opens(archived) PROVE ConsoleInv'
<1>1. AccountRows'
  BY DEF ConsoleInv, AccountRows, Console!Opens, Console!Imported, Roles, Console!NoUser
<1>2. Sessions'
  BY DEF ConsoleInv, Sessions, Console!Opens
<1>3. ASSUME NEW p \in Console!Running, SessionsKept(p), OwnerToBe(p) PROVE SessionsKept(p)' /\ OwnerToBe(p)'
  BY <1>3 DEF Console!Opens, SessionsKept, OwnerToBe
<1>. QED  BY <1>1, <1>2, <1>3, ConsoleStep DEF Console!Opens

\* A sign-up looks whether it will be the owner.
LEMMA LooksKeeps ==
  ASSUME ConsoleInv, NEW q \in Console!Running \union {"cli"}, NEW n \in Names \union {Admin}, NEW pw \in Passwords,
         NEW role \in {"admin", "member"}, q # "cli" => n \in Names,
         sign' = [sign EXCEPT ![q] = [name |-> n, pw |-> pw, role |-> role]],
         q # "cli" /\ role = "admin" => Console!Known = {},
         UNCHANGED <<accounts, legacy, sessions, file, issued, granted, quit, ended, owners, date, use>>
  PROVE  ConsoleInv'
<1>. DEFINE new == [name |-> n, pw |-> pw, role |-> role]
<1>1. q \in Console!Procs /\ DOMAIN sign = Console!Procs
  BY RunningConsole DEF ConsoleInv, AccountRows, Console!Procs
<1>2. /\ new \in [name : Names \union {Admin, "none"}, role : Roles, pw : Passwords \union {0}]
      /\ new.role = role /\ new.name = n
  BY DEF Roles
<1>. HIDE DEF new
<1>3. AccountRows'
  BY <1>2 DEF ConsoleInv, AccountRows, new, Console!Idle
<1>4. Sessions'
  BY DEF ConsoleInv, Sessions
<1>5. ASSUME NEW p \in Console!Running, SessionsKept(p), OwnerToBe(p) PROVE SessionsKept(p)' /\ OwnerToBe(p)'
  <2>1. SessionsKept(p)'
    BY <1>5 DEF SessionsKept
  <2>2. sign'[p] = IF p = q THEN new ELSE sign[p]
    BY <1>1, RunningConsole DEF ConsoleInv, new
  <2>3. Console!Known' = Console!Known
    BY DEF Console!Known
  <2>. QED  BY <1>2, <1>5, <2>1, <2>2, <2>3 DEF OwnerToBe
<1>. QED  BY <1>3, <1>4, <1>5, ConsoleStep

\* A new password leaves who is known.
LEMMA RepasswordedKeeps ==
  ASSUME ConsoleInv, NEW n \in Names, NEW pw \in Passwords, Console!Repassworded(n, pw),
         use.resets > 0, use' = [use EXCEPT !.resets = @ - 1],
         UNCHANGED <<legacy, sessions, file, issued, sign, granted, quit, ended, owners, date>>
  PROVE  ConsoleInv'
<1>1. accounts' = [accounts EXCEPT ![n].pw = pw] /\ accounts[n] # Console!NoUser
  BY DEF Console!Repassworded, Console!Known
<1>2. accounts[n].role # "none"
  BY <1>1 DEF ConsoleInv, AccountRows
<1>3. use' \in Console!Load /\ use'.consoles = use.consoles
  BY SameConsoles DEF ConsoleInv
<1>4. accounts' \in [Names -> [role : Roles, pw : Passwords \union {0, 1}]]
  BY <1>1 DEF ConsoleInv, AccountRows
<1>5. ASSUME NEW m \in Names PROVE accounts'[m].role = accounts[m].role /\ (m # n => accounts'[m] = accounts[m])
  BY <1>1 DEF ConsoleInv, AccountRows
<1>6. AccountRows'
  BY <1>2, <1>3, <1>4, <1>5 DEF ConsoleInv, AccountRows, Console!NoUser
<1>7. Sessions'
  BY DEF ConsoleInv, Sessions
<1>8. Console!Known \subseteq Console!Known'
  <2>1. accounts'[n] # Console!NoUser
    BY <1>2, <1>5 DEF Console!NoUser
  <2>. QED  BY <2>1, <1>5 DEF Console!Known, Console!NoUser
<1>9. ASSUME NEW p \in Console!Running, SessionsKept(p), OwnerToBe(p) PROVE SessionsKept(p)' /\ OwnerToBe(p)'
  <2>1. SessionsKept(p)'
    BY <1>9 DEF SessionsKept
  <2>. QED  BY <1>8, <1>9, <2>1, OwnersStay DEF ConsoleInv
<1>. QED  BY <1>3, <1>6, <1>7, <1>9, ConsoleStep

\* A row is added.
LEMMA KnownAfter ==
  ASSUME AccountRows, NEW n, n \in Names => n \notin Console!Known, NEW role \in {"admin", "member"}, NEW pw \in Passwords \union {0, 1},
         accounts' = [accounts EXCEPT ![n] = [role |-> role, pw |-> pw]]
  PROVE  /\ accounts' \in [Names -> [role : Roles, pw : Passwords \union {0, 1}]]
         /\ \A m \in Names : accounts'[m].role = "none" => accounts'[m] = Console!NoUser
         /\ Console!Known' = Console!Known \union ({n} \intersect Names)
<1>. DEFINE new == [role |-> role, pw |-> pw]
<1>1. new \in [role : Roles, pw : Passwords \union {0, 1}] /\ new.role # "none" /\ new # Console!NoUser
  BY DEF Roles, Console!NoUser
<1>. HIDE DEF new
<1>2. accounts' = [accounts EXCEPT ![n] = new]
  BY DEF new
<1>3. \A m \in Names : accounts'[m] = IF m = n THEN new ELSE accounts[m]
  BY <1>2 DEF AccountRows
<1>4. accounts' \in [Names -> [role : Roles, pw : Passwords \union {0, 1}]]
  BY <1>1, <1>2 DEF AccountRows
<1>5. \A m \in Names : accounts'[m].role = "none" => accounts'[m] = Console!NoUser
  BY <1>1, <1>3 DEF AccountRows
<1>6. Console!Known' = Console!Known \union ({n} \intersect Names)
  BY <1>1, <1>3 DEF Console!Known, Console!NoUser
<1>. QED  BY <1>4, <1>5, <1>6

\* A row is inserted, unless the name is taken; who signed up is signed in.
LEMMA InsertsKeeps ==
  ASSUME ConsoleInv, NEW q \in Console!Running \union {"cli"}, NEW fails \in BOOLEAN, Console!Inserts(q, fails)
  PROVE  ConsoleInv'
<1>. DEFINE s == sign[q]
<1>1. q \in Console!Procs /\ s # Console!Idle /\ sign' = [sign EXCEPT ![q] = Console!Idle]
  BY RunningConsole DEF ConsoleInv, Console!Inserts, Console!Procs
<1>2. /\ s.role \in {"admin", "member"} /\ s.pw \in Passwords \union {0} /\ (q # "cli" => s.name \in Names)
  BY <1>1 DEF ConsoleInv, AccountRows, Roles
<1>3. UNCHANGED <<quit, ended, date>>
  BY DEF Console!Inserts
<1>4. \A p \in Console!Running : sign'[p] = IF p = q THEN Console!Idle ELSE sign[p]
  BY <1>1, RunningConsole DEF ConsoleInv, AccountRows
<1>5. Console!Idle \in [name : Names \union {Admin, "none"}, role : Roles, pw : Passwords \union {0}]
      /\ Console!Idle.role = "none"
  BY DEF Console!Idle, Roles
<1>6. /\ sign' \in [Console!Procs -> [name : Names \union {Admin, "none"}, role : Roles, pw : Passwords \union {0}]]
      /\ \A p \in Console!Procs : \/ sign'[p] = Console!Idle
                                  \/ sign'[p].role # "none" /\ (p # "cli" => sign'[p].name \in Names)
  BY <1>1, <1>5 DEF ConsoleInv, AccountRows
<1>7. CASE UNCHANGED <<accounts, sessions, file, issued, granted, owners, use>>
  <2>1. AccountRows' /\ Sessions'
    BY <1>3, <1>6, <1>7 DEF ConsoleInv, AccountRows, Sessions
  <2>2. ASSUME NEW p \in Console!Running, SessionsKept(p), OwnerToBe(p) PROVE SessionsKept(p)' /\ OwnerToBe(p)'
    <3>1. SessionsKept(p)'
      BY <1>3, <1>7, <2>2 DEF SessionsKept
    <3>2. Console!Known' = Console!Known
      BY <1>7 DEF Console!Known
    <3>. QED  BY <1>4, <1>5, <1>7, <2>2, <3>1, <3>2, OwnersStay DEF ConsoleInv
  <2>. QED  BY <1>7, <2>1, <2>2, ConsoleStep
<1>8. CASE s.name \notin Console!Known /\ accounts' = [accounts EXCEPT ![s.name] = [role |-> s.role, pw |-> s.pw]]
  <2>1. /\ accounts' \in [Names -> [role : Roles, pw : Passwords \union {0, 1}]]
        /\ \A m \in Names : accounts'[m].role = "none" => accounts'[m] = Console!NoUser
        /\ Console!Known' = Console!Known \union ({s.name} \intersect Names)
    BY <1>2, <1>8, KnownAfter DEF ConsoleInv
  <2>2. CASE q = "cli"
    <3>1. UNCHANGED <<sessions, file, issued, granted, owners, use>>
      BY <1>8, <2>2 DEF Console!Inserts
    <3>2. AccountRows' /\ Sessions'
      BY <1>3, <1>6, <2>1, <3>1 DEF ConsoleInv, AccountRows, Sessions
    <3>3. ASSUME NEW p \in Console!Running, SessionsKept(p), OwnerToBe(p) PROVE SessionsKept(p)' /\ OwnerToBe(p)'
      <4>1. SessionsKept(p)'
        BY <1>3, <3>1, <3>3 DEF SessionsKept
      <4>. QED  BY <1>4, <1>5, <2>1, <3>1, <3>3, <4>1, OwnersStay DEF ConsoleInv
    <3>. QED  BY <3>1, <3>2, <3>3, ConsoleStep
  <2>3. CASE q # "cli"
    <3>1. /\ owners' = IF s.role = "admin" THEN owners \union {s.name} ELSE owners
          /\ Console!Session(q, s.name, s.role, fails) /\ Console!Paid(fails)
      BY <1>8, <2>3 DEF Console!Inserts
    <3>2. q \in Console!Running /\ q \in Consoles /\ s.name \in Names /\ s.role \in Roles
      BY <1>2, <2>3, RunningConsole DEF ConsoleInv, Roles
    <3>3. Sessions' /\ (SessionsKept(q) => SessionsKept(q)')
      BY <1>3, <3>1, <3>2, SessionMade DEF ConsoleInv
    <3>4. use' \in Console!Load /\ use'.consoles = use.consoles
      BY <3>1, SameConsoles DEF ConsoleInv, Console!Paid, Console!Session, Console!Persist
    <3>5. AccountRows'
      BY <1>6, <2>1, <3>4 DEF AccountRows
    <3>6. ASSUME NEW p \in Console!Running, Console!Running = {p}, SessionsKept(p), OwnerToBe(p)
          PROVE  SessionsKept(p)' /\ OwnerToBe(p)'
      <4>1. p = q
        BY <3>2, <3>6
      <4>2. sign'[p].role = "none"
        BY <1>4, <1>5, <4>1, <3>2
      <4>3. owners' = owners \/ (owners = {} /\ owners' = {s.name})
        BY <2>3, <3>1, <3>6, <4>1 DEF OwnerToBe
      <4>4. Console!Known' # {}
        BY <2>1, <3>2
      <4>. QED  BY <3>2, <3>3, <3>6, <4>1, <4>2, <4>3, <4>4 DEF OwnerToBe
    <3>. QED  BY <3>3, <3>4, <3>5, <3>6, ConsoleStep
  <2>. QED  BY <2>2, <2>3
<1>. QED  BY <1>7, <1>8 DEF Console!Inserts

\* A sign-in makes a session.
LEMMA LoginKeeps ==
  ASSUME ConsoleInv, NEW q \in Console!Running, NEW n \in Names, NEW pw \in Passwords, NEW fails \in BOOLEAN,
         Console!Login(q, n, pw, fails)
  PROVE  ConsoleInv'
<1>1. /\ Console!Session(q, n, accounts[n].role, fails) /\ Console!Paid(fails)
      /\ UNCHANGED <<accounts, sign, quit, ended, owners, date>>
  BY DEF Console!Login
<1>2. accounts[n].role \in Roles /\ q \in Consoles
  BY RunningConsole DEF ConsoleInv, AccountRows
<1>3. Sessions' /\ (SessionsKept(q) => SessionsKept(q)')
  BY <1>1, <1>2, SessionMade DEF ConsoleInv
<1>4. use' \in Console!Load /\ use'.consoles = use.consoles
  BY <1>1, SameConsoles DEF ConsoleInv, Console!Paid, Console!Session, Console!Persist
<1>5. AccountRows'
  BY <1>1, <1>4 DEF ConsoleInv, AccountRows
<1>6. ASSUME NEW p \in Console!Running, Console!Running = {p}, SessionsKept(p), OwnerToBe(p)
      PROVE  SessionsKept(p)' /\ OwnerToBe(p)'
  <2>1. p = q /\ Console!Known' = Console!Known
    BY <1>1, <1>6 DEF Console!Known
  <2>. QED  BY <1>1, <1>3, <1>6, <2>1 DEF OwnerToBe
<1>. QED  BY <1>3, <1>4, <1>5, <1>6, ConsoleStep

\* What a console looks up, and what it forgets: a session that ran out, or one
\* that is ended.
LEMMA ForgetsKeeps ==
  ASSUME ConsoleInv, NEW q \in Console!Running, NEW S \in SUBSET Console!Held(q),
         sessions' = [sessions EXCEPT ![q] = [read |-> TRUE, tokens |-> S]],
         file' = Console!Swept(q) \/ file' = S,
         use' = use \/ (use' = [use EXCEPT !.faults = @ - 1] /\ use.faults > 0),
         \A t \in Console!Held(q) \ S : t \in quit' \/ ~(issued[t].expires > date),
         quit \subseteq quit', ended' \subseteq granted,
         ended' = ended \/ (file' = S /\ \A t \in ended' : t \in ended \/ t \notin S),
         UNCHANGED <<issued, sign, granted, owners, date>>,
         AccountRows', Console!Known \subseteq Console!Known'
  PROVE  ConsoleInv'
<1>1. q \in Consoles
  BY RunningConsole DEF ConsoleInv
<1>2. Console!Held(q) \subseteq Tokens /\ Console!Swept(q) \subseteq Tokens
  BY <1>1 DEF ConsoleInv, Sessions, Console!Held, Console!Swept, Console!Alive
<1>3. Sessions'
  BY <1>1, <1>2 DEF ConsoleInv, Sessions
<1>4. use' \in Console!Load /\ use'.consoles = use.consoles
  BY SameConsoles DEF ConsoleInv
<1>5. ASSUME NEW p \in Console!Running, Console!Running = {p}, SessionsKept(p), OwnerToBe(p)
      PROVE  SessionsKept(p)' /\ OwnerToBe(p)'
  <2>1. p = q
    BY <1>5
  <2>2. SessionsKept(p)'
    BY <1>1, <1>5, <2>1, HeldKept DEF ConsoleInv, Sessions, SessionsKept
  <2>. QED  BY <1>5, <2>2, OwnersStay DEF ConsoleInv
<1>. QED  BY <1>3, <1>4, <1>5, ConsoleStep

LEMMA ShownKeeps ==
  ASSUME ConsoleInv, NEW q \in Console!Running, NEW t \in Tokens, Console!Shown(q, t)
  PROVE  ConsoleInv'
<1>1. UNCHANGED <<accounts, issued, sign, granted, quit, ended, owners, date, use>>
  BY DEF Console!Shown
<1>2. AccountRows' /\ Console!Known' = Console!Known /\ ended' \subseteq granted
  BY <1>1 DEF ConsoleInv, AccountRows, Sessions, Console!Known
<1>3. CASE t \in Console!Held(q) /\ ~Console!Accepts(q, t)
  <2>1. ~(issued[t].expires > date) /\ Console!Persist(q, Console!Held(q) \ {t}, FALSE)
    BY <1>3 DEF Console!Shown, Console!Accepts
  <2>2. /\ sessions' = [sessions EXCEPT ![q] = [read |-> TRUE, tokens |-> Console!Held(q) \ {t}]]
        /\ file' = Console!Held(q) \ {t}
    BY <2>1 DEF Console!Persist
  <2>. QED  BY <1>1, <1>2, <2>1, <2>2, ForgetsKeeps
<1>4. CASE ~(t \in Console!Held(q) /\ ~Console!Accepts(q, t))
  <2>1. /\ sessions' = [sessions EXCEPT ![q] = [read |-> TRUE, tokens |-> Console!Held(q)]]
        /\ file' = Console!Swept(q)
    BY <1>4 DEF Console!Shown
  <2>. QED  BY <1>1, <1>2, <2>1, ForgetsKeeps
<1>. QED  BY <1>3, <1>4

LEMMA LogoutKeeps ==
  ASSUME ConsoleInv, NEW q \in Console!Running, NEW t \in Tokens, NEW fails \in BOOLEAN, Console!Logout(q, t, fails)
  PROVE  ConsoleInv'
<1>1. /\ Console!Persist(q, Console!Held(q) \ {t}, fails) /\ Console!Paid(fails)
      /\ UNCHANGED <<accounts, issued, sign, granted, owners, date>>
      /\ quit' = quit \union {t} /\ ended' = (IF fails THEN ended ELSE ended \union {t}) /\ t \in granted
  BY DEF Console!Logout
<1>2. use' = use \/ (use' = [use EXCEPT !.faults = @ - 1] /\ use.faults > 0)
  BY <1>1 DEF Console!Paid, Console!Persist
<1>3. use' \in Console!Load
  BY <1>2, SameConsoles DEF ConsoleInv
<1>4. AccountRows' /\ Console!Known' = Console!Known
  BY <1>1, <1>3 DEF ConsoleInv, AccountRows, Console!Known
<1>5. ended \subseteq granted
  BY DEF ConsoleInv, Sessions
<1>6. /\ sessions' = [sessions EXCEPT ![q] = [read |-> TRUE, tokens |-> Console!Held(q) \ {t}]]
      /\ file' = IF fails THEN Console!Swept(q) ELSE Console!Held(q) \ {t}
  BY <1>1 DEF Console!Persist
<1>. DEFINE S == Console!Held(q) \ {t}
<1>7. \A r \in Console!Held(q) \ S : r \in quit'
  BY <1>1
<1>8. /\ file' = Console!Swept(q) \/ file' = S
      /\ ended' \subseteq granted
      /\ ended' = ended \/ (file' = S /\ \A r \in ended' : r \in ended \/ r \notin S)
  BY <1>1, <1>5, <1>6
<1>9. S \in SUBSET Console!Held(q) /\ sessions' = [sessions EXCEPT ![q] = [read |-> TRUE, tokens |-> S]]
  BY <1>6
<1>. HIDE DEF S
<1>. QED  BY <1>1, <1>2, <1>4, <1>7, <1>8, <1>9, ForgetsKeeps

LEMMA AdminAddsKeeps ==
  ASSUME ConsoleInv, NEW q \in Console!Running, NEW t \in Tokens, NEW n \in Names, NEW role \in {"admin", "member"},
         Console!AdminAdds(q, t, n, role)
  PROVE  ConsoleInv'
<1>1. /\ n \notin Console!Known /\ accounts' = [accounts EXCEPT ![n] = [role |-> role, pw |-> 1]]
      /\ sessions' = [sessions EXCEPT ![q] = [read |-> TRUE, tokens |-> Console!Held(q)]] /\ file' = Console!Swept(q)
      /\ UNCHANGED <<issued, sign, granted, quit, ended, owners, date, use>>
  BY DEF Console!AdminAdds
<1>2. /\ accounts' \in [Names -> [role : Roles, pw : Passwords \union {0, 1}]]
      /\ \A m \in Names : accounts'[m].role = "none" => accounts'[m] = Console!NoUser
      /\ Console!Known' = Console!Known \union ({n} \intersect Names)
  BY <1>1, KnownAfter DEF ConsoleInv
<1>3. AccountRows'
  BY <1>1, <1>2 DEF ConsoleInv, AccountRows
<1>4. ended' \subseteq granted
  BY <1>1 DEF ConsoleInv, Sessions
<1>. QED  BY <1>1, <1>2, <1>3, <1>4, ForgetsKeeps

\* A console that starts again reads the file.
LEMMA RestartKeeps == ASSUME ConsoleInv, NEW q \in Console!Running, Console!Restart(q) PROVE ConsoleInv'
<1>1. /\ sessions' = [sessions EXCEPT ![q] = Console!Unread] /\ sign' = [sign EXCEPT ![q] = Console!Idle]
      /\ use.restarts > 0 /\ use' = [use EXCEPT !.restarts = @ - 1]
      /\ UNCHANGED <<accounts, file, issued, granted, quit, ended, owners, date>>
  BY DEF Console!Restart
<1>2. use' \in Console!Load /\ use'.consoles = use.consoles
  BY <1>1, SameConsoles DEF ConsoleInv
<1>3. q \in Consoles /\ q \in Console!Procs
  BY RunningConsole DEF ConsoleInv
<1>4. /\ Console!Idle \in [name : Names \union {Admin, "none"}, role : Roles, pw : Passwords \union {0}]
      /\ Console!Idle.role = "none"
  BY DEF Console!Idle, Roles
<1>5. AccountRows'
  BY <1>1, <1>2, <1>4 DEF ConsoleInv, AccountRows
<1>6. Sessions'
  BY <1>1 DEF ConsoleInv, Sessions, Console!Unread
<1>7. ASSUME NEW p \in Console!Running, Console!Running = {p}, SessionsKept(p), OwnerToBe(p)
      PROVE  SessionsKept(p)' /\ OwnerToBe(p)'
  <2>1. p = q /\ sessions'[p] = Console!Unread /\ sign'[p] = Console!Idle /\ Console!Known' = Console!Known
    BY <1>1, <1>3, <1>7 DEF ConsoleInv, Sessions, AccountRows, Console!Known
  <2>. QED  BY <1>1, <1>4, <1>7, <2>1 DEF SessionsKept, OwnerToBe, Console!Unread
<1>. QED  BY <1>2, <1>5, <1>6, <1>7, ConsoleStep

LEMMA NextDayKeeps == ASSUME ConsoleInv, Console!NextDay PROVE ConsoleInv'
<1>1. date' = date + 1 /\ UNCHANGED <<accounts, sessions, file, issued, sign, granted, quit, ended, owners, use>>
  BY DEF Console!NextDay
<1>2. AccountRows' /\ Sessions'
  BY <1>1 DEF ConsoleInv, AccountRows, Sessions
<1>3. ASSUME NEW p \in Console!Running, SessionsKept(p), OwnerToBe(p) PROVE SessionsKept(p)' /\ OwnerToBe(p)'
  <2>1. SessionsKept(p)'
    BY <1>1, <1>3 DEF ConsoleInv, Sessions, SessionsKept
  <2>. QED  BY <1>1, <1>3, <2>1 DEF OwnerToBe, Console!Known
<1>. QED  BY <1>1, <1>2, <1>3, ConsoleStep

LEMMA ConsoleNext == ConsoleInv /\ [Console!Next]_Console!vars => ConsoleInv'
<1>. SUFFICES ASSUME ConsoleInv, [Console!Next]_Console!vars PROVE ConsoleInv'
  OBVIOUS
<1>1. ASSUME NEW q \in Console!Running, NEW n \in Names, NEW pw \in Passwords, Console!Looks(q, n, pw) PROVE ConsoleInv'
  BY <1>1, LooksKeeps DEF Console!Looks
<1>2. ASSUME NEW q \in Console!Running, NEW n \in Names, NEW pw \in Passwords, Console!ResetPassword(q, n, pw)
      PROVE  ConsoleInv'
  BY <1>2, RepasswordedKeeps DEF Console!ResetPassword
<1>3. ASSUME NEW pw \in Passwords, Console!CliLooks(pw) PROVE ConsoleInv'
  BY <1>3, LooksKeeps DEF Console!CliLooks
<1>4. ASSUME NEW pw \in Passwords, Console!CliResets(pw) PROVE ConsoleInv'
  <2>1. Admin \in Names
    BY <1>4 DEF Console!CliResets, Console!Repassworded, Console!Known
  <2>. QED  BY <1>4, <2>1, RepasswordedKeeps DEF Console!CliResets
<1>5. CASE UNCHANGED Console!vars
  <2>1. UNCHANGED <<accounts, legacy, sessions, file, issued, sign, granted, quit, ended, owners, date, use>>
    BY <1>5 DEF Console!vars
  <2>2. AccountRows' /\ Sessions'
    BY <2>1 DEF ConsoleInv, AccountRows, Sessions
  <2>3. ASSUME NEW p \in Console!Running, SessionsKept(p), OwnerToBe(p) PROVE SessionsKept(p)' /\ OwnerToBe(p)'
    BY <2>1, <2>3 DEF SessionsKept, OwnerToBe, Console!Known
  <2>. QED  BY <2>1, <2>2, <2>3, ConsoleStep
<1>. QED  BY <1>1, <1>2, <1>3, <1>4, <1>5, OpensKeeps, InsertsKeeps, LoginKeeps, ShownKeeps, LogoutKeeps,
             AdminAddsKeeps, RestartKeeps, NextDayKeeps DEF Console!Next

LEMMA ConsoleHolds == ConsoleInv => Console!EndedStaysOut /\ Console!RestartsKeep /\ Console!OneOwner
<1>. SUFFICES ASSUME ConsoleInv, Console!Alone
              PROVE  /\ \A p \in Console!Running : \A t \in ended : ~Console!Accepts(p, t)
                     /\ \A p \in Console!Running : \A t \in granted \ quit :
                          issued[t].expires > date => Console!Accepts(p, t)
                     /\ Console!Cardinality(owners) <= 1
  BY DEF Console!EndedStaysOut, Console!RestartsKeep, Console!OneOwner
<1>1. ASSUME NEW p \in Console!Running
      PROVE  /\ \A t \in ended : ~Console!Accepts(p, t)
             /\ \A t \in granted \ quit : issued[t].expires > date => Console!Accepts(p, t)
  BY <1>1, HeldKept, RunningConsole DEF ConsoleInv, Console!Accepts
<1>2. PICK c : Console!Running = {c}
  BY AloneIsOne
<1>3. owners = {} \/ \E n \in Names : owners = {n}
  BY <1>2 DEF ConsoleInv, OwnerToBe
<1>4. Cardinality(owners) <= 1
  <2>1. CASE owners = {}
    BY <2>1, FS_EmptySet
  <2>2. ASSUME NEW n, owners = {n} PROVE Cardinality(owners) = 1
    BY <2>2, FS_Singleton
  <2>. QED  BY <1>3, <2>1, <2>2
<1>. QED  BY <1>1, <1>4, ConsoleCardinality

\* With one console beside the command line, however they are restarted and
\* their writes fail: what ended stays out, what was granted stays in, and one
\* account at most becomes the owner by signing up (ui/auth.ts).
THEOREM ConsoleHoldsAlways ==
  Console!Spec => [](Console!EndedStaysOut /\ Console!RestartsKeep /\ Console!OneOwner)
<1>. QED  BY ConsoleInit, ConsoleNext, ConsoleHolds, PTL DEF Console!Spec

\* The same of the sum of the parts, of which one runs at a time.
THEOREM SessionsAlwaysHold == PartsSpec => []SessionsHold
<1>. DEFINE Inv == part = "accounts" => ConsoleInv
<1>1. Parts => Inv
  BY ConsoleInit DEF Parts
<1>2. Inv /\ [Step]_<<part, sessionVars, repoVars, okrVars, replyVars, accountVars, noteVars, itemVars>> => Inv'
  <2>. SUFFICES ASSUME Inv, [Step]_<<part, sessionVars, repoVars, okrVars, replyVars, accountVars, noteVars, itemVars>>,
                       part' = "accounts"
                PROVE  ConsoleInv'
    OBVIOUS
  <2>1. part = "accounts" /\ [Console!Next]_Console!vars
    BY DEF Step, accountVars, Console!vars
  <2>. QED  BY <2>1, ConsoleNext
<1>3. Inv => SessionsHold
  BY ConsoleHolds DEF SessionsHold
<1>. QED  BY <1>1, <1>2, <1>3, PTL DEF PartsSpec

(***************************************************************************)
(* The checkouts of the skill (SkillRepo)                                  *)
(***************************************************************************)
SkillSteps == {"idle", "skipped", "refused", "failed", "done", "check", "clone", "fetch", "pull"}
SkillJob == [step : SkillSteps, dir : Skill!Places, seeds : SUBSET Dirs, was : Settings]
AtWork == {"check", "clone", "fetch", "pull"}
SkillTypes ==
  /\ repo \in [Dirs -> Skill!Checkouts] /\ registry \in Skill!Places /\ page \in Skill!Pages
  /\ setting \in Settings /\ upstream \in 0..LastHead /\ jobs \in [Skill!Jobs -> SkillJob]
  /\ work \in [Dirs -> {"none", "edit", "commit"}]
  /\ \A j \in Skill!Jobs : jobs[j].step \in AtWork => jobs[j].dir \in Dirs

\* Who clones has the directory to himself, and nobody has worked where there
\* is no checkout.
OneCloner ==
  /\ \A j \in Skill!Jobs : jobs[j].step = "clone" => repo[jobs[j].dir].at = "partial"
  /\ \A i, j \in Skill!Jobs : jobs[i].step = "clone" /\ jobs[j].step = "clone" /\ jobs[i].dir = jobs[j].dir => i = j
WorkedIn == \A d \in Dirs : work[d] # "none" => repo[d].at = "repo"

SkillInv == SkillTypes /\ OneCloner /\ WorkedIn /\ Skill!WorkKept /\ Skill!SettingsKept

LEMMA NoJobType == Skill!NoJob \in SkillJob /\ Skill!NoJob.step = "idle"
<1>1. (CHOOSE s \in Settings : TRUE) \in Settings
  BY SkillAssumption
<1>. QED  BY <1>1 DEF Skill!NoJob, SkillJob, SkillSteps, Skill!Places

LEMMA EmptyType ==
  /\ Skill!Empty \in Skill!Checkouts /\ Skill!Empty.at = "none" /\ Skill!Empty.config = "none"
BY SkillAssumption DEF Skill!Empty, Skill!Checkouts

LEMMA EndedType ==
  ASSUME SkillTypes, NEW j \in Skill!Jobs, NEW how \in {"refused", "failed", "done"}
  PROVE  /\ Skill!Ended(j, how) \in [Skill!Jobs -> SkillJob]
         /\ Skill!Ended(j, how)[j].step \notin AtWork
         /\ \A i \in Skill!Jobs : i # j => Skill!Ended(j, how)[i] = jobs[i]
<1>1. [Skill!NoJob EXCEPT !.step = how] \in SkillJob /\ [Skill!NoJob EXCEPT !.step = how].step = how
  BY NoJobType DEF SkillJob, SkillSteps
<1>. QED  BY <1>1, NoJobType DEF SkillTypes, Skill!Ended, AtWork

LEMMA SkillInit == Skill!Init => SkillInv
<1>. SUFFICES ASSUME Skill!Init PROVE SkillInv
  OBVIOUS
<1>1. SkillTypes
  BY NoJobType, EmptyType, SkillAssumption DEF Skill!Init, SkillTypes, Skill!Places, Skill!Pages, AtWork
<1>2. OneCloner /\ WorkedIn /\ Skill!WorkKept /\ Skill!SettingsKept
  BY NoJobType, EmptyType DEF Skill!Init, OneCloner, WorkedIn, Skill!WorkKept, Skill!SettingsKept
<1>. QED  BY <1>1, <1>2 DEF SkillInv

LEMMA SkillBegins ==
  ASSUME SkillInv, NEW j \in Skill!Jobs, NEW J \in SkillJob, J.step # "clone", J.step \in AtWork => J.dir \in Dirs,
         jobs' = [jobs EXCEPT ![j] = J], UNCHANGED <<repo, registry, setting, page, wished, upstream, work>>
  PROVE  SkillInv'
<1>1. \A i \in Skill!Jobs : jobs'[i] = IF i = j THEN J ELSE jobs[i]
  BY DEF SkillInv, SkillTypes
<1>2. SkillTypes'
  BY <1>1 DEF SkillInv, SkillTypes
<1>3. OneCloner'
  BY <1>1 DEF SkillInv, OneCloner
<1>4. WorkedIn' /\ Skill!WorkKept' /\ Skill!SettingsKept'
  BY DEF SkillInv, WorkedIn, Skill!WorkKept, Skill!SettingsKept
<1>. QED  BY <1>2, <1>3, <1>4 DEF SkillInv

\* A job ends and leaves the directories, or its own directory is what it makes of it.
LEMMA SkillEnds ==
  ASSUME SkillInv, NEW j \in Skill!Jobs, NEW how \in {"refused", "failed", "done"}, jobs' = Skill!Ended(j, how),
         NEW C \in Skill!Checkouts, repo' = [repo EXCEPT ![jobs[j].dir] = C], jobs[j].step \in AtWork,
         C = repo[jobs[j].dir] \/ jobs[j].step = "clone"
           \/ (C.at = repo[jobs[j].dir].at /\ C.dirty = repo[jobs[j].dir].dirty /\ C.mine = repo[jobs[j].dir].mine),
         registry' \in Skill!Places, UNCHANGED <<setting, page, wished, upstream, work>>
  PROVE  SkillInv'
<1>0. SkillTypes /\ OneCloner /\ WorkedIn /\ Skill!WorkKept /\ Skill!SettingsKept
  BY DEF SkillInv
<1>1. /\ jobs' \in [Skill!Jobs -> SkillJob] /\ jobs'[j].step \notin AtWork
      /\ \A i \in Skill!Jobs : i # j => jobs'[i] = jobs[i]
  BY <1>0, EndedType
<1>2. jobs[j].dir \in Dirs /\ \A d \in Dirs : repo'[d] = IF d = jobs[j].dir THEN C ELSE repo[d]
  BY <1>0 DEF SkillTypes
<1>3. SkillTypes'
  BY <1>0, <1>1, <1>2 DEF SkillTypes
<1>4. OneCloner'
  <2>1. \A i \in Skill!Jobs : jobs'[i].step = "clone" => i # j /\ jobs[i].step = "clone" /\ jobs'[i] = jobs[i]
    BY <1>1 DEF AtWork
  <2>2. ASSUME NEW i \in Skill!Jobs, jobs'[i].step = "clone" PROVE repo'[jobs'[i].dir].at = "partial"
    <3>1. jobs[i].dir \in Dirs /\ repo[jobs[i].dir].at = "partial"
      BY <1>0, <2>1, <2>2 DEF SkillTypes, OneCloner, AtWork
    <3>2. jobs[i].dir = jobs[j].dir => jobs[j].step # "clone"
      BY <1>0, <2>1, <2>2 DEF OneCloner
    <3>. QED  BY <1>2, <2>1, <2>2, <3>1, <3>2
  <2>. QED  BY <1>0, <2>1, <2>2 DEF OneCloner
<1>5. \A d \in Dirs : work[d] # "none" => repo'[d].at = repo[d].at /\ repo'[d].dirty = repo[d].dirty /\ repo'[d].mine = repo[d].mine
  <2>1. jobs[j].step = "clone" => work[jobs[j].dir] = "none"
    BY <1>0, <1>2 DEF OneCloner, WorkedIn
  <2>. QED  BY <1>2, <2>1
<1>6. WorkedIn' /\ Skill!WorkKept' /\ Skill!SettingsKept'
  BY <1>0, <1>5 DEF WorkedIn, Skill!WorkKept, Skill!SettingsKept
<1>. QED  BY <1>3, <1>4, <1>6 DEF SkillInv

LEMMA SkillNext ==
  ASSUME SkillInv, [Skill!Next]_Skill!vars
  PROVE  SkillInv'
<1>0. SkillTypes /\ OneCloner /\ WorkedIn /\ Skill!WorkKept /\ Skill!SettingsKept
  BY DEF SkillInv
<1>1. CASE Skill!Start \/ Skill!Update \/ \E d \in Dirs : Skill!Install(d)
  <2>1. /\ "start" \in Skill!Jobs /\ "install" \in Skill!Jobs /\ "update" \in Skill!Jobs
        /\ UNCHANGED <<repo, registry, setting, page, wished, upstream, work>>
    BY <1>1 DEF Skill!Start, Skill!Update, Skill!Install, Skill!conf, Skill!Jobs
  <2>2. ASSUME NEW d \in Dirs PROVE Skill!Cloning(d) \in SkillJob /\ Skill!Cloning(d).step = "check" /\ Skill!Cloning(d).dir = d
    BY <1>0, SkillAssumption DEF Skill!Cloning, SkillJob, SkillSteps, Skill!Places, Skill!Candidates, SkillTypes
  <2>3. Skill!Pulling \in SkillJob /\ Skill!Pulling.step = "fetch" /\ Skill!Pulling.dir = registry
    BY <1>0 DEF Skill!Pulling, SkillJob, SkillSteps, SkillTypes
  <2>4. [Skill!NoJob EXCEPT !.step = "skipped"] \in SkillJob /\ [Skill!NoJob EXCEPT !.step = "skipped"].step = "skipped"
    BY NoJobType DEF SkillJob, SkillSteps
  <2>5. Skill!Available => registry \in Dirs
    BY <1>0 DEF Skill!Available, SkillTypes, Skill!Places
  <2>6. CASE Skill!Start
    <3>1. jobs' = [jobs EXCEPT !["start"] = Skill!Provision]
      BY <2>6 DEF Skill!Start
    <3>2. /\ Skill!Provision \in SkillJob /\ Skill!Provision.step # "clone"
          /\ Skill!Provision.step \in AtWork => Skill!Provision.dir \in Dirs
      BY <2>2, <2>3, <2>4, <2>5, SkillAssumption DEF Skill!Provision, AtWork
    <3>. QED  BY <2>1, <3>1, <3>2, SkillBegins
  <2>7. CASE Skill!Update
    <3>1. jobs' = [jobs EXCEPT !["update"] = Skill!Pulling] /\ Skill!Available
      BY <2>7 DEF Skill!Update, Skill!Blocked
    <3>. QED  BY <2>1, <2>3, <2>5, <3>1, SkillBegins
  <2>8. ASSUME NEW d \in Dirs, Skill!Install(d) PROVE SkillInv'
    <3>1. jobs' = [jobs EXCEPT !["install"] = Skill!Cloning(d)]
      BY <2>8 DEF Skill!Install
    <3>. QED  BY <2>1, <2>2, <3>1, SkillBegins
  <2>. QED  BY <1>1, <2>6, <2>7, <2>8
<1>2. CASE Skill!Release \/ Skill!OpenPage \/ \E s \in Settings : Skill!SavePage(s)
  <2>1. /\ repo' = repo /\ jobs' = jobs /\ work' = work /\ registry' \in Skill!Places /\ page' \in Skill!Pages
        /\ upstream' \in 0..LastHead /\ setting' \in Settings /\ (setting' = wished' \/ UNCHANGED <<setting, wished>>)
    BY <1>0, <1>2, SkillAssumption DEF Skill!Release, Skill!OpenPage, Skill!SavePage, Skill!conf, SkillTypes, Skill!Pages
  <2>. QED  BY <1>0, <2>1 DEF SkillInv, SkillTypes, OneCloner, WorkedIn, Skill!WorkKept, Skill!SettingsKept
<1>3. CASE \E j \in Skill!Jobs : Skill!Clone(j)
  <2>1. PICK j \in Skill!Jobs : Skill!Clone(j)
    BY <1>3
  <2>2. /\ jobs[j].step = "check" /\ jobs[j].dir \in Dirs /\ repo[jobs[j].dir] \in Skill!Checkouts
        /\ UNCHANGED <<registry, setting, page, wished, upstream, work>> /\ registry \in Skill!Places
    BY <1>0, <2>1 DEF Skill!Clone, Skill!conf, SkillTypes, AtWork
  <2>3. CASE repo[jobs[j].dir].at # "none"
    <3>1. jobs' = Skill!Ended(j, "refused") /\ repo' = [repo EXCEPT ![jobs[j].dir] = repo[jobs[j].dir]]
      BY <1>0, <2>1, <2>3 DEF Skill!Clone, SkillTypes
    <3>. QED  BY <2>2, <3>1, SkillEnds DEF AtWork
  <2>4. CASE repo[jobs[j].dir].at = "none"
    <3>1. jobs' = [jobs EXCEPT ![j].step = "clone"] /\ repo' = [repo EXCEPT ![jobs[j].dir].at = "partial"]
      BY <2>1, <2>4 DEF Skill!Clone
    <3>2. [jobs[j] EXCEPT !.step = "clone"] \in SkillJob /\ jobs[j] \in SkillJob
      BY <1>0 DEF SkillTypes, SkillJob, SkillSteps
    <3>3. /\ jobs' \in [Skill!Jobs -> SkillJob] /\ jobs'[j].step = "clone" /\ jobs'[j].dir = jobs[j].dir
          /\ \A i \in Skill!Jobs : i # j => jobs'[i] = jobs[i]
      BY <1>0, <3>1, <3>2 DEF SkillTypes, SkillJob
    <3>4. /\ repo' \in [Dirs -> Skill!Checkouts] /\ repo'[jobs[j].dir].at = "partial"
          /\ repo'[jobs[j].dir].dirty = repo[jobs[j].dir].dirty /\ repo'[jobs[j].dir].mine = repo[jobs[j].dir].mine
          /\ \A d \in Dirs : d # jobs[j].dir => repo'[d] = repo[d]
      BY <1>0, <2>2, <3>1 DEF SkillTypes, Skill!Checkouts
    <3>5. SkillTypes'
      BY <1>0, <2>2, <3>3, <3>4 DEF SkillTypes, AtWork
    <3>6. OneCloner'
      <4>1. \A i \in Skill!Jobs : i # j /\ jobs[i].step = "clone" => jobs[i].dir \in Dirs /\ jobs[i].dir # jobs[j].dir
        BY <1>0, <2>4 DEF OneCloner, SkillTypes, AtWork
      <4>. QED  BY <1>0, <3>3, <3>4, <4>1 DEF OneCloner
    <3>7. WorkedIn' /\ Skill!WorkKept' /\ Skill!SettingsKept'
      <4>1. work[jobs[j].dir] = "none"
        BY <1>0, <2>2, <2>4 DEF WorkedIn
      <4>. QED  BY <1>0, <2>2, <3>4, <4>1 DEF WorkedIn, Skill!WorkKept, Skill!SettingsKept
    <3>. QED  BY <3>5, <3>6, <3>7 DEF SkillInv
  <2>. QED  BY <2>3, <2>4
<1>4. CASE \E j \in Skill!Jobs : Skill!CloneFails(j)
  <2>1. PICK j \in Skill!Jobs : Skill!CloneFails(j)
    BY <1>4
  <2>. QED  BY <1>0, <2>1, EmptyType, SkillEnds DEF Skill!CloneFails, Skill!conf, AtWork, SkillTypes
<1>5. CASE \E j \in Skill!Jobs : Skill!CloneEnds(j)
  <2>1. PICK j \in Skill!Jobs : Skill!CloneEnds(j)
    BY <1>5
  <2>2. [Skill!Fresh EXCEPT !.config = Skill!Seeded(j)] \in Skill!Checkouts
    BY <1>0, SkillAssumption DEF Skill!Fresh, Skill!Empty, Skill!Checkouts, Skill!Seeded, SkillTypes
  <2>3. /\ jobs[j].step = "clone" /\ jobs' = Skill!Ended(j, "done") /\ registry' = jobs[j].dir
        /\ repo' = [repo EXCEPT ![jobs[j].dir] = [Skill!Fresh EXCEPT !.config = Skill!Seeded(j)]]
        /\ UNCHANGED <<setting, page, wished, upstream, work>>
    BY <2>1 DEF Skill!CloneEnds, Skill!Registered
  <2>4. jobs[j].dir \in Skill!Places
    BY <1>0 DEF SkillTypes, SkillJob
  <2>. QED  BY <2>2, <2>3, <2>4, SkillEnds DEF AtWork
<1>6. CASE \E j \in Skill!Jobs, ok \in BOOLEAN : Skill!Fetch(j, ok)
  <2>1. PICK j \in Skill!Jobs, ok \in BOOLEAN : Skill!Fetch(j, ok)
    BY <1>6
  <2>2. /\ jobs[j].step = "fetch" /\ jobs[j].dir \in Dirs /\ repo[jobs[j].dir] \in Skill!Checkouts /\ jobs[j] \in SkillJob
        /\ UNCHANGED <<repo, registry, setting, page, wished, upstream, work>> /\ registry \in Skill!Places
    BY <1>0, <2>1 DEF Skill!Fetch, Skill!conf, SkillTypes, AtWork
  <2>3. CASE ok
    <3>1. jobs' = [jobs EXCEPT ![j].step = "pull"]
      BY <2>1, <2>3 DEF Skill!Fetch
    <3>2. jobs' = [jobs EXCEPT ![j] = [jobs[j] EXCEPT !.step = "pull"]]
      BY <3>1
    <3>3. /\ [jobs[j] EXCEPT !.step = "pull"] \in SkillJob /\ [jobs[j] EXCEPT !.step = "pull"].step = "pull"
          /\ [jobs[j] EXCEPT !.step = "pull"].dir = jobs[j].dir
      BY <2>2 DEF SkillJob, SkillSteps
    <3>. QED  BY <2>2, <3>2, <3>3, SkillBegins
  <2>4. CASE ~ok
    <3>1. jobs' = Skill!Ended(j, "failed") /\ repo' = [repo EXCEPT ![jobs[j].dir] = repo[jobs[j].dir]]
      BY <1>0, <2>1, <2>2, <2>4 DEF Skill!Fetch, SkillTypes
    <3>. QED  BY <2>2, <3>1, SkillEnds DEF AtWork
  <2>. QED  BY <2>3, <2>4
<1>7. CASE \E j \in Skill!Jobs : Skill!Pull(j)
  <2>1. PICK j \in Skill!Jobs : Skill!Pull(j)
    BY <1>7
  <2>. DEFINE c == repo[jobs[j].dir]
  <2>2. /\ jobs[j].step = "pull" /\ jobs[j].dir \in Dirs /\ c \in Skill!Checkouts /\ jobs' = Skill!Ended(j, "done")
        /\ UNCHANGED <<registry, setting, page, wished, upstream, work>> /\ registry \in Skill!Places
    BY <1>0, <2>1 DEF Skill!Pull, Skill!conf, SkillTypes, AtWork
  <2>3. PICK C \in {c, Skill!Forwarded(c)} : repo' = [repo EXCEPT ![jobs[j].dir] = C]
    BY <1>0, <2>1 DEF Skill!Pull, SkillTypes
  <2>4. C \in Skill!Checkouts /\ C.at = c.at /\ C.dirty = c.dirty /\ C.mine = c.mine
    BY <1>0, <2>2, <2>3 DEF Skill!Forwarded, Skill!Checkouts, SkillTypes
  <2>. QED  BY <2>2, <2>3, <2>4, SkillEnds DEF AtWork
<1>8. CASE \E d \in Dirs, kind \in {"edit", "commit", "branch", "fill", "remove"} : Skill!Work(d, kind)
  <2>1. PICK d \in Dirs, kind \in {"edit", "commit", "branch", "fill", "remove"} : Skill!Work(d, kind)
    BY <1>8
  <2>2. UNCHANGED <<registry, setting, page, wished, upstream, jobs>> /\ repo[d].at = "repo"
    BY <2>1 DEF Skill!Work, Skill!conf
  <2>3. work' = [work EXCEPT ![d] = IF kind = "remove" THEN "none" ELSE IF kind \in {"edit", "commit"} THEN kind ELSE work[d]]
    BY <2>1 DEF Skill!Work
  <2>4. \A e \in Dirs : e # d => repo'[e] = repo[e] /\ work'[e] = work[e]
    BY <1>0, <2>1, <2>3 DEF Skill!Work, SkillTypes
  <2>5. /\ repo' \in [Dirs -> Skill!Checkouts]
        /\ kind # "remove" => repo'[d].at = "repo"
        /\ kind = "edit" => repo'[d].dirty
        /\ kind = "commit" => repo'[d].mine
        /\ kind \notin {"edit", "commit", "remove"} => repo'[d].dirty = repo[d].dirty /\ repo'[d].mine = repo[d].mine
    <3>1. repo[d] \in Skill!Checkouts
      BY <1>0 DEF SkillTypes
    <3>2. CASE kind = "remove"
      BY <1>0, <2>1, <3>2, EmptyType DEF Skill!Work, SkillTypes
    <3>3. CASE kind = "edit"
      <4>1. repo' = [repo EXCEPT ![d].dirty = TRUE]
        BY <2>1, <3>3 DEF Skill!Work
      <4>. QED  BY <1>0, <2>2, <3>1, <3>3, <4>1 DEF SkillTypes, Skill!Checkouts
    <3>4. CASE kind = "commit"
      <4>1. repo' = [repo EXCEPT ![d].dirty = FALSE, ![d].mine = TRUE]
        BY <2>1, <3>4 DEF Skill!Work
      <4>. QED  BY <1>0, <2>2, <3>1, <3>4, <4>1 DEF SkillTypes, Skill!Checkouts
    <3>5. CASE kind = "branch"
      <4>1. repo' = [repo EXCEPT ![d].own = TRUE]
        BY <2>1, <3>5 DEF Skill!Work
      <4>. QED  BY <1>0, <2>2, <3>1, <3>5, <4>1 DEF SkillTypes, Skill!Checkouts
    <3>6. CASE kind = "fill"
      <4>1. repo' = [repo EXCEPT ![d].config = "filled"]
        BY <2>1, <3>6 DEF Skill!Work
      <4>. QED  BY <1>0, <2>2, <3>1, <3>6, <4>1 DEF SkillTypes, Skill!Checkouts
    <3>. QED  BY <3>2, <3>3, <3>4, <3>5, <3>6
  <2>6. work'[d] = IF kind = "remove" THEN "none" ELSE IF kind \in {"edit", "commit"} THEN kind ELSE work[d]
    BY <1>0, <2>3 DEF SkillTypes
  <2>7. SkillTypes'
    BY <1>0, <2>2, <2>3, <2>5 DEF SkillTypes
  <2>8. OneCloner'
    <3>1. \A j \in Skill!Jobs : jobs[j].step = "clone" => jobs[j].dir \in Dirs /\ jobs[j].dir # d
      BY <1>0, <2>2 DEF OneCloner, SkillTypes, AtWork
    <3>. QED  BY <1>0, <2>2, <2>4, <3>1 DEF OneCloner
  <2>9. WorkedIn' /\ Skill!WorkKept' /\ Skill!SettingsKept'
    BY <1>0, <2>2, <2>4, <2>5, <2>6 DEF WorkedIn, Skill!WorkKept, Skill!SettingsKept
  <2>. QED  BY <2>7, <2>8, <2>9 DEF SkillInv
<1>9. CASE Skill!Crash
  <2>1. /\ jobs' = [j \in Skill!Jobs |-> Skill!NoJob] /\ UNCHANGED <<registry, setting, page, wished, upstream, work>>
        /\ repo' \in {repo, [d \in Dirs |-> IF \E j \in Skill!Jobs : jobs[j].step = "clone" /\ jobs[j].dir = d
                                            THEN Skill!Fresh ELSE repo[d]]}
    BY <1>9 DEF Skill!Crash, Skill!conf
  <2>2. Skill!Fresh \in Skill!Checkouts
    BY <1>0, SkillAssumption DEF Skill!Fresh, Skill!Empty, Skill!Checkouts, SkillTypes
  <2>3. SkillTypes' /\ OneCloner'
    BY <1>0, <2>1, <2>2, NoJobType DEF SkillTypes, OneCloner, AtWork
  <2>4. \A d \in Dirs : work[d] # "none" => repo'[d] = repo[d]
    BY <1>0, <2>1 DEF OneCloner, WorkedIn
  <2>5. WorkedIn' /\ Skill!WorkKept' /\ Skill!SettingsKept'
    BY <1>0, <2>1, <2>4 DEF WorkedIn, Skill!WorkKept, Skill!SettingsKept
  <2>. QED  BY <2>3, <2>5 DEF SkillInv
<1>10. CASE UNCHANGED Skill!vars
  BY <1>0, <1>10 DEF SkillInv, SkillTypes, OneCloner, WorkedIn, Skill!WorkKept, Skill!SettingsKept, Skill!vars, Skill!conf
<1>. QED  BY <1>1, <1>2, <1>3, <1>4, <1>5, <1>6, <1>7, <1>8, <1>9, <1>10 DEF Skill!Next

\* Only the end of a clone moves the configuration to another checkout, and it
\* seeds what it made from a filled one.
LEMMA SkillCarries ==
  ASSUME SkillInv, [Skill!Next]_Skill!vars
  PROVE  Skill!CarriesFilled
<1>. SUFFICES ASSUME NEW j \in Skill!Jobs, jobs[j].step = "clone", jobs'[j].step # "clone", registry' # registry,
                     registry \in jobs[j].seeds, Skill!Filled(registry)
              PROVE  Skill!Filled(registry)'
  BY DEF Skill!CarriesFilled
<1>0. SkillTypes
  BY DEF SkillInv
<1>1. ASSUME NEW i \in Skill!Jobs, Skill!CloneEnds(i) PROVE Skill!Filled(registry)'
  <2>1. i = j
    BY <1>0, <1>1, EndedType DEF Skill!CloneEnds
  <2>2. registry' = jobs[j].dir /\ jobs[j].dir \in Dirs
        /\ repo' = [repo EXCEPT ![jobs[j].dir] = [Skill!Fresh EXCEPT !.config = Skill!Seeded(j)]]
    BY <1>0, <1>1, <2>1 DEF Skill!CloneEnds, Skill!Registered, SkillTypes, AtWork
  <2>3. Skill!Seeded(j) = "filled"
    BY <2>2 DEF Skill!Seeded
  <2>4. [Skill!Fresh EXCEPT !.config = Skill!Seeded(j)].config = "filled"
    BY <2>3 DEF Skill!Fresh, Skill!Empty
  <2>. QED  BY <1>0, <2>2, <2>4 DEF Skill!Filled, SkillTypes
<1>2. CASE Skill!Start \/ Skill!Update \/ Skill!Release \/ Skill!OpenPage \/ Skill!Crash \/ UNCHANGED Skill!vars
           \/ \E s \in Settings : Skill!SavePage(s)
  BY <1>2 DEF Skill!Start, Skill!Update, Skill!Release, Skill!OpenPage, Skill!Crash, Skill!SavePage, Skill!conf, Skill!vars
<1>3. CASE \/ \E d \in Dirs : Skill!Install(d)
           \/ \E d \in Dirs, kind \in {"edit", "commit", "branch", "fill", "remove"} : Skill!Work(d, kind)
           \/ \E i \in Skill!Jobs : Skill!Clone(i) \/ Skill!CloneFails(i) \/ Skill!Pull(i)
           \/ \E i \in Skill!Jobs, ok \in BOOLEAN : Skill!Fetch(i, ok)
  BY <1>3 DEF Skill!Install, Skill!Work, Skill!Clone, Skill!CloneFails, Skill!Pull, Skill!Fetch, Skill!conf
<1>. QED  BY <1>1, <1>2, <1>3 DEF Skill!Next

\* What the user did in a checkout is there until he takes it away, the
\* settings he saved stay, and an installation carries a filled configuration
\* over (skills/update.ts).
THEOREM InstallAlwaysKeeps ==
  Skill!Spec => [](Skill!WorkKept /\ Skill!SettingsKept) /\ Skill!FilledCarries
<1>1. SkillInv => Skill!WorkKept /\ Skill!SettingsKept
  BY DEF SkillInv
<1>. QED  BY SkillInit, SkillNext, SkillCarries, <1>1, PTL DEF Skill!Spec, Skill!FilledCarries

\* The same of the sum of the parts, of which one runs at a time.
THEOREM CheckoutsAlwaysKept == PartsSpec => InstallKeeps
<1>. DEFINE Inv == part = "skill" => SkillInv
<1>1. Parts => Inv
  BY SkillInit DEF Parts
<1>2. ASSUME Inv, [Step]_<<part, sessionVars, repoVars, okrVars, replyVars, accountVars, noteVars, itemVars>>
      PROVE  Inv' /\ [part = "skill" => Skill!CarriesFilled]_repoVars
  <2>1. part = "skill" \/ part' = "skill" => part = "skill" /\ part' = "skill" /\ [Skill!Next]_Skill!vars
    BY <1>2 DEF Step, repoVars, Skill!vars, Skill!conf
  <2>. QED  BY <1>2, <2>1, SkillNext, SkillCarries
<1>3. Inv => (part = "skill" => Skill!WorkKept /\ Skill!SettingsKept)
  BY DEF SkillInv
<1>. QED  BY <1>1, <1>2, <1>3, PTL DEF PartsSpec, InstallKeeps

(***************************************************************************)
(* The progress in the OKR files (OkrWriteback)                            *)
(***************************************************************************)
OkrRows == [1..Files -> [Krs -> Progress!Row]]
OkrWritings ==
  [run : Nat, from : [Krs -> Progress!Row], left : SUBSET Krs, lines : SUBSET Progress!Lines, cut : BOOLEAN]

\* A confirmation under way: what it has written stands, and what it still has
\* to write is within the guardrails, unless the editor has saved meanwhile.
WritingTells ==
  /\ writing # Progress!Idle => writing.run \in 1..Len(drafts)
  /\ \A l \in writing.lines : l.to = drafts[writing.run].to[l.kr] /\ (~writing.cut => Progress!Now(l.kr) = l.to)
  /\ \A k \in writing.left :
       /\ drafts[writing.run].to[k] \in Progress!Levels
       /\ ~writing.cut =>
            /\ writing.from[k] = Progress!Now(k)
            /\ IF writing.run \in packs THEN k \in drafts[writing.run].found
               ELSE Progress!Jump(writing.from[k], drafts[writing.run].to[k]) < BigJump

ProgressInv ==
  /\ okr \in OkrRows /\ editor \in OkrRows /\ drafts \in Seq(Progress!Drafts)
  /\ writing \in OkrWritings /\ WritingTells
  /\ Progress!HistoryTellsAll

LEMMA Least ==
  ASSUME NEW S \in SUBSET Nat, S # {}
  PROVE  \E x \in S : \A y \in S : x <= y
<1>. DEFINE R == {ss \in Nat \X Nat : ss[1] < ss[2]}
<1>0. IsWellFoundedOn(R, Nat)
  BY NatLessThanWellFounded DEF OpToRel
<1>1. PICK x \in S : \A y \in S : ~(<<y, x>> \in R)
  BY <1>0, WFMin
<1>2. \A y \in S : ~(y < x)
  BY <1>1
<1>. QED  BY <1>2

\* The first file that has a key result.
FirstOf(o, k) == CHOOSE f \in Progress!Having(o, k) : \A g \in Progress!Having(o, k) : f <= g

LEMMA FirstHas ==
  ASSUME NEW o, NEW k, Progress!Having(o, k) # {}
  PROVE  /\ FirstOf(o, k) \in 1..Files /\ o[FirstOf(o, k)][k] # Missing
         /\ \A g \in Progress!Having(o, k) : FirstOf(o, k) <= g
         /\ Progress!In(o, k) = o[FirstOf(o, k)][k]
<1>1. Progress!Having(o, k) \in SUBSET Nat
  BY ProgressAssumption DEF Progress!Having
<1>2. \E f \in Progress!Having(o, k) : \A g \in Progress!Having(o, k) : f <= g
  BY <1>1, Least
<1>3. FirstOf(o, k) \in Progress!Having(o, k) /\ \A g \in Progress!Having(o, k) : FirstOf(o, k) <= g
  BY <1>2 DEF FirstOf
<1>. QED  BY <1>3 DEF Progress!Having, Progress!In, FirstOf, Missing, Progress!Missing

\* Where a row is looked for depends on the rows of its key result only.
LEMMA SameRows ==
  ASSUME NEW o, NEW p, NEW k, \A f \in 1..Files : o[f][k] = p[f][k]
  PROVE  Progress!In(o, k) = Progress!In(p, k)
<1>1. Progress!Having(o, k) = Progress!Having(p, k)
  BY DEF Progress!Having
<1>2. CASE Progress!Having(o, k) = {}
  BY <1>1, <1>2 DEF Progress!In
<1>3. CASE Progress!Having(o, k) # {}
  BY <1>1, <1>3, FirstHas DEF FirstOf
<1>. QED  BY <1>2, <1>3

LEMMA InTyped ==
  ASSUME NEW o \in OkrRows, NEW k \in Krs
  PROVE  Progress!In(o, k) \in Progress!Row
<1>1. CASE Progress!Having(o, k) = {}
  BY <1>1 DEF Progress!In, Progress!Row
<1>2. CASE Progress!Having(o, k) # {}
  <2>1. FirstOf(o, k) \in 1..Files /\ Progress!In(o, k) = o[FirstOf(o, k)][k]
    BY <1>2, FirstHas
  <2>. QED  BY <2>1 DEF OkrRows
<1>. QED  BY <1>1, <1>2

LEMMA IdleHas ==
  /\ Progress!Idle \in OkrWritings /\ Progress!Idle.left = {} /\ Progress!Idle.lines = {}
  /\ ~Progress!Idle.cut
BY ProgressAssumption DEF Progress!Idle, OkrWritings, Progress!Row, Progress!Missing

LEMMA ProgressInit == Progress!Init => ProgressInv
<1>. SUFFICES ASSUME Progress!Init PROVE ProgressInv
  OBVIOUS
<1>1. okr \in OkrRows /\ 1 \in 1..Files /\ \A k \in Krs : okr[1][k] = 0
  <2>1. 1 \in 1..Files /\ 0 \in Progress!Row /\ Progress!Missing \in Progress!Row
    BY ProgressAssumption DEF Progress!Row, Progress!Levels
  <2>2. Progress!Blank \in [Krs -> Progress!Row] /\ [k \in Krs |-> 0] \in [Krs -> Progress!Row]
    BY <2>1 DEF Progress!Blank
  <2>3. \/ okr = [f \in 1..Files |-> IF f = 1 THEN [k \in Krs |-> 0] ELSE Progress!Blank]
        \/ okr = [f \in 1..Files |-> [k \in Krs |-> 0]]
    BY DEF Progress!Init
  <2>4. okr[1] = [k \in Krs |-> 0]
    BY <2>1, <2>3
  <2>. QED  BY <2>1, <2>2, <2>3, <2>4 DEF OkrRows
<1>2. ASSUME NEW k \in Krs PROVE Progress!In(okr, k) = 0
  <2>1. 1 \in Progress!Having(okr, k)
    BY <1>1 DEF Progress!Having, Progress!Missing
  <2>2. FirstOf(okr, k) = 1 /\ Progress!In(okr, k) = okr[FirstOf(okr, k)][k]
    BY <2>1, FirstHas, ProgressAssumption
  <2>. QED  BY <1>1, <2>2
<1>3. Progress!HistoryTellsAll
  BY <1>2 DEF Progress!HistoryTellsAll, Progress!Now, Progress!Init
<1>4. drafts = <<>> /\ writing = Progress!Idle /\ editor = okr
  BY DEF Progress!Init
<1>5. writing \in OkrWritings /\ WritingTells
  BY <1>4, IdleHas DEF WritingTells
<1>. QED  BY <1>1, <1>3, <1>4, <1>5 DEF ProgressInv

\* A step that writes nothing down keeps what is promised.
LEMMA QuietProgress ==
  ASSUME ProgressInv, UNCHANGED <<okr, saved, loose, writing>>, editor' \in OkrRows,
         \/ UNCHANGED <<drafts, packs>>
         \/ Progress!Free /\ drafts' \in Seq(Progress!Drafts)
  PROVE  ProgressInv' /\ Progress!ProvesJumps
<1>1. Progress!ProvesJumps
  BY DEF Progress!ProvesJumps
<1>2. Progress!HistoryTellsAll'
  BY DEF ProgressInv, Progress!HistoryTellsAll, Progress!Done, Progress!Now
<1>3. WritingTells'
  <2>1. CASE UNCHANGED <<drafts, packs>>
    BY <2>1 DEF ProgressInv, WritingTells, Progress!Now, Progress!Idle
  <2>2. CASE Progress!Free
    <3>1. writing' = Progress!Idle /\ writing'.left = {} /\ writing'.lines = {} /\ Progress!Idle' = Progress!Idle
      BY <2>2, IdleHas DEF Progress!Free, Progress!Idle
    <3>. QED  BY <3>1 DEF WritingTells
  <2>. QED  BY <2>1, <2>2
<1>4. okr' \in OkrRows /\ writing' \in OkrWritings /\ drafts' \in Seq(Progress!Drafts)
  BY DEF ProgressInv
<1>. QED  BY <1>1, <1>2, <1>3, <1>4 DEF ProgressInv

\* A confirmation begins from the files as they are.
LEMMA BeginTells ==
  ASSUME ProgressInv, NEW r \in 1..Len(drafts), NEW was, Progress!Begin(r, was)
  PROVE  ProgressInv' /\ Progress!ProvesJumps
<1>. DEFINE D == drafts[r]
            A == Progress!Accepted(r)
            F == [k \in Krs |-> Progress!Now(k)]
<1>0. /\ okr \in OkrRows /\ D \in Progress!Drafts /\ r \in Nat /\ drafts \in Seq(Progress!Drafts)
      /\ UNCHANGED <<okr, editor, drafts, packs, saved, loose>> /\ writing = Progress!Idle
  <2>1. Progress!Free /\ UNCHANGED <<okr, editor, drafts, packs, saved, loose>>
    BY Zenon DEF Progress!Begin
  <2>2. writing = Progress!Idle
    BY <2>1, Zenon DEF Progress!Free
  <2>3. okr \in OkrRows /\ drafts \in Seq(Progress!Drafts)
    BY DEF ProgressInv
  <2>4. D \in Progress!Drafts /\ r \in Nat
    BY <2>3
  <2>. QED  BY <2>1, <2>2, <2>3, <2>4, Zenon
<1>1. writing' = [run |-> r, from |-> F, left |-> A, lines |-> {}, cut |-> FALSE]
  BY DEF Progress!Begin, Progress!Idle
<1>2. \A k \in A : /\ k \in Krs /\ D.to[k] \in Progress!Levels
                   /\ IF r \in packs THEN k \in D.found ELSE Progress!Jump(Progress!Now(k), D.to[k]) < BigJump
  BY DEF Progress!Accepted, Progress!Matched
<1>3. F \in [Krs -> Progress!Row] /\ \A k \in A : F[k] = Progress!Now(k)
  <2>1. \A k \in Krs : Progress!Now(k) \in Progress!Row
    BY <1>0, InTyped DEF Progress!Now
  <2>. QED  BY <1>2, <2>1
<1>4. A \subseteq Krs
  BY <1>2
<1>. HIDE DEF A, F
<1>5. writing' \in OkrWritings /\ writing'.lines = {} /\ writing'.run = r /\ writing'.left = A /\ writing'.from = F
  BY <1>0, <1>1, <1>3, <1>4 DEF OkrWritings
<1>6. WritingTells'
  <2>1. \A k \in A : Progress!Now(k)' = Progress!Now(k)
    BY <1>0 DEF Progress!Now
  <2>. QED  BY <1>0, <1>2, <1>3, <1>5, <2>1 DEF WritingTells
<1>7. Progress!HistoryTellsAll'
  <2>1. Progress!Done = {} /\ Progress!Done' = {}
    BY <1>0, <1>5, IdleHas DEF Progress!Done
  <2>. QED  BY <1>0, <2>1 DEF ProgressInv, Progress!HistoryTellsAll, Progress!Now
<1>8. Progress!ProvesJumps
  BY <1>5 DEF Progress!ProvesJumps
<1>. QED  BY <1>0, <1>5, <1>6, <1>7, <1>8 DEF ProgressInv

\* A row that is written says what its line will say, the others what they said.
LEMMA RowTells ==
  ASSUME ProgressInv, NEW k \in Krs, Progress!WriteRow(k)
  PROVE  ProgressInv' /\ Progress!ProvesJumps
<1>. DEFINE r == writing.run
            D == drafts[r]
            L == Progress!Line(k)
<1>0. /\ okr \in OkrRows /\ writing \in OkrWritings /\ drafts \in Seq(Progress!Drafts) /\ k \in writing.left
      /\ Progress!Having(okr, k) # {} /\ UNCHANGED <<editor, drafts, packs, saved, loose>>
      /\ WritingTells
  BY DEF ProgressInv, Progress!WriteRow
<1>1. /\ okr' = [okr EXCEPT ![Progress!FileOf(k)] = [@ EXCEPT ![k] = D.to[k]]]
      /\ writing' = [writing EXCEPT !.left = @ \ {k}, !.lines = @ \union {L}]
  BY DEF Progress!WriteRow
<1>2. writing # Progress!Idle /\ r \in 1..Len(drafts) /\ D.to[k] \in Progress!Levels
  BY <1>0, IdleHas DEF WritingTells
<1>3. L \in Progress!Lines /\ L.kr = k /\ L.from = writing.from[k] /\ L.to = D.to[k]
  BY <1>0, <1>2 DEF Progress!Line, Progress!Lines, OkrWritings
<1>. HIDE DEF L
<1>4. /\ writing' \in OkrWritings /\ writing'.run = r /\ writing'.from = writing.from /\ writing'.cut = writing.cut
      /\ writing'.left = writing.left \ {k} /\ writing'.lines = writing.lines \union {L}
  <2>1. writing' = [run |-> r, from |-> writing.from, left |-> writing.left \ {k},
                    lines |-> writing.lines \union {L}, cut |-> writing.cut]
    BY <1>0, <1>1 DEF OkrWritings
  <2>. QED  BY <1>0, <1>3, <2>1 DEF OkrWritings
<1>5. Progress!FileOf(k) = FirstOf(okr, k) /\ FirstOf(okr, k) \in 1..Files
  BY <1>0, FirstHas DEF Progress!FileOf, FirstOf
<1>6. \A f \in 1..Files, i \in Krs : okr'[f][i] = IF f = FirstOf(okr, k) /\ i = k THEN D.to[k] ELSE okr[f][i]
  BY <1>0, <1>1, <1>5 DEF OkrRows
<1>7. okr' \in OkrRows
  <2>1. D.to[k] \in Progress!Row
    BY <1>2 DEF Progress!Row
  <2>. QED  BY <1>0, <1>1, <2>1 DEF OkrRows
<1>8. Progress!In(okr', k) = D.to[k]
  <2>1. D.to[k] # Progress!Missing /\ FirstOf(okr, k) \in Progress!Having(okr, k)
    BY <1>0, <1>2, FirstHas, ProgressAssumption DEF Progress!Levels, Progress!Missing, Progress!Having, Missing
  <2>2. Progress!Having(okr', k) = Progress!Having(okr, k)
    BY <1>6, <2>1 DEF Progress!Having
  <2>3. FirstOf(okr', k) = FirstOf(okr, k)
    BY <2>2 DEF FirstOf
  <2>. QED  BY <1>0, <1>5, <1>6, <2>2, <2>3, FirstHas
<1>9. ASSUME NEW i \in Krs, i # k PROVE Progress!In(okr', i) = Progress!In(okr, i)
  <2>1. \A f \in 1..Files : okr'[f][i] = okr[f][i]
    BY <1>6, <1>9
  <2>. QED  BY <2>1, SameRows
<1>10. WritingTells'
  <2>1. \A l \in writing'.lines : l.to = D.to[l.kr] /\ (~writing.cut => Progress!In(okr', l.kr) = l.to)
    <3>. TAKE l \in writing'.lines
    <3>1. CASE l.kr = k
      BY <1>0, <1>3, <1>4, <1>8, <3>1 DEF WritingTells
    <3>2. CASE l.kr # k
      <4>1. l \in writing.lines /\ l.kr \in Krs
        BY <1>0, <1>3, <1>4, <3>2 DEF OkrWritings, Progress!Lines
      <4>. QED  BY <1>0, <1>9, <3>2, <4>1 DEF WritingTells, Progress!Now
    <3>. QED  BY <3>1, <3>2
  <2>2. \A i \in writing'.left : i \in writing.left /\ i \in Krs /\ Progress!In(okr', i) = Progress!In(okr, i)
    BY <1>0, <1>4, <1>9 DEF OkrWritings
  <2>3. \A i \in writing'.left : Progress!Now(i)' = Progress!Now(i)
    BY <2>2 DEF Progress!Now
  <2>4. \A l \in writing'.lines : Progress!Now(l.kr)' = Progress!In(okr', l.kr)
    BY DEF Progress!Now
  <2>. QED  BY <1>0, <1>2, <1>4, <2>1, <2>2, <2>3, <2>4 DEF WritingTells
<1>11. Progress!HistoryTellsAll'
  <2>1. Progress!Done' = Progress!Done \union {k}
    BY <1>3, <1>4 DEF Progress!Done
  <2>2. \A i \in Krs \ (Progress!Done \union loose) : Progress!In(okr, i) = saved[i]
    BY DEF ProgressInv, Progress!HistoryTellsAll, Progress!Now
  <2>3. \A i \in Krs \ (Progress!Done' \union loose) : Progress!In(okr', i) = saved[i]
    BY <1>9, <2>1, <2>2
  <2>. QED  BY <1>0, <2>3 DEF Progress!HistoryTellsAll, Progress!Now
<1>12. Progress!ProvesJumps
  <2>1. \A l \in writing'.lines \ writing.lines : l = L
    BY <1>4
  <2>2. ~writing.cut => L.from = Progress!Now(k)
    BY <1>0, <1>3 DEF WritingTells
  <2>3. ASSUME ~writing.cut, Progress!Jump(L.from, L.to) >= BigJump PROVE r \in packs /\ k \in D.found
    <3>1. D.to[k] \in Int /\ L.to = D.to[k]
      BY <1>2, <1>3, ProgressAssumption DEF Progress!Levels
    <3>2. writing.from[k] \in Int /\ L.from = writing.from[k]
      BY <1>0, <1>3, ProgressAssumption DEF OkrWritings, Progress!Row, Progress!Levels, Progress!Missing
    <3>3. Progress!Jump(writing.from[k], D.to[k]) \in Int
      BY <3>1, <3>2 DEF Progress!Jump
    <3>4. ~(Progress!Jump(writing.from[k], D.to[k]) < BigJump)
      BY <2>3, <3>1, <3>2, <3>3, ProgressAssumption
    <3>. QED  BY <1>0, <2>3, <3>4 DEF WritingTells
  <2>. QED  BY <1>3, <1>8, <2>1, <2>2, <2>3 DEF Progress!ProvesJumps
<1>. QED  BY <1>0, <1>4, <1>7, <1>10, <1>11, <1>12 DEF ProgressInv

LEMMA RowFailsTells ==
  ASSUME ProgressInv, NEW k \in Krs, Progress!RowFails(k)
  PROVE  ProgressInv' /\ Progress!ProvesJumps
<1>0. /\ writing \in OkrWritings /\ k \in writing.left /\ WritingTells
      /\ UNCHANGED <<okr, editor, drafts, packs, saved, loose>>
      /\ writing' = [writing EXCEPT !.left = @ \ {k}]
  BY DEF ProgressInv, Progress!RowFails
<1>1. /\ writing' \in OkrWritings /\ writing'.run = writing.run /\ writing'.from = writing.from
      /\ writing'.cut = writing.cut /\ writing'.left = writing.left \ {k} /\ writing'.lines = writing.lines
  BY <1>0 DEF OkrWritings
<1>2. writing # Progress!Idle
  BY <1>0, IdleHas
<1>3. WritingTells'
  BY <1>0, <1>1, <1>2 DEF WritingTells, Progress!Now
<1>4. Progress!HistoryTellsAll' /\ Progress!ProvesJumps
  BY <1>0, <1>1 DEF ProgressInv, Progress!HistoryTellsAll, Progress!Done, Progress!Now, Progress!ProvesJumps
<1>. QED  BY <1>0, <1>1, <1>3, <1>4 DEF ProgressInv

\* The lines of what was written, or none of them.
LEMMA LinesTell ==
  ASSUME ProgressInv, Progress!AppendHistory \/ Progress!BreaksOff
  PROVE  ProgressInv' /\ Progress!ProvesJumps
<1>0. /\ writing \in OkrWritings /\ WritingTells /\ writing' = Progress!Idle
      /\ UNCHANGED <<okr, editor, drafts, packs>>
  BY DEF ProgressInv, Progress!AppendHistory, Progress!BreaksOff
<1>1. writing'.left = {} /\ writing'.lines = {} /\ Progress!Idle' = Progress!Idle /\ Progress!Done' = {}
  BY <1>0, IdleHas DEF Progress!Idle, Progress!Done
<1>2. WritingTells' /\ Progress!ProvesJumps
  BY <1>0, <1>1 DEF WritingTells, Progress!ProvesJumps
<1>3. \A i \in Krs \ (Progress!Done \union loose) : Progress!Now(i) = saved[i]
  BY DEF ProgressInv, Progress!HistoryTellsAll
<1>4. \A i \in Krs \ loose' : Progress!Now(i) = saved'[i]
  <2>1. CASE Progress!BreaksOff
    BY <1>3, <2>1 DEF Progress!BreaksOff
  <2>2. CASE Progress!AppendHistory
    <3>. TAKE i \in Krs \ loose'
    <3>1. saved'[i] = IF i \in Progress!Done THEN drafts[writing.run].to[i] ELSE saved[i]
      BY <2>2 DEF Progress!AppendHistory, Progress!Recorded, Progress!Done
    <3>2. CASE i \in Progress!Done
      <4>1. ~writing.cut
        BY <2>2, <3>2 DEF Progress!AppendHistory
      <4>2. PICK l \in writing.lines : l.kr = i
        BY <3>2 DEF Progress!Done
      <4>. QED  BY <1>0, <3>1, <3>2, <4>1, <4>2 DEF WritingTells
    <3>3. CASE i \notin Progress!Done
      <4>1. i \notin loose
        BY <2>2, <3>3 DEF Progress!AppendHistory
      <4>. QED  BY <1>3, <3>1, <3>3, <4>1
    <3>. QED  BY <3>2, <3>3
  <2>. QED  BY <2>1, <2>2
<1>5. Progress!HistoryTellsAll'
  BY <1>0, <1>1, <1>4 DEF Progress!HistoryTellsAll, Progress!Now
<1>. QED  BY <1>0, <1>2, <1>5, IdleHas DEF ProgressInv

\* The editor gives every row it changes the user's word.
LEMMA SaveTells ==
  ASSUME ProgressInv, NEW f \in 1..Files, NEW k \in Krs, NEW v \in Progress!Row, Progress!SaveFile(f, k, v)
  PROVE  ProgressInv' /\ Progress!ProvesJumps
<1>. DEFINE changed == {i \in Krs : Progress!In(okr', i) # Progress!In(okr, i)}
<1>0. /\ okr \in OkrRows /\ editor \in OkrRows /\ writing \in OkrWritings /\ WritingTells
      /\ editor' = [editor EXCEPT ![f][k] = v] /\ okr' = [okr EXCEPT ![f] = editor'[f]]
      /\ saved' = [i \in Krs |-> IF i \in changed THEN Progress!In(okr', i) ELSE saved[i]]
      /\ loose' = loose \ changed
      /\ writing' = IF Progress!Free THEN writing ELSE [writing EXCEPT !.cut = TRUE]
      /\ UNCHANGED <<drafts, packs>>
  BY DEF ProgressInv, Progress!SaveFile
<1>1. editor' \in OkrRows
  BY <1>0 DEF OkrRows
<1>2. okr' \in OkrRows
  BY <1>0, <1>1 DEF OkrRows
<1>3. /\ writing' \in OkrWritings /\ writing'.run = writing.run /\ writing'.left = writing.left
      /\ writing'.lines = writing.lines /\ (writing = Progress!Idle \/ writing'.cut)
  BY <1>0 DEF OkrWritings, Progress!Free
<1>4. WritingTells'
  <2>1. CASE writing = Progress!Idle
    <3>1. writing' = Progress!Idle /\ Progress!Idle' = Progress!Idle /\ writing'.left = {} /\ writing'.lines = {}
      BY <1>0, <2>1, IdleHas DEF Progress!Free, Progress!Idle
    <3>. QED  BY <3>1 DEF WritingTells
  <2>2. CASE writing # Progress!Idle /\ writing'.cut
    BY <1>0, <1>3, <2>2 DEF WritingTells
  <2>. QED  BY <1>3, <2>1, <2>2
<1>5. Progress!Done' = Progress!Done
  BY <1>3 DEF Progress!Done
<1>6. \A i \in Krs \ (Progress!Done \union loose) : Progress!In(okr, i) = saved[i]
  BY DEF ProgressInv, Progress!HistoryTellsAll, Progress!Now
<1>7. ASSUME NEW i \in Krs \ (Progress!Done \union loose') PROVE Progress!In(okr', i) = saved'[i]
  <2>1. CASE i \in changed
    BY <1>0, <2>1
  <2>2. CASE i \notin changed
    <3>1. Progress!In(okr', i) = Progress!In(okr, i) /\ saved'[i] = saved[i] /\ i \notin loose
      BY <1>0, <2>2
    <3>. QED  BY <1>6, <3>1
  <2>. QED  BY <2>1, <2>2
<1>8. Progress!HistoryTellsAll'
  BY <1>5, <1>7 DEF Progress!HistoryTellsAll, Progress!Now
<1>9. Progress!ProvesJumps
  BY <1>3 DEF Progress!ProvesJumps
<1>10. drafts' \in Seq(Progress!Drafts)
  BY <1>0 DEF ProgressInv
<1>. QED  BY <1>1, <1>2, <1>3, <1>4, <1>8, <1>9, <1>10 DEF ProgressInv

LEMMA ProgressNext ==
  ASSUME ProgressInv, [Progress!Next]_Progress!vars
  PROVE  ProgressInv' /\ Progress!ProvesJumps
<1>0. okr \in OkrRows /\ editor \in OkrRows /\ drafts \in Seq(Progress!Drafts)
  BY DEF ProgressInv
<1>1. CASE \E d \in Proposals : Progress!RunEnds(d)
  <2>1. PICK d \in Proposals : Progress!RunEnds(d)
    BY <1>1
  <2>2. /\ UNCHANGED <<okr, saved, loose, writing, editor>> /\ Progress!Free
        /\ drafts' = Append(drafts, d) /\ d \in Progress!Drafts
    BY <2>1, ProgressAssumption DEF Progress!RunEnds
  <2>3. editor' \in OkrRows /\ drafts' \in Seq(Progress!Drafts)
    BY <1>0, <2>2
  <2>. QED  BY <2>2, <2>3, QuietProgress
<1>2. CASE UNCHANGED Progress!vars \/ Progress!Tell \/ Progress!OpenEditor \/ \E r \in 1..MaxRuns : Progress!SendCard(r) \/ Progress!PackLost(r)
  <2>1. /\ UNCHANGED <<okr, drafts, saved, loose, writing>> /\ editor' \in {editor, okr}
        /\ UNCHANGED packs \/ Progress!Free
    BY <1>2 DEF Progress!vars, Progress!Tell, Progress!OpenEditor, Progress!SendCard, Progress!PackLost
  <2>. QED  BY <1>0, <2>1, QuietProgress
<1>3. CASE (\E r \in 1..MaxRuns : Progress!Press(r)) \/ Progress!ConfirmByText
  <2>1. \E r \in 1..Len(drafts), was \in {card[i] : i \in 1..MaxRuns} \union {shown} : Progress!Begin(r, was)
    BY <1>0, <1>3 DEF Progress!Press, Progress!ConfirmByText, Progress!Stored, Progress!Latest
  <2>. QED  BY <2>1, BeginTells
<1>4. CASE \E k \in Krs : Progress!WriteRow(k) \/ Progress!RowFails(k)
  BY <1>4, RowTells, RowFailsTells
<1>5. CASE Progress!AppendHistory \/ Progress!BreaksOff
  BY <1>5, LinesTell
<1>6. CASE \E f \in 1..Files, k \in Krs, v \in Progress!Row : Progress!SaveFile(f, k, v)
  BY <1>6, SaveTells
<1>. QED  BY <1>1, <1>2, <1>3, <1>4, <1>5, <1>6 DEF Progress!Next

\* The files say what the user saved or the history recorded last, but for rows
\* whose line is still to come, was lost or came after an edit, and a row that is
\* written gets what its line says, with evidence for a big jump, through crashes
\* between the rows and before their lines (okr/biweekly-progress.ts,
\* okr/writeback-guardrails.ts).
THEOREM HistoryAlwaysTells ==
  Progress!Spec => []Progress!HistoryTellsAll /\ Progress!NoUnprovenJump
<1>1. ProgressInv => Progress!HistoryTellsAll
  BY DEF ProgressInv
<1>. QED  BY ProgressInit, ProgressNext, <1>1, PTL DEF Progress!Spec, Progress!NoUnprovenJump

\* The same of the sum of the parts, of which one runs at a time.
THEOREM ProgressAlwaysHonest == PartsSpec => ProgressHonest
<1>. DEFINE Inv == part = "okr" => ProgressInv
<1>1. Parts => Inv
  BY ProgressInit DEF Parts
<1>2. ASSUME Inv, [Step]_<<part, sessionVars, repoVars, okrVars, replyVars, accountVars, noteVars, itemVars>>
      PROVE  Inv' /\ [part = "okr" => Progress!ProvesJumps]_okrVars
  <2>1. part = "okr" \/ part' = "okr" => part = "okr" /\ part' = "okr" /\ [Progress!Next]_Progress!vars
    BY <1>2 DEF Step, okrVars, Progress!vars
  <2>. QED  BY <1>2, <2>1, ProgressNext
<1>3. Inv => (part = "okr" => Progress!HistoryTellsAll)
  BY DEF ProgressInv
<1>. QED  BY <1>1, <1>2, <1>3, PTL DEF PartsSpec, ProgressHonest

(***************************************************************************)
(* The answers of the user (Replies)                                       *)
(***************************************************************************)
\* A list that only grew.
Lengthened(s, t) == DOMAIN s \subseteq DOMAIN t /\ \A i \in DOMAIN s : t[i] = s[i]
Given == {"accepted", "dismissed"}
Revising == {"revised", "polled"}

AnswerTypes ==
  /\ pending \subseteq [n : Nat, id : Suggestions] /\ \A e, f \in pending : e.id = f.id => e = f
  /\ gen \in [number : Nat, silent : SUBSET Nat] /\ \A i \in gen.silent : i <= gen.number
  /\ \E S : told \in Seq(S)
  /\ \E S : cards \in Seq(S)
  /\ \E S : mail \in Seq(S)
  /\ queue \in Seq(Nat) /\ \A i \in DOMAIN queue : queue[i] \in DOMAIN mail
  /\ poll.todo \subseteq DOMAIN mail
  /\ Answers!Ids(candidates) \subseteq Options /\ ledger \in [Options -> {0, 1}]
  /\ IsFiniteSet(record) /\ DOMAIN run = Ticks

\* What is answered by number was told, and stands where the file that waits has it.
MailMeans ==
  \A m \in DOMAIN mail : mail[m].kind \in {"accept", "dismiss"} =>
    mail[m].saw \in DOMAIN told /\ mail[m].n \in DOMAIN told[mail[m].saw].list
ToldAs ==
  \A k \in DOMAIN told :
    /\ told[k].gen \in Nat /\ told[k].gen <= gen.number
    /\ told[k].gen = gen.number => \A e \in pending : e.n \in DOMAIN told[k].list => told[k].list[e.n] = e.id

\* The message under way tells of the file as it was written for it; a set that is taken for the
\* one told last was told, and so is what a file holds that no message goes out for.
Spoken(i) == \E k \in DOMAIN told : i \in told[k].all
Announced(S) == S = {} \/ \E k \in DOMAIN told : S \subseteq told[k].all
RunTells(r) ==
  /\ Announced(r.old)
  /\ r.step = "sending" =>
       /\ r.gen \in Nat /\ r.gen <= gen.number
       /\ r.gen = gen.number => pending \subseteq Answers!Kept(r.list)
RunsMean ==
  /\ Announced(signature)
  /\ \A t \in Ticks : RunTells(run[t])
  /\ gen.number \in gen.silent => \A e \in pending : Spoken(e.id)

\* An answer takes its suggestion from the file; a revision is in the log, and what was
\* recorded later has a higher number.
MeansTold(d) ==
  /\ mail[d.by].kind \in {"accept", "dismiss"} =>
       /\ d.saw = mail[d.by].saw
       /\ told[d.saw].list[mail[d.by].n] = d.id \/ d.gen > told[d.saw].gen
  /\ d.gen \in gen.silent => Spoken(d.id)
RecordMeans ==
  \A d \in record :
    /\ d.what \in Given =>
         /\ d.by \in DOMAIN mail /\ d.gen \in Nat /\ d.gen <= gen.number /\ MeansTold(d)
         /\ d.gen = gen.number => \A e \in pending : e.id # d.id
    /\ d.what = "press" => d.saw \in DOMAIN cards /\ d.id \in Answers!Ids(cards[d.saw])
    /\ d.what \in Revising => d.by \in logged /\ d.id \in Nat /\ d.id < Cardinality(record)
OnceOnly ==
  /\ \A d, e \in record : d.what \in Given /\ e.what \in Given /\ d.gen = e.gen /\ d.id = e.id => d = e
  /\ \A d, e \in record : d.what \in Revising /\ e.what = "polled" /\ d.by = e.by => d.id >= e.id

AnswersInv == AnswerTypes /\ MailMeans /\ ToldAs /\ RunsMean /\ RecordMeans /\ OnceOnly

LEMMA AnswersInit == Answers!Init => AnswersInv
<1>. SUFFICES ASSUME Answers!Init PROVE AnswersInv
  OBVIOUS
<1>1. /\ pending = {} /\ gen = [number |-> 0, silent |-> {}] /\ told = <<>> /\ cards = <<>> /\ mail = <<>> /\ queue = <<>>
      /\ poll = Answers!NoPoll /\ record = {} /\ candidates \in Answers!Orders(Options) /\ ledger = [c \in Options |-> 0]
  BY DEF Answers!Init
<1>2. Answers!Ids(candidates) \subseteq Options
  BY <1>1 DEF Answers!Orders, Answers!Ids
<1>3. <<>> \in Seq({}) /\ <<>> \in Seq(Nat)
  OBVIOUS
<1>4. IsFiniteSet({})
  BY FS_EmptySet
<1>5. poll.todo = {}
  BY <1>1 DEF Answers!NoPoll
<1>6. AnswerTypes
  <2>1. DOMAIN run = Ticks
    BY DEF Answers!Init
  <2>. QED  BY <1>1, <1>2, <1>3, <1>4, <1>5, <2>1 DEF AnswerTypes
<1>7. RunsMean
  <2>1. signature = {} /\ \A t \in Ticks : run[t].old = {} /\ run[t].step = "idle"
    BY DEF Answers!Init, Answers!NoRun
  <2>. QED  BY <1>1, <2>1 DEF RunsMean, RunTells, Announced
<1>. QED  BY <1>1, <1>6, <1>7 DEF AnswersInv, MailMeans, ToldAs, RecordMeans, OnceOnly

LEMMA GrowsBy ==
  ASSUME NEW s, \E S : s \in Seq(S), NEW x
  PROVE  /\ Lengthened(s, Append(s, x)) /\ \E S : Append(s, x) \in Seq(S)
         /\ Len(s) \in Nat /\ DOMAIN s = 1..Len(s) /\ DOMAIN Append(s, x) = 1..(Len(s) + 1) /\ Append(s, x)[Len(s) + 1] = x
<1>1. PICK S : s \in Seq(S)
  OBVIOUS
<1>2. s \in Seq(S \union {x})
  BY <1>1
<1>3. Append(s, x) \in Seq(S \union {x})
  BY <1>2
<1>4. \E T : Append(s, x) \in Seq(T)
  BY <1>3
<1>. QED  BY <1>2, <1>4 DEF Lengthened

\* A step that records nothing leaves what was recorded as it was.
LEMMA NothingRecorded ==
  ASSUME AnswersInv, record' = record, Lengthened(told, told'), Lengthened(cards, cards'), Lengthened(mail, mail'), logged' = logged,
         \/ gen' = gen /\ pending' \subseteq pending
         \/ gen'.number = gen.number + 1 /\ gen'.silent \subseteq gen.silent \union {gen.number + 1}
  PROVE  RecordMeans' /\ OnceOnly'
<1>1. gen.number \in Nat
  BY DEF AnswersInv, AnswerTypes
<1>2. ASSUME NEW d \in record, d.what \in Given
      PROVE  /\ d.by \in DOMAIN mail' /\ d.gen \in Nat /\ d.gen <= gen'.number /\ MeansTold(d)'
             /\ d.gen = gen'.number => \A e \in pending' : e.id # d.id
  <2>1. d.by \in DOMAIN mail /\ d.gen \in Nat /\ d.gen <= gen.number /\ MeansTold(d)
    BY <1>2 DEF AnswersInv, RecordMeans
  <2>2. mail'[d.by] = mail[d.by] /\ d.by \in DOMAIN mail'
    BY <2>1 DEF Lengthened
  <2>3. MeansTold(d)'
    <3>1. ASSUME mail'[d.by].kind \in {"accept", "dismiss"}
          PROVE  d.saw = mail'[d.by].saw /\ (told'[d.saw].list[mail'[d.by].n] = d.id \/ d.gen > told'[d.saw].gen)
      BY <2>1, <2>2, <3>1 DEF MeansTold, AnswersInv, MailMeans, Lengthened
    <3>2. ASSUME d.gen \in gen'.silent PROVE \E k \in DOMAIN told' : d.id \in told'[k].all
      <4>1. d.gen \in gen.silent
        BY <1>1, <2>1, <3>2
      <4>. QED  BY <2>1, <4>1 DEF MeansTold, Spoken, Lengthened
    <3>. QED  BY <3>1, <3>2 DEF MeansTold, Spoken
  <2>4. d.gen = gen.number => \A e \in pending : e.id # d.id
    BY <1>2 DEF AnswersInv, RecordMeans
  <2>. QED  BY <1>1, <2>1, <2>2, <2>3, <2>4
<1>3. ASSUME NEW d \in record, d.what = "press" PROVE d.saw \in DOMAIN cards' /\ d.id \in Answers!Ids(cards'[d.saw])
  BY <1>3 DEF AnswersInv, RecordMeans, Lengthened
<1>4. RecordMeans'
  BY <1>2, <1>3 DEF AnswersInv, RecordMeans
<1>. QED  BY <1>4 DEF AnswersInv, OnceOnly

LEMMA MailStays ==
  ASSUME AnswersInv, Lengthened(told, told'), mail' = mail
  PROVE  MailMeans'
BY DEF AnswersInv, MailMeans, Lengthened

LEMMA SameLength == \A s : Lengthened(s, s)
BY DEF Lengthened

\* What is answered or forgotten leaves what the runs know of the messages.
LEMMA RunsStay ==
  ASSUME AnswersInv, UNCHANGED <<gen, told, run, signature>>, pending' \subseteq pending
  PROVE  RunsMean'
BY DEF AnswersInv, RunsMean, RunTells, Announced, Spoken

\* A run ends: its message is told, or not.
LEMMA TellKeeps ==
  ASSUME AnswersInv, UNCHANGED <<pending, gen, cards, mail, queue, poll, candidates, ledger, record, logged>>,
         NEW t \in Ticks, NEW sig, Answers!RunEnds(t, sig),
         \/ UNCHANGED told /\ sig = run[t].old
         \/ run[t].step = "sending" /\ Answers!Told(t) /\ sig \in {run[t].old, Answers!Ids(run[t].list)}
  PROVE  AnswersInv'
<1>1. /\ signature' = sig /\ DOMAIN run' = Ticks
      /\ \A u \in Ticks : run'[u] = run[u] \/ run'[u] = Answers!NoRun
  BY DEF Answers!RunEnds, AnswersInv, AnswerTypes
<1>2. Lengthened(told, told') /\ \E S : told' \in Seq(S)
  <2>1. \E S : told \in Seq(S)
    BY DEF AnswersInv, AnswerTypes
  <2>2. CASE UNCHANGED told
    BY <2>1, <2>2, SameLength
  <2>3. CASE Answers!Told(t)
    BY <2>1, <2>3, GrowsBy DEF Answers!Told
  <2>. QED  BY <2>2, <2>3
<1>3. ASSUME NEW S, Announced(S) PROVE Announced(S)'
  BY <1>2, <1>3 DEF Announced, Lengthened
<1>4. AnswerTypes'
  BY <1>1, <1>2 DEF AnswersInv, AnswerTypes
<1>5. ToldAs' /\ Announced(signature)'
  <2>1. CASE UNCHANGED told /\ sig = run[t].old
    BY <1>1, <2>1 DEF AnswersInv, ToldAs, RunsMean, RunTells, Announced
  <2>2. CASE run[t].step = "sending" /\ Answers!Told(t) /\ sig \in {run[t].old, Answers!Ids(run[t].list)}
    <3>. DEFINE x == [list |-> Answers!First(run[t].list, MaxTold), all |-> Answers!Ids(run[t].list), gen |-> run[t].gen]
    <3>1. told' = Append(told, x)
      BY <2>2 DEF Answers!Told
    <3>2. x.list = Answers!First(run[t].list, MaxTold) /\ x.all = Answers!Ids(run[t].list) /\ x.gen = run[t].gen
      OBVIOUS
    <3>. HIDE DEF x
    <3>3. /\ DOMAIN told = 1..Len(told) /\ Len(told) \in Nat /\ DOMAIN told' = 1..(Len(told) + 1)
          /\ told'[Len(told) + 1] = x /\ \A k \in DOMAIN told : told'[k] = told[k]
      BY <3>1, GrowsBy DEF AnswersInv, AnswerTypes, Lengthened
    <3>4. /\ x.gen \in Nat /\ x.gen <= gen.number
          /\ x.gen = gen.number => pending \subseteq Answers!Kept(run[t].list)
      BY <2>2, <3>2 DEF AnswersInv, RunsMean, RunTells
    <3>5. ASSUME x.gen = gen.number, NEW e \in pending, e.n \in DOMAIN x.list PROVE x.list[e.n] = e.id
      <4>1. e \in Answers!Kept(run[t].list)
        BY <3>4, <3>5
      <4>. QED  BY <3>2, <3>5, <4>1 DEF Answers!Kept, Answers!First
    <3>6. ToldAs'
      <4>1. ASSUME NEW k \in DOMAIN told'
            PROVE  /\ told'[k].gen \in Nat /\ told'[k].gen <= gen'.number
                   /\ told'[k].gen = gen'.number =>
                        \A e \in pending' : e.n \in DOMAIN told'[k].list => told'[k].list[e.n] = e.id
        <5>1. CASE k = Len(told) + 1
          BY <3>3, <3>4, <3>5, <5>1
        <5>2. CASE k \in DOMAIN told
          BY <3>3, <5>2 DEF AnswersInv, ToldAs
        <5>. QED  BY <3>3, <5>1, <5>2
      <4>. QED  BY <4>1 DEF ToldAs
    <3>7. Announced(sig)'
      <4>1. CASE sig = run[t].old
        <5>1. Announced(run[t].old)
          BY DEF AnswersInv, RunsMean, RunTells
        <5>. QED  BY <1>2, <4>1, <5>1 DEF Announced, Lengthened
      <4>2. CASE sig = Answers!Ids(run[t].list)
        BY <3>2, <3>3, <4>2 DEF Announced
      <4>. QED  BY <2>2, <4>1, <4>2
    <3>. QED  BY <1>1, <3>6, <3>7 DEF Announced
  <2>. QED  BY <2>1, <2>2
<1>6. RunsMean'
  <2>1. ASSUME NEW u \in Ticks PROVE RunTells(run[u])'
    <3>1. CASE run'[u] = run[u]
      <4>1. RunTells(run[u])
        BY DEF AnswersInv, RunsMean
      <4>. QED  BY <1>2, <3>1, <4>1 DEF RunTells, Announced, Lengthened
    <3>2. CASE run'[u] = Answers!NoRun
      BY <3>2 DEF RunTells, Announced, Answers!NoRun
    <3>. QED  BY <1>1, <3>1, <3>2
  <2>2. gen'.number \in gen'.silent => \A e \in pending' : Spoken(e.id)'
    BY <1>2 DEF AnswersInv, RunsMean, Spoken, Lengthened
  <2>. QED  BY <1>5, <2>1, <2>2 DEF RunsMean
<1>7. RecordMeans' /\ OnceOnly'
  BY <1>2, NothingRecorded, SameLength
<1>. QED  BY <1>2, <1>4, <1>5, <1>6, <1>7, MailStays DEF AnswersInv

\* What is not looked at here may change, and files may be emptied.
LEMMA QuietKeeps ==
  ASSUME AnswersInv, UNCHANGED <<gen, told, run, signature, cards, mail, queue, ledger, record, logged>>, pending' \subseteq pending,
         poll'.todo \subseteq poll.todo \/ poll'.todo \subseteq DOMAIN mail, Answers!Ids(candidates') \subseteq Options
  PROVE  AnswersInv'
<1>1. AnswerTypes'
  BY DEF AnswersInv, AnswerTypes
<1>2. MailMeans' /\ ToldAs'
  BY DEF AnswersInv, MailMeans, ToldAs
<1>3. gen' = gen /\ pending' \subseteq pending
  OBVIOUS
<1>4. RecordMeans' /\ OnceOnly'
  BY <1>3, SameLength, NothingRecorded
<1>. QED  BY <1>1, <1>2, <1>4, RunsStay DEF AnswersInv

\* A run begins and keeps the set that was told last.
LEMMA StartKeeps ==
  ASSUME AnswersInv, NEW t \in Ticks, Answers!RunStarts(t)
  PROVE  AnswersInv'
<1>1. /\ run' = [run EXCEPT ![t] = [step |-> "analysing", list |-> <<>>, old |-> signature, gen |-> 0]]
      /\ UNCHANGED <<gen, told, signature, cards, mail, queue, poll, candidates, ledger, record, logged, pending>>
  BY DEF Answers!RunStarts, Answers!progress, Answers!routes
<1>2. DOMAIN run' = Ticks /\ \A u \in Ticks : u # t => run'[u] = run[u]
  BY <1>1 DEF AnswersInv, AnswerTypes
<1>3. run'[t].old = signature /\ run'[t].step = "analysing"
  BY <1>1 DEF AnswersInv, AnswerTypes
<1>4. AnswerTypes'
  BY <1>1, <1>2 DEF AnswersInv, AnswerTypes
<1>5. MailMeans' /\ ToldAs' /\ OnceOnly'
  BY <1>1 DEF AnswersInv, MailMeans, ToldAs, OnceOnly
<1>6. RecordMeans'
  BY <1>1, SameLength, NothingRecorded
<1>7. ASSUME NEW u \in Ticks PROVE RunTells(run[u])'
  <2>1. CASE u = t
    BY <1>1, <1>3, <2>1 DEF AnswersInv, RunsMean, RunTells, Announced
  <2>2. CASE u # t
    BY <1>1, <1>2, <2>2 DEF AnswersInv, RunsMean, RunTells, Announced
  <2>. QED  BY <2>1, <2>2
<1>8. RunsMean'
  <2>1. Announced(signature)' /\ (gen'.number \in gen'.silent => \A e \in pending' : Spoken(e.id)')
    BY <1>1 DEF AnswersInv, RunsMean, Announced, Spoken
  <2>. QED  BY <1>7, <2>1 DEF RunsMean
<1>. QED  BY <1>4, <1>5, <1>6, <1>8 DEF AnswersInv

\* What a run found is a list of its own, nothing of which was answered.
LEMMA AnalysedKeeps ==
  ASSUME AnswersInv, NEW t \in Ticks, NEW list \in Answers!Orders(Suggestions), Answers!RunAnalysed(t, list)
  PROVE  AnswersInv'
<1>. DEFINE number == gen.number + 1
            same == ~(list # <<>> /\ Answers!Ids(list) # run[t].old)
<1>1. /\ pending' = Answers!Kept(list)
      /\ UNCHANGED <<told, cards, mail, queue, poll, candidates, ledger, record, logged>>
      /\ ~same => /\ run' = [run EXCEPT ![t] = [step |-> "sending", list |-> list, old |-> run[t].old, gen |-> number]]
                  /\ gen' = [gen EXCEPT !.number = number] /\ signature' = signature
      /\ same => /\ run' = [run EXCEPT ![t] = Answers!NoRun] /\ signature' = Answers!Ids(list)
                 /\ gen' = [number |-> number, silent |-> gen.silent \union {number}]
  BY DEF Answers!RunAnalysed, Answers!RunEnds, Answers!progress, Answers!routes, AnswersInv, AnswerTypes
<1>2. PICK n \in Nat : list \in [1..n -> Suggestions]
  BY FS_CardinalityType DEF Answers!Orders
<1>3. \A i, j \in DOMAIN list : list[i] = list[j] => i = j
  BY DEF Answers!Orders
<1>4. \A e \in pending' : \E i \in DOMAIN list : e = [n |-> i, id |-> list[i]]
  BY <1>1 DEF Answers!Kept
<1>5. pending' \subseteq [n : Nat, id : Suggestions] /\ \A e, f \in pending' : e.id = f.id => e = f
  BY <1>2, <1>3, <1>4
<1>6. gen \in [number : Nat, silent : SUBSET Nat] /\ (\A i \in gen.silent : i <= gen.number) /\ DOMAIN run = Ticks
  BY DEF AnswersInv, AnswerTypes
<1>7. /\ gen' \in [number : Nat, silent : SUBSET Nat] /\ gen'.number = number /\ \A i \in gen'.silent : i <= number
      /\ gen'.silent = IF same THEN gen.silent \union {number} ELSE gen.silent
  <2>. HIDE DEF same
  <2>. QED  BY <1>1, <1>6
<1>8. /\ DOMAIN run' = Ticks /\ \A u \in Ticks : u # t => run'[u] = run[u]
      /\ same => run'[t] = Answers!NoRun
      /\ ~same => run'[t] = [step |-> "sending", list |-> list, old |-> run[t].old, gen |-> number]
  <2>. HIDE DEF same
  <2>. QED  BY <1>1, <1>6
<1>9. AnswerTypes'
  BY <1>1, <1>5, <1>7, <1>8 DEF AnswersInv, AnswerTypes
<1>10. MailMeans' /\ ToldAs'
  BY <1>1, <1>6, <1>7 DEF AnswersInv, MailMeans, ToldAs
<1>11. RecordMeans' /\ OnceOnly'
  BY <1>1, <1>7, SameLength, NothingRecorded
<1>12. same => Answers!Ids(list) = {} \/ \E k \in DOMAIN told : Answers!Ids(list) \subseteq told[k].all
  <2>1. CASE list = <<>>
    <3>1. Answers!Ids(list) = {}
      BY <2>1 DEF Answers!Ids
    <3>. QED  BY <3>1
  <2>2. CASE Answers!Ids(list) = run[t].old
    BY <2>2 DEF AnswersInv, RunsMean, RunTells, Announced
  <2>. QED  BY <2>1, <2>2
<1>. HIDE DEF same
<1>13. ASSUME NEW u \in Ticks PROVE RunTells(run[u])'
  <2>1. Announced(run[u].old) /\ (run[u].step = "sending" => run[u].gen \in Nat /\ run[u].gen <= gen.number)
    BY DEF AnswersInv, RunsMean, RunTells
  <2>2. CASE u # t
    BY <1>1, <1>6, <1>7, <1>8, <2>1, <2>2 DEF RunTells, Announced
  <2>3. CASE u = t /\ same
    BY <1>8, <2>3 DEF RunTells, Announced, Answers!NoRun
  <2>4. CASE u = t /\ ~same
    <3>1. run'[u].old = run[u].old /\ run'[u].gen = number /\ run'[u].list = list
      BY <1>8, <2>4
    <3>. QED  BY <1>1, <1>6, <1>7, <2>1, <3>1 DEF RunTells, Announced
  <2>. QED  BY <2>2, <2>3, <2>4
<1>14. Announced(signature)'
  <2>1. CASE same
    BY <1>1, <1>12, <2>1 DEF Announced
  <2>2. CASE ~same
    BY <1>1, <2>2 DEF AnswersInv, RunsMean, Announced
  <2>. QED  BY <2>1, <2>2
<1>15. ASSUME gen'.number \in gen'.silent, NEW e \in pending' PROVE Spoken(e.id)'
  <2>1. same
    BY <1>6, <1>7, <1>15
  <2>2. e.id \in Answers!Ids(list)
    BY <1>4 DEF Answers!Ids
  <2>. QED  BY <1>1, <1>12, <2>1, <2>2 DEF Spoken
<1>16. RunsMean'
  BY <1>13, <1>14, <1>15 DEF RunsMean
<1>. QED  BY <1>9, <1>10, <1>11, <1>16 DEF AnswersInv

LEMMA ShowKeeps ==
  ASSUME AnswersInv, Answers!ShowProgress
  PROVE  AnswersInv'
<1>1. cards' = Append(cards, candidates) /\ UNCHANGED <<pending, gen, told, run, signature, mail, queue, poll, candidates, ledger, record, logged>>
  BY DEF Answers!ShowProgress, Answers!suggested, Answers!routes
<1>2. Lengthened(cards, cards') /\ \E S : cards' \in Seq(S)
  BY <1>1, GrowsBy DEF AnswersInv, AnswerTypes
<1>3. AnswerTypes'
  BY <1>1, <1>2 DEF AnswersInv, AnswerTypes
<1>4. MailMeans' /\ ToldAs'
  BY <1>1 DEF AnswersInv, MailMeans, ToldAs
<1>5. RecordMeans' /\ OnceOnly'
  BY <1>1, <1>2, SameLength, NothingRecorded
<1>. QED  BY <1>1, <1>3, <1>4, <1>5, RunsStay DEF AnswersInv

LEMMA WriteKeeps ==
  ASSUME AnswersInv, NEW k, NEW n, Answers!Write(k, n)
  PROVE  AnswersInv'
<1>. DEFINE saw == IF k \in Answers!OfSuggestions THEN Len(told) ELSE Len(cards)
            x == [kind |-> k, n |-> n, saw |-> saw]
<1>1. /\ k \in Answers!OfSuggestions => told # <<>> /\ n \in DOMAIN told[Len(told)].list
      /\ mail' = Append(mail, x) /\ queue' = Append(queue, Len(mail) + 1)
      /\ UNCHANGED <<pending, gen, told, run, signature, cards, poll, candidates, ledger, record, logged>>
  BY DEF Answers!Write, Answers!suggested, Answers!progress
<1>2. /\ Lengthened(mail, mail') /\ (\E S : mail' \in Seq(S)) /\ Len(mail) \in Nat /\ DOMAIN mail = 1..Len(mail)
      /\ DOMAIN mail' = 1..(Len(mail) + 1) /\ mail'[Len(mail) + 1] = x
  <2>. HIDE DEF x
  <2>1. \E S : mail \in Seq(S)
    BY DEF AnswersInv, AnswerTypes
  <2>. QED  BY <1>1, <2>1, GrowsBy
<1>3. queue' \in Seq(Nat) /\ \A i \in DOMAIN queue' : queue'[i] \in DOMAIN mail'
  <2>1. queue \in Seq(Nat) /\ \A i \in DOMAIN queue : queue[i] \in DOMAIN mail
    BY DEF AnswersInv, AnswerTypes
  <2>2. queue' \in Seq(Nat) /\ DOMAIN queue' = 1..(Len(queue) + 1) /\ queue'[Len(queue) + 1] = Len(mail) + 1
        /\ DOMAIN queue = 1..Len(queue) /\ Len(queue) \in Nat /\ \A i \in 1..Len(queue) : queue'[i] = queue[i]
    BY <1>1, <1>2, <2>1
  <2>. QED  BY <1>2, <2>1, <2>2
<1>4. AnswerTypes'
  <2>1. poll'.todo \subseteq DOMAIN mail'
    BY <1>1, <1>2 DEF AnswersInv, AnswerTypes
  <2>. QED  BY <1>1, <1>2, <1>3, <2>1 DEF AnswersInv, AnswerTypes
<1>5. MailMeans'
  <2>1. ASSUME k \in {"accept", "dismiss"} PROVE saw \in DOMAIN told /\ n \in DOMAIN told[saw].list
    <3>1. PICK S : told \in Seq(S)
      BY DEF AnswersInv, AnswerTypes
    <3>2. told # <<>> /\ n \in DOMAIN told[Len(told)].list /\ saw = Len(told)
      BY <1>1, <2>1 DEF Answers!OfSuggestions
    <3>. QED  BY <3>1, <3>2
  <2>2. x.kind = k /\ x.n = n /\ x.saw = saw
    OBVIOUS
  <2>. HIDE DEF x, saw
  <2>3. ASSUME NEW m \in DOMAIN mail', mail'[m].kind \in {"accept", "dismiss"}
        PROVE  mail'[m].saw \in DOMAIN told' /\ mail'[m].n \in DOMAIN told'[mail'[m].saw].list
    <3>1. CASE m \in DOMAIN mail
      BY <1>1, <1>2, <2>3, <3>1 DEF AnswersInv, MailMeans, Lengthened
    <3>2. CASE m = Len(mail) + 1
      BY <1>1, <1>2, <2>1, <2>2, <2>3, <3>2
    <3>. QED  BY <1>2, <3>1, <3>2
  <2>. QED  BY <2>3 DEF MailMeans
<1>6. ToldAs'
  BY <1>1 DEF AnswersInv, ToldAs
<1>7. RecordMeans' /\ OnceOnly'
  BY <1>1, <1>2, SameLength, NothingRecorded
<1>. QED  BY <1>1, <1>4, <1>5, <1>6, <1>7, RunsStay DEF AnswersInv

LEMMA AnswersCardinality == \A S : Answers!Cardinality(S) = Cardinality(S)
BY Zenon DEF Answers!Cardinality, Cardinality, Answers!IsFiniteSet, IsFiniteSet

\* What is noted at once: one record for each that it is about.
LEMMA NotedAre ==
  ASSUME NEW m, NEW what, NEW ids, IsFiniteSet(ids), NEW saw
  PROVE  /\ IsFiniteSet(Answers!Noted(m, what, ids, saw))
         /\ \A d \in Answers!Noted(m, what, ids, saw) :
              d.by = m /\ d.what = what /\ d.id \in ids /\ d.gen = gen.number /\ d.saw = saw
         /\ \A d, e \in Answers!Noted(m, what, ids, saw) : d.id = e.id => d = e
<1>. DEFINE N == Answers!Noted(m, what, ids, saw)
            f == [d \in N |-> d.id]
<1>1. \A d \in N : \E i \in ids : d = [by |-> m, what |-> what, id |-> i, gen |-> gen.number, saw |-> saw]
  BY DEF Answers!Noted
<1>2. /\ \A d \in N : d.by = m /\ d.what = what /\ d.id \in ids /\ d.gen = gen.number /\ d.saw = saw
      /\ \A d, e \in N : d.id = e.id => d = e
  BY <1>1
<1>. HIDE DEF N
<1>3. f \in Injection(N, ids)
  <2>1. f \in [N -> ids] /\ \A d, e \in N : f[d] = f[e] => d = e
    BY <1>2
  <2>. HIDE DEF f
  <2>. QED  BY <2>1 DEF Injection, IsInjective
<1>4. IsFiniteSet(N)
  BY <1>3, FS_Injection
<1>. QED  BY <1>2, <1>4 DEF N

LEMMA NotedWords ==
  ASSUME NEW m, NEW what, NEW ids, IsFiniteSet(ids), NEW saw
  PROVE  IsFiniteSet(Answers!Noted(m, what, ids, saw)) /\ \A d \in Answers!Noted(m, what, ids, saw) : d.what = what
BY NotedAre

\* What a step may record: an answer about what waited and waits no more, a press about what its
\* card showed, and one revision, with the next number.
Recordable(N) ==
  /\ \A d \in N :
       /\ d.what \in Given =>
            /\ d.by \in DOMAIN mail /\ d.gen = gen.number /\ MeansTold(d)
            /\ (\A e \in pending' : e.id # d.id) /\ \E e \in pending : e.id = d.id
       /\ d.what = "press" => d.saw \in DOMAIN cards /\ d.id \in Answers!Ids(cards[d.saw])
       /\ d.what \in Revising => N = {d} /\ d.by \in logged' /\ d.id = Cardinality(record) /\ d \notin record
       /\ d.what = "polled" => d.by \notin logged
  /\ \A d, e \in N : d.what \in Given /\ e.what \in Given /\ d.id = e.id => d = e

LEMMA RecordKeeps ==
  ASSUME AnswersInv, UNCHANGED <<gen, told, run, signature, cards, mail, candidates>>, pending' \subseteq pending, logged \subseteq logged',
         queue' \in Seq(Nat) /\ (\A i \in DOMAIN queue' : queue'[i] \in DOMAIN mail), poll'.todo \subseteq DOMAIN mail,
         ledger' \in [Options -> {0, 1}], NEW N, IsFiniteSet(N), record' = record \union N, Recordable(N)
  PROVE  AnswersInv'
<1>1. IsFiniteSet(record) /\ Cardinality(record) \in Nat
  BY FS_CardinalityType DEF AnswersInv, AnswerTypes
<1>2. IsFiniteSet(record') /\ Cardinality(record') \in Nat /\ Cardinality(record) <= Cardinality(record')
  <2>1. IsFiniteSet(record')
    BY <1>1, FS_Union
  <2>. QED  BY <2>1, FS_Subset, FS_CardinalityType
<1>3. AnswerTypes'
  BY <1>2 DEF AnswersInv, AnswerTypes
<1>4. MailMeans' /\ ToldAs'
  BY DEF AnswersInv, MailMeans, ToldAs
<1>5. ASSUME NEW d \in N, d.what \in Revising
      PROVE  d.id \in Nat /\ d.id < Cardinality(record') /\ d.id = Cardinality(record) /\ d.by \in logged' /\ N = {d}
  <2>1. N = {d} /\ d.by \in logged' /\ d.id = Cardinality(record) /\ d \notin record
    BY <1>5 DEF Recordable
  <2>2. Cardinality(record') = Cardinality(record) + 1
    BY <1>1, <2>1, FS_AddElement
  <2>. QED  BY <1>1, <2>1, <2>2
<1>6. RecordMeans'
  <2>1. ASSUME NEW d \in record
        PROVE  /\ d.what \in Given =>
                    /\ d.by \in DOMAIN mail' /\ d.gen \in Nat /\ d.gen <= gen'.number /\ MeansTold(d)'
                    /\ d.gen = gen'.number => \A e \in pending' : e.id # d.id
               /\ d.what = "press" => d.saw \in DOMAIN cards' /\ d.id \in Answers!Ids(cards'[d.saw])
               /\ d.what \in Revising => d.by \in logged' /\ d.id \in Nat /\ d.id < Cardinality(record')
    BY <1>1, <1>2 DEF AnswersInv, RecordMeans, MeansTold, Spoken
  <2>2. gen.number \in Nat
    BY DEF AnswersInv, AnswerTypes
  <2>3. ASSUME NEW d \in N
        PROVE  /\ d.what \in Given =>
                    /\ d.by \in DOMAIN mail' /\ d.gen \in Nat /\ d.gen <= gen'.number /\ MeansTold(d)'
                    /\ d.gen = gen'.number => \A e \in pending' : e.id # d.id
               /\ d.what = "press" => d.saw \in DOMAIN cards' /\ d.id \in Answers!Ids(cards'[d.saw])
               /\ d.what \in Revising => d.by \in logged' /\ d.id \in Nat /\ d.id < Cardinality(record')
    <3>1. ASSUME d.what \in Given
          PROVE  /\ d.by \in DOMAIN mail' /\ d.gen \in Nat /\ d.gen <= gen'.number /\ MeansTold(d)'
                 /\ d.gen = gen'.number => \A e \in pending' : e.id # d.id
      <4>1. d.by \in DOMAIN mail /\ d.gen = gen.number /\ MeansTold(d) /\ \A e \in pending' : e.id # d.id
        BY <3>1 DEF Recordable
      <4>2. MeansTold(d)'
        BY <4>1 DEF MeansTold, Spoken
      <4>. QED  BY <2>2, <4>1, <4>2
    <3>2. d.what = "press" => d.saw \in DOMAIN cards' /\ d.id \in Answers!Ids(cards'[d.saw])
      BY DEF Recordable
    <3>. QED  BY <1>5, <3>1, <3>2
  <2>. QED  BY <2>1, <2>3 DEF RecordMeans
<1>7. ASSUME NEW d \in record', NEW e \in record', d.what \in Given, e.what \in Given, d.gen = e.gen, d.id = e.id
      PROVE  d = e
  <2>1. ASSUME NEW a \in record, NEW b \in N, a.what \in Given, b.what \in Given, a.gen = b.gen, a.id = b.id PROVE FALSE
    BY <2>1 DEF AnswersInv, RecordMeans, Recordable
  <2>2. CASE d \in record /\ e \in record
    BY <1>7, <2>2 DEF AnswersInv, OnceOnly
  <2>3. CASE d \in N /\ e \in N
    BY <1>7, <2>3 DEF Recordable
  <2>. QED  BY <1>7, <2>1, <2>2, <2>3
<1>8. ASSUME NEW d \in record', NEW e \in record', d.what \in Revising, e.what = "polled", d.by = e.by
      PROVE  d.id >= e.id
  <2>1. e.what \in Revising
    BY <1>8 DEF Revising
  <2>2. CASE d \in record /\ e \in record
    BY <1>8, <2>2 DEF AnswersInv, OnceOnly
  <2>3. CASE d \in N /\ e \in record
    BY <1>1, <1>5, <1>8, <2>1, <2>3 DEF AnswersInv, RecordMeans
  <2>4. CASE d \in record /\ e \in N
    BY <1>8, <2>4 DEF AnswersInv, RecordMeans, Recordable
  <2>5. CASE d \in N /\ e \in N
    BY <1>1, <1>5, <1>8, <2>5
  <2>. QED  BY <2>2, <2>3, <2>4, <2>5
<1>. QED  BY <1>3, <1>4, <1>6, <1>7, <1>8, RunsStay DEF AnswersInv, OnceOnly

\* An answer to suggestions, on either route.
LEMMA AnswerKeeps ==
  ASSUME AnswersInv, NEW m \in DOMAIN mail, Answers!AnswerSuggestion(m), UNCHANGED <<gen, told, run, signature, cards, mail, candidates, ledger>>,
         queue' \in Seq(Nat) /\ (\A i \in DOMAIN queue' : queue'[i] \in DOMAIN mail), poll'.todo \subseteq DOMAIN mail
  PROVE  AnswersInv'
<1>. DEFINE numbers == Answers!Picked(mail[m])
            ids == {e.id : e \in {f \in pending : f.n \in numbers}}
            N == Answers!Noted(m, Answers!Verb(mail[m]), ids, mail[m].saw)
<1>1. /\ pending' = {e \in pending : e.n \notin numbers} /\ logged' = logged \union {m}
      /\ record' = record \union N
  BY DEF Answers!AnswerSuggestion, Answers!Left
<1>2. pending \subseteq [n : Nat, id : Suggestions] /\ \A e, f \in pending : e.id = f.id => e = f
  BY DEF AnswersInv, AnswerTypes
<1>3. IsFiniteSet(ids)
  <2>1. ids \subseteq Suggestions
    BY <1>2
  <2>. QED  BY <2>1, AnswersAssumption, FS_Subset
<1>4. mail[m].kind \in {"accept", "dismiss"} => numbers \subseteq {mail[m].n}
  BY DEF Answers!Picked
<1>5. Answers!Verb(mail[m]) \in Given
  BY DEF Answers!Verb, Given
<1>6. \A i \in ids : \E e \in pending : e.n \in numbers /\ e.id = i
  OBVIOUS
<1>7. \A i \in ids : \A e \in pending' : e.id # i
  BY <1>1, <1>2, <1>6
<1>. HIDE DEF numbers, ids
<1>8. /\ IsFiniteSet(N)
      /\ \A d \in N : d.by = m /\ d.what \in Given /\ d.id \in ids /\ d.gen = gen.number /\ d.saw = mail[m].saw
      /\ \A d, e \in N : d.id = e.id => d = e
  BY <1>3, <1>5, NotedAre
<1>. HIDE DEF N
<1>9. ASSUME NEW d \in N PROVE MeansTold(d)
  <2>1. d.by = m /\ d.gen = gen.number /\ d.saw = mail[m].saw /\ d.id \in ids /\ gen.number \in Nat
    BY <1>8 DEF AnswersInv, AnswerTypes
  <2>2. ASSUME mail[m].kind \in {"accept", "dismiss"}
        PROVE  told[d.saw].list[mail[m].n] = d.id \/ d.gen > told[d.saw].gen
    <3>1. PICK e \in pending : e.n = mail[m].n /\ e.id = d.id
      BY <1>4, <1>6, <2>1, <2>2
    <3>2. d.saw \in DOMAIN told /\ mail[m].n \in DOMAIN told[d.saw].list
      BY <2>1, <2>2 DEF AnswersInv, MailMeans
    <3>3. told[d.saw].gen \in Nat /\ told[d.saw].gen <= gen.number
          /\ (told[d.saw].gen = gen.number => told[d.saw].list[e.n] = e.id)
      BY <3>1, <3>2 DEF AnswersInv, ToldAs
    <3>. QED  BY <2>1, <3>1, <3>3
  <2>3. d.gen \in gen.silent => Spoken(d.id)
    BY <1>6, <2>1 DEF AnswersInv, RunsMean
  <2>. QED  BY <2>1, <2>2, <2>3 DEF MeansTold
<1>10. Recordable(N)
  <2>1. ASSUME NEW d \in N
        PROVE  /\ d.by \in DOMAIN mail /\ d.gen = gen.number /\ MeansTold(d)
               /\ (\A e \in pending' : e.id # d.id) /\ \E e \in pending : e.id = d.id
    BY <1>6, <1>7, <1>8, <1>9
  <2>2. \A d \in N : d.what # "press" /\ d.what \notin Revising /\ d.what # "polled"
    BY <1>8 DEF Given, Revising
  <2>. QED  BY <1>8, <2>1, <2>2 DEF Recordable
<1>11. ledger' \in [Options -> {0, 1}] /\ pending' \subseteq pending /\ logged \subseteq logged'
  BY <1>1 DEF AnswersInv, AnswerTypes
<1>. QED  BY <1>1, <1>8, <1>10, <1>11, RecordKeeps

\* A capture is no answer, and a revision is one with the next number.
LEMMA OneKeeps ==
  ASSUME AnswersInv, UNCHANGED <<pending, gen, told, run, signature, cards, mail, candidates, ledger>>, logged \subseteq logged',
         queue' \in Seq(Nat) /\ (\A i \in DOMAIN queue' : queue'[i] \in DOMAIN mail), poll'.todo \subseteq DOMAIN mail,
         NEW m, NEW what, what \notin Given, what # "press",
         what \in Revising => m \in logged',
         what = "polled" => m \notin logged,
         record' = record \union {[by |-> m, what |-> what, id |-> Answers!Cardinality(record), gen |-> 0, saw |-> 0]}
  PROVE  AnswersInv'
<1>. DEFINE d == [by |-> m, what |-> what, id |-> Answers!Cardinality(record), gen |-> 0, saw |-> 0]
<1>1. d.by = m /\ d.what = what /\ d.id = Cardinality(record) /\ record' = record \union {d}
  BY AnswersCardinality
<1>. HIDE DEF d
<1>2. IsFiniteSet(record) /\ Cardinality(record) \in Nat
  BY FS_CardinalityType DEF AnswersInv, AnswerTypes
<1>3. what \in Revising => d \notin record
  BY <1>1, <1>2 DEF AnswersInv, RecordMeans
<1>4. Recordable({d})
  BY <1>1, <1>3 DEF Recordable
<1>5. IsFiniteSet({d}) /\ ledger' \in [Options -> {0, 1}]
  BY FS_Singleton DEF AnswersInv, AnswerTypes
<1>. QED  BY <1>1, <1>4, <1>5, RecordKeeps

LEMMA LedgerConfirmed ==
  ASSUME AnswersInv, NEW entries
  PROVE  Answers!Confirmed(entries) \in [Options -> {0, 1}]
BY DEF Answers!Confirmed, AnswersInv, AnswerTypes

LEMMA PressKeeps ==
  ASSUME AnswersInv, NEW k \in DOMAIN cards, Answers!PressConfirm(k)
  PROVE  AnswersInv'
<1>. DEFINE entries == Answers!Ids(candidates) \intersect Answers!Ids(cards[k])
            N == Answers!Noted(0, "press", entries, k)
<1>1. /\ ledger' = Answers!Confirmed(entries) /\ record' = record \union N
      /\ UNCHANGED <<pending, gen, told, run, signature, cards, mail, candidates, queue, poll, logged>>
  BY DEF Answers!PressConfirm, Answers!suggested, Answers!routes
<1>2. IsFiniteSet(entries)
  <2>1. entries \subseteq Options
    BY DEF AnswersInv, AnswerTypes
  <2>. QED  BY <2>1, AnswersAssumption, FS_Subset
<1>3. /\ IsFiniteSet(N)
      /\ \A d \in N : d.what = "press" /\ d.id \in entries /\ d.saw = k
  <2>. HIDE DEF entries
  <2>. QED  BY <1>2, NotedAre
<1>4. \A d \in N : d.id \in Answers!Ids(cards[d.saw]) /\ d.saw \in DOMAIN cards
  BY <1>3
<1>. HIDE DEF N
<1>5. Recordable(N)
  BY <1>3, <1>4 DEF Recordable, Given, Revising
<1>. HIDE DEF entries
<1>6. ledger' \in [Options -> {0, 1}]
  BY <1>1, LedgerConfirmed
<1>7. queue' \in Seq(Nat) /\ (\A i \in DOMAIN queue' : queue'[i] \in DOMAIN mail) /\ poll'.todo \subseteq DOMAIN mail
  BY <1>1 DEF AnswersInv, AnswerTypes
<1>. QED  BY <1>1, <1>3, <1>5, <1>6, <1>7, RecordKeeps

\* What is confirmed or carried in words.
LEMMA WordsKeep ==
  ASSUME AnswersInv, NEW m \in DOMAIN mail, Answers!AnswerProgress(m),
         UNCHANGED <<pending, gen, told, run, signature, cards, mail, candidates, logged>>,
         queue' \in Seq(Nat) /\ (\A i \in DOMAIN queue' : queue'[i] \in DOMAIN mail), poll'.todo \subseteq DOMAIN mail
  PROVE  AnswersInv'
<1>. DEFINE x == mail[m]
            entries == CASE x.kind = "confirmAll" -> Answers!Ids(candidates) [] x.kind = "done" -> Answers!At(x.n) [] OTHER -> {}
            carried == IF x.kind = "carry" THEN Answers!At(x.n) ELSE {}
            N == Answers!Noted(m, "confirmed", entries, x.saw) \union Answers!Noted(m, "carried", carried, x.saw)
<1>1. ledger' = Answers!Confirmed(entries) /\ record' = record \union N
  BY Zenon DEF Answers!AnswerProgress
<1>2. IsFiniteSet(entries) /\ IsFiniteSet(carried)
  <2>1. entries \subseteq Options /\ carried \subseteq Options
    BY DEF AnswersInv, AnswerTypes, Answers!At, Answers!Ids
  <2>. QED  BY <2>1, AnswersAssumption, FS_Subset
<1>. HIDE DEF entries, carried
<1>3. IsFiniteSet(N) /\ \A d \in N : d.what \in {"confirmed", "carried"}
  <2>. DEFINE A == Answers!Noted(m, "confirmed", entries, x.saw)
              B == Answers!Noted(m, "carried", carried, x.saw)
  <2>. HIDE DEF x
  <2>1. IsFiniteSet(A) /\ \A d \in A : d.what = "confirmed"
    BY <1>2, NotedWords
  <2>2. IsFiniteSet(B) /\ \A d \in B : d.what = "carried"
    BY <1>2, NotedWords
  <2>. HIDE DEF A, B
  <2>3. IsFiniteSet(A \union B) /\ \A d \in A \union B : d.what \in {"confirmed", "carried"}
    BY <2>1, <2>2, FS_Union
  <2>. QED  BY <2>3 DEF A, B
<1>. HIDE DEF N
<1>4. Recordable(N)
  BY <1>3 DEF Recordable, Given, Revising
<1>5. ledger' \in [Options -> {0, 1}]
  BY <1>1, LedgerConfirmed
<1>. QED  BY <1>1, <1>3, <1>4, <1>5, RecordKeeps

\* The interaction handles the first message of its queue.
LEMMA HandleKeeps ==
  ASSUME AnswersInv, Answers!Handle
  PROVE  AnswersInv'
<1>. DEFINE m == Head(queue)
<1>1. queue \in Seq(Nat) /\ queue # <<>> /\ \A i \in DOMAIN queue : queue[i] \in DOMAIN mail
  BY DEF Answers!Handle, AnswersInv, AnswerTypes
<1>2. m \in DOMAIN mail
  <2>1. 1 \in DOMAIN queue /\ m = queue[1]
    BY <1>1
  <2>. QED  BY <1>1, <2>1
<1>3. queue' \in Seq(Nat) /\ \A i \in DOMAIN queue' : queue'[i] \in DOMAIN mail
  <2>1. queue' = Tail(queue)
    BY DEF Answers!Handle
  <2>2. queue' \in Seq(Nat) /\ \A i \in DOMAIN queue' : i + 1 \in DOMAIN queue /\ queue'[i] = queue[i + 1]
    BY <1>1, <2>1
  <2>. QED  BY <1>1, <2>2
<1>4. /\ UNCHANGED <<gen, told, run, signature, candidates, cards, mail, poll>>
      /\ \/ Answers!AnswerProgress(m) /\ UNCHANGED <<pending, logged>>
         \/ Answers!AnswerSuggestion(m) /\ UNCHANGED ledger
         \/ Answers!Capture(m) /\ UNCHANGED <<pending, logged, ledger>>
         \/ Answers!Revise(m, "revised") /\ UNCHANGED <<pending, ledger>>
         \/ UNCHANGED <<pending, logged, ledger, record>>
  BY Zenon DEF Answers!Handle
<1>5. poll'.todo \subseteq DOMAIN mail /\ poll'.todo \subseteq poll.todo /\ Answers!Ids(candidates') \subseteq Options
  BY <1>4 DEF AnswersInv, AnswerTypes
<1>. HIDE DEF m
<1>6. CASE Answers!AnswerProgress(m) /\ UNCHANGED <<pending, logged>>
  BY <1>2, <1>3, <1>4, <1>5, <1>6, WordsKeep
<1>7. CASE Answers!AnswerSuggestion(m) /\ UNCHANGED ledger
  BY <1>2, <1>3, <1>4, <1>5, <1>7, AnswerKeeps
<1>8. CASE Answers!Capture(m) /\ UNCHANGED <<pending, logged, ledger>>
  <2>1. record' = record \union {[by |-> m, what |-> "captured", id |-> Answers!Cardinality(record), gen |-> 0, saw |-> 0]}
    BY <1>8 DEF Answers!Capture
  <2>2. "captured" \notin Given /\ "captured" # "press" /\ "captured" \notin Revising
    BY DEF Given, Revising
  <2>. QED  BY <1>3, <1>4, <1>5, <1>8, <2>1, <2>2, OneKeeps
<1>9. CASE Answers!Revise(m, "revised") /\ UNCHANGED <<pending, ledger>>
  <2>1. /\ record' = record \union {[by |-> m, what |-> "revised", id |-> Answers!Cardinality(record), gen |-> 0, saw |-> 0]}
        /\ m \in logged' /\ logged \subseteq logged'
    BY <1>9 DEF Answers!Revise
  <2>2. "revised" \notin Given /\ "revised" # "press" /\ "revised" # "polled"
    BY DEF Given
  <2>. QED  BY <1>3, <1>4, <1>5, <1>9, <2>1, <2>2, OneKeeps
<1>10. CASE UNCHANGED <<pending, logged, ledger, record>>
  <2>1. UNCHANGED <<gen, told, run, signature, candidates, cards, mail, poll, pending, logged, ledger, record>>
    BY <1>4, <1>10
  <2>2. AnswerTypes'
    BY <1>3, <2>1 DEF AnswersInv, AnswerTypes
  <2>. QED  BY <2>1, <2>2, RunsStay DEF AnswersInv, MailMeans, ToldAs, RecordMeans, OnceOnly, MeansTold, Spoken
<1>. QED  BY <1>4, <1>6, <1>7, <1>8, <1>9, <1>10

\* The poll handles what it read, and the interaction may have had it.
LEMMA FallbackKeeps ==
  ASSUME AnswersInv, NEW m \in poll.todo, Answers!Fallback(m), UNCHANGED <<gen, told, run, signature, cards, mail, candidates, ledger, queue>>,
         poll'.todo \subseteq poll.todo
  PROVE  AnswersInv'
<1>1. m \in DOMAIN mail /\ poll'.todo \subseteq DOMAIN mail /\ Answers!Ids(candidates') \subseteq Options
  BY DEF AnswersInv, AnswerTypes
<1>2. queue' \in Seq(Nat) /\ \A i \in DOMAIN queue' : queue'[i] \in DOMAIN mail
  BY DEF AnswersInv, AnswerTypes
<1>3. \/ Answers!AnswerSuggestion(m)
      \/ Answers!Capture(m) /\ UNCHANGED <<pending, logged>>
      \/ Answers!FallbackRevises(m) /\ Answers!Revise(m, "polled") /\ UNCHANGED pending
      \/ UNCHANGED <<pending, logged, record>>
  BY Zenon DEF Answers!Fallback
<1>4. CASE Answers!AnswerSuggestion(m)
  BY <1>1, <1>2, <1>4, AnswerKeeps
<1>5. CASE Answers!Capture(m) /\ UNCHANGED <<pending, logged>>
  <2>1. record' = record \union {[by |-> m, what |-> "captured", id |-> Answers!Cardinality(record), gen |-> 0, saw |-> 0]}
    BY <1>5 DEF Answers!Capture
  <2>2. "captured" \notin Given /\ "captured" # "press" /\ "captured" \notin Revising
    BY DEF Given, Revising
  <2>. QED  BY <1>1, <1>2, <1>5, <2>1, <2>2, OneKeeps
<1>6. CASE Answers!FallbackRevises(m) /\ Answers!Revise(m, "polled") /\ UNCHANGED pending
  <2>1. /\ record' = record \union {[by |-> m, what |-> "polled", id |-> Answers!Cardinality(record), gen |-> 0, saw |-> 0]}
        /\ m \in logged' /\ logged \subseteq logged' /\ m \notin logged
    BY <1>6 DEF Answers!Revise, Answers!FallbackRevises
  <2>2. "polled" \notin Given /\ "polled" # "press"
    BY DEF Given
  <2>. QED  BY <1>1, <1>2, <1>6, <2>1, <2>2, OneKeeps
<1>7. CASE UNCHANGED <<pending, logged, record>>
  BY <1>1, <1>7, QuietKeeps
<1>. QED  BY <1>3, <1>4, <1>5, <1>6, <1>7

LEMMA PollKeeps ==
  ASSUME AnswersInv, Answers!PollStarts \/ Answers!PollHandles \/ Answers!PollFails \/ Answers!PollEnds
  PROVE  AnswersInv'
<1>1. UNCHANGED <<gen, told, run, signature, cards, mail, candidates, ledger, queue>>
  BY DEF Answers!PollStarts, Answers!PollHandles, Answers!PollFails, Answers!PollEnds, Answers!suggested, Answers!progress
<1>2. Answers!Ids(candidates') \subseteq Options
  BY <1>1 DEF AnswersInv, AnswerTypes
<1>3. CASE Answers!PollStarts
  <2>1. poll'.todo \subseteq DOMAIN mail /\ UNCHANGED <<pending, record, logged>>
    BY <1>3 DEF Answers!PollStarts, Answers!suggested
  <2>. QED  BY <1>1, <1>2, <2>1, QuietKeeps
<1>4. CASE Answers!PollHandles
  <2>1. PICK m \in Answers!Earliest :
          /\ Answers!Fallback(m)
          /\ poll' = [poll EXCEPT !.todo = @ \ {m}, !.seen = IF Answers!Handled(m) THEN @ \union {m} ELSE @]
    BY <1>4 DEF Answers!PollHandles
  <2>2. m \in poll.todo /\ poll'.todo \subseteq poll.todo
    BY <2>1 DEF Answers!Earliest
  <2>. QED  BY <1>1, <2>1, <2>2, FallbackKeeps
<1>5. CASE Answers!PollFails
  <2>1. poll'.todo \subseteq poll.todo
    BY <1>5 DEF Answers!PollFails, Answers!NoPoll
  <2>2. CASE UNCHANGED <<pending, logged, record>>
    BY <1>1, <1>2, <2>1, <2>2, QuietKeeps
  <2>3. ASSUME NEW m \in Answers!Earliest, Answers!Fallback(m) PROVE AnswersInv'
    BY <1>1, <2>1, <2>3, FallbackKeeps DEF Answers!Earliest
  <2>. QED  BY <1>5, <2>2, <2>3 DEF Answers!PollFails
<1>6. CASE Answers!PollEnds
  <2>1. poll'.todo \subseteq poll.todo /\ UNCHANGED <<pending, record, logged>>
    BY <1>6 DEF Answers!PollEnds, Answers!NoPoll, Answers!suggested
  <2>. QED  BY <1>1, <1>2, <2>1, QuietKeeps
<1>. QED  BY <1>3, <1>4, <1>5, <1>6

LEMMA AnswersNext ==
  ASSUME AnswersInv, [Answers!Next]_Answers!vars
  PROVE  AnswersInv'
<1>1. ASSUME NEW t \in Ticks, Answers!RunStarts(t) PROVE AnswersInv'
  BY <1>1, StartKeeps
<1>2. ASSUME NEW t \in Ticks, Answers!RunSends(t) \/ Answers!RunFails(t) PROVE AnswersInv'
  <2>1. UNCHANGED <<pending, gen, cards, mail, queue, poll, candidates, ledger, record, logged>>
    BY <1>2 DEF Answers!RunSends, Answers!RunFails, Answers!progress, Answers!routes
  <2>2. CASE Answers!RunSends(t)
    BY <2>1, <2>2, TellKeeps DEF Answers!RunSends
  <2>3. CASE Answers!RunFails(t)
    BY <2>1, <2>3, TellKeeps DEF Answers!RunFails
  <2>. QED  BY <1>2, <2>2, <2>3
<1>3. ASSUME NEW t \in Ticks, NEW l \in Answers!Orders(Suggestions), Answers!RunAnalysed(t, l) PROVE AnswersInv'
  BY <1>3, AnalysedKeeps
<1>4. CASE Answers!TimePasses \/ Answers!Expire
  <2>1. UNCHANGED <<gen, told, run, signature, cards, mail, queue, poll, candidates, ledger, record, logged>> /\ pending' \subseteq pending
    BY <1>4 DEF Answers!TimePasses, Answers!Expire, Answers!progress, Answers!routes
  <2>2. Answers!Ids(candidates') \subseteq Options
    BY <2>1 DEF AnswersInv, AnswerTypes
  <2>. QED  BY <2>1, <2>2, QuietKeeps
<1>5. ASSUME NEW c \in Answers!Orders(Options), Answers!SourcesChange(c) PROVE AnswersInv'
  <2>1. UNCHANGED <<gen, told, run, signature, cards, mail, queue, poll, ledger, record, logged, pending>> /\ candidates' = c
    BY <1>5 DEF Answers!SourcesChange, Answers!suggested, Answers!routes
  <2>2. Answers!Ids(c) \subseteq Options
    BY DEF Answers!Orders, Answers!Ids
  <2>. QED  BY <2>1, <2>2, QuietKeeps
<1>6. CASE Answers!ShowProgress
  BY <1>6, ShowKeeps
<1>7. ASSUME NEW k \in DOMAIN cards, Answers!PressConfirm(k) PROVE AnswersInv'
  BY <1>7, PressKeeps
<1>8. ASSUME NEW k, NEW n, Answers!Write(k, n) PROVE AnswersInv'
  BY <1>8, WriteKeeps
<1>9. CASE Answers!Handle
  BY <1>9, HandleKeeps
<1>10. CASE Answers!PollStarts \/ Answers!PollHandles \/ Answers!PollFails \/ Answers!PollEnds
  BY <1>10, PollKeeps
<1>11. CASE UNCHANGED Answers!vars
  <2>1. UNCHANGED <<gen, told, run, signature, cards, mail, queue, poll, candidates, ledger, record, logged, pending>>
    BY <1>11 DEF Answers!vars, Answers!suggested, Answers!progress, Answers!routes
  <2>2. Answers!Ids(candidates') \subseteq Options
    BY <2>1 DEF AnswersInv, AnswerTypes
  <2>. QED  BY <2>1, <2>2, QuietKeeps
<1>. QED  BY <1>1, <1>2, <1>3, <1>4, <1>5, <1>6, <1>7, <1>8, <1>9, <1>10, <1>11 DEF Answers!Next

LEMMA AnswersMean ==
  ASSUME AnswersInv
  PROVE  Answers!NumbersHold /\ Answers!PressConfirmsShown /\ Answers!NothingTwice
<1>1. Answers!NumbersHold
  BY DEF AnswersInv, RecordMeans, MeansTold, Spoken, Given, Answers!NumbersHold
<1>2. Answers!PressConfirmsShown
  BY DEF AnswersInv, RecordMeans, Answers!PressConfirmsShown
<1>3. \A c \in Options : ledger[c] <= 1
  BY DEF AnswersInv, AnswerTypes
<1>4. Answers!NothingTwice
  BY <1>3 DEF AnswersInv, OnceOnly, Given, Revising, Answers!NothingTwice
<1>. QED  BY <1>1, <1>2, <1>4

\* An answer by number is of the suggestion that was told under it unless a later
\* run has written the list anew, and of one that was told at all if that run sent
\* no message; a press confirms what its card showed, and no answer, candidate or
\* revision is taken twice by the two routes (service/background-suggestions.ts,
\* progress/capture.ts, feedback/feishu-feedback.ts).
THEOREM AnswersStayTold ==
  Answers!Spec => [](Answers!NumbersHold /\ Answers!PressConfirmsShown /\ Answers!NothingTwice)
<1>1. AnswersInv => Answers!NumbersHold /\ Answers!PressConfirmsShown /\ Answers!NothingTwice
  BY AnswersMean
<1>. QED  BY AnswersInit, AnswersNext, <1>1, PTL DEF Answers!Spec

\* The same of the sum of the parts, of which one runs at a time.
THEOREM AnswersAlwaysMeanTold == PartsSpec => []AnswersMeanTold
<1>. DEFINE Inv == part = "replies" => AnswersInv
<1>1. Parts => Inv
  BY AnswersInit DEF Parts
<1>2. ASSUME Inv, [Step]_<<part, sessionVars, repoVars, okrVars, replyVars, accountVars, noteVars, itemVars>>
      PROVE  Inv'
  <2>1. part = "replies" \/ part' = "replies" => part = "replies" /\ part' = "replies" /\ [Answers!Next]_Answers!vars
    BY <1>2 DEF Step, replyVars, Answers!vars, Answers!suggested, Answers!progress, Answers!routes
  <2>. QED  BY <1>2, <2>1, AnswersNext
<1>3. Inv => AnswersMeanTold
  BY AnswersMean DEF AnswersMeanTold
<1>. QED  BY <1>1, <1>2, <1>3, PTL DEF PartsSpec

==============================================================================
