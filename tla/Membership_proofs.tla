-------------------------- MODULE Membership_proofs --------------------------
(***************************************************************************)
(* What the transactions of the membership functions promise, proved for   *)
(* any number of people, labels and calls under way at once: nobody is     *)
(* moved from one team to another, no team is left with nobody in it that  *)
(* nobody left, two members of a team never share a label, and a code that *)
(* was replaced before a call was made opens no team to it.                *)
(***************************************************************************)
EXTENDS Membership, TLAPS

\* The teams that rows and calls name are there.
TeamsExist ==
  /\ \A u \in Users : members[u].team \in 0..Len(teams)
  /\ \A c \in Slots : calls[c].op \in {"join", "rotate"} /\ calls[c].pc = "found" => calls[c].team \in 1..Len(teams)

\* A call that creates or joins holds the lock of its caller, who has a row and
\* is in no team: what the guard saw when it locked the row is true to the end.
Holding(c) == calls[c].op \in {"create", "join"} /\ calls[c].pc \in {"locked", "found"}
HoldersFree ==
  \A c \in Slots : Holding(c) =>
    lock[calls[c].by] = c /\ members[calls[c].by] # NoRow /\ members[calls[c].by].team = NoTeam

\* A code that was dead when a call was made is dead for good.
DeadForGood ==
  \A c \in Slots : calls[c] # None =>
    \A d \in calls[c].dead : d \in 1..issued /\ \A t \in 1..Len(teams) : teams[t].code # d
CodesIssued == \A t \in 1..Len(teams) : teams[t].code \in 1..issued

IInv ==
  /\ TypeOK /\ TeamsExist /\ HoldersFree /\ DeadForGood /\ CodesIssued
  /\ NoneStranded /\ LabelsApart /\ OldCodesDead

\* The bounds are bounds, and no call has the number that says a row is free.
Numbered == Demands \subseteq Demand /\ Free \notin Slots

LEMMA InitInv == ASSUME Numbered, Init PROVE IInv
<1>1. TypeOK
  BY DEF Numbered, Init, TypeOK, Row, Team
<1>2. \A c \in Slots : calls[c] = None /\ None.op = "none"
  BY DEF Init, None
<1>3. TeamsExist /\ HoldersFree /\ DeadForGood /\ CodesIssued
  BY <1>2 DEF Init, TeamsExist, HoldersFree, Holding, DeadForGood, CodesIssued, NoRow, NoTeam
<1>4. NoneStranded /\ LabelsApart /\ OldCodesDead
  BY <1>2 DEF Init, NoneStranded, LabelsApart, OldCodesDead, NoRow, NoTeam, Taken
<1>. QED  BY <1>1, <1>3, <1>4 DEF IInv

\* What is known of a call that has begun.
LEMMA Begun ==
  ASSUME TypeOK, NEW c \in Slots, calls[c] # None
  PROVE  /\ calls[c] \in Call /\ calls[c].by \in Users /\ calls[c].op \in Ops
         /\ calls[c].team \in Nat /\ calls[c].label \in Labels \union {"none"} /\ calls[c].code \in Nat
         /\ members[calls[c].by] \in Row
  BY DEF TypeOK, Call

\* A call that goes on is the same call, and may have found its team.
LEMMA GoesOn ==
  ASSUME TypeOK, NEW c \in Slots, calls[c] # None, NEW pc \in {"sent", "locked", "found"}
  PROVE  /\ To(c, pc) \in [Slots -> Call \union {None}]
         /\ To(c, pc)[c].pc = pc /\ To(c, pc)[c].op = calls[c].op /\ To(c, pc)[c].by = calls[c].by
         /\ To(c, pc)[c].team = calls[c].team /\ To(c, pc)[c].dead = calls[c].dead /\ To(c, pc)[c].code = calls[c].code
         /\ \A d \in Slots \ {c} : To(c, pc)[d] = calls[d]
<1>1. calls \in [Slots -> Call \union {None}] /\ calls[c] \in Call
  BY DEF TypeOK
<1>. QED  BY <1>1 DEF To, Call

LEMMA Finds ==
  ASSUME TypeOK, NEW c \in Slots, calls[c] # None, NEW t \in Nat, calls' = [To(c, "found") EXCEPT ![c].team = t]
  PROVE  /\ calls' \in [Slots -> Call \union {None}]
         /\ calls'[c].pc = "found" /\ calls'[c].op = calls[c].op /\ calls'[c].by = calls[c].by
         /\ calls'[c].team = t /\ calls'[c].dead = calls[c].dead /\ calls'[c].code = calls[c].code
         /\ \A d \in Slots \ {c} : calls'[d] = calls[d]
<1>1. calls \in [Slots -> Call \union {None}] /\ calls[c] \in Call
  BY DEF TypeOK
<1>. QED  BY <1>1 DEF To, Call

\* A call that ends is gone, and the lock of its caller with it.
LEMMA Ends ==
  ASSUME TypeOK, NEW c \in Slots
  PROVE  /\ Ended(c) \in [Slots -> Call \union {None}] /\ Ended(c)[c] = None
         /\ \A d \in Slots \ {c} : Ended(c)[d] = calls[d]
         /\ Unlocked(c) \in [Users -> Slots \union {Free}]
         /\ \A u \in Users : lock[u] # c => Unlocked(c)[u] = lock[u]
  BY DEF TypeOK, Ended, Unlocked
\* A step that leaves the rows and the teams alone, and by which every call stays
\* as it was, ends, or is one that keeps its place in the invariant.
LEMMA RowsAlone ==
  ASSUME IInv, TypeOK', UNCHANGED <<members, teams, issued, left>>,
         NEW c \in Slots, \A d \in Slots \ {c} : calls'[d] = calls[d],
         \A d \in Slots \ {c} : Holding(d) => lock'[calls[d].by] = lock[calls[d].by],
         Holding(c)' => lock'[calls'[c].by] = c /\ members[calls'[c].by] # NoRow /\ members[calls'[c].by].team = NoTeam,
         calls'[c].op \in {"join", "rotate"} /\ calls'[c].pc = "found" => calls'[c].team \in 1..Len(teams),
         calls'[c] # None => \A d \in calls'[c].dead : d \in 1..issued /\ \A t \in 1..Len(teams) : teams[t].code # d,
         calls'[c].op = "join" /\ calls'[c].pc = "found" => calls'[c].code \notin calls'[c].dead
  PROVE  IInv'
<1>1. TeamsExist'
  BY DEF IInv, TeamsExist
<1>2. HoldersFree'
  BY DEF IInv, HoldersFree, Holding
<1>3. DeadForGood' /\ CodesIssued'
  BY DEF IInv, DeadForGood, CodesIssued
<1>4. NoneStranded' /\ LabelsApart'
  BY DEF IInv, NoneStranded, LabelsApart, Taken
<1>5. OldCodesDead'
  BY DEF IInv, OldCodesDead
<1>. QED  BY <1>1, <1>2, <1>3, <1>4, <1>5 DEF IInv

LEMMA RequestInv == ASSUME IInv, NEW u \in Users, Request(u) PROVE IInv'
<1>. DEFINE blank == [op |-> "leave", by |-> u, code |-> 0, label |-> "none", pc |-> "sent", team |-> NoTeam, dead |-> {}]
<1>1. PICK call \in Call : Send(call) /\ call.pc = "sent" /\ call.dead \in {{}, Dead} /\ demand' \in Demand
  <2>1. blank \in Call /\ NoTeam = 0
    BY DEF Call, Ops, NoTeam
  <2>2. demand \in Demand /\ \A what \in {"calls", "renames"} : Spend(what) => demand' \in Demand
    BY DEF IInv, TypeOK, Spend, Demand
  <2>3. ASSUME NEW op \in {"create", "leave", "rotate"} PROVE [blank EXCEPT !.op = op] \in Call
    BY <2>1 DEF Call, Ops
  <2>4. ASSUME NEW code \in 1..issued PROVE [blank EXCEPT !.op = "join", !.code = code, !.dead = Dead] \in Call
    <3>1. issued \in Nat /\ Dead \in SUBSET (1..issued)
      BY DEF IInv, TypeOK, Dead
    <3>2. code \in Nat /\ Dead \in SUBSET Nat
      BY <3>1
    <3>. QED  BY <2>1, <3>2 DEF Call, Ops
  <2>5. ASSUME NEW l \in Labels PROVE [blank EXCEPT !.op = "rename", !.label = l] \in Call
    BY <2>1 DEF Call, Ops
  <2>. QED  BY <2>2, <2>3, <2>4, <2>5 DEF Request
<1>2. PICK c \in Slots : calls[c] = None /\ calls' = [calls EXCEPT ![c] = call]
  BY <1>1 DEF Send
<1>3. UNCHANGED <<members, teams, issued, lock, left>>
  BY <1>1 DEF Send
<1>4. TypeOK' /\ calls'[c] = call /\ \A d \in Slots \ {c} : calls'[d] = calls[d]
  BY <1>1, <1>2, <1>3 DEF IInv, TypeOK
<1>5. \A d \in call.dead : d \in 1..issued /\ \A t \in 1..Len(teams) : teams[t].code # d
  BY <1>1 DEF Dead, IInv, TypeOK
<1>6. ~Holding(c)'
  BY <1>1, <1>4 DEF Holding
<1>. QED  BY <1>1, <1>3, <1>4, <1>5, <1>6, RowsAlone

LEMMA LockInv == ASSUME Numbered, IInv, NEW c \in Slots, Lock(c) PROVE IInv'
<1>. DEFINE u == calls[c].by
<1>1. TypeOK /\ calls[c] # None /\ calls[c] \in Call /\ u \in Users
  BY Begun DEF IInv, Lock, None
<1>2. calls[c].pc = "sent" /\ calls[c].op \in {"create", "join"} /\ lock[u] = Free
      /\ UNCHANGED <<members, teams, issued, left, demand>>
  BY DEF Lock
<1>3. CASE calls' = Ended(c) /\ UNCHANGED lock
  <2>1. TypeOK' /\ calls'[c] = None /\ \A d \in Slots \ {c} : calls'[d] = calls[d]
    BY <1>1, <1>2, <1>3, Ends DEF TypeOK
  <2>. QED  BY <1>2, <1>3, <2>1, RowsAlone DEF Holding, None
<1>4. CASE /\ members[u] # NoRow /\ members[u].team = NoTeam
           /\ calls' = To(c, "locked") /\ lock' = Locks(c)
  <2>1. /\ calls' \in [Slots -> Call \union {None}] /\ calls'[c].pc = "locked" /\ calls'[c].by = u
        /\ calls'[c].dead = calls[c].dead /\ \A d \in Slots \ {c} : calls'[d] = calls[d]
    BY <1>1, <1>4, GoesOn
  <2>2. /\ lock' \in [Users -> Slots \union {Free}] /\ lock'[u] = c
        /\ \A v \in Users \ {u} : lock'[v] = lock[v]
    BY <1>1, <1>4 DEF Locks, TypeOK
  <2>3. TypeOK'
    BY <1>1, <1>2, <2>1, <2>2 DEF TypeOK
  <2>4. \A d \in Slots \ {c} : Holding(d) => lock'[calls[d].by] = lock[calls[d].by]
    <3>. SUFFICES ASSUME NEW d \in Slots \ {c}, Holding(d) PROVE lock'[calls[d].by] = lock[calls[d].by]
      OBVIOUS
    <3>1. lock[calls[d].by] = d /\ calls[d].by \in Users
      BY <1>1, Begun DEF IInv, HoldersFree, Holding, None
    <3>. QED  BY <1>2, <2>2, <3>1 DEF Numbered
  <2>. QED  BY <1>1, <1>2, <1>4, <2>1, <2>2, <2>3, <2>4, RowsAlone DEF IInv, DeadForGood
<1>. QED  BY <1>3, <1>4 DEF Lock
LEMMA EndInv ==
  ASSUME IInv, NEW c \in Slots, calls' = Ended(c), lock' = Unlocked(c) \/ UNCHANGED lock,
         demand' \in Demand, UNCHANGED <<members, teams, issued, left>>
  PROVE  IInv'
<1>1. /\ TypeOK' /\ calls'[c] = None /\ \A d \in Slots \ {c} : calls'[d] = calls[d]
      /\ \A v \in Users : lock[v] # c => lock'[v] = lock[v]
  BY Ends DEF IInv, TypeOK
<1>2. \A d \in Slots \ {c} : Holding(d) => lock'[calls[d].by] = lock[calls[d].by]
  <2>. SUFFICES ASSUME NEW d \in Slots \ {c}, Holding(d) PROVE lock'[calls[d].by] = lock[calls[d].by]
    OBVIOUS
  <2>1. lock[calls[d].by] = d /\ calls[d].by \in Users
    BY Begun DEF IInv, HoldersFree, Holding, None
  <2>. QED  BY <1>1, <2>1
<1>. QED  BY <1>1, <1>2, RowsAlone DEF Holding, None

LEMMA FindInv == ASSUME Numbered, IInv, NEW c \in Slots, FindTeam(c) \/ ReadTeam(c) \/ BeginRename(c) PROVE IInv'
<1>. DEFINE u == calls[c].by
<1>1. TypeOK /\ calls[c] # None /\ calls[c] \in Call /\ u \in Users /\ members[u] \in Row /\ demand \in Demand
  BY Begun DEF IInv, FindTeam, ReadTeam, BeginRename, None, TypeOK
<1>2. UNCHANGED <<members, teams, issued, left, demand>>
  BY DEF FindTeam, ReadTeam, BeginRename
<1>3. ASSUME NEW t \in Nat, calls' = [To(c, "found") EXCEPT ![c].team = t], UNCHANGED lock,
             calls[c].op \in {"join", "rotate", "rename"},
             calls[c].op = "join" => calls[c].pc = "locked" /\ teams[t].code = calls[c].code,
             calls[c].op \in {"join", "rotate"} => t \in 1..Len(teams)
      PROVE  IInv'
  <2>1. /\ calls' \in [Slots -> Call \union {None}]
        /\ calls'[c].pc = "found" /\ calls'[c].op = calls[c].op /\ calls'[c].by = u
        /\ calls'[c].team = t /\ calls'[c].dead = calls[c].dead /\ calls'[c].code = calls[c].code
        /\ \A d \in Slots \ {c} : calls'[d] = calls[d]
    BY <1>1, <1>3, Finds
  <2>2. TypeOK'
    BY <1>1, <1>2, <1>3, <2>1 DEF TypeOK
  <2>3. Holding(c)' => lock'[u] = c /\ members[u] # NoRow /\ members[u].team = NoTeam
    BY <1>3, <2>1 DEF IInv, HoldersFree, Holding
  <2>4. \A d \in calls'[c].dead : d \in 1..issued /\ \A x \in 1..Len(teams) : teams[x].code # d
    BY <1>1, <2>1 DEF IInv, DeadForGood
  <2>5. calls[c].op = "join" => calls'[c].code \notin calls'[c].dead
    BY <1>3, <2>1, <2>4
  <2>. QED  BY <1>2, <1>3, <2>1, <2>2, <2>3, <2>4, <2>5, RowsAlone
<1>4. CASE calls' = Ended(c) /\ (lock' = Unlocked(c) \/ UNCHANGED lock)
  BY <1>1, <1>2, <1>4, EndInv
<1>5. CASE FindTeam(c)
  <2>1. ASSUME NEW t \in DOMAIN teams, teams[t].code = calls[c].code,
               calls' = [To(c, "found") EXCEPT ![c].team = t], UNCHANGED lock
        PROVE  IInv'
    <3>1. t \in 1..Len(teams) /\ t \in Nat
      BY <1>1 DEF TypeOK
    <3>. QED  BY <1>3, <1>5, <2>1, <3>1 DEF FindTeam
  <2>. QED  BY <1>4, <1>5, <2>1 DEF FindTeam
<1>6. CASE ReadTeam(c)
  <2>1. members[u].team \in 0..Len(teams) /\ members[u].team \in Nat
    BY <1>1 DEF IInv, TeamsExist, TypeOK
  <2>2. CASE members[u].team = NoTeam
    BY <1>4, <1>6, <2>2 DEF ReadTeam
  <2>3. CASE members[u].team # NoTeam
    BY <1>3, <1>6, <2>1, <2>3 DEF ReadTeam, NoTeam
  <2>. QED  BY <2>2, <2>3
<1>7. CASE BeginRename(c)
  <2>1. members[u].team \in Nat
    BY <1>1 DEF IInv, TeamsExist, TypeOK
  <2>. QED  BY <1>3, <1>7, <2>1 DEF BeginRename
<1>. QED  BY <1>5, <1>6, <1>7
\* A step that changes the row of one person, whose lock is free or held by the
\* call that takes the step, and ends that call.
LEMMA OneRow ==
  ASSUME Numbered, IInv, NEW u \in Users, NEW row \in Row, members' = [members EXCEPT ![u] = row],
         NEW c \in Slots, calls' = Ended(c), calls[c].by = u, lock' = Unlocked(c) \/ UNCHANGED lock,
         lock[u] \in {Free, c}
  PROVE  /\ members' \in [Users -> Row] /\ members'[u] = row /\ \A v \in Users \ {u} : members'[v] = members[v]
         /\ calls' \in [Slots -> Call \union {None}] /\ lock' \in [Users -> Slots \union {Free}]
         /\ calls'[c] = None /\ \A d \in Slots \ {c} : calls'[d] = calls[d]
         /\ HoldersFree'
<1>1. TypeOK
  BY DEF IInv
<1>2. members' \in [Users -> Row] /\ members'[u] = row /\ \A v \in Users \ {u} : members'[v] = members[v]
  BY <1>1 DEF TypeOK
<1>3. /\ calls' \in [Slots -> Call \union {None}] /\ lock' \in [Users -> Slots \union {Free}]
      /\ calls'[c] = None /\ \A d \in Slots \ {c} : calls'[d] = calls[d]
      /\ \A v \in Users : lock[v] # c => lock'[v] = lock[v]
  BY <1>1, Ends DEF TypeOK
<1>4. HoldersFree'
  <2>. SUFFICES ASSUME NEW d \in Slots, Holding(d)'
                PROVE  lock'[calls'[d].by] = d /\ members'[calls'[d].by] # NoRow /\ members'[calls'[d].by].team = NoTeam
    BY DEF HoldersFree, Holding
  <2>1. d # c /\ calls'[d] = calls[d] /\ Holding(d)
    BY <1>3 DEF Holding, None
  <2>2. /\ lock[calls[d].by] = d /\ calls[d].by \in Users
        /\ members[calls[d].by] # NoRow /\ members[calls[d].by].team = NoTeam
    BY <1>1, <2>1, Begun DEF IInv, HoldersFree, Holding, None
  <2>3. calls[d].by # u
    BY <2>1, <2>2 DEF Numbered
  <2>. QED  BY <1>2, <1>3, <2>1, <2>2, <2>3
<1>. QED  BY <1>2, <1>3, <1>4

\* A row that is moved to a team is the row with that team.
LEMMA MovedTo ==
  ASSUME TypeOK, NEW u \in Users, members[u] # NoRow, NEW t \in Nat, members' = [members EXCEPT ![u].team = t]
  PROVE  \E row \in Row : row.team = t /\ row.label = members[u].label /\ members' = [members EXCEPT ![u] = row]
<1>1. members \in [Users -> Row] /\ members[u] \in [team : Nat, label : Labels]
  BY DEF TypeOK, Row
<1>2. [members[u] EXCEPT !.team = t] = [team |-> t, label |-> members[u].label]
  BY <1>1
<1>3. members[u].label \in Labels
  BY <1>1
<1>4. members' = [members EXCEPT ![u] = [members[u] EXCEPT !.team = t]]
  OBVIOUS
<1>. QED  BY <1>2, <1>3, <1>4 DEF Row

\* A row whose label nobody in its team is shown by keeps the labels apart.
LEMMA LabelsKept ==
  ASSUME TypeOK, LabelsApart, NEW u \in Users, members' \in [Users -> Row],
         \A v \in Users \ {u} : members'[v] = members[v],
         members'[u].team = NoTeam \/ ~Taken(members'[u].team, members'[u].label, u)
  PROVE  LabelsApart'
<1>. SUFFICES ASSUME NEW v \in Users, NEW w \in Users \ {v}, members'[v].team # NoTeam,
                     members'[w] = [team |-> members'[v].team, label |-> members'[v].label]
              PROVE  FALSE
  BY DEF LabelsApart, Taken
<1>1. members'[v] # NoRow
  BY DEF NoRow
<1>2. members'[v] \in [team : Nat, label : Labels]
  BY <1>1 DEF Row
<1>3. members'[v] = [team |-> members'[v].team, label |-> members'[v].label]
  BY <1>2
<1>4. members'[w].team = members'[v].team /\ members'[w].label = members'[v].label /\ members'[w] = members'[v]
  BY <1>3
<1>5. CASE v = u
  <2>1. members[w] = [team |-> members'[u].team, label |-> members'[u].label]
    BY <1>5
  <2>. QED  BY <1>5, <2>1 DEF Taken
<1>6. CASE w = u
  <2>1. members[v] = [team |-> members'[u].team, label |-> members'[u].label]
    BY <1>3, <1>4, <1>6
  <2>. QED  BY <1>4, <1>6, <2>1 DEF Taken
<1>7. CASE v # u /\ w # u
  BY <1>7 DEF LabelsApart, Taken
<1>. QED  BY <1>5, <1>6, <1>7

LEMMA SignUpInv == ASSUME IInv, NEW u \in Users, SignUp(u) PROVE IInv'
<1>1. PICK l \in Labels : members' = [members EXCEPT ![u] = [team |-> NoTeam, label |-> l]]
  BY DEF SignUp
<1>2. /\ TypeOK /\ members[u] = NoRow /\ members[u].team = NoTeam
      /\ UNCHANGED <<teams, issued, calls, lock, left, demand>>
  BY DEF SignUp, IInv, NoRow
<1>3. /\ members' \in [Users -> Row] /\ members'[u].team = NoTeam
      /\ \A v \in Users \ {u} : members'[v] = members[v]
  BY <1>1, <1>2 DEF TypeOK, Row, NoTeam
<1>4. TypeOK'
  BY <1>2, <1>3 DEF TypeOK
<1>5. TeamsExist'
  BY <1>2, <1>3 DEF IInv, TeamsExist
<1>6. HoldersFree'
  <2>. SUFFICES ASSUME NEW d \in Slots, Holding(d)
                PROVE  lock[calls[d].by] = d /\ members'[calls[d].by] # NoRow /\ members'[calls[d].by].team = NoTeam
    BY <1>2 DEF HoldersFree, Holding
  <2>1. /\ lock[calls[d].by] = d /\ calls[d].by \in Users
        /\ members[calls[d].by] # NoRow /\ members[calls[d].by].team = NoTeam
    BY <1>2, Begun DEF IInv, HoldersFree, Holding, None
  <2>. QED  BY <1>2, <1>3, <2>1
<1>7. DeadForGood' /\ CodesIssued' /\ OldCodesDead'
  BY <1>2 DEF IInv, DeadForGood, CodesIssued, OldCodesDead
<1>8. NoneStranded'
  <2>1. \A t \in DOMAIN teams : t # NoTeam
    BY <1>2 DEF TypeOK, NoTeam
  <2>. QED  BY <1>2, <1>3, <2>1 DEF IInv, NoneStranded
<1>9. LabelsApart'
  BY <1>2, <1>3, LabelsKept DEF IInv
<1>. QED  BY <1>4, <1>5, <1>6, <1>7, <1>8, <1>9 DEF IInv

LEMMA CreateInv == ASSUME Numbered, IInv, NEW c \in Slots, CreateTeam(c) PROVE IInv'
<1>. DEFINE u == calls[c].by  new == Len(teams) + 1
<1>1. /\ TypeOK /\ calls[c] # None /\ calls[c] \in Call /\ u \in Users /\ Holding(c)
      /\ lock[u] = c /\ members[u] # NoRow /\ members[u].team = NoTeam /\ members[u] \in Row
  BY Begun DEF IInv, CreateTeam, None, HoldersFree, Holding
<1>2. /\ teams' = Append(teams, [code |-> issued + 1, by |-> u]) /\ issued' = issued + 1
      /\ members' = [members EXCEPT ![u].team = new]
      /\ calls' = Ended(c) /\ lock' = Unlocked(c) /\ UNCHANGED <<left, demand>>
  BY DEF CreateTeam
<1>3. /\ issued \in Nat /\ teams \in Seq(Team) /\ Len(teams) \in Nat /\ [code |-> issued + 1, by |-> u] \in Team
      /\ left \subseteq 1..Len(teams)
  BY <1>1 DEF TypeOK, Team
<1>4. /\ teams' \in Seq(Team) /\ Len(teams') = new /\ issued' \in Nat /\ teams'[new].code = issued + 1
      /\ \A t \in 1..Len(teams) : teams'[t] = teams[t]
  BY <1>2, <1>3
<1>5. PICK row \in Row : row.team = new /\ members' = [members EXCEPT ![u] = row]
  <2>1. new \in Nat
    BY <1>3
  <2>. QED  BY <1>1, <1>2, <2>1, MovedTo
<1>6. /\ members' \in [Users -> Row] /\ members'[u].team = new /\ \A v \in Users \ {u} : members'[v] = members[v]
      /\ calls' \in [Slots -> Call \union {None}] /\ lock' \in [Users -> Slots \union {Free}]
      /\ calls'[c] = None /\ \A d \in Slots \ {c} : calls'[d] = calls[d]
      /\ HoldersFree'
  <2>1. u \in Users /\ lock[u] \in {Free, c} /\ calls' = Ended(c) /\ lock' = Unlocked(c)
    BY <1>1, <1>2
  <2>2. /\ members' \in [Users -> Row] /\ members'[u] = row /\ \A v \in Users \ {u} : members'[v] = members[v]
        /\ calls' \in [Slots -> Call \union {None}] /\ lock' \in [Users -> Slots \union {Free}]
        /\ calls'[c] = None /\ \A d \in Slots \ {c} : calls'[d] = calls[d]
        /\ HoldersFree'
    BY <1>5, <2>1, OneRow
  <2>. QED  BY <1>5, <2>2
<1>7. TypeOK'
  BY <1>1, <1>2, <1>3, <1>4, <1>6 DEF TypeOK
<1>8. TeamsExist'
  <2>1. \A v \in Users : members'[v].team \in 0..Len(teams')
    BY <1>3, <1>4, <1>6 DEF IInv, TeamsExist
  <2>2. ASSUME NEW d \in Slots, calls'[d].op \in {"join", "rotate"}, calls'[d].pc = "found"
        PROVE  calls'[d].team \in 1..Len(teams')
    <3>1. d # c /\ calls'[d] = calls[d]
      BY <1>6, <2>2 DEF None
    <3>2. calls[d].team \in 1..Len(teams)
      BY <2>2, <3>1 DEF IInv, TeamsExist
    <3>. QED  BY <1>3, <1>4, <3>1, <3>2
  <2>. QED  BY <2>1, <2>2 DEF TeamsExist
<1>9. CodesIssued' /\ DeadForGood'
  <2>1. CodesIssued'
    <3>. SUFFICES ASSUME NEW t \in 1..new PROVE teams'[t].code \in 1..(issued + 1)
      BY <1>2, <1>4 DEF CodesIssued
    <3>1. CASE t = new
      BY <1>3, <1>4, <3>1
    <3>2. CASE t \in 1..Len(teams)
      BY <1>3, <1>4, <3>2 DEF IInv, CodesIssued
    <3>. QED  BY <1>3, <3>1, <3>2
  <2>2. DeadForGood'
    <3>. SUFFICES ASSUME NEW s \in Slots, calls'[s] # None, NEW d \in calls'[s].dead
                  PROVE  d \in 1..issued' /\ \A t \in 1..new : teams'[t].code # d
      BY <1>4 DEF DeadForGood
    <3>1. d \in 1..issued /\ \A t \in 1..Len(teams) : teams[t].code # d
      BY <1>6 DEF IInv, DeadForGood
    <3>. QED  BY <1>2, <1>3, <1>4, <3>1
  <2>. QED  BY <2>1, <2>2
<1>10. NoneStranded'
  <2>. SUFFICES ASSUME NEW t \in 1..new, t \notin left PROVE \E v \in Users : members'[v].team = t
    BY <1>2, <1>4 DEF NoneStranded
  <2>1. CASE t = new
    BY <1>1, <1>6, <2>1
  <2>2. CASE t \in 1..Len(teams)
    BY <1>1, <1>3, <1>6, <2>2 DEF IInv, NoneStranded, NoTeam
  <2>. QED  BY <1>3, <2>1, <2>2
<1>11. LabelsApart'
  <2>1. ~Taken(members'[u].team, members'[u].label, u)
    BY <1>3, <1>6 DEF IInv, TeamsExist, Taken
  <2>. QED  BY <1>1, <1>6, <2>1, LabelsKept DEF IInv
<1>12. OldCodesDead'
  BY <1>6 DEF IInv, OldCodesDead, None
<1>. QED  BY <1>6, <1>7, <1>8, <1>9, <1>10, <1>11, <1>12 DEF IInv
LEMMA JoinInv == ASSUME Numbered, IInv, NEW c \in Slots, JoinTeam(c) PROVE IInv'
<1>. DEFINE u == calls[c].by  t == calls[c].team
<1>1. /\ TypeOK /\ calls[c] # None /\ u \in Users /\ t \in Nat /\ t \in 1..Len(teams)
      /\ lock[u] = c /\ members[u] # NoRow /\ members[u].team = NoTeam /\ demand \in Demand
  BY Begun DEF IInv, JoinTeam, None, HoldersFree, Holding, TeamsExist, TypeOK
<1>2. calls' = Ended(c) /\ lock' = Unlocked(c) /\ UNCHANGED <<teams, issued, left, demand>>
  BY DEF JoinTeam
<1>3. CASE UNCHANGED members
  BY <1>1, <1>2, <1>3, EndInv
<1>4. CASE ~Taken(t, members[u].label, u) /\ members' = [members EXCEPT ![u].team = t]
  <2>1. PICK row \in Row : row.team = t /\ row.label = members[u].label /\ members' = [members EXCEPT ![u] = row]
    BY <1>1, <1>4, MovedTo
  <2>2. /\ members' \in [Users -> Row] /\ members'[u] = row /\ \A v \in Users \ {u} : members'[v] = members[v]
        /\ calls' \in [Slots -> Call \union {None}] /\ lock' \in [Users -> Slots \union {Free}]
        /\ calls'[c] = None /\ \A d \in Slots \ {c} : calls'[d] = calls[d]
        /\ HoldersFree'
    BY <1>1, <1>2, <2>1, OneRow
  <2>3. TypeOK' /\ TeamsExist'
    <3>1. TypeOK'
      BY <1>1, <1>2, <2>2 DEF TypeOK
    <3>2. teams \in Seq(Team) /\ t \in 0..Len(teams)
      BY <1>1 DEF TypeOK
    <3>. QED  BY <1>2, <2>1, <2>2, <3>1, <3>2 DEF IInv, TeamsExist, None
  <2>4. CodesIssued' /\ DeadForGood' /\ OldCodesDead'
    BY <1>2, <2>2 DEF IInv, CodesIssued, DeadForGood, OldCodesDead, None
  <2>5. NoneStranded'
    <3>1. \A x \in DOMAIN teams : x # NoTeam
      BY <1>1 DEF TypeOK, NoTeam
    <3>. QED  BY <1>1, <1>2, <2>2, <3>1 DEF IInv, NoneStranded
  <2>6. LabelsApart'
    <3>1. ~Taken(members'[u].team, members'[u].label, u)
      BY <1>4, <2>1, <2>2 DEF Taken
    <3>. QED  BY <1>1, <2>2, <3>1, LabelsKept DEF IInv
  <2>. QED  BY <2>2, <2>3, <2>4, <2>5, <2>6 DEF IInv
<1>. QED  BY <1>3, <1>4 DEF JoinTeam

LEMMA LeaveInv == ASSUME Numbered, IInv, NEW c \in Slots, LeaveTeam(c) PROVE IInv'
<1>. DEFINE u == calls[c].by
<1>1. /\ TypeOK /\ calls[c] # None /\ u \in Users /\ lock[u] = Free /\ demand \in Demand
      /\ calls' = Ended(c) /\ UNCHANGED <<teams, issued, lock, demand>>
  BY Begun DEF IInv, LeaveTeam, None, TypeOK
<1>2. CASE UNCHANGED <<members, left>>
  BY <1>1, <1>2, EndInv
<1>3. CASE /\ members[u] # NoRow /\ members' = [members EXCEPT ![u].team = NoTeam]
           /\ left' = left \union ({members[u].team} \ {NoTeam})
  <2>1. PICK row \in Row : row.team = NoTeam /\ members' = [members EXCEPT ![u] = row]
    <3>1. NoTeam \in Nat
      BY DEF NoTeam
    <3>. QED  BY <1>1, <1>3, <3>1, MovedTo
  <2>2. /\ members' \in [Users -> Row] /\ members'[u] = row /\ \A v \in Users \ {u} : members'[v] = members[v]
        /\ calls' \in [Slots -> Call \union {None}] /\ lock' \in [Users -> Slots \union {Free}]
        /\ calls'[c] = None /\ \A d \in Slots \ {c} : calls'[d] = calls[d]
        /\ HoldersFree'
    BY <1>1, <2>1, OneRow
  <2>3. /\ members[u].team \in 0..Len(teams) /\ NoTeam = 0 /\ teams \in Seq(Team) /\ Len(teams) \in Nat
        /\ left \subseteq 1..Len(teams)
    BY <1>1 DEF IInv, TeamsExist, NoTeam, TypeOK
  <2>4. left' \subseteq DOMAIN teams
    BY <1>3, <2>3
  <2>5. TypeOK' /\ TeamsExist'
    <3>1. TypeOK'
      BY <1>1, <2>2, <2>4 DEF TypeOK
    <3>. QED  BY <1>1, <2>1, <2>2, <2>3, <3>1 DEF IInv, TeamsExist, None
  <2>6. CodesIssued' /\ DeadForGood' /\ OldCodesDead'
    BY <1>1, <2>2 DEF IInv, CodesIssued, DeadForGood, OldCodesDead, None
  <2>7. NoneStranded'
    BY <1>1, <1>3, <2>2, <2>3 DEF IInv, NoneStranded
  <2>8. LabelsApart'
    BY <1>1, <2>1, <2>2, LabelsKept DEF IInv
  <2>. QED  BY <2>2, <2>5, <2>6, <2>7, <2>8 DEF IInv
<1>. QED  BY <1>2, <1>3 DEF LeaveTeam
LEMMA RotateInv == ASSUME Numbered, IInv, NEW c \in Slots, RotateCode(c) PROVE IInv'
<1>. DEFINE x == calls[c].team
<1>1. /\ TypeOK /\ calls[c] # None /\ x \in 1..Len(teams) /\ teams \in Seq(Team) /\ issued \in Nat
      /\ calls' = Ended(c) /\ issued' = issued + 1 /\ UNCHANGED <<members, lock, left, demand>>
  BY DEF IInv, RotateCode, TeamsExist, TypeOK, None
<1>2. /\ teams' \in Seq(Team) /\ Len(teams') = Len(teams) /\ DOMAIN teams' = DOMAIN teams
      /\ teams'[x].code = issued + 1 /\ \A t \in 1..Len(teams) : t # x => teams'[t] = teams[t]
  <2>1. teams' = [teams EXCEPT ![x] = [teams[x] EXCEPT !.code = issued + 1]]
    BY DEF RotateCode
  <2>2. teams[x] \in [code : Nat, by : Users]
    <3>1. teams[x] \in Team
      BY <1>1
    <3>. QED  BY <3>1 DEF Team
  <2>3. [teams[x] EXCEPT !.code = issued + 1] = [code |-> issued + 1, by |-> teams[x].by] /\ teams[x].by \in Users
    BY <2>2
  <2>4. [code |-> issued + 1, by |-> teams[x].by] \in Team
    BY <1>1, <2>3 DEF Team
  <2>. QED  BY <1>1, <2>1, <2>3, <2>4
<1>3. /\ calls' \in [Slots -> Call \union {None}] /\ calls'[c] = None /\ \A d \in Slots \ {c} : calls'[d] = calls[d]
  BY <1>1, Ends
<1>4. TypeOK' /\ TeamsExist'
  <2>1. TypeOK'
    BY <1>1, <1>2, <1>3 DEF TypeOK
  <2>. QED  BY <1>1, <1>2, <1>3, <2>1 DEF IInv, TeamsExist, None
<1>5. HoldersFree'
  BY <1>1, <1>3 DEF IInv, HoldersFree, Holding, None
<1>6. CodesIssued'
  <2>. SUFFICES ASSUME NEW t \in 1..Len(teams) PROVE teams'[t].code \in 1..(issued + 1)
    BY <1>1, <1>2 DEF CodesIssued
  <2>1. CASE t = x
    BY <1>1, <1>2, <2>1
  <2>2. CASE t # x
    BY <1>1, <1>2, <2>2 DEF IInv, CodesIssued
  <2>. QED  BY <2>1, <2>2
<1>7. DeadForGood'
  <2>. SUFFICES ASSUME NEW s \in Slots, calls'[s] # None, NEW d \in calls'[s].dead
                PROVE  d \in 1..issued' /\ \A t \in 1..Len(teams) : teams'[t].code # d
    BY <1>2 DEF DeadForGood
  <2>1. d \in 1..issued /\ \A t \in 1..Len(teams) : teams[t].code # d
    BY <1>3 DEF IInv, DeadForGood
  <2>. QED  BY <1>1, <1>2, <2>1
<1>8. NoneStranded' /\ LabelsApart' /\ OldCodesDead'
  BY <1>1, <1>2, <1>3 DEF IInv, NoneStranded, LabelsApart, Taken, OldCodesDead, None
<1>. QED  BY <1>4, <1>5, <1>6, <1>7, <1>8 DEF IInv

LEMMA RenameInv == ASSUME Numbered, IInv, NEW c \in Slots, Rename(c) PROVE IInv'
<1>. DEFINE u == calls[c].by  l == calls[c].label
<1>1. /\ TypeOK /\ calls[c] # None /\ u \in Users /\ lock[u] = Free /\ demand \in Demand
      /\ l \in Labels \union {"none"} /\ calls' = Ended(c) /\ UNCHANGED <<teams, issued, left, lock, demand>>
  BY Begun DEF IInv, Rename, None, TypeOK
<1>2. CASE UNCHANGED members
  BY <1>1, <1>2, EndInv
<1>3. CASE /\ members[u] # NoRow /\ ~Taken(members[u].team, l, u) /\ members' = [members EXCEPT ![u].label = l]
  <2>1. PICK row \in Row : row.team = members[u].team /\ row.label = l /\ members' = [members EXCEPT ![u] = row]
    <3>1. members[u] \in [team : Nat, label : Labels]
      BY <1>1, <1>3 DEF TypeOK, Row
    <3>2. [members[u] EXCEPT !.label = l] = [team |-> members[u].team, label |-> l] /\ members[u].team \in Nat
      BY <3>1
    <3>3. members' = [members EXCEPT ![u] = [members[u] EXCEPT !.label = l]]
      BY <1>3
    <3>4. l \in Labels
      BY <1>1, Begun DEF Rename, Call
    <3>. QED  BY <3>2, <3>3, <3>4 DEF Row
  <2>2. /\ members' \in [Users -> Row] /\ members'[u] = row /\ \A v \in Users \ {u} : members'[v] = members[v]
        /\ calls' \in [Slots -> Call \union {None}] /\ lock' \in [Users -> Slots \union {Free}]
        /\ calls'[c] = None /\ \A d \in Slots \ {c} : calls'[d] = calls[d]
        /\ HoldersFree'
    BY <1>1, <2>1, OneRow
  <2>3. TypeOK'
    BY <1>1, <2>2 DEF TypeOK
  <2>4. TeamsExist' /\ NoneStranded'
    BY <1>1, <2>1, <2>2 DEF IInv, TeamsExist, NoneStranded, None
  <2>5. CodesIssued' /\ DeadForGood' /\ OldCodesDead'
    BY <1>1, <2>2 DEF IInv, CodesIssued, DeadForGood, OldCodesDead, None
  <2>6. LabelsApart'
    <3>1. ~Taken(members'[u].team, members'[u].label, u)
      BY <1>3, <2>1, <2>2 DEF Taken
    <3>. QED  BY <1>1, <2>2, <3>1, LabelsKept DEF IInv
  <2>. QED  BY <2>2, <2>3, <2>4, <2>5, <2>6 DEF IInv
<1>. QED  BY <1>2, <1>3 DEF Rename
LEMMA CancelInv == ASSUME IInv, NEW c \in Slots, Cancel(c) PROVE IInv'
<1>1. demand' \in Demand
  BY DEF IInv, TypeOK, Cancel, Spend, Demand
<1>. QED  BY <1>1, EndInv DEF Cancel

LEMMA Inductive == ASSUME Numbered, IInv, [Next]_vars PROVE IInv'
<1>1. CASE \E u \in Users : SignUp(u) \/ Request(u)
  BY <1>1, SignUpInv, RequestInv
<1>2. CASE \E c \in Slots : Lock(c) \/ FindTeam(c) \/ ReadTeam(c) \/ BeginRename(c)
  BY <1>2, LockInv, FindInv
<1>3. CASE \E c \in Slots : CreateTeam(c) \/ JoinTeam(c) \/ LeaveTeam(c) \/ RotateCode(c) \/ Rename(c)
  BY <1>3, CreateInv, JoinInv, LeaveInv, RotateInv, RenameInv
<1>4. CASE \E c \in Slots : Cancel(c)
  BY <1>4, CancelInv
<1>5. CASE UNCHANGED vars
  BY <1>5 DEF vars, IInv, TypeOK, TeamsExist, HoldersFree, Holding, DeadForGood, CodesIssued,
     NoneStranded, LabelsApart, Taken, OldCodesDead
<1>. QED  BY <1>1, <1>2, <1>3, <1>4, <1>5 DEF Next, ServerStep

LEMMA Always == ASSUME Numbered PROVE Spec => []IInv
<1>1. Init => IInv
  BY InitInv
<1>2. IInv /\ [Next]_vars => IInv'
  BY Inductive
<1>. QED  BY <1>1, <1>2, PTL DEF Spec

\* The rows, the teams and the calls under way keep their types (init.sql,
\* teams and members).
THEOREM TypeCorrect == ASSUME Numbered PROVE Spec => []TypeOK
<1>1. IInv => TypeOK
  BY DEF IInv
<1>. QED  BY <1>1, Always, PTL

\* However many calls are under way, a team that nobody is in was left by
\* somebody (create_team, join_team, leave_team).
THEOREM NeverStranded == ASSUME Numbered PROVE Spec => []NoneStranded
<1>1. IInv => NoneStranded
  BY DEF IInv
<1>. QED  BY <1>1, Always, PTL

\* Two members of a team are never shown by one label (join_team beside
\* members_update_self).
THEOREM LabelsAlwaysApart == ASSUME Numbered PROVE Spec => []LabelsApart
<1>1. IInv => LabelsApart
  BY DEF IInv
<1>. QED  BY <1>1, Always, PTL

\* A code that was replaced before a call was made opens no team to it
\* (rotate_invite_code beside join_team).
THEOREM OldCodesStayDead == ASSUME Numbered PROVE Spec => []OldCodesDead
<1>1. IInv => OldCodesDead
  BY DEF IInv
<1>. QED  BY <1>1, Always, PTL

\* Nobody changes from one team to another without having left (the guards of
\* create_team and join_team with the lock of the caller's row).
THEOREM NobodyHops == ASSUME Numbered PROVE Spec => [][NoHop]_vars
<1>1. ASSUME IInv, Next PROVE NoHop
  <2>. SUFFICES ASSUME NEW u \in Users, members[u].team # NoTeam PROVE members'[u].team \in {members[u].team, NoTeam}
    BY DEF NoHop
  <2>0. TypeOK /\ members \in [Users -> Row]
    BY <1>1 DEF IInv, TypeOK
  <2>1. ASSUME NEW c \in Slots, CreateTeam(c) \/ JoinTeam(c) PROVE members'[u] = members[u]
    <3>1. Holding(c) /\ calls[c].by \in Users
      BY <2>0, <2>1, Begun DEF CreateTeam, JoinTeam, Holding, None
    <3>2. calls[c].by # u
      BY <1>1, <3>1 DEF IInv, HoldersFree
    <3>. QED  BY <2>0, <2>1, <3>1, <3>2 DEF CreateTeam, JoinTeam
  <2>2. ASSUME NEW c \in Slots, LeaveTeam(c) PROVE members'[u].team \in {members[u].team, NoTeam}
    <3>1. CASE UNCHANGED members
      BY <3>1
    <3>2. CASE members[calls[c].by] # NoRow /\ members' = [members EXCEPT ![calls[c].by].team = NoTeam]
      <4>1. calls[c].by \in Users /\ NoTeam \in Nat
        BY <2>0, <2>2, Begun DEF LeaveTeam, None, NoTeam
      <4>2. PICK row \in Row : row.team = NoTeam /\ members' = [members EXCEPT ![calls[c].by] = row]
        BY <2>0, <3>2, <4>1, MovedTo
      <4>. QED  BY <2>0, <4>1, <4>2
    <3>. QED  BY <2>2, <3>1, <3>2 DEF LeaveTeam
  <2>3. ASSUME NEW c \in Slots, Rename(c) PROVE members'[u].team = members[u].team
    <3>1. CASE UNCHANGED members
      BY <3>1
    <3>2. CASE members' = [members EXCEPT ![calls[c].by].label = calls[c].label]
      BY <2>0, <3>2 DEF Row
    <3>. QED  BY <2>3, <3>1, <3>2 DEF Rename
  <2>4. ASSUME NEW v \in Users, SignUp(v) PROVE members'[u] = members[u]
    <3>1. v # u
      BY <2>4 DEF SignUp, NoRow
    <3>. QED  BY <2>0, <2>4, <3>1 DEF SignUp
  <2>5. ASSUME \/ \E v \in Users : Request(v)
               \/ \E c \in Slots : \/ Lock(c) \/ FindTeam(c) \/ ReadTeam(c) \/ RotateCode(c)
                                  \/ BeginRename(c) \/ Cancel(c)
        PROVE  members'[u] = members[u]
    BY <2>5 DEF Request, Send, Lock, FindTeam, ReadTeam, RotateCode, BeginRename, Cancel
  <2>. QED  BY <1>1, <2>1, <2>2, <2>3, <2>4, <2>5 DEF Next, ServerStep
<1>2. IInv /\ [Next]_vars => [NoHop]_vars
  BY <1>1
<1>. QED  BY <1>2, Always, PTL DEF Spec
=============================================================================
