-------------------------- MODULE CycleSync_proofs --------------------------
(***************************************************************************)
(* Theorems about CycleSync for every number of accounts, teams, cycles    *)
(* and contents, and every bound.                                          *)
(***************************************************************************)
EXTENDS CycleSync, TLAPS

(* What a running job owes to its kind of step: it acts for some team, a   *)
(* request is under way only while it waits for the answer, and its        *)
(* versions are those of state.json or later ones.                         *)
JobOK ==
  \A u \in Users :
    /\ pc[u] # "idle" => mem[u].team \in Teams
    /\ tx[u] # NoTx => pc[u] = "sent"
    /\ pc[u] # "idle" => \A k \in Keys : disk[u].versions[k] <= mem[u].versions[k]

TypeInv == TypeOK /\ JobOK
HonestInv == TypeInv /\ VersionsHonest

LEMMA EmptyStateType == \A t \in Teams \union {NoTeam} : EmptyState(t) \in CacheState
BY DEF EmptyState, CacheState

LEMMA NoRowFacts == NoRow.ts = 0 /\ NoTx.status = "none" /\ NoTx \notin Tx
BY DEF NoRow, NoTx, Tx

(* Replacing one field of a state record, or using up some of a bound.     *)
LEMMA RecordUpdates ==
  ASSUME NEW s \in CacheState
  PROVE  /\ \A t \in Teams \union {NoTeam} : [s EXCEPT !.team = t] \in CacheState
         /\ \A k \in Keys, n \in Nat : [s EXCEPT !.versions[k] = n] \in CacheState
         /\ \A c \in Cycles, v \in Contents : [s EXCEPT !.pushed[c] = v] \in CacheState
         /\ \A n \in Nat : [s EXCEPT !.watermark = n] \in CacheState
<1>1. ASSUME NEW t \in Teams \union {NoTeam} PROVE [s EXCEPT !.team = t] \in CacheState
  BY DEF CacheState
<1>2. ASSUME NEW k \in Keys, NEW n \in Nat PROVE [s EXCEPT !.versions[k] = n] \in CacheState
  BY DEF CacheState
<1>3. ASSUME NEW c \in Cycles, NEW v \in Contents
      PROVE  [s EXCEPT !.pushed[c] = v] \in CacheState
  BY DEF CacheState
<1>4. ASSUME NEW n \in Nat PROVE [s EXCEPT !.watermark = n] \in CacheState
  BY DEF CacheState
<1>. QED  BY <1>1, <1>2, <1>3, <1>4

LEMMA SpentUpdates ==
  ASSUME NEW s \in Spent
  PROVE  /\ [s EXCEPT !.edits = @ + 1] \in Spent
         /\ [s EXCEPT !.joins = @ + 1] \in Spent
         /\ [s EXCEPT !.leaves = @ + 1] \in Spent
         /\ [s EXCEPT !.faults = @ + 1] \in Spent
BY DEF Spent

(* The initial states are well typed, and no job runs in them.             *)
LEMMA InitTypeInv == Init => TypeInv
<1>. SUFFICES ASSUME Init PROVE TypeInv
  OBVIOUS
<1>. USE EmptyStateType, NoRowFacts
<1>1. TypeOK
  BY TeamsAssumption DEF Init, TypeOK, Spent
<1>2. JobOK
  BY DEF Init, JobOK
<1>. QED  BY <1>1, <1>2 DEF TypeInv

(* Ending a job with a well typed record keeps the types of the variables  *)
(* it assigns and leaves no request behind.                                *)
LEMMA EndJobType ==
  ASSUME TypeInv, NEW u \in Users, NEW s \in CacheState, EndJob(u, s)
  PROVE  /\ disk' \in [Users -> CacheState]
         /\ mem' \in [Users -> CacheState]
         /\ pc' \in [Users -> {"idle", "push", "sent", "fetch", "apply"}]
         /\ kind' \in [Users -> {"tick", "save"}]
         /\ todo' \in [Users -> SUBSET Cycles]
         /\ tx' \in [Users -> Tx \union {NoTx}]
         /\ rows' \in [Users -> SUBSET Row]
         /\ mark' \in [Users -> Nat]
         /\ JobOK'
<1>1. EmptyState(NoTeam) \in CacheState
  BY EmptyStateType
<1>2. /\ disk' \in [Users -> CacheState]
      /\ mem' \in [Users -> CacheState]
      /\ pc' \in [Users -> {"idle", "push", "sent", "fetch", "apply"}]
      /\ kind' \in [Users -> {"tick", "save"}]
      /\ todo' \in [Users -> SUBSET Cycles]
      /\ tx' \in [Users -> Tx \union {NoTx}]
      /\ rows' \in [Users -> SUBSET Row]
      /\ mark' \in [Users -> Nat]
  BY <1>1 DEF EndJob, TypeInv, TypeOK
<1>3. JobOK'
  <2>. SUFFICES ASSUME NEW v \in Users
                PROVE  /\ pc'[v] # "idle" => mem'[v].team \in Teams
                       /\ tx'[v] # NoTx => pc'[v] = "sent"
                       /\ pc'[v] # "idle" =>
                            \A k \in Keys : disk'[v].versions[k] <= mem'[v].versions[k]
    BY DEF JobOK
  <2>1. CASE v = u
    BY <2>1 DEF EndJob, TypeInv, TypeOK
  <2>2. CASE v # u
    BY <2>2 DEF EndJob, TypeInv, TypeOK, JobOK
  <2>. QED  BY <2>1, <2>2
<1>. QED  BY <1>2, <1>3

(* What an account sees are rows of the table.                             *)
LEMMA VisibleType == ASSUME TypeOK, NEW u \in Users PROVE Visible(u) \subseteq Row
BY DEF TypeOK, Visible

LEMMA LatestType == ASSUME NEW R \in SUBSET Row, NEW w \in Latest(R) PROVE w \in Nat
BY DEF Latest, Row

(***************************************************************************)
(* TypeInv is inductive.                                                   *)
(***************************************************************************)
LEMMA TypeInvStep == TypeInv /\ [Next]_vars => TypeInv'
<1>. SUFFICES ASSUME TypeInv, [Next]_vars PROVE TypeInv'
  OBVIOUS
<1>. USE DEF TypeInv
<1>u. CASE UNCHANGED vars
  BY <1>u DEF vars, server, job, TypeOK, JobOK
<1>n. ASSUME NEW u \in Users,
             UserStep(u) \/ StartTick(u) \/ JobStep(u) \/ Fail(u) \/ Crash(u)
      PROVE  TypeInv'
  <2>1. ASSUME NEW c \in Cycles, Edit(u, c) PROVE TypeInv'
    <3>0. /\ file' \in [Users -> [Cycles -> Contents \union {NoContent}]]
          /\ spent' \in Spent
      <4>1. PICK v \in Contents \ {file[u][c]} : file' = [file EXCEPT ![u][c] = v]
        BY <2>1 DEF Edit
      <4>2. spent' \in Spent
        BY <2>1, SpentUpdates DEF Edit, TypeOK
      <4>. QED  BY <4>1, <4>2 DEF TypeOK
    <3>1. TypeOK'
      BY <2>1, <3>0 DEF Edit, server, job, TypeOK
    <3>2. JobOK'
      BY <2>1 DEF Edit, server, job, JobOK
    <3>. QED  BY <3>1, <3>2
  <2>2. ASSUME NEW c \in Cycles, StartSave(u, c) PROVE TypeInv'
    <3>0. [disk[u] EXCEPT !.team = session[u]] \in CacheState
      BY RecordUpdates DEF TypeOK
    <3>1. TypeOK'
      BY <2>2, <3>0 DEF StartSave, Gate, server, TypeOK
    <3>2. JobOK'
      BY <2>2 DEF StartSave, Gate, server, TypeOK, CacheState, JobOK
    <3>. QED  BY <3>1, <3>2
  <2>3. ASSUME NEW t \in Teams, Join(u, t) PROVE TypeInv'
    <3>1. TypeOK'
      BY <2>3, SpentUpdates DEF Join, job, TypeOK
    <3>2. JobOK'
      BY <2>3 DEF Join, job, JobOK
    <3>. QED  BY <3>1, <3>2
  <2>4. CASE Leave(u)
    <3>1. TypeOK'
      BY <2>4, SpentUpdates DEF Leave, job, TypeOK
    <3>2. JobOK'
      BY <2>4 DEF Leave, job, JobOK
    <3>. QED  BY <3>1, <3>2
  <2>5. CASE RefreshFacts(u)
    <3>1. TypeOK'
      BY <2>5 DEF RefreshFacts, server, job, TypeOK
    <3>2. JobOK'
      BY <2>5 DEF RefreshFacts, server, job, JobOK
    <3>. QED  BY <3>1, <3>2
  <2>6. CASE StartTick(u)
    <3>0. session[u] \in Teams
      BY <2>6 DEF StartTick, Gate, TypeOK
    <3>1. /\ EmptyState(session[u]) \in CacheState
          /\ [disk[u] EXCEPT !.team = session[u]] \in CacheState
      BY <3>0, EmptyStateType, RecordUpdates DEF TypeOK
    <3>2. TypeOK'
      BY <2>6, <3>1 DEF StartTick, Gate, server, TypeOK
    <3>3. EmptyState(session[u]).team \in Teams
      BY <3>0 DEF EmptyState
    <3>4. JobOK'
      <4>. SUFFICES ASSUME NEW v \in Users
                    PROVE  /\ pc'[v] # "idle" => mem'[v].team \in Teams
                           /\ tx'[v] # NoTx => pc'[v] = "sent"
                           /\ pc'[v] # "idle" =>
                                \A k \in Keys : disk'[v].versions[k] <= mem'[v].versions[k]
        BY DEF JobOK
      <4>1. CASE v # u
        BY <2>6, <4>1 DEF StartTick, Gate, server, TypeOK, JobOK
      <4>2. CASE v = u
        <5>1. tx[v] = NoTx
          BY <2>6, <4>2 DEF StartTick, Gate, JobOK
        <5>2. \A k \in Keys : disk[u].versions[k] \in Nat
          BY DEF TypeOK, CacheState
        <5>3. \A k \in Keys : EmptyState(session[u]).versions[k] = 0
          BY DEF EmptyState
        <5>4. CASE disk[u].team # NoTeam /\ disk[u].team # session[u]
          BY <2>6, <3>1, <3>3, <4>2, <5>1, <5>3, <5>4 DEF StartTick, Gate, server, TypeOK
        <5>5. CASE ~(disk[u].team # NoTeam /\ disk[u].team # session[u])
          <6>1. mem'[u] = [disk[u] EXCEPT !.team = session[u]] /\ disk'[u] = disk[u]
            BY <2>6, <5>5 DEF StartTick, Gate, TypeOK
          <6>2. mem'[u].team = session[u] /\ mem'[u].versions = disk[u].versions
            BY <6>1 DEF TypeOK, CacheState
          <6>. QED  BY <2>6, <3>0, <4>2, <5>1, <5>2, <6>1, <6>2 DEF StartTick, Gate, TypeOK
        <5>. QED  BY <5>4, <5>5
      <4>. QED  BY <4>1, <4>2
    <3>. QED  BY <3>2, <3>4
  <2>7. ASSUME NEW c \in Cycles, PushSkip(u, c) PROVE TypeInv'
    <3>1. TypeOK'
      BY <2>7 DEF PushSkip, server, TypeOK
    <3>2. JobOK'
      BY <2>7 DEF PushSkip, server, TypeOK, JobOK
    <3>. QED  BY <3>1, <3>2
  <2>8. ASSUME NEW c \in Cycles, PushSend(u, c) PROVE TypeInv'
    <3>1. file[u][c] \in Contents
      BY <2>8 DEF PushSend, UpToDate, TypeOK
    <3>2. TypeOK'
      BY <2>8, <3>1 DEF PushSend, TypeOK, Tx
    <3>3. JobOK'
      BY <2>8 DEF PushSend, TypeOK, JobOK
    <3>. QED  BY <3>2, <3>3
  <2>9. CASE Commit(u)
    <3>1. tx[u] \in Tx /\ mem[u].team \in Teams
      BY <2>9, NoRowFacts DEF Commit, TypeOK, JobOK
    <3>2. [owner |-> u, cycle |-> tx[u].cycle, team |-> mem[u].team,
           content |-> tx[u].content, ts |-> tx[u].ts] \in Row
      BY <3>1 DEF Row, Tx
    <3>3. <<u, tx[u].cycle>> \in Keys
      BY <3>1 DEF Keys, Tx
    <3>4. [tx[u] EXCEPT !.status = "committed"] \in Tx
      BY <3>1 DEF Tx
    <3>5. TypeOK'
      BY <2>9, <3>1, <3>2, <3>3, <3>4 DEF Commit, TypeOK
    <3>6. JobOK'
      BY <2>9, NoRowFacts DEF Commit, TypeOK, JobOK
    <3>. QED  BY <3>5, <3>6
  <2>10. CASE PushAck(u)
    <3>1. tx[u] \in Tx
      BY <2>10, NoRowFacts DEF PushAck, TypeOK
    <3>2. tx[u].cycle \in Cycles /\ tx[u].content \in Contents
      BY <3>1 DEF Tx
    <3>3. mem' \in [Users -> CacheState]
      <4>1. mem'[u] = [mem[u] EXCEPT !.pushed[tx[u].cycle] = tx[u].content]
        BY <2>10 DEF PushAck, TypeOK
      <4>. QED  BY <2>10, <3>2, <4>1, RecordUpdates DEF PushAck, TypeOK
    <3>4. TypeOK'
      BY <2>10, <3>3 DEF PushAck, server, TypeOK
    <3>5. JobOK'
      BY <2>10, <3>2 DEF PushAck, server, TypeOK, CacheState, JobOK
    <3>. QED  BY <3>4, <3>5
  <2>11. ASSUME NEW s \in CacheState, EndJob(u, s),
                UNCHANGED <<file, session, server, cache>>,
                spent' \in Spent
         PROVE  TypeInv'
    BY <2>11, EndJobType DEF server, TypeOK
  <2>12. CASE EndSave(u)
    BY <2>11, <2>12 DEF EndSave, TypeOK
  <2>13. CASE Probe(u)
    <3>1. PICK w \in Latest(Visible(u)) :
            IF w = mem[u].watermark THEN EndJob(u, mem[u])
            ELSE /\ mark' = [mark EXCEPT ![u] = w]
                 /\ pc' = [pc EXCEPT ![u] = "fetch"]
                 /\ UNCHANGED <<disk, mem, kind, todo, tx, rows>>
      BY <2>13 DEF Probe
    <3>2. w \in Nat
      BY VisibleType, LatestType
    <3>3. CASE w = mem[u].watermark
      BY <2>11, <2>13, <3>1, <3>3 DEF Probe, TypeOK
    <3>4. CASE w # mem[u].watermark
      <4>1. TypeOK'
        <5>1. mark' = [mark EXCEPT ![u] = w] /\ pc' = [pc EXCEPT ![u] = "fetch"]
          BY <3>1, <3>4
        <5>2. mark' \in [Users -> Nat]
          BY <3>2, <5>1 DEF TypeOK
        <5>. QED  BY <2>13, <3>1, <3>4, <5>1, <5>2 DEF Probe, server, TypeOK
      <4>2. JobOK'
        BY <2>13, <3>1, <3>4 DEF Probe, server, TypeOK, JobOK
      <4>. QED  BY <4>1, <4>2
    <3>. QED  BY <3>3, <3>4
  <2>14. CASE Fetch(u)
    <3>1. PICK w \in Latest(Visible(u)) :
            mark' = [mark EXCEPT ![u] = IF mark[u] # 0 THEN mark[u]
                                        ELSE Larger(mem[u].watermark, w)]
      BY <2>14 DEF Fetch
    <3>2. w \in Nat
      BY VisibleType, LatestType
    <3>3. TypeOK'
      BY <2>14, <3>1, <3>2, VisibleType DEF Fetch, server, TypeOK, CacheState, Larger
    <3>4. JobOK'
      BY <2>14 DEF Fetch, server, TypeOK, JobOK
    <3>. QED  BY <3>3, <3>4
  <2>15. CASE Apply(u)
    <3>1. PICK r \in rows[u] :
            LET k == <<r.owner, r.cycle>>
                newer == r.ts > mem[u].versions[k]
            IN
            /\ pc[u] = "apply"
            /\ rows' = [rows EXCEPT ![u] = @ \ {r}]
            /\ cache' = IF newer THEN [cache EXCEPT ![u][k] = r] ELSE cache
            /\ mem' = IF newer THEN [mem EXCEPT ![u].versions[k] = r.ts] ELSE mem
            /\ UNCHANGED <<file, session, server, disk, pc, kind, todo, tx, mark, spent>>
      BY <2>15 DEF Apply
    <3>2. r \in Row /\ <<r.owner, r.cycle>> \in Keys /\ r.ts \in Nat
      BY DEF TypeOK, Row, Keys
    <3>3. TypeOK'
      BY <3>1, <3>2 DEF server, TypeOK, CacheState
    <3>4. JobOK'
      <4>1. /\ mem'[u].team = mem[u].team
            /\ \A k \in Keys : mem[u].versions[k] <= mem'[u].versions[k]
            /\ \A v \in Users \ {u} : mem'[v] = mem[v]
        <5>. DEFINE key == <<r.owner, r.cycle>>
        <5>1. \A k \in Keys : mem[u].versions[k] \in Nat
          BY DEF TypeOK, CacheState
        <5>2. CASE r.ts > mem[u].versions[key]
          <6>1. mem' = [mem EXCEPT ![u].versions[key] = r.ts]
            BY <3>1, <5>2
          <6>2. /\ mem'[u].team = mem[u].team
                /\ mem'[u].versions = [mem[u].versions EXCEPT ![key] = r.ts]
                /\ \A v \in Users \ {u} : mem'[v] = mem[v]
            BY <6>1 DEF TypeOK, CacheState
          <6>3. mem[u].versions \in [Keys -> Nat]
            BY DEF TypeOK, CacheState
          <6>. QED  BY <3>2, <5>1, <5>2, <6>2, <6>3
        <5>3. CASE ~(r.ts > mem[u].versions[key])
          BY <3>1, <5>1, <5>3
        <5>. QED  BY <5>2, <5>3
      <4>2. \A k \in Keys : /\ disk[u].versions[k] \in Nat
                            /\ mem[u].versions[k] \in Nat
                            /\ mem'[u].versions[k] \in Nat
        BY <3>3 DEF TypeOK, CacheState
      <4>3. UNCHANGED <<disk, pc, tx>>
        BY <3>1
      <4>4. \A v \in Users \ {u}, k \in Keys :
              pc[v] # "idle" => disk'[v].versions[k] <= mem'[v].versions[k]
        BY <4>1, <4>3 DEF JobOK
      <4>5. \A k \in Keys : pc[u] # "idle" => disk'[u].versions[k] <= mem'[u].versions[k]
        BY <4>1, <4>2, <4>3 DEF JobOK
      <4>. QED  BY <4>1, <4>3, <4>4, <4>5 DEF JobOK
    <3>. QED  BY <3>3, <3>4
  <2>16. CASE EndPull(u)
    <3>1. [mem[u] EXCEPT !.watermark = mark[u]] \in CacheState
      BY RecordUpdates DEF TypeOK
    <3>. QED  BY <2>11, <2>16, <3>1 DEF EndPull, TypeOK
  <2>17. CASE Fail(u)
    BY <2>11, <2>17, SpentUpdates DEF Fail, TypeOK
  <2>18. CASE Crash(u)
    BY <2>11, <2>18, SpentUpdates DEF Crash, TypeOK
  <2>. QED
    BY <1>n, <2>1, <2>2, <2>3, <2>4, <2>5, <2>6, <2>7, <2>8, <2>9, <2>10, <2>12,
       <2>13, <2>14, <2>15, <2>16, <2>17, <2>18 DEF UserStep, JobStep
<1>. QED  BY <1>u, <1>n DEF Next

(* The state record, the request, the fetched rows and the table keep      *)
(* their types in every run (TypeOK), and a running job always acts for a  *)
(* team, holds at most the request it waits for, and knows every version   *)
(* that state.json knows.                                                  *)
THEOREM TypeCorrect == Spec => []TypeOK
<1>1. Spec => []TypeInv
  BY InitTypeInv, TypeInvStep, PTL DEF Spec
<1>2. TypeInv => TypeOK
  BY DEF TypeInv
<1>. QED  BY <1>1, <1>2, PTL

(***************************************************************************)
(* VersionsHonest.  It is inductive beside TypeInv: a job that ends leaves *)
(* the versions it held, Apply raises the file and the version together,   *)
(* and the version in state.json is below both because of JobOK.           *)
(***************************************************************************)
LEMMA HonestStep == HonestInv /\ [Next]_vars => HonestInv'
<1>. SUFFICES ASSUME HonestInv, [Next]_vars PROVE VersionsHonest'
  BY TypeInvStep DEF HonestInv
<1>0. TypeInv /\ TypeInv' /\ VersionsHonest
  BY TypeInvStep DEF HonestInv
<1>a. \A v \in Users, k \in Keys :
        /\ disk[v].versions[k] \in Nat /\ mem[v].versions[k] \in Nat
        /\ cache[v][k].ts \in Nat
  BY <1>0, NoRowFacts DEF TypeInv, TypeOK, CacheState, Row
<1>. DEFINE Same(v) == /\ disk'[v].versions = disk[v].versions
                       /\ mem'[v].versions = mem[v].versions
                       /\ cache'[v] = cache[v]
            Honest(v) == \A k \in Keys : /\ disk'[v].versions[k] <= cache'[v][k].ts
                                         /\ mem'[v].versions[k] <= cache'[v][k].ts
<1>b. \A v \in Users : Same(v) => Honest(v)
  BY <1>0 DEF VersionsHonest
<1>. SUFFICES ASSUME NEW v \in Users PROVE Honest(v)
  BY DEF VersionsHonest
<1>. HIDE DEF Same, Honest
<1>u. CASE UNCHANGED vars
  BY <1>u, <1>b DEF vars, Same
<1>n. ASSUME NEW u \in Users,
             UserStep(u) \/ StartTick(u) \/ JobStep(u) \/ Fail(u) \/ Crash(u)
      PROVE  Honest(v)
  <2>1. CASE UNCHANGED <<disk, mem, cache>>
    BY <2>1, <1>b DEF Same
  <2>2. ASSUME NEW c \in Cycles, StartSave(u, c) PROVE Honest(v)
    <3>1. mem'[u].versions = disk[u].versions
      BY <1>0, <2>2 DEF StartSave, Gate, TypeInv, TypeOK, CacheState
    <3>2. CASE v = u
      BY <1>0, <2>2, <3>1, <3>2 DEF StartSave, Gate, VersionsHonest, Honest
    <3>3. CASE v # u
      BY <1>0, <1>b, <2>2, <3>3 DEF StartSave, Gate, TypeInv, TypeOK, Same
    <3>. QED  BY <3>2, <3>3
  <2>3. CASE StartTick(u)
    <3>1. CASE v # u
      BY <1>0, <1>b, <2>3, <3>1 DEF StartTick, Gate, TypeInv, TypeOK, Same
    <3>2. CASE v = u /\ disk[u].team # NoTeam /\ disk[u].team # session[u]
      <4>1. /\ disk'[u] = EmptyState(session[u]) /\ mem'[u] = EmptyState(session[u])
            /\ cache'[u] = [k \in Keys |-> NoRow]
        BY <1>0, <2>3, <3>2 DEF StartTick, Gate, TypeInv, TypeOK
      <4>2. \A k \in Keys : EmptyState(session[u]).versions[k] = 0
        BY DEF EmptyState
      <4>. QED  BY <3>2, <4>1, <4>2, NoRowFacts DEF Honest
    <3>3. CASE v = u /\ ~(disk[u].team # NoTeam /\ disk[u].team # session[u])
      <4>1. mem'[u] = [disk[u] EXCEPT !.team = session[u]] /\ UNCHANGED <<disk, cache>>
        BY <1>0, <2>3, <3>3 DEF StartTick, Gate, TypeInv, TypeOK
      <4>2. mem'[u].versions = disk[u].versions
        BY <1>0, <4>1 DEF TypeInv, TypeOK, CacheState
      <4>. QED  BY <1>0, <3>3, <4>1, <4>2 DEF VersionsHonest, Honest
    <3>. QED  BY <3>1, <3>2, <3>3
  <2>4. CASE PushAck(u)
    <3>1. mem'[v].versions = mem[v].versions
      BY <1>0, <2>4 DEF PushAck, TypeInv, TypeOK, CacheState
    <3>. QED  BY <1>b, <2>4, <3>1 DEF PushAck, Same
  <2>5. ASSUME NEW s \in CacheState, EndJob(u, s), UNCHANGED cache,
               \A k \in Keys : s.versions[k] <= cache[u][k].ts
        PROVE  Honest(v)
    <3>1. CASE v # u
      BY <1>0, <1>b, <2>5, <3>1 DEF EndJob, TypeInv, TypeOK, Same
    <3>2. CASE v = u
      <4>1. disk'[u] = s /\ mem'[u] = EmptyState(NoTeam) /\ cache' = cache
        BY <1>0, <2>5 DEF EndJob, TypeInv, TypeOK
      <4>2. \A k \in Keys : EmptyState(NoTeam).versions[k] = 0
        BY DEF EmptyState
      <4>. QED  BY <1>a, <2>5, <3>2, <4>1, <4>2 DEF Honest
    <3>. QED  BY <3>1, <3>2
  <2>6. /\ mem[u] \in CacheState /\ disk[u] \in CacheState
        /\ \A k \in Keys : /\ mem[u].versions[k] <= cache[u][k].ts
                           /\ disk[u].versions[k] <= cache[u][k].ts
    BY <1>0 DEF TypeInv, TypeOK, VersionsHonest
  <2>7. CASE EndSave(u)
    BY <2>5, <2>6, <2>7 DEF EndSave
  <2>8. CASE Probe(u)
    <3>1. CASE EndJob(u, mem[u])
      BY <2>5, <2>6, <2>8, <3>1 DEF Probe
    <3>2. CASE UNCHANGED <<disk, mem, cache>>
      BY <2>1, <3>2
    <3>. QED  BY <2>8, <3>1, <3>2 DEF Probe
  <2>9. CASE EndPull(u)
    <3>1. [mem[u] EXCEPT !.watermark = mark[u]] \in CacheState
      BY <1>0, <2>6, RecordUpdates DEF TypeInv, TypeOK
    <3>2. [mem[u] EXCEPT !.watermark = mark[u]].versions = mem[u].versions
      BY <2>6 DEF CacheState
    <3>. QED  BY <2>5, <2>6, <2>9, <3>1, <3>2 DEF EndPull
  <2>10. CASE Fail(u)
    BY <2>5, <2>6, <2>10 DEF Fail
  <2>11. CASE Crash(u)
    BY <2>5, <2>6, <2>11 DEF Crash
  <2>12. CASE Apply(u)
    <3>1. PICK r \in rows[u] :
            LET k == <<r.owner, r.cycle>>
                newer == r.ts > mem[u].versions[k]
            IN
            /\ pc[u] = "apply"
            /\ cache' = IF newer THEN [cache EXCEPT ![u][k] = r] ELSE cache
            /\ mem' = IF newer THEN [mem EXCEPT ![u].versions[k] = r.ts] ELSE mem
            /\ UNCHANGED disk
      BY <2>12 DEF Apply
    <3>. DEFINE key == <<r.owner, r.cycle>>
    <3>2. key \in Keys /\ r.ts \in Nat
      BY <1>0 DEF TypeInv, TypeOK, Row, Keys
    <3>3. CASE v # u
      BY <1>0, <1>b, <3>1, <3>3 DEF TypeInv, TypeOK, Same
    <3>4. CASE v = u /\ r.ts > mem[u].versions[key]
      <4>1. /\ cache'[u] = [cache[u] EXCEPT ![key] = r]
            /\ mem'[u].versions = [mem[u].versions EXCEPT ![key] = r.ts]
            /\ disk'[u] = disk[u]
        BY <1>0, <3>1, <3>2, <3>4 DEF TypeInv, TypeOK, CacheState
      <4>2. disk[u].versions[key] <= mem[u].versions[key]
        BY <1>0, <3>1, <3>2 DEF TypeInv, JobOK
      <4>3. disk[u].versions[key] <= r.ts
        BY <1>a, <3>2, <3>4, <4>2
      <4>4. \A k \in Keys \ {key} : cache'[u][k] = cache[u][k]
                                    /\ mem'[u].versions[k] = mem[u].versions[k]
        BY <1>0, <4>1 DEF TypeInv, TypeOK, CacheState
      <4>5. cache'[u][key] = r /\ mem'[u].versions[key] = r.ts
        BY <1>0, <3>2, <4>1 DEF TypeInv, TypeOK, CacheState
      <4>. QED  BY <2>6, <3>2, <3>4, <4>1, <4>3, <4>4, <4>5 DEF Honest
    <3>5. CASE ~(r.ts > mem[u].versions[key])
      BY <2>1, <3>1, <3>5
    <3>. QED  BY <3>3, <3>4, <3>5
  <2>. QED
    BY <1>n, <2>1, <2>2, <2>3, <2>4, <2>7, <2>8, <2>9, <2>10, <2>11, <2>12
       DEF UserStep, JobStep, Edit, Join, Leave, RefreshFacts, PushSkip, PushSend,
           Commit, Fetch
<1>. QED  BY <1>u, <1>n DEF Next

(* No version is ever claimed for a cycle that is newer than the cached    *)
(* file, on disk or in the running job, for any number of machines and any *)
(* number of crashes, lost requests and changes of team.                   *)
THEOREM VersionsAlwaysHonest == Spec => []VersionsHonest
<1>1. Init => HonestInv
  <2>. SUFFICES ASSUME Init PROVE VersionsHonest
    BY InitTypeInv DEF HonestInv
  <2>1. \A k \in Keys : EmptyState(NoTeam).versions[k] = 0
    BY DEF EmptyState
  <2>. QED  BY <2>1, NoRowFacts DEF Init, VersionsHonest
<1>2. Spec => []HonestInv
  BY <1>1, HonestStep, PTL DEF Spec
<1>3. HonestInv => VersionsHonest
  BY DEF HonestInv
<1>. QED  BY <1>2, <1>3, PTL

(***************************************************************************)
(* The table.  Its rows stand in their places, no row and no open request  *)
(* is stamped later than the clock, and an open request is stamped later   *)
(* than every row its sender ever committed: what the clock handed out     *)
(* since then went to others.                                              *)
(***************************************************************************)
KeyOf(r) == <<r.owner, r.cycle>>

Placed ==
  \A t \in Teams, k \in Keys :
    remote[t][k] # NoRow =>
      remote[t][k] \in log /\ remote[t][k].team = t /\ KeyOf(remote[t][k]) = k

Stamped == \A r \in log : r.ts <= clock

Pending ==
  \A u \in Users :
    tx[u].status = "open" =>
      tx[u].ts <= clock /\ \A r \in log : r.owner = u => r.ts < tx[u].ts

TableInv == Placed /\ Stamped /\ Pending /\ RemoteIsNewest

LEMMA NoRowIsNoRow == NoRow \notin Row
BY NullAssumption DEF NoRow, Row

(* A step that leaves the table alone and only drops requests.             *)
LEMMA TableFrame ==
  ASSUME TableInv, remote' = remote, log' = log, clock' = clock,
         \A v \in Users : tx'[v] = tx[v] \/ tx'[v] = NoTx
  PROVE  TableInv'
BY NoRowFacts DEF TableInv, Placed, Stamped, Pending, RemoteIsNewest

LEMMA TableStep == TypeInv /\ TableInv /\ [Next]_vars => TableInv'
<1>. SUFFICES ASSUME TypeInv, TableInv, [Next]_vars PROVE TableInv'
  OBVIOUS
<1>. USE DEF TypeInv
<1>u. CASE UNCHANGED vars
  BY <1>u, TableFrame DEF vars, server, job
<1>n. ASSUME NEW u \in Users,
             UserStep(u) \/ StartTick(u) \/ JobStep(u) \/ Fail(u) \/ Crash(u)
      PROVE  TableInv'
  <2>1. ASSUME NEW c \in Cycles, PushSend(u, c) PROVE TableInv'
    <3>1. CASE member[u] = mem[u].team
      <4>1. /\ remote' = remote /\ log' = log /\ clock' = clock + 1
            /\ tx'[u].ts = clock + 1
            /\ \A v \in Users \ {u} : tx'[v] = tx[v]
        BY <2>1, <3>1 DEF PushSend, TypeOK
      <4>2. clock \in Nat /\ \A r \in log : r.ts \in Nat
        BY DEF TypeOK, Row
      <4>3. Stamped'
        BY <4>1, <4>2 DEF TableInv, Stamped
      <4>4. ASSUME NEW v \in Users, tx'[v].status = "open"
            PROVE  tx'[v].ts <= clock' /\ \A r \in log : r.owner = v => r.ts < tx'[v].ts
        <5>1. CASE v = u
          BY <4>1, <4>2, <5>1 DEF TableInv, Stamped
        <5>2. CASE v # u
          <6>1. tx[v].status = "open" /\ tx'[v].ts = tx[v].ts
            BY <4>1, <4>4, <5>2
          <6>2. tx[v].ts \in Nat
            BY <6>1, NoRowFacts DEF TypeOK, Tx
          <6>. QED  BY <4>1, <4>2, <6>1, <6>2 DEF TableInv, Pending
        <5>. QED  BY <5>1, <5>2
      <4>. QED  BY <4>1, <4>3, <4>4 DEF TableInv, Placed, Pending, RemoteIsNewest
    <3>2. CASE member[u] # mem[u].team
      <4>1. /\ remote' = remote /\ log' = log /\ clock' = clock
            /\ tx'[u].status = "refused"
            /\ \A v \in Users \ {u} : tx'[v] = tx[v]
        BY <2>1, <3>2 DEF PushSend, TypeOK
      <4>. QED  BY <4>1 DEF TableInv, Placed, Stamped, Pending, RemoteIsNewest
    <3>. QED  BY <3>1, <3>2
  <2>2. CASE Commit(u)
    <3>. DEFINE r == [owner |-> u, cycle |-> tx[u].cycle, team |-> mem[u].team,
                      content |-> tx[u].content, ts |-> tx[u].ts]
                key == <<u, tx[u].cycle>>
    <3>1. tx[u] \in Tx /\ tx[u].status = "open" /\ mem[u].team \in Teams
      BY <2>2, NoRowFacts DEF Commit, TypeOK, JobOK
    <3>2. r \in Row /\ key \in Keys
      BY <3>1 DEF Row, Tx, Keys
    <3>3. /\ remote' = [remote EXCEPT ![mem[u].team][key] = r]
          /\ log' = log \union {r} /\ clock' = clock
      BY <2>2 DEF Commit
    <3>4. /\ remote'[mem[u].team][key] = r
          /\ \A t \in Teams, k \in Keys :
               ~(t = mem[u].team /\ k = key) => remote'[t][k] = remote[t][k]
      BY <3>1, <3>2, <3>3 DEF TypeOK
    <3>5. tx[u].ts <= clock /\ \A q \in log : q.owner = u => q.ts < tx[u].ts
      BY <3>1 DEF TableInv, Pending
    <3>6. KeyOf(r) = key /\ r.team = mem[u].team /\ r.ts = tx[u].ts /\ r.owner = u
      BY DEF KeyOf
    <3>. HIDE DEF r
    <3>7. Placed'
      BY <3>3, <3>4, <3>6 DEF TableInv, Placed
    <3>8. Stamped'
      BY <3>3, <3>5, <3>6 DEF TableInv, Stamped
    <3>9. Pending'
      <4>1. ASSUME NEW v \in Users, tx'[v].status = "open"
            PROVE  tx'[v].ts <= clock /\ \A q \in log' : q.owner = v => q.ts < tx'[v].ts
        <5>1. v # u /\ tx'[v] = tx[v]
          BY <2>2, <4>1 DEF Commit, TypeOK, Tx
        <5>. QED  BY <3>3, <3>6, <4>1, <5>1 DEF TableInv, Pending
      <4>. QED  BY <3>3, <4>1 DEF Pending
    <3>10. RemoteIsNewest'
      <4>1. ASSUME NEW q \in log'
            PROVE  \/ remote'[q.team][<<q.owner, q.cycle>>] = q
                   \/ q.ts < remote'[q.team][<<q.owner, q.cycle>>].ts
        <5>1. CASE q = r
          BY <3>4, <3>6, <5>1 DEF KeyOf
        <5>2. CASE q \in log /\ q.team = mem[u].team /\ <<q.owner, q.cycle>> = key
          BY <3>4, <3>5, <3>6, <5>2
        <5>3. CASE q \in log /\ ~(q.team = mem[u].team /\ <<q.owner, q.cycle>> = key)
          <6>1. q.team \in Teams /\ <<q.owner, q.cycle>> \in Keys
            BY <5>3 DEF TypeOK, Row, Keys
          <6>. QED  BY <3>4, <5>3, <6>1 DEF TableInv, RemoteIsNewest
        <5>. QED  BY <3>3, <5>1, <5>2, <5>3
      <4>. QED  BY <4>1 DEF RemoteIsNewest
    <3>. QED  BY <3>7, <3>8, <3>9, <3>10 DEF TableInv
  <2>3. CASE /\ UNCHANGED <<remote, log, clock>>
             /\ \A v \in Users : tx'[v] = tx[v] \/ tx'[v] = NoTx
    BY <2>3, TableFrame
  <2>4. ASSUME NEW s, EndJob(u, s), UNCHANGED server PROVE TableInv'
    BY <2>3, <2>4 DEF EndJob, server, TypeOK
  <2>5. CASE EndSave(u) \/ EndPull(u) \/ Fail(u) \/ Crash(u)
    BY <2>4, <2>5 DEF EndSave, EndPull, Fail, Crash
  <2>6. CASE Probe(u)
    <3>1. CASE EndJob(u, mem[u])
      BY <2>4, <2>6, <3>1 DEF Probe
    <3>2. CASE tx' = tx
      BY <2>3, <2>6, <3>2 DEF Probe, server
    <3>. QED  BY <2>6, <3>1, <3>2 DEF Probe
  <2>7. CASE PushAck(u)
    BY <2>3, <2>7 DEF PushAck, server, TypeOK
  <2>8. CASE UserStep(u)
    BY <2>3, <2>8 DEF UserStep, Edit, StartSave, Gate, Join, Leave, RefreshFacts, server, job
  <2>9. CASE StartTick(u)
    BY <2>3, <2>9 DEF StartTick, Gate, server
  <2>10. ASSUME NEW c \in Cycles, PushSkip(u, c) PROVE TableInv'
    BY <2>3, <2>10 DEF PushSkip, server
  <2>11. CASE Fetch(u)
    BY <2>3, <2>11 DEF Fetch, server
  <2>12. CASE Apply(u)
    BY <2>3, <2>12 DEF Apply, server
  <2>. QED
    BY <1>n, <2>1, <2>2, <2>5, <2>6, <2>7, <2>8, <2>9, <2>10, <2>11, <2>12 DEF JobStep
<1>. QED  BY <1>u, <1>n DEF Next

LEMMA InitTable == Init => TableInv
BY NoRowFacts DEF Init, TableInv, Placed, Stamped, Pending, RemoteIsNewest

(* The row of the table is the last one its owner committed in that team,  *)
(* and no two versions of a cycle bear one timestamp, for any number of    *)
(* machines whose transactions overlap in whatever way.                    *)
THEOREM TableIsNewest == Spec => []RemoteIsNewest
<1>1. Spec => [](TypeInv /\ TableInv)
  BY InitTypeInv, TypeInvStep, InitTable, TableStep, PTL DEF Spec
<1>2. TypeInv /\ TableInv => RemoteIsNewest
  BY DEF TableInv
<1>. QED  BY <1>1, <1>2, PTL

(***************************************************************************)
(* The caches.  What a pull has still to apply are committed rows of       *)
(* teammates, one for each key, and none is older than the file it may     *)
(* replace, when both are of one team: between the select and the write    *)
(* the file of that key is the machine's own to change.  That the versions *)
(* in state.json may lag behind the files (after a crash) is why this is   *)
(* needed: the comparison with them alone would let an older row in.       *)
(***************************************************************************)
NotOlder(u, r) ==
  LET held == cache[u][KeyOf(r)] IN
  held # NoRow /\ held.team = r.team => held.ts <= r.ts

Fetched ==
  \A u \in Users : \A r \in rows[u] :
    /\ r \in log /\ r.owner # u /\ NotOlder(u, r)
    /\ \A q \in rows[u] : KeyOf(q) = KeyOf(r) => q = r

MirrorInv == CacheIsCommitted /\ Fetched

(* A step that leaves the caches alone, forgets no row and only drops      *)
(* fetched ones.                                                           *)
LEMMA MirrorFrame ==
  ASSUME MirrorInv, cache' = cache, log \subseteq log',
         \A v \in Users : rows'[v] \subseteq rows[v]
  PROVE  MirrorInv'
BY DEF MirrorInv, CacheIsCommitted, Fetched, NotOlder

(* What an account may see are committed rows of others, one for each key, *)
(* and none is older than a row of its team that was ever committed.       *)
LEMMA VisibleRows ==
  ASSUME TypeOK, TableInv, NEW u \in Users, NEW r \in Visible(u)
  PROVE  /\ r \in log /\ r.owner # u
         /\ \A p \in log : p.team = r.team /\ KeyOf(p) = KeyOf(r) => p.ts <= r.ts
         /\ \A q \in Visible(u) : KeyOf(q) = KeyOf(r) => q = r
<1>1. member[u] \in Teams
  BY DEF Visible, TypeOK
<1>2. ASSUME NEW q \in Visible(u)
      PROVE  q \in log /\ q.team = member[u] /\ KeyOf(q) \in Keys /\ KeyOf(q)[1] # u
             /\ q = remote[member[u]][KeyOf(q)]
  <2>1. PICK k \in Keys : k[1] # u /\ q = remote[member[u]][k] /\ q # NoRow
    BY DEF Visible
  <2>2. KeyOf(q) = k
    BY <1>1, <2>1 DEF TableInv, Placed
  <2>. QED  BY <1>1, <2>1, <2>2 DEF TableInv, Placed
<1>3. r.owner # u
  BY <1>2 DEF KeyOf
<1>4. ASSUME NEW p \in log, p.team = r.team, KeyOf(p) = KeyOf(r) PROVE p.ts <= r.ts
  <2>1. remote[p.team][<<p.owner, p.cycle>>] = r
    BY <1>2, <1>4 DEF KeyOf
  <2>2. p = r \/ p.ts < r.ts
    BY <2>1 DEF TableInv, RemoteIsNewest
  <2>3. p.ts \in Nat /\ r.ts \in Nat
    BY <1>2 DEF TypeOK, Row
  <2>. QED  BY <2>2, <2>3
<1>. QED  BY <1>2, <1>3, <1>4

(* What Apply does: it drops the row it chose and, when that is newer than *)
(* the version recorded, puts it into its file.                            *)
LEMMA ApplyEffect ==
  ASSUME TypeOK, NEW u \in Users, Apply(u)
  PROVE  /\ UNCHANGED log
         /\ \/ cache' = cache /\ \A v \in Users : rows'[v] \subseteq rows[v]
            \/ \E r \in rows[u] :
                 /\ rows' = [rows EXCEPT ![u] = @ \ {r}]
                 /\ cache' = [cache EXCEPT ![u][KeyOf(r)] = r]
                 /\ KeyOf(r) \in Keys
<1>1. PICK r \in rows[u] :
        LET k == <<r.owner, r.cycle>>
            newer == r.ts > mem[u].versions[k]
        IN
        /\ rows' = [rows EXCEPT ![u] = @ \ {r}]
        /\ cache' = IF newer THEN [cache EXCEPT ![u][k] = r] ELSE cache
        /\ UNCHANGED server
  BY DEF Apply
<1>2. <<r.owner, r.cycle>> \in Keys
  BY DEF TypeOK, Row, Keys
<1>3. \A v \in Users : rows'[v] \subseteq rows[v]
  BY <1>1 DEF TypeOK
<1>. QED  BY <1>1, <1>2, <1>3 DEF KeyOf, server

LEMMA MirrorStep == TypeInv /\ TableInv /\ MirrorInv /\ [Next]_vars => MirrorInv'
<1>. SUFFICES ASSUME TypeInv, TableInv, MirrorInv, [Next]_vars PROVE MirrorInv'
  OBVIOUS
<1>. USE DEF TypeInv
<1>u. CASE UNCHANGED vars
  BY <1>u, MirrorFrame DEF vars, server, job
<1>n. ASSUME NEW u \in Users,
             UserStep(u) \/ StartTick(u) \/ JobStep(u) \/ Fail(u) \/ Crash(u)
      PROVE  MirrorInv'
  <2>1. CASE StartTick(u)
    <3>1. CASE cache' = cache
      BY <2>1, <3>1, MirrorFrame DEF StartTick, Gate, server
    <3>2. CASE cache' = [cache EXCEPT ![u] = [k \in Keys |-> NoRow]]
      <4>1. UNCHANGED <<log, rows>>
        BY <2>1 DEF StartTick, Gate, server
      <4>2. /\ \A k \in Keys : cache'[u][k] = NoRow
            /\ \A v \in Users \ {u} : cache'[v] = cache[v]
        BY <3>2 DEF TypeOK
      <4>3. CacheIsCommitted'
        BY <4>1, <4>2 DEF MirrorInv, CacheIsCommitted
      <4>4. \A v \in Users : \A r \in rows[v] : KeyOf(r) \in Keys
        BY DEF TypeOK, Row, Keys, KeyOf
      <4>5. Fetched'
        BY <4>1, <4>2, <4>4 DEF MirrorInv, Fetched, NotOlder
      <4>. QED  BY <4>3, <4>5 DEF MirrorInv
    <3>. QED  BY <2>1, <3>1, <3>2 DEF StartTick, Gate
  <2>2. CASE Fetch(u)
    <3>1. UNCHANGED <<log, cache>> /\ rows'[u] = Visible(u)
          /\ \A v \in Users \ {u} : rows'[v] = rows[v]
      BY <2>2 DEF Fetch, server, TypeOK
    <3>2. CacheIsCommitted'
      BY <3>1 DEF MirrorInv, CacheIsCommitted
    <3>3. ASSUME NEW r \in Visible(u)
          PROVE  /\ r \in log /\ r.owner # u /\ NotOlder(u, r)
                 /\ \A q \in Visible(u) : KeyOf(q) = KeyOf(r) => q = r
      <4>1. KeyOf(r) \in Keys
        BY VisibleType DEF TypeOK, Row, Keys, KeyOf
      <4>2. NotOlder(u, r)
        BY <4>1, VisibleRows DEF NotOlder, MirrorInv, CacheIsCommitted, KeyOf
      <4>. QED  BY <4>2, VisibleRows
    <3>4. Fetched'
      BY <3>1, <3>3 DEF MirrorInv, Fetched, NotOlder
    <3>. QED  BY <3>2, <3>4 DEF MirrorInv
  <2>3. CASE Apply(u)
    <3>1. CASE cache' = cache /\ \A v \in Users : rows'[v] \subseteq rows[v]
      BY <2>3, <3>1, ApplyEffect, MirrorFrame
    <3>2. ASSUME NEW r \in rows[u],
                 rows' = [rows EXCEPT ![u] = @ \ {r}],
                 cache' = [cache EXCEPT ![u][KeyOf(r)] = r],
                 KeyOf(r) \in Keys
          PROVE  MirrorInv'
      <4>1. log' = log
        BY <2>3, ApplyEffect
      <4>2. /\ cache'[u][KeyOf(r)] = r
            /\ \A k \in Keys \ {KeyOf(r)} : cache'[u][k] = cache[u][k]
            /\ \A v \in Users \ {u} : cache'[v] = cache[v]
            /\ rows'[u] = rows[u] \ {r}
            /\ \A v \in Users \ {u} : rows'[v] = rows[v]
        BY <3>2 DEF TypeOK
      <4>3. r \in log /\ r.owner # u /\ KeyOf(r)[1] = r.owner
            /\ \A q \in rows[u] : KeyOf(q) = KeyOf(r) => q = r
        BY DEF MirrorInv, Fetched, KeyOf
      <4>4. CacheIsCommitted'
        <5>1. ASSUME NEW v \in Users, NEW k \in Keys, cache'[v][k] # NoRow
              PROVE  /\ cache'[v][k] \in log
                     /\ <<cache'[v][k].owner, cache'[v][k].cycle>> = k
                     /\ k[1] # v
          <6>1. CASE v = u /\ k = KeyOf(r)
            BY <4>2, <4>3, <6>1 DEF KeyOf
          <6>2. CASE ~(v = u /\ k = KeyOf(r))
            BY <4>2, <5>1, <6>2 DEF MirrorInv, CacheIsCommitted
          <6>. QED  BY <6>1, <6>2
        <5>. QED  BY <4>1, <5>1 DEF CacheIsCommitted
      <4>5. Fetched'
        <5>1. ASSUME NEW v \in Users, NEW q \in rows'[v]
              PROVE  q \in rows[v] /\ KeyOf(q) \in Keys /\ cache'[v][KeyOf(q)] = cache[v][KeyOf(q)]
          <6>1. q \in rows[v]
            BY <4>2, <5>1
          <6>2. KeyOf(q) \in Keys
            BY <6>1 DEF TypeOK, Row, Keys, KeyOf
          <6>. QED  BY <4>2, <4>3, <5>1, <6>1, <6>2
        <5>. QED  BY <4>1, <4>2, <5>1 DEF MirrorInv, Fetched, NotOlder
      <4>. QED  BY <4>4, <4>5 DEF MirrorInv
    <3>. QED  BY <2>3, <3>1, <3>2, ApplyEffect
  <2>4. CASE cache' = cache /\ log \subseteq log' /\ rows' = rows
    BY <2>4, MirrorFrame
  <2>5. ASSUME NEW s, EndJob(u, s), UNCHANGED <<server, cache>> PROVE MirrorInv'
    <3>1. \A v \in Users : rows'[v] \subseteq rows[v]
      BY <2>5 DEF EndJob, TypeOK
    <3>. QED  BY <2>5, <3>1, MirrorFrame DEF server
  <2>6. CASE EndSave(u) \/ EndPull(u) \/ Fail(u) \/ Crash(u)
    BY <2>5, <2>6 DEF EndSave, EndPull, Fail, Crash
  <2>7. CASE Probe(u)
    <3>1. CASE EndJob(u, mem[u])
      BY <2>5, <2>7, <3>1 DEF Probe
    <3>2. CASE rows' = rows
      BY <2>4, <2>7, <3>2 DEF Probe, server
    <3>. QED  BY <2>7, <3>1, <3>2 DEF Probe
  <2>8. CASE UserStep(u)
    BY <2>4, <2>8 DEF UserStep, Edit, StartSave, Gate, Join, Leave, RefreshFacts, server, job
  <2>9. CASE Commit(u) \/ PushAck(u) \/ \E c \in Cycles : PushSkip(u, c) \/ PushSend(u, c)
    BY <2>4, <2>9 DEF Commit, PushAck, PushSkip, PushSend, server
  <2>. QED
    BY <1>n, <2>1, <2>2, <2>3, <2>6, <2>7, <2>8, <2>9 DEF JobStep
<1>. QED  BY <1>u, <1>n DEF Next

LEMMA InitMirror == Init => MirrorInv
BY DEF Init, MirrorInv, CacheIsCommitted, Fetched

(* A cached file is a row that its owner committed under that very key,    *)
(* and never the machine's own cycle.                                      *)
THEOREM CacheAlwaysCommitted == Spec => []CacheIsCommitted
<1>1. Spec => [](TypeInv /\ TableInv /\ MirrorInv)
  BY InitTypeInv, TypeInvStep, InitTable, TableStep, InitMirror, MirrorStep, PTL DEF Spec
<1>2. TypeInv /\ TableInv /\ MirrorInv => CacheIsCommitted
  BY DEF MirrorInv
<1>. QED  BY <1>1, <1>2, PTL

(***************************************************************************)
(* The refinement: Commit publishes, Apply advances a mirror or stutters,  *)
(* StartTick forgets when the team changed, and every other step stutters. *)
(***************************************************************************)
LEMMA MirrorsStep ==
  TypeInv /\ TableInv /\ MirrorInv /\ [Next]_vars => [Mirror!Next]_(Mirror!amVars)
<1>. SUFFICES ASSUME TypeInv, TableInv, MirrorInv, [Next]_vars
              PROVE  Mirror!Next \/ UNCHANGED <<log, cache>>
  BY DEF Mirror!amVars
<1>. USE DEF TypeInv
<1>u. CASE UNCHANGED vars
  BY <1>u DEF vars, server
<1>n. ASSUME NEW u \in Users,
             UserStep(u) \/ StartTick(u) \/ JobStep(u) \/ Fail(u) \/ Crash(u)
      PROVE  Mirror!Next \/ UNCHANGED <<log, cache>>
  <2>1. CASE Commit(u)
    <3>1. PICK r : /\ r = [owner |-> u, cycle |-> tx[u].cycle, team |-> mem[u].team,
                           content |-> tx[u].content, ts |-> tx[u].ts]
                   /\ log' = log \union {r} /\ cache' = cache
                   /\ tx[u].status = "open"
      BY <2>1 DEF Commit
    <3>2. r.owner = u /\ r.ts = tx[u].ts
      BY <3>1
    <3>3. \A p \in log : p.owner = u => p.ts < r.ts
      BY <3>1, <3>2 DEF TableInv, Pending
    <3>4. r \notin log
      <4>1. r.ts \in Nat
        BY <3>1, <3>2, NoRowFacts DEF TypeOK, Tx
      <4>. QED  BY <3>2, <3>3, <4>1
    <3>5. Mirror!Publish
      BY <3>1, <3>2, <3>3, <3>4 DEF Mirror!Publish
    <3>. QED  BY <3>5 DEF Mirror!Next
  <2>2. CASE Apply(u)
    <3>1. ASSUME NEW r \in rows[u], cache' = [cache EXCEPT ![u][KeyOf(r)] = r],
                 KeyOf(r) \in Keys
          PROVE  Mirror!Advance
      <4>1. r \in log /\ r.owner # u /\ NotOlder(u, r)
        BY DEF MirrorInv, Fetched
      <4>2. log' = log
        BY <2>2, ApplyEffect
      <4>. QED  BY <3>1, <4>1, <4>2 DEF Mirror!Advance, NotOlder, KeyOf
    <3>. QED  BY <2>2, <3>1, ApplyEffect DEF Mirror!Next
  <2>3. CASE StartTick(u)
    <3>1. log' = log
      BY <2>3 DEF StartTick, Gate, server
    <3>2. CASE cache' = [cache EXCEPT ![u] = [k \in Keys |-> NoRow]]
      BY <3>1, <3>2 DEF Mirror!Next, Mirror!Forget
    <3>. QED  BY <2>3, <3>1, <3>2 DEF StartTick, Gate
  <2>. QED
    BY <1>n, <2>1, <2>2, <2>3
       DEF UserStep, JobStep, Edit, StartSave, Gate, Join, Leave, RefreshFacts, PushSkip, PushSend,
           PushAck, EndSave, Probe, Fetch, EndPull, Fail, Crash, server
<1>. QED  BY <1>u, <1>n DEF Next

(* The machines with their polls, crashes and lost requests keep the       *)
(* promise of TeamMirror: owners publish ever newer versions, and a        *)
(* teammate holds a published version, replaced in its team only by one    *)
(* that is not older, until it moves on and forgets.                       *)
THEOREM MachinesMirror == Spec => ImplementsMirror
<1>1. Init => Mirror!Init
  BY DEF Init, Mirror!Init
<1>2. Spec => [](TypeInv /\ TableInv /\ MirrorInv)
  BY InitTypeInv, TypeInvStep, InitTable, TableStep, InitMirror, MirrorStep, PTL DEF Spec
<1>3. Spec => Mirror!Init /\ [][Mirror!Next]_(Mirror!amVars)
  BY <1>1, <1>2, MirrorsStep, PTL DEF Spec
<1>. QED  BY <1>3 DEF ImplementsMirror, Mirror!MirrorSpec
=============================================================================
