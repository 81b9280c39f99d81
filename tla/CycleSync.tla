------------------------------ MODULE CycleSync ------------------------------
(***************************************************************************)
(* Team sync of cycles (src/team/sync.ts, src/team/cache.ts) between the   *)
(* machines of the members of some teams, one machine for each account,    *)
(* through the cycles table of Supabase (supabase/migrations).             *)
(*                                                                         *)
(* A machine pushes its own cycle files and caches those of its teammates. *)
(* Its sync job keeps a state record in memory (mem), which it reads from  *)
(* state.json (disk) when it starts and writes back when it ends, so that  *)
(* a crash loses what the job learned but not the files it cached.  Jobs   *)
(* of one machine never overlap: SyncQueue models the queue that sees to   *)
(* that.  A request that writes a row is a database transaction whose      *)
(* timestamp is taken when it begins and becomes visible when it commits.  *)
(***************************************************************************)
EXTENDS Naturals, FiniteSets

CONSTANTS
  Users,      \* accounts, each with one machine
  Teams,
  Cycles,     \* cycle ids
  Contents,   \* what a cycle file may say
  NoTeam,     \* no team
  NoContent,  \* no file, or nothing pushed yet
  Founded,    \* the teams that have members at the start
  Loads       \* bounds: how many edits, moves and faults go together

ASSUME TeamsAssumption == Founded \subseteq Teams
ASSUME NullAssumption == NoTeam \notin Teams /\ NoContent \notin Contents

VARIABLES
  file,       \* file[u][c]: u's own cycle file
  member,     \* member[u]: the team of u in the members table
  session,    \* session[u]: the team in the session file of u's machine
  remote,     \* remote[t][k]: the row of the cycles table, NoRow if none
  clock,      \* the server's clock: one tick for each transaction begun
  log,        \* history: every row ever committed
  disk,       \* disk[u]: state.json
  mem,        \* mem[u]: the state record of the running job
  cache,      \* cache[u][k]: the cached file of a teammate's cycle
  pc,         \* pc[u]: where the running job is
  kind,       \* kind[u]: "tick" (syncTeamOnce) or "save" (pushLocalCycle)
  todo,       \* todo[u]: the cycles the job has still to push
  tx,         \* tx[u]: the job's upsert request, as the server sees it
  rows,       \* rows[u]: fetched rows the job has still to apply
  mark,       \* mark[u]: the watermark of the pull under way
  spent       \* how much of each bound has been used

Keys == Users \X Cycles
NoRow == [owner |-> NoContent, cycle |-> NoContent, team |-> NoTeam,
          content |-> NoContent, ts |-> 0]
NoTx == [cycle |-> NoContent, content |-> NoContent, ts |-> 0, status |-> "none"]
Row == [owner : Users, cycle : Cycles, team : Teams, content : Contents, ts : Nat]
Tx == [cycle : Cycles, content : Contents, ts : Nat,
       status : {"open", "committed", "refused"}]

Spent == [edits : Nat, joins : Nat, leaves : Nat, faults : Nat]

(* The part of TeamCacheState that concerns cycles.                        *)
CacheState == [team : Teams \union {NoTeam},
               pushed : [Cycles -> Contents \union {NoContent}],
               versions : [Keys -> Nat],
               watermark : Nat]
EmptyState(t) == [team |-> t, pushed |-> [c \in Cycles |-> NoContent],
                  versions |-> [k \in Keys |-> 0], watermark |-> 0]

server == <<member, remote, clock, log>>
job == <<kind, todo, tx, rows, mark>>
vars == <<file, session, server, disk, mem, cache, pc, job, spent>>

Init ==
  /\ file = [u \in Users |-> [c \in Cycles |-> NoContent]]
  /\ member \in [Users -> Founded \union {NoTeam}]
  /\ session = member
  /\ remote = [t \in Teams |-> [k \in Keys |-> NoRow]]
  /\ clock = 0
  /\ log = {}
  /\ disk = [u \in Users |-> EmptyState(NoTeam)]
  /\ mem = [u \in Users |-> EmptyState(NoTeam)]
  /\ cache = [u \in Users |-> [k \in Keys |-> NoRow]]
  /\ pc = [u \in Users |-> "idle"]
  /\ kind = [u \in Users |-> "tick"]
  /\ todo = [u \in Users |-> {}]
  /\ tx = [u \in Users |-> NoTx]
  /\ rows = [u \in Users |-> {}]
  /\ mark = [u \in Users |-> 0]
  /\ spent = [edits |-> 0, joins |-> 0, leaves |-> 0, faults |-> 0]

(* A behaviour stays within one of the loads: edits of cycle files, joins  *)
(* and departures, crashes and failed requests.                            *)
Affordable == \E l \in Loads : \A b \in DOMAIN spent : spent'[b] <= l[b]

(* The loads of the small instance: a team that stays as it is, and        *)
(* accounts that join, late or not, and change teams.                      *)
Settling == [edits |-> 2, joins |-> 0, leaves |-> 0, faults |-> 1]
Roaming == [edits |-> 1, joins |-> 1, leaves |-> 1, faults |-> 1]
AllLoads == {Settling, Roaming}

(***************************************************************************)
(* The user.                                                               *)
(***************************************************************************)
Edit(u, c) ==
  /\ \E v \in Contents \ {file[u][c]} : file' = [file EXCEPT ![u][c] = v]
  /\ spent' = [spent EXCEPT !.edits = @ + 1] /\ Affordable
  /\ UNCHANGED <<session, server, disk, mem, cache, pc, job>>

(* createTeam and joinTeam check the session, the RPC the members row.     *)
Join(u, t) ==
  /\ session[u] = NoTeam /\ member[u] = NoTeam
  /\ member' = [member EXCEPT ![u] = t]
  /\ spent' = [spent EXCEPT !.joins = @ + 1] /\ Affordable
  /\ UNCHANGED <<file, session, remote, clock, log, disk, mem, cache, pc, job>>

Leave(u) ==
  /\ session[u] # NoTeam
  /\ member' = [member EXCEPT ![u] = NoTeam]
  /\ spent' = [spent EXCEPT !.leaves = @ + 1] /\ Affordable
  /\ UNCHANGED <<file, session, remote, clock, log, disk, mem, cache, pc, job>>

(* refreshTeamFacts: at once after a join or a departure, or later from    *)
(* the team panel when that refresh failed.                                *)
RefreshFacts(u) ==
  /\ session[u] # member[u]
  /\ session' = [session EXCEPT ![u] = member[u]]
  /\ UNCHANGED <<file, server, disk, mem, cache, pc, job, spent>>

(***************************************************************************)
(* Starting a job.                                                         *)
(***************************************************************************)
(* resolveSyncGate: a job acts for a team, or it does nothing.             *)
Gate(u) == session[u] # NoTeam

(* Mutant of StartTick: the cache is emptied, the state record kept.        *)
StartTickKeepingVersions(u) ==
  LET s == disk[u]
      moved == s.team # NoTeam /\ s.team # session[u]
      s0 == [s EXCEPT !.team = session[u]]
  IN
  /\ pc[u] = "idle" /\ Gate(u)
  /\ mem' = [mem EXCEPT ![u] = s0]
  /\ disk' = IF moved THEN [disk EXCEPT ![u] = s0] ELSE disk
  /\ cache' = IF moved THEN [cache EXCEPT ![u] = [k \in Keys |-> NoRow]] ELSE cache
  /\ pc' = [pc EXCEPT ![u] = "push"]
  /\ kind' = [kind EXCEPT ![u] = "tick"]
  /\ todo' = [todo EXCEPT ![u] = {c \in Cycles : file[u][c] # NoContent}]
  /\ UNCHANGED <<file, session, server, tx, rows, mark, spent>>

StartTick(u) ==
  LET s == disk[u]
      moved == s.team # NoTeam /\ s.team # session[u]
      s0 == IF moved THEN EmptyState(session[u]) ELSE [s EXCEPT !.team = session[u]]
  IN
  /\ pc[u] = "idle" /\ Gate(u)
  /\ mem' = [mem EXCEPT ![u] = s0]
  /\ disk' = IF moved THEN [disk EXCEPT ![u] = s0] ELSE disk
  /\ cache' = IF moved THEN [cache EXCEPT ![u] = [k \in Keys |-> NoRow]] ELSE cache
  /\ pc' = [pc EXCEPT ![u] = "push"]
  /\ kind' = [kind EXCEPT ![u] = "tick"]
  /\ todo' = [todo EXCEPT ![u] = {c \in Cycles : file[u][c] # NoContent}]
  /\ UNCHANGED <<file, session, server, tx, rows, mark, spent>>

StartSave(u, c) ==
  /\ pc[u] = "idle" /\ Gate(u)
  /\ mem' = [mem EXCEPT ![u] = [disk[u] EXCEPT !.team = session[u]]]
  /\ pc' = [pc EXCEPT ![u] = "push"]
  /\ kind' = [kind EXCEPT ![u] = "save"]
  /\ todo' = [todo EXCEPT ![u] = {c}]
  /\ UNCHANGED <<file, session, server, disk, cache, tx, rows, mark, spent>>

(* The job ends: it writes its state record and frees its memory.          *)
EndJob(u, s) ==
  /\ disk' = [disk EXCEPT ![u] = s]
  /\ mem' = [mem EXCEPT ![u] = EmptyState(NoTeam)]
  /\ pc' = [pc EXCEPT ![u] = "idle"]
  /\ kind' = [kind EXCEPT ![u] = "tick"]
  /\ todo' = [todo EXCEPT ![u] = {}]
  /\ tx' = [tx EXCEPT ![u] = NoTx]
  /\ rows' = [rows EXCEPT ![u] = {}]
  /\ mark' = [mark EXCEPT ![u] = 0]

(***************************************************************************)
(* Pushing.                                                                *)
(***************************************************************************)
UpToDate(u, c) == file[u][c] = NoContent \/ mem[u].pushed[c] = file[u][c]

PushSkip(u, c) ==
  /\ pc[u] = "push" /\ c \in todo[u] /\ UpToDate(u, c)
  /\ todo' = [todo EXCEPT ![u] = @ \ {c}]
  /\ UNCHANGED <<file, session, server, disk, mem, cache, pc, kind, tx, rows, mark, spent>>

(* The request reaches the server, where row level security compares the   *)
(* team it names with the team the sender is in.                           *)
PushSend(u, c) ==
  /\ pc[u] = "push" /\ c \in todo[u] /\ ~UpToDate(u, c)
  /\ tx' = [tx EXCEPT ![u] =
       [cycle |-> c, content |-> file[u][c], ts |-> clock + 1,
        status |-> IF member[u] = mem[u].team THEN "open" ELSE "refused"]]
  /\ clock' = IF member[u] = mem[u].team THEN clock + 1 ELSE clock
  /\ pc' = [pc EXCEPT ![u] = "sent"]
  /\ UNCHANGED <<file, session, member, remote, log, disk, mem, cache, kind,
                 todo, rows, mark, spent>>

(* Mutant of Commit: without the trigger an update keeps the timestamp.    *)
CommitUntouched(u) ==
  LET k == <<u, tx[u].cycle>>
      old == remote[mem[u].team][k].ts
      r == [owner |-> u, cycle |-> tx[u].cycle, team |-> mem[u].team,
            content |-> tx[u].content, ts |-> IF old = 0 THEN tx[u].ts ELSE old]
  IN
  /\ tx[u].status = "open"
  /\ remote' = [remote EXCEPT ![r.team][k] = r]
  /\ log' = log \union {r}
  /\ tx' = [tx EXCEPT ![u].status = "committed"]
  /\ UNCHANGED <<file, session, member, clock, disk, mem, cache, pc, kind, todo,
                 rows, mark, spent>>

(* The upsert: one row for each (team, owner, cycle), stamped with the     *)
(* time its transaction began.                                             *)
Commit(u) ==
  LET r == [owner |-> u, cycle |-> tx[u].cycle, team |-> mem[u].team,
            content |-> tx[u].content, ts |-> tx[u].ts]
  IN
  /\ tx[u].status = "open"
  /\ remote' = [remote EXCEPT ![r.team][<<u, r.cycle>>] = r]
  /\ log' = log \union {r}
  /\ tx' = [tx EXCEPT ![u].status = "committed"]
  /\ UNCHANGED <<file, session, member, clock, disk, mem, cache, pc, kind, todo,
                 rows, mark, spent>>

(* Mutant of PushAck: the hash recorded is that of the file as it is now.  *)
PushAckRereading(u) ==
  /\ pc[u] = "sent" /\ tx[u].status = "committed"
  /\ mem' = [mem EXCEPT ![u].pushed[tx[u].cycle] = file[u][tx[u].cycle]]
  /\ todo' = [todo EXCEPT ![u] = @ \ {tx[u].cycle}]
  /\ tx' = [tx EXCEPT ![u] = NoTx]
  /\ pc' = [pc EXCEPT ![u] = "push"]
  /\ UNCHANGED <<file, session, server, disk, cache, kind, rows, mark, spent>>

PushAck(u) ==
  /\ pc[u] = "sent" /\ tx[u].status = "committed"
  /\ mem' = [mem EXCEPT ![u].pushed[tx[u].cycle] = tx[u].content]
  /\ todo' = [todo EXCEPT ![u] = @ \ {tx[u].cycle}]
  /\ tx' = [tx EXCEPT ![u] = NoTx]
  /\ pc' = [pc EXCEPT ![u] = "push"]
  /\ UNCHANGED <<file, session, server, disk, cache, kind, rows, mark, spent>>

EndSave(u) ==
  /\ pc[u] = "push" /\ todo[u] = {} /\ kind[u] = "save"
  /\ EndJob(u, mem[u])
  /\ UNCHANGED <<file, session, server, cache, spent>>

(***************************************************************************)
(* Pulling.  What a select returns is what the policies let u see at the   *)
(* moment the server runs it, whatever team the job thinks it is in.       *)
(***************************************************************************)
(* Mutants of Visible: own rows are not filtered out; a row that cannot be *)
(* placed is not skipped.                                                  *)
VisibleWithOwn(u) ==
  IF member[u] = NoTeam THEN {} ELSE {remote[member[u]][k] : k \in Keys} \ {NoRow}
VisibleUnplaced(u) ==
  IF member[u] = NoTeam THEN {}
  ELSE {remote[member[u]][k] : k \in {x \in Keys : x[1] # u}}

Visible(u) ==
  IF member[u] = NoTeam THEN {}
  ELSE {remote[member[u]][k] : k \in {x \in Keys : x[1] # u}} \ {NoRow}

Larger(m, n) == IF m < n THEN n ELSE m

(* The greatest timestamp among rows, 0 for none, as a singleton.          *)
Latest(R) == {w \in {r.ts : r \in R} \union {0} : \A r \in R : r.ts <= w}

Probe(u) ==
  /\ pc[u] = "push" /\ todo[u] = {} /\ kind[u] = "tick"
  /\ \E w \in Latest(Visible(u)) :
       IF w = mem[u].watermark
       THEN EndJob(u, mem[u])
       ELSE /\ mark' = [mark EXCEPT ![u] = w]
            /\ pc' = [pc EXCEPT ![u] = "fetch"]
            /\ UNCHANGED <<disk, mem, kind, todo, tx, rows>>
  /\ UNCHANGED <<file, session, server, cache, spent>>

(* The watermark this pull will leave: what the probe said or, when that    *)
(* was no row, the highest timestamp seen ("watermark || highest").        *)
Fetch(u) ==
  /\ pc[u] = "fetch"
  /\ rows' = [rows EXCEPT ![u] = Visible(u)]
  /\ \E w \in Latest(Visible(u)) :
       mark' = [mark EXCEPT ![u] = IF mark[u] # 0 THEN mark[u]
                                   ELSE Larger(mem[u].watermark, w)]
  /\ pc' = [pc EXCEPT ![u] = "apply"]
  /\ UNCHANGED <<file, session, server, disk, mem, cache, kind, todo, tx, spent>>

(* The newest row left; one that is not newer than the version recorded    *)
(* for its cycle is dropped, any other is written, then its version        *)
(* recorded.  Fail covers a write that throws before the record.           *)
Apply(u) ==
  \E r \in rows[u] :
    LET k == <<r.owner, r.cycle>>
        newer == r.ts > mem[u].versions[k]
    IN
    /\ pc[u] = "apply"
    /\ \A q \in rows[u] : q.ts <= r.ts
    /\ rows' = [rows EXCEPT ![u] = @ \ {r}]
    /\ cache' = IF newer THEN [cache EXCEPT ![u][k] = r] ELSE cache
    /\ mem' = IF newer THEN [mem EXCEPT ![u].versions[k] = r.ts] ELSE mem
    /\ UNCHANGED <<file, session, server, disk, pc, kind, todo, tx, mark, spent>>

EndPull(u) ==
  /\ pc[u] = "apply" /\ rows[u] = {}
  /\ EndJob(u, [mem[u] EXCEPT !.watermark = mark[u]])
  /\ UNCHANGED <<file, session, server, cache, spent>>

(***************************************************************************)
(* Failures.                                                               *)
(***************************************************************************)
(* A request is refused or gets no answer (whether or not it committed),   *)
(* or a cache file cannot be written: the job records the error and writes *)
(* the state it has.                                                       *)
Fail(u) ==
  /\ pc[u] # "idle"
  /\ \/ /\ tx[u].status = "refused"
        /\ UNCHANGED spent
     \/ /\ pc[u] = "push" => todo[u] = {} /\ kind[u] = "tick"
        /\ tx[u].status # "refused"
        /\ spent' = [spent EXCEPT !.faults = @ + 1] /\ Affordable
  /\ EndJob(u, mem[u])
  /\ UNCHANGED <<file, session, server, cache>>

(* The process dies: state.json and the cached files stay as they are.     *)
Crash(u) ==
  /\ pc[u] # "idle"
  /\ spent' = [spent EXCEPT !.faults = @ + 1] /\ Affordable
  /\ EndJob(u, disk[u])
  /\ UNCHANGED <<file, session, server, cache>>

JobStep(u) ==
  \/ \E c \in Cycles : PushSkip(u, c) \/ PushSend(u, c)
  \/ Commit(u) \/ PushAck(u) \/ EndSave(u)
  \/ Probe(u) \/ Fetch(u) \/ Apply(u) \/ EndPull(u)
  \/ tx[u].status = "refused" /\ Fail(u)

UserStep(u) ==
  \/ \E c \in Cycles : Edit(u, c) \/ StartSave(u, c)
  \/ \E t \in Teams : Join(u, t)
  \/ Leave(u) \/ RefreshFacts(u)

Next == \E u \in Users :
  UserStep(u) \/ StartTick(u) \/ JobStep(u) \/ Fail(u) \/ Crash(u)

Spec == Init /\ [][Next]_vars

(* The tick is a timer that the queue serves in turn, whatever saves are   *)
(* in front of it; a running job goes on to its end; the server commits    *)
(* what it has begun.                                                      *)
Fairness == \A u \in Users : SF_vars(StartTick(u)) /\ WF_vars(JobStep(u))

FairSpec == Spec /\ Fairness

(***************************************************************************)
(* Properties.                                                             *)
(***************************************************************************)
(* The state stays in its types: in particular a refused or failed push    *)
(* leaves no half-built request behind.                                    *)
TypeOK ==
  /\ file \in [Users -> [Cycles -> Contents \union {NoContent}]]
  /\ member \in [Users -> Teams \union {NoTeam}]
  /\ session \in [Users -> Teams \union {NoTeam}]
  /\ remote \in [Teams -> [Keys -> Row \union {NoRow}]]
  /\ clock \in Nat
  /\ log \in SUBSET Row
  /\ disk \in [Users -> CacheState]
  /\ mem \in [Users -> CacheState]
  /\ cache \in [Users -> [Keys -> Row \union {NoRow}]]
  /\ pc \in [Users -> {"idle", "push", "sent", "fetch", "apply"}]
  /\ kind \in [Users -> {"tick", "save"}]
  /\ todo \in [Users -> SUBSET Cycles]
  /\ tx \in [Users -> Tx \union {NoTx}]
  /\ rows \in [Users -> SUBSET Row]
  /\ mark \in [Users -> Nat]
  /\ spent \in Spent

(* Neither state.json nor the running job ever claims a version of a       *)
(* cycle newer than the one in the cached file, through throwing writes,   *)
(* crashes between a write and the record, and resets of the cache.  A     *)
(* version claimed and not held would never be fetched again.              *)
VersionsHonest ==
  \A u \in Users, k \in Keys :
    /\ disk[u].versions[k] <= cache[u][k].ts
    /\ mem[u].versions[k] <= cache[u][k].ts

(* A cached file is, byte for byte, a row that its owner committed under   *)
(* that very key, and never the machine's own cycle.                       *)
CacheIsCommitted ==
  \A u \in Users, k \in Keys :
    cache[u][k] # NoRow =>
      /\ cache[u][k] \in log
      /\ <<cache[u][k].owner, cache[u][k].cycle>> = k
      /\ k[1] # u

(* The row in the table is the last one its owner committed there, and two *)
(* versions of a cycle never bear the same timestamp: otherwise the strict *)
(* comparison of Apply would drop the second.                              *)
RemoteIsNewest ==
  \A r \in log :
    LET now == remote[r.team][<<r.owner, r.cycle>>] IN now = r \/ r.ts < now.ts

(* The machines implement the promise of TeamMirror.                       *)
Mirror == INSTANCE TeamMirror WITH published <- log, mirror <- cache
ImplementsMirror == Mirror!MirrorSpec

Settled(u) == session[u] # NoTeam /\ session[u] = member[u]

(* Every teammate's cache comes to hold what the table holds, whatever     *)
(* requests failed, whatever machines crashed and whoever joined late.     *)
(* For two machines: of two teammates' rows the one with the older         *)
(* timestamp may commit last, and then moves no watermark.  Unless         *)
(* somebody left: a save in the next team takes the old watermark there.   *)
ViewersConverge ==
  Cardinality(Users) = 2 =>
    \A u, v \in Users : \A c \in Cycles :
      u # v =>
        <>[](/\ Settled(u) /\ Settled(v) /\ member[u] = member[v] /\ spent.leaves = 0
             => cache[v][<<u, c>>] = remote[member[u]][<<u, c>>])

(* A cycle file that stops changing comes to be what the table holds, if   *)
(* no request failed and nobody left: after a lost answer, or a save in    *)
(* the next team, the machine may believe the row holds a text it does     *)
(* not, and skip the push.                                                 *)
OwnersConverge ==
  \A u \in Users, c \in Cycles :
    <>[](Settled(u) /\ file[u][c] # NoContent /\ spent.faults = 0 /\ spent.leaves = 0
         => remote[member[u]][<<u, c>>].content = file[u][c])

(* Files, table and caches come to agree: both of the above.               *)
Converges == ViewersConverge /\ OwnersConverge

(* A tick for a team starts with nothing of another team in the cache ("A  *)
(* different team means the cached markdown belongs to people we can no    *)
(* longer see").                                                           *)
TickShowsOwnTeam ==
  [][\A u \in Users :
       StartTick(u) => \A k \in Keys :
         cache'[u][k] # NoRow => cache'[u][k].team = session[u]]_vars
=============================================================================
