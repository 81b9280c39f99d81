----------------------------- MODULE CycleDocs -----------------------------
(***************************************************************************)
(* The cycle files of the vault (cycles/file.ts) and everything that       *)
(* writes them: the user at the console, the planning runs that take       *)
(* minutes (skills/runner.ts, cycles/writeback.ts), the drafting of a      *)
(* review, the model that is asked where a line belongs                    *)
(* (cycles/unplanned.ts), and the daily step with Linear                   *)
(* (cycles/linear-sync.ts).  Reads and writes of a file are synchronous;   *)
(* what waits for a model is a job, and jobs overlap.                      *)
(*                                                                         *)
(* The priorities of a cycle are a set of lines; a retro or a review is a  *)
(* line by itself.  A cycle is its number in the order of start dates.     *)
(* Unknown headings and keys, and the labels of the dates, are left out.   *)
(***************************************************************************)
EXTENDS Naturals, FiniteSets

CONSTANTS
  LastCycle,  \* bound: the cycles are 1..LastCycle
  Things,     \* what a line of the priorities may name
  Issues,     \* those that are issues of Linear
  Captured,   \* those that the user captured on a day of each cycle
  Jobs,       \* bound: what may wait for a model at a time
  Loads       \* bounds: how often what happens from outside happens

Cycles == 1..LastCycle
Sections == {"priorities", "retro", "review"}
Texts == {"mine", "drafted", "redrafted"}
Groups == {"work", "own"}
Line == [what : Things \union Texts, at : Groups \union {"pen"}, done : BOOLEAN]
Load == [saves : Nat, runs : Nat, asks : Nat, syncs : Nat, faults : Nat]

VARIABLES
  now,     \* the cycle that covers today
  files,   \* the cycles that have a file
  broken,  \* those whose frontmatter cannot be parsed
  docs,    \* docs[c][s]: the body of a section, who wrote it, its pending draft
  habits,  \* habits[c]: who wrote the diagnosis of c
  jobs,    \* jobs[j]: what waits for a model
  left     \* what is left of the load

vars == <<now, files, broken, docs, habits, jobs, left>>

NoDraft == [body |-> {}, by |-> "none"]
Unwritten == [body |-> {}, by |-> "unset", draft |-> NoDraft]
Blank == [s \in Sections |-> Unwritten]
Idle == [kind |-> "idle"]

Item(t, g) == [what |-> t, at |-> g, done |-> FALSE]
Group(t) == IF t \in Issues THEN "work" ELSE "own"
Planned(S) == {Item(t, Group(t)) : t \in S}
Plans == {Planned(S) : S \in SUBSET Things \ {{}}}
Free(t) == {Item(t, "own")}
Drafted == {Free("drafted"), Free("redrafted")}
Named(body) == {l.what : l \in body}

Init ==
  /\ now = 1 /\ files = {1} /\ broken = {}
  /\ docs = [c \in Cycles |-> Blank]
  /\ habits = [c \in Cycles |-> "none"]
  /\ jobs = [j \in Jobs |-> Idle]
  /\ left \in Loads

Spend(what) == left[what] > 0 /\ left' = [left EXCEPT ![what] = @ - 1]

(***************************************************************************)
(* The file                                                                *)
(***************************************************************************)
Writable(c) == c \in files \ broken

(* Mutant of Written: the draft outlives the body that settles it.         *)
WrittenBeside(d, s, body, by, keepDraft) ==
  [d EXCEPT ![s] = [body |-> body, by |-> by, draft |-> @.draft]]

(* writeSection: a body settles a section, unless the draft is to be kept. *)
Written(d, s, body, by, keepDraft) ==
  [d EXCEPT ![s] = [body |-> body, by |-> by, draft |-> IF keepDraft THEN @.draft ELSE NoDraft]]

Staged(d, s, body, by) == [d EXCEPT ![s].draft = [body |-> body, by |-> by]]

SourceFor(s) == CASE s = "retro" -> "user" [] s = "review" -> "ai" [] OTHER -> "planner"

Kept(sec, s) == sec.by = "user" \/ (s = "review" /\ sec.body # {})

(* Mutant of Applied: what the user wrote is not asked for.                *)
AppliedOver(d, s, body) == Written(d, s, body, SourceFor(s), FALSE)

(* applyCyclePlan, for one section.                                        *)
Applied(d, s, body) ==
  IF d[s].by # "unset" /\ d[s].body = body THEN d
  ELSE IF ~Kept(d[s], s) THEN Written(d, s, body, SourceFor(s), FALSE)
  ELSE IF d[s].draft.body = body THEN d ELSE Staged(d, s, body, SourceFor(s))

(***************************************************************************)
(* The user at the console                                                 *)
(***************************************************************************)
(* saveCycleSection: whatever is typed is the user's.                      *)
Save(c, s, body) ==
  /\ Spend("saves") /\ Writable(c)
  /\ docs' = [docs EXCEPT ![c] = Written(@, s, body, "user", FALSE)]
  /\ UNCHANGED <<now, files, broken, habits, jobs>>

(* What the user may type: any plan, the present one with a line ticked,   *)
(* or words.                                                               *)
Typed(c, s) ==
  IF s # "priorities" THEN {{}, Free("mine")}
  ELSE LET body == docs[c][s].body
       IN Plans \union {{}} \union {(body \ {l}) \union {[l EXCEPT !.done = TRUE]} : l \in body}

Pending(c, s) == docs[c][s].draft

(* resolveCycleDraft                                                       *)
Accept(c, s) ==
  /\ Writable(c) /\ Pending(c, s) # NoDraft
  /\ docs' = [docs EXCEPT ![c] = Written(@, s, Pending(c, s).body, Pending(c, s).by, FALSE)]
  /\ UNCHANGED <<now, files, broken, habits, jobs, left>>

Discard(c, s) ==
  /\ Writable(c) /\ Pending(c, s) # NoDraft
  /\ docs' = [docs EXCEPT ![c][s].draft = NoDraft]
  /\ UNCHANGED <<now, files, broken, habits, jobs, left>>

(* Mutant of BreakByHand: a file that is not there is taken for broken.    *)
BreakAny(c) ==
  /\ Spend("faults") /\ c \notin broken /\ broken' = broken \union {c}
  /\ UNCHANGED <<now, files, docs, habits, jobs>>

(* The file is meant to be edited by hand, too.                            *)
BreakByHand(c) ==
  /\ Spend("faults") /\ Writable(c) /\ broken' = broken \union {c}
  /\ UNCHANGED <<now, files, docs, habits, jobs>>

RepairByHand(c) ==
  /\ c \in broken /\ broken' = broken \ {c}
  /\ UNCHANGED <<now, files, docs, habits, jobs, left>>

(***************************************************************************)
(* Planning runs                                                           *)
(***************************************************************************)
Newest == CHOOSE c \in files : \A d \in files : d <= c
Before(c) == IF \E d \in files : d < c
             THEN CHOOSE d \in files : d < c /\ \A e \in files : e < c => e <= d ELSE 0

Queued(j, job) == jobs[j] = Idle /\ jobs' = [jobs EXCEPT ![j] = job]

(* pickReviewAndTarget: the closed cycle and the one after it, or today's  *)
(* and the one before.                                                     *)
RunOf(why, closed, only, all) ==
  [kind |-> "run", why |-> why, only |-> only,
   reviewed |-> IF closed # 0 THEN closed ELSE Before(now),
   target |-> IF closed = 0 THEN now
              ELSE CHOOSE d \in all : d > closed /\ \A e \in all : e > closed => d <= e]

(* createCycle, with planNextCycle: the next one follows the newest, and   *)
(* its priorities are left to a run.                                       *)
Create(j) ==
  /\ Spend("runs") /\ Newest + 1 \in Cycles
  /\ files' = files \union {Newest + 1}
  /\ Queued(j, RunOf("create", 0, TRUE, files))
  /\ UNCHANGED <<now, broken, docs, habits>>

(* replanCycle for the current cycle, and the same run asked for in a chat *)
Replan(j) ==
  /\ Spend("runs") /\ now \in files
  /\ Queued(j, RunOf("replan", 0, FALSE, files))
  /\ UNCHANGED <<now, files, broken, docs, habits>>

Closing(c) == \E j \in Jobs : jobs[j].kind = "run" /\ jobs[j].why = "close" /\ jobs[j].reviewed = c

(* startCloseCycle: after the review, and once at a time.                  *)
Close(c, j) ==
  /\ Spend("runs") /\ c \in files /\ ~Closing(c)
  /\ docs[c]["review"].body # {}
  /\ LET all == IF \E d \in files : d > c THEN files ELSE files \union {c + 1}
     IN all \subseteq Cycles /\ files' = all /\ Queued(j, RunOf("close", c, TRUE, all))
  /\ UNCHANGED <<now, broken, docs, habits>>

(* One plan of writeLocalCyclesFromRun: a file that is missing is made,    *)
(* one that is broken is refused.                                          *)
Land(D, c, s, body) ==
  IF body = {} \/ c = 0 \/ c \in broken THEN D ELSE [D EXCEPT ![c] = Applied(@, s, body)]

(* The end of runConfiguredSkill: the plan of the target, the review of    *)
(* the cycle before it, and the diagnosis.  Each may be missing in what    *)
(* the skill wrote.                                                        *)
RunEnds(j) ==
  /\ jobs[j].kind = "run" /\ jobs' = [jobs EXCEPT ![j] = Idle]
  /\ LET r == jobs[j]
     IN \E plan \in Plans \union {{}}, text \in Drafted \union {{}} :
          LET review == IF r.only THEN {} ELSE text
          IN /\ docs' = Land(Land(docs, r.target, "priorities", plan), r.reviewed, "review", review)
             /\ files' = files \union {c \in {r.target} : plan # {} /\ c \notin broken}
             /\ habits' \in {habits} \union
                  {[habits EXCEPT ![c] = "run"] : c \in {r.reviewed} \ {0}}
  /\ UNCHANGED <<now, broken, left>>

(***************************************************************************)
(* Reviews and diagnoses                                                   *)
(***************************************************************************)
(* generateCycleReviewSection, with save, up to the model.                 *)
AskReview(c, replace, j) ==
  /\ Spend("asks") /\ Writable(c)
  /\ docs[c]["priorities"].body # {} \/ docs[c]["retro"].body # {}
  /\ replace \/ docs[c]["review"].body = {}
  /\ Queued(j, [kind |-> "review", cycle |-> c, replace |-> replace])
  /\ UNCHANGED <<now, files, broken, docs, habits>>

(* The answer is saved, and the diagnosis is begun in the same job slot.   *)
ReviewEnds(j) ==
  /\ jobs[j].kind = "review"
  /\ LET c == jobs[j].cycle
     IN /\ jobs' = [jobs EXCEPT ![j] = [kind |-> "diagnosis", cycle |-> c]]
        /\ \E text \in Drafted :
             docs' = IF Writable(c) THEN [docs EXCEPT ![c] = Written(@, "review", text, "ai", FALSE)]
                     ELSE docs
  /\ UNCHANGED <<now, files, broken, habits, left>>

(* generateCycleDiagnosis                                                  *)
DiagnosisEnds(j) ==
  /\ jobs[j].kind = "diagnosis" /\ jobs' = [jobs EXCEPT ![j] = Idle]
  /\ habits' = [habits EXCEPT ![jobs[j].cycle] = "review"]
  /\ UNCHANGED <<now, files, broken, docs, left>>

(***************************************************************************)
(* Lines that are filed by a model                                         *)
(***************************************************************************)
(* cycleScheduleItems: the lines without a tick.                           *)
Open(c) == Named({l \in docs[c]["priorities"].body : ~l.done})

(* unplannedForCycle: the captures of the cycle that are no open line.     *)
Unplanned(c) == IF c \in files THEN Captured \ Open(c) ELSE {}

Priorities(c) == docs[c]["priorities"].body
Refiled(c, body) == [docs EXCEPT ![c] = Written(@, "priorities", body, "user", TRUE)]

(* promoteToPriorities up to the model: the body is read here.             *)
Promote(c, t, j) ==
  /\ Spend("asks") /\ c \in files /\ t \notin Open(c)
  /\ Queued(j, [kind |-> "promote", cycle |-> c, what |-> t, seen |-> Priorities(c)])
  /\ UNCHANGED <<now, files, broken, docs, habits>>

(* Mutant of PromoteEnds: the draft goes.                                  *)
PromoteEndsDraft(j) ==
  /\ jobs[j].kind = "promote" /\ jobs' = [jobs EXCEPT ![j] = Idle]
  /\ LET r == jobs[j]
     IN \E g \in {l.at : l \in r.seen} \union {"pen"} :
          docs' = IF Writable(r.cycle)
                  THEN [docs EXCEPT ![r.cycle] = Written(@, "priorities",
                          r.seen \union {Item(r.what, g)}, "user", FALSE)]
                  ELSE docs
  /\ UNCHANGED <<now, files, broken, habits, left>>

(* ... and after it: under the heading it picked, or in the pen, or not at *)
(* all, when the line is there in other words.                             *)
PromoteEnds(j) ==
  /\ jobs[j].kind = "promote" /\ jobs' = [jobs EXCEPT ![j] = Idle]
  /\ LET r == jobs[j]
     IN \/ UNCHANGED docs
        \/ /\ Writable(r.cycle)
           /\ \E g \in {l.at : l \in r.seen} \union {"pen"} :
                docs' = Refiled(r.cycle, r.seen \union {Item(r.what, g)})
  /\ UNCHANGED <<now, files, broken, habits, left>>

(* refilePromoted: the lines in the pen that find a group.                 *)
Refile(c, j) ==
  /\ Spend("asks") /\ c \in files /\ \E l \in Priorities(c) : l.at = "pen"
  /\ Queued(j, [kind |-> "refile", cycle |-> c, seen |-> Priorities(c)])
  /\ UNCHANGED <<now, files, broken, docs, habits>>

RefileEnds(j) ==
  /\ jobs[j].kind = "refile" /\ jobs' = [jobs EXCEPT ![j] = Idle]
  /\ LET r == jobs[j]
         pen == {l \in r.seen : l.at = "pen"}
     IN \/ UNCHANGED docs
        \/ /\ Writable(r.cycle)
           /\ \E moved \in SUBSET pen \ {{}}, g \in {l.at : l \in r.seen \ pen} :
                docs' = Refiled(r.cycle, (r.seen \ moved) \union {[l EXCEPT !.at = g] : l \in moved})
  /\ UNCHANGED <<now, files, broken, habits, left>>

(* A model that fails or is not to be read: nothing is written.            *)
JobFails(j) ==
  /\ jobs[j] # Idle /\ jobs' = [jobs EXCEPT ![j] = Idle]
  /\ UNCHANGED <<now, files, broken, docs, habits, left>>

(***************************************************************************)
(* Linear, time and crashes                                                *)
(***************************************************************************)
(* workHeading: the group that names most issues, or that of the work.     *)
WorkHeadings(body) ==
  LET count(g) == Cardinality({l \in body : l.at = g /\ l.what \in Issues})
      best == {g \in Groups : count(g) > 0 /\ \A h \in Groups : count(h) <= count(g)}
  IN IF best # {} THEN best ELSE {g \in {"work"} : \E l \in body : l.at = g}

(* applyLinear: what is completed is ticked, what is started is added.     *)
Stepped(body, started, completed) ==
  LET ticked == {IF l.what \in completed THEN [l EXCEPT !.done = TRUE] ELSE l : l \in body}
      new == started \ Named(body)
  IN {ticked \union {Item(t, g) : t \in new} : g \in WorkHeadings(body)}
       \union {b \in {ticked} : WorkHeadings(body) = {}}

(* syncLinearIntoPriorities, in the morning plan: who wrote it stays.      *)
SyncLinear(started, completed) ==
  /\ Spend("syncs") /\ Writable(now) /\ Priorities(now) # {}
  /\ \E body \in Stepped(Priorities(now), started, completed) :
       docs' = [docs EXCEPT ![now] = Written(@, "priorities", body, @["priorities"].by, TRUE)]
  /\ UNCHANGED <<now, files, broken, habits, jobs>>

NextCycle ==
  /\ now < LastCycle /\ now' = now + 1
  /\ UNCHANGED <<files, broken, docs, habits, jobs, left>>

(* The process ends: what waited is forgotten, the files are whole.        *)
Crash ==
  /\ Spend("faults") /\ jobs' = [j \in Jobs |-> Idle]
  /\ UNCHANGED <<now, files, broken, docs, habits>>

UserActs(c, s) == (\E body \in Typed(c, s) : Save(c, s, body)) \/ Accept(c, s) \/ Discard(c, s)
JobEnds(j) == RunEnds(j) \/ ReviewEnds(j) \/ DiagnosisEnds(j) \/ PromoteEnds(j) \/ RefileEnds(j)

Next ==
  \/ \E c \in Cycles, s \in Sections : UserActs(c, s)
  \/ \E c \in Cycles : BreakByHand(c) \/ RepairByHand(c)
  \/ \E j \in Jobs : Create(j) \/ Replan(j) \/ JobEnds(j) \/ JobFails(j)
  \/ \E j \in Jobs, c \in Cycles :
       \/ Close(c, j) \/ Refile(c, j)
       \/ \E replace \in BOOLEAN : AskReview(c, replace, j)
       \/ \E t \in Captured : Promote(c, t, j)
  \/ \E started, completed \in SUBSET Issues :
       started \intersect completed = {} /\ SyncLinear(started, completed)
  \/ NextCycle
  \/ Crash

Spec == Init /\ [][Next]_vars

(***************************************************************************)
(* Properties                                                              *)
(***************************************************************************)
(* Jobs are about cycles that have a file, and files are never taken away. *)
TypeOK ==
  /\ now \in Cycles /\ files \subseteq Cycles /\ broken \subseteq files
  /\ \A c \in Cycles, s \in Sections :
       LET x == docs[c][s]
       IN /\ x.body \subseteq Line /\ x.by \in {"unset", "user", "planner", "ai"}
          /\ x.draft.body \subseteq Line /\ x.draft.by \in {"none", "planner", "ai"}
          /\ c \notin files => x = Unwritten
  /\ habits \in [Cycles -> {"none", "run", "review"}]
  /\ \A j \in Jobs : jobs[j].kind \in {"idle", "run", "review", "diagnosis", "promote", "refile"}
  /\ left \in Load

(* A draft waits only beside words that a run may not replace (the user's,  *)
(* or a review): were it beside the planner's own, the next run would write *)
(* there and the draft would go unread (migration.ts applyCyclePlan).       *)
DraftBesideKept == \A c \in Cycles, s \in Sections :
  docs[c][s].draft # NoDraft => Kept(docs[c][s], s)

Answered(kinds, c) == \E j \in Jobs :
  jobs[j].kind \in kinds /\ jobs[j].cycle = c /\ jobs'[j] # jobs[j]

(* However runs, reviews, filings and the daily step overlap, words of the  *)
(* user and a review that is there change only by the user, who saves them  *)
(* or takes the draft that is waiting, by the drafting of a review (its     *)
(* section), or by what files and ticks lines (the priorities).             *)
KeepsOwnedWords ==
  \A c \in Cycles, s \in Sections :
    LET x == docs[c][s]  y == docs'[c][s]
    IN Kept(x, s) /\ y.body # x.body =>
         \/ left' # left /\ (left'.saves < left.saves \/ (s = "priorities" /\ left'.syncs < left.syncs))
         \/ y.body = x.draft.body /\ y.by = x.draft.by
         \/ (s = "review" /\ Answered({"review"}, c))
         \/ (s = "priorities" /\ Answered({"promote", "refile"}, c))
OwnedWordsKept == [][KeepsOwnedWords]_vars

(* A draft of a run is never dropped unread: it goes when the user decides  *)
(* (saves, accepts, discards), when a newer one takes its place, or when    *)
(* the review is drafted anew; filing and ticking lines leave it.           *)
KeepsDraft ==
  \A c \in Cycles, s \in Sections :
    docs[c][s].draft # NoDraft /\ docs'[c][s].draft = NoDraft =>
      \/ jobs' = jobs /\ left'.syncs = left.syncs
      \/ s = "review" /\ Answered({"review"}, c)
DraftWaits == [][KeepsDraft]_vars

(* server.ts:2131 says of the drafting of a review that it "only ever fills *)
(* a gap": unless told to replace, it writes where there is no review.      *)
FillsGap ==
  \A j \in Jobs : jobs[j].kind = "review" /\ ~jobs[j].replace /\ docs' # docs /\ jobs'[j] # jobs[j]
    => docs[jobs[j].cycle]["review"].body = {}
ReviewFillsGap == [][FillsGap]_vars

(* unplanned.ts:14 says that a promoted item leaves the list of what was    *)
(* not planned: what is a line of the priorities is not listed again.       *)
PromotedLeaves == \A c \in Cycles : Unplanned(c) \intersect Named(Priorities(c)) = {}
=============================================================================
