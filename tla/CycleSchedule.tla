--------------------------- MODULE CycleSchedule ---------------------------
(***************************************************************************)
(* The schedule of one cycle (cycles/schedule.ts): which session of which  *)
(* priority is on which day.  It is written by a model, which takes        *)
(* minutes; by a client that edits the copy it once read; and by what the  *)
(* user does to the rows of today (cycles/schedule-writeback.ts), where a  *)
(* fixed slot of the routine stands for the priorities assigned to it      *)
(* (cycles/fixed-schedule.ts).                                             *)
(*                                                                         *)
(* Lengths, steps, deadlines and times of day are left out.                *)
(***************************************************************************)
EXTENDS Naturals, FiniteSets

CONSTANTS
  Items,     \* the open priorities of the cycle
  Regular,   \* bound: the sessions a model may plan
  Adhocs,    \* bound: the ad-hoc sessions, by the capture each belongs to
  ItemOf,    \* the priority of each session (an ad-hoc one is given one)
  LastDay,   \* the cycle has the days 1..LastDay
  Budgets    \* bounds: how often what happens from outside happens

Days == 1..LastDay
Sessions == Regular \union Adhocs
Slot == "slot"
Rows == Items \union {Slot}
Budget == [acts : Nat, adds : Nat, gens : Nat, pages : Nat]

VARIABLES
  today,
  sched,  \* sched[s]: its day (0: it is not there), whether it is skipped,
          \* the day it was moved from (or 0), the ad-hoc one that took it
  fixed,  \* the priorities assigned to the slot
  dealt,  \* the rows of today that were deferred or removed
  extras, \* extras[a]: what was displaced by a when it was added
  page,   \* the copy of the schedule that a client edits
  job,    \* the generation that runs
  undo,   \* the last change of a row today, and the schedule before it
  budget

vars == <<today, sched, fixed, dealt, extras, page, job, undo, budget>>

Nobody == "nobody"
Absent == [day |-> 0, skipped |-> FALSE, from |-> 0, by |-> Nobody]
Planned(d) == [Absent EXCEPT !.day = d]
NoPage == [open |-> FALSE]
NoJob == [kind |-> "none"]
NoChange == [row |-> "none"]
Unadded == [row |-> "unadded"]

(* scheduledSessionsFor: what is on for a day.                             *)
OnDay(S, d) == {s \in Sessions : S[s].day = d /\ ~S[s].skipped}
OnFor(S, d, i) == {s \in OnDay(S, d) : ItemOf[s] = i}

(* scheduledElsewhere: what the plan of d leaves to another day.           *)
Elsewhere(S, d) ==
  {i \in Items : OnFor(S, d, i) = {} /\ \E e \in Days : OnFor(S, e, i) # {}}

(* fixedScheduleFor, fixedCoverage: what the slot stands for on a day.     *)
Covered(S, f, d) == {i \in f : OnFor(S, d, i) # {}}

(* The priorities that follow a row (server.ts scheduleWriteBack).         *)
Behind(row) == IF row = Slot THEN Covered(sched, fixed, today) ELSE {row}

(* The rows of the sheet: the slot, and what it does not stand for.        *)
Shown == {Slot} \union (Items \ (Covered(sched, fixed, today) \union Elsewhere(sched, today)))

(***************************************************************************)
(* cycles/schedule-writeback.ts                                            *)
(***************************************************************************)
Change(S, T, f(_)) == [s \in Sessions |-> IF s \in T THEN f(S[s]) ELSE S[s]]

(* deferScheduled: to tomorrow, and on the last day to nowhere.            *)
Deferred(S, d, I) ==
  Change(S, {s \in OnDay(S, d) : ItemOf[s] \in I},
         LAMBDA x : IF d + 1 \in Days THEN [x EXCEPT !.day = d + 1, !.from = d]
                    ELSE [x EXCEPT !.skipped = TRUE])

(* moveScheduledTo                                                         *)
MovedTo(S, from, to, i) ==
  Change(S, OnFor(S, from, i), LAMBDA x : [x EXCEPT !.day = to, !.from = from])

(* skipScheduled                                                           *)
Skipped(S, d, I) ==
  Change(S, {s \in OnDay(S, d) : ItemOf[s] \in I}, LAMBDA x : [x EXCEPT !.skipped = TRUE])

(* Mutant of Restored: what an ad-hoc session took comes back, too.        *)
RestoredAll(S, d, I) ==
  Change(S, {s \in Sessions : ItemOf[s] \in I /\ (S[s].from = d \/ (S[s].day = d /\ S[s].skipped))},
         LAMBDA x : IF x.from = d THEN [x EXCEPT !.day = d, !.from = 0] ELSE [x EXCEPT !.skipped = FALSE])

(* restoreScheduled: what was moved away from d, and what is skipped on it *)
(* unless an ad-hoc session took it.                                       *)
Restored(S, d, I) ==
  LET away(s) == S[s].day # 0 /\ S[s].from = d
      off(s) == S[s].day = d /\ S[s].skipped /\ S[s].by = Nobody
  IN Change(S, {s \in Sessions : ItemOf[s] \in I /\ (away(s) \/ off(s))},
            LAMBDA x : IF x.from = d THEN [x EXCEPT !.day = d, !.from = 0]
                       ELSE [x EXCEPT !.skipped = FALSE])

(* The nearest later session that an ad-hoc one may take.                  *)
Nearest(S, d, i) ==
  LET later == {s \in Sessions : ItemOf[s] = i /\ S[s].day > d /\ ~S[s].skipped}
  IN {s \in later : \A t \in later : S[s].day <= S[t].day}

(* addAdhocSession                                                         *)
AddedAdhoc(S, a, d, extra) ==
  LET taking == IF extra THEN {} ELSE Nearest(S, d, ItemOf[a])
      put(T) == [T EXCEPT ![a] = Planned(d)]
  IN IF taking = {} THEN {put(S)}
     ELSE {put([S EXCEPT ![s].skipped = TRUE, ![s].by = a]) : s \in taking}

(* removeAdhocSession: when it is there, it goes and gives back.           *)
RemovedAdhoc(S, a) ==
  IF S[a].day = 0 THEN S
  ELSE [s \in Sessions |->
          IF s = a THEN Absent
          ELSE IF S[s].by = a THEN [S[s] EXCEPT !.skipped = FALSE, !.by = Nobody] ELSE S[s]]

(***************************************************************************)
(* The rows of today                                                       *)
(***************************************************************************)
Spend(what) == budget[what] > 0 /\ budget' = [budget EXCEPT ![what] = @ - 1]

RowEffect(S, row, event, I) ==
  CASE event = "defer" -> Deferred(S, today, I)
    [] event = "remove" -> Skipped(S, today, I)
    [] event = "reopen" -> Restored(S, today, I)

(* todoFeedback, for a row of today.                                       *)
TurnOff(row, event) ==
  /\ Spend("acts") /\ row \in Shown \ dealt
  /\ sched' = RowEffect(sched, row, event, Behind(row))
  /\ dealt' = dealt \union {row}
  /\ undo' = [row |-> row, on |-> [d \in Days |-> OnDay(sched, d)]]
  /\ UNCHANGED <<today, fixed, extras, page, job>>

Reopen(row) ==
  /\ row \in dealt /\ dealt' = dealt \ {row}
  /\ sched' = RowEffect(sched, row, "reopen", Behind(row))
  /\ undo' = NoChange
  /\ UNCHANGED <<today, fixed, extras, page, job, budget>>

(* deferSqueezed: what an ad-hoc thing crowds out is put off.              *)
Squeeze(I) ==
  /\ Spend("acts") /\ I # {} /\ \A i \in I : OnFor(sched, today, i) # {}
  /\ sched' = Deferred(sched, today, I)
  /\ dealt' = dealt \union I
  /\ undo' = NoChange
  /\ UNCHANGED <<today, fixed, extras, page, job>>

(* moveRowToDay (todo/wrapup.ts): a row that was left on a past day.       *)
MoveIn(from, i) ==
  /\ Spend("acts") /\ from < today
  /\ sched' = MovedTo(sched, from, today, i)
  /\ undo' = NoChange
  /\ UNCHANGED <<today, fixed, dealt, extras, page, job>>

(***************************************************************************)
(* Ad-hoc sessions                                                         *)
(***************************************************************************)
(* addAdhoc: the session, and what happens to the row that it displaces.   *)
AddAdhoc(a, extra, row, event) ==
  /\ Spend("adds") /\ extras[a] = Unadded /\ row \in Shown \union {"none"}
  /\ \E S \in AddedAdhoc(sched, a, today, extra) :
       sched' = IF row = "none" THEN S
                ELSE RowEffect(S, row, event, IF row = Slot THEN Covered(S, fixed, today) ELSE {row})
  /\ extras' = [extras EXCEPT ![a] = [row |-> row]]
  /\ dealt' = dealt \union ({row} \ {"none"})
  /\ undo' = NoChange
  /\ UNCHANGED <<today, fixed, page, job>>

(* undoAdhoc                                                               *)
UndoAdhoc(a) ==
  /\ extras[a].row \notin {"unadded", "undone"}
  /\ LET S == RemovedAdhoc(sched, a)
         row == extras[a].row
     IN /\ sched' = IF row = "none" THEN S
                    ELSE RowEffect(S, row, "reopen", IF row = Slot THEN Covered(S, fixed, today) ELSE {row})
        /\ dealt' = dealt \ {row}
  /\ extras' = [extras EXCEPT ![a] = [row |-> "undone"]]
  /\ undo' = NoChange
  /\ UNCHANGED <<today, fixed, page, job, budget>>

(* adhocFollowsRow: the row of an ad-hoc session is removed.               *)
RemoveAdhocRow(a) ==
  /\ Spend("acts") /\ extras[a].row \notin {"unadded", "undone"}
  /\ sched' = RemovedAdhoc(sched, a)
  /\ extras' = [extras EXCEPT ![a] = [row |-> "undone"]]
  /\ undo' = NoChange
  /\ UNCHANGED <<today, fixed, dealt, page, job>>

(***************************************************************************)
(* The client, and the model                                               *)
(***************************************************************************)
(* readCycleSchedule                                                       *)
OpenPage ==
  /\ Spend("pages") /\ page' = [open |-> TRUE, sessions |-> sched]
  /\ UNCHANGED <<today, sched, fixed, dealt, extras, job, undo>>

(* saveCycleSchedule, with normalizeSchedule: the whole copy, with a       *)
(* session put on another day or taken out; what it says of the slot, if   *)
(* it says anything.                                                       *)
SavePage(s, d, f) ==
  /\ page.open /\ page' = NoPage /\ page.sessions[s].day # 0
  /\ sched' = IF d = 0 THEN [page.sessions EXCEPT ![s] = Absent]
              ELSE [page.sessions EXCEPT ![s].day = d]
  /\ fixed' = f
  /\ undo' = NoChange
  /\ UNCHANGED <<today, dealt, extras, job, budget>>

(* startCycleSchedule, generateCycleSchedule up to the model: one at a     *)
(* time, from what the schedule is now.                                    *)
Generate ==
  /\ Spend("gens") /\ job = NoJob
  /\ job' = [kind |-> "generate", day |-> today, seen |-> sched, fixed |-> fixed]
  /\ UNCHANGED <<today, sched, fixed, dealt, extras, page, undo>>

(* What a model may plan from a day on: every regular session that is not  *)
(* kept, on some day or on none.                                           *)
Fresh(kept, d) ==
  {[s \in Sessions |-> IF s \in kept \/ s \in Adhocs THEN Absent
                       ELSE IF p[s] = 0 THEN Absent ELSE Planned(p[s])] :
     p \in [Regular -> {0} \union (d..LastDay)]}

(* ... and after it: what was before that day as it was then seen, the     *)
(* fresh ones, and the slot as it was settled unless the model settles it. *)
GenerationEnds ==
  /\ job # NoJob /\ job' = NoJob
  /\ LET past == {s \in Sessions : job.seen[s].day \in 1..(job.day - 1)}
     IN \E new \in Fresh(past, job.day), f \in {{}} \union {{i} : i \in Items} :
          /\ sched' = [s \in Sessions |-> IF s \in past THEN job.seen[s] ELSE new[s]]
          /\ fixed' = IF f = {} THEN job.fixed ELSE f
  /\ undo' = NoChange
  /\ UNCHANGED <<today, dealt, extras, page, budget>>

GenerationFails ==
  /\ job # NoJob /\ job' = NoJob
  /\ UNCHANGED <<today, sched, fixed, dealt, extras, page, undo, budget>>

NextDay ==
  /\ today < LastDay /\ today' = today + 1 /\ dealt' = {} /\ undo' = NoChange
  /\ UNCHANGED <<sched, fixed, extras, page, job, budget>>

(* A schedule that a model made on the first day.                          *)
Init ==
  /\ today = 1
  /\ sched \in {[s \in Sessions |-> IF s \in Regular THEN Planned(p[s]) ELSE Absent] : p \in [Regular -> Days]}
  /\ fixed \in {{i} : i \in Items}
  /\ dealt = {} /\ extras = [a \in Adhocs |-> Unadded]
  /\ page = NoPage /\ job = NoJob /\ undo = NoChange
  /\ budget \in Budgets

Next ==
  \/ \E row \in Rows, event \in {"defer", "remove"} : TurnOff(row, event)
  \/ \E row \in Rows : Reopen(row)
  \/ \E I \in SUBSET Items : Squeeze(I)
  \/ \E d \in Days, i \in Items : MoveIn(d, i)
  \/ \E a \in Adhocs, extra \in BOOLEAN, row \in Rows \union {"none"}, event \in {"defer", "remove"} :
       AddAdhoc(a, extra, row, event)
  \/ \E a \in Adhocs : UndoAdhoc(a) \/ RemoveAdhocRow(a)
  \/ OpenPage
  \/ \E s \in Sessions, d \in 0..LastDay, f \in {fixed, {}} \union {{i} : i \in Items} :
       SavePage(s, d, f)
  \/ Generate \/ GenerationEnds \/ GenerationFails
  \/ NextDay

Spec == Init /\ [][Next]_vars

(***************************************************************************)
(* Properties                                                              *)
(***************************************************************************)
TypeOK ==
  /\ today \in Days /\ fixed \subseteq Items /\ dealt \subseteq Rows
  /\ sched \in [Sessions -> [day : 0..LastDay, skipped : BOOLEAN, from : 0..LastDay,
                             by : Adhocs \union {Nobody}]]
  /\ \A a \in Adhocs : extras[a].row \in Rows \union {"unadded", "none", "undone"}
  /\ budget \in Budget

(* What an ad-hoc session took stays off until that one gives it back, and *)
(* it takes one session of its own priority at most: whatever is deferred, *)
(* restored, edited in an old copy or generated anew meanwhile, the cycle  *)
(* is not worked twice, nor less, than it was planned.                     *)
TakenStaysOff ==
  /\ \A s \in Sessions : sched[s].by # Nobody =>
       sched[s].skipped /\ ItemOf[s] = ItemOf[sched[s].by]
  /\ \A a \in Adhocs : Cardinality({s \in Sessions : sched[s].by = a}) <= 1

(* server.ts:1312 says of the rows of today that the schedule follows:     *)
(* deferring moves it, removing skips it, "[restoring] undoes either, so   *)
(* the two never disagree".                                                *)
Restores ==
  undo # NoChange /\ undo.row \in dealt /\ dealt' = dealt \ {undo.row} /\ undo' = NoChange /\ extras' = extras
    => \A d \in Days : OnDay(sched', d) = undo.on[d]
UndoRestores == [][Restores]_vars
=============================================================================
