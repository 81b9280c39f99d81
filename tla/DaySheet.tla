------------------------------ MODULE DaySheet ------------------------------
(***************************************************************************)
(* The day's call sheet and the four ledgers it is drawn from: the inbox    *)
(* of captures (src/todo/inbox.ts), the feedback ledger of plan rows        *)
(* (src/todo/feedback.ts), the plan of each day (src/storage/memory.ts,     *)
(* written by src/workflows/run-workflow.ts) and the rows moved between     *)
(* days and the days closed out (src/todo/wrapup.ts).                       *)
(*                                                                         *)
(* A planning run is long: it scores the candidates, waits minutes for the  *)
(* agent, and merges what the agent chose with the ledgers as they are at   *)
(* the end.  Everything the user does can fall between the two.             *)
(***************************************************************************)
EXTENDS Integers, FiniteSets

CONSTANTS Captures,  \* rows that are inbox items (candidateId todo_inbox:<id>)
          Tasks,     \* rows of sources without a state of their own (vault, weekly)
          LastDay,   \* bound: the days are 1..LastDay
          MaxRuns,   \* bound: planning runs in flight at once
          OwnDays,   \* <<day, task>>: the sessions the two-week schedule has, if it is used
          Profiles   \* what the user and the agent do: one profile per behaviour

Rows == Captures \cup Tasks
Days == 1..LastDay

\* TodoFeedbackEvent: the events that say how a row was left, that undo it, or
\* that take it off the sheet.  Edits (text, minutes, place) leave all this alone.
Settled == {"complete", "partial", "missed", "defer"}
Events == Settled \cup {"reopen", "remove"}

\* ahead: plan tomorrow tonight; rerun: plan a planned day again; late: a run
\* of the day is still going at midnight; empty: the agent plans a rest day;
\* past: rows of earlier days are corrected; close: days are reviewed and closed
\* out; note: revisions of the review are asked for; sessions: weekly rows have
\* sessions in the two-week schedule.
Habits == {"ahead", "rerun", "late", "empty", "past", "close", "note", "sessions"}

ASSUME DaySheetAssumption ==
  /\ Captures \cap Tasks = {}
  /\ LastDay \in Nat \ {0}
  /\ MaxRuns \in Nat
  /\ OwnDays \subseteq Days \X Tasks
  /\ Profiles \subseteq SUBSET (Events \cup Habits)

VARIABLES
  habits,       \* the events the user sends and the habits at work, from Profiles
  today,        \* todayInTimezone
  inbox,        \* the inbox ledger: status of each capture, "none" before it is written
  planned,      \* days that have a daily_plan output
  plan,         \* the rows of the newest plan of each day
  state,        \* the last state each row was left in on each day
  removed,      \* rows taken off a day's sheet
  completedOn,  \* the day of a row's standing tick, 0 when there is none
  spoke,        \* the latest day whose sheet said anything of the row, 0 if none
  movedTo,      \* where the note on a row of a day says it went, 0 if nowhere
  moved,        \* moved-rows.json: rows waiting for a day's plan
  wrap,         \* day-wrapups.json
  sections,     \* days whose memory file has a review section
  reviewed,     \* days whose review really ran
  reviews,      \* days whose review is running
  runs          \* planning runs waiting for the agent

ledger == <<state, removed, completedOn, spoke>>
sheets == <<planned, plan, moved>>
closing == <<wrap, sections, reviewed, reviews>>
vars == <<habits, today, inbox, ledger, sheets, movedTo, closing, runs>>

Open == {c \in Captures : inbox[c] = "open"}
Visible(d) == IF d \in planned THEN plan[d] \ removed[d] ELSE {}

TypeOK ==
  /\ habits \in Profiles /\ today \in Days
  /\ inbox \in [Captures -> {"none", "open", "done", "deferred", "deleted"}]
  /\ planned \subseteq Days
  /\ plan \in [Days -> SUBSET Rows]
  /\ \A d \in Days \ planned : plan[d] = {}
  /\ state \in [Days -> [Rows -> Settled \cup {"none"}]]
  /\ removed \in [Days -> SUBSET Rows]
  /\ completedOn \in [Rows -> 0..today]
  /\ spoke \in [Rows -> 0..today]
  /\ movedTo \in [Days -> [Rows -> 0..today]]
  /\ moved \in [Days -> SUBSET Rows]
  /\ \A d \in planned : moved[d] = {}
  /\ wrap \in [Days -> {"open", "done", "skipped"}]
  /\ reviewed \subseteq sections /\ sections \subseteq 1..today
  /\ reviews \subseteq 1..today
  /\ runs \subseteq [id : 1..MaxRuns, date : Days, candidates : SUBSET Rows]

Init ==
  /\ habits \in Profiles
  /\ today = 1
  /\ inbox = [c \in Captures |-> "none"]
  /\ planned = {} /\ plan = [d \in Days |-> {}] /\ moved = [d \in Days |-> {}]
  /\ state = [d \in Days |-> [r \in Rows |-> "none"]]
  /\ removed = [d \in Days |-> {}]
  /\ completedOn = [r \in Rows |-> 0] /\ spoke = [r \in Rows |-> 0]
  /\ movedTo = [d \in Days |-> [r \in Rows |-> 0]]
  /\ wrap = [d \in Days |-> "open"]
  /\ sections = {} /\ reviewed = {} /\ reviews = {}
  /\ runs = {}

-----------------------------------------------------------------------------
(* The feedback ledger *)

\* The state of a row after an event: the last one wins, reopen clears it.
StateAfter(old, e) == IF e \in Settled THEN e ELSE IF e = "reopen" THEN "none" ELSE old

\* The standing tick of a row after an event of day d (getCompletedCandidateIds).
TickAfter(old, e, d) ==
  IF e = "complete" THEN d ELSE IF e \in {"reopen", "partial", "missed"} THEN 0 ELSE old

\* recordTodoFeedback: one entry appended for row r of day d.
Record(d, r, e) ==
  /\ state' = [state EXCEPT ![d][r] = StateAfter(@, e)]
  /\ removed' = [removed EXCEPT ![d] = IF e = "remove" THEN @ \cup {r}
                                       ELSE IF e = "reopen" THEN @ \ {r} ELSE @]
  /\ completedOn' = [completedOn EXCEPT ![r] = TickAfter(@, e, d)]
  /\ spoke' = [spoke EXCEPT ![r] = IF d > @ THEN d ELSE @]

\* What a row's event makes of the capture's status (syncTodoInboxFromPlanRow).
StatusOf(old, e) ==
  CASE e = "complete" -> "done" [] e = "remove" -> "deleted" [] e = "defer" -> old
    [] e \in {"reopen", "partial", "missed"} -> "open"

\* Mutant of Follows: a past day's word reaches the inbox although a later day has spoken.
FollowsAlways(d, r, e) == d = today \/ e # "remove"

\* Whether the inbox follows an event on day d: a past day's does not when a
\* later day has spoken (hasLaterRowState), and a past removal never does.
Follows(d, r, e) == d = today \/ (e # "remove" /\ spoke[r] <= d)

\* resolveFeedbackDate: what may be said of a row of day d; an earlier day is not
\* put off, and a later one is refused.
MaySay(d, e) == d = today \/ ("past" \in habits /\ d < today /\ e # "defer")

\* POST /api/today/todo-feedback with a candidateId: a row of the sheet of day
\* d, today or earlier, is ticked, settled, taken off or put back.
RowEvent(d, r, e) ==
  /\ e \in habits /\ MaySay(d, e)
  /\ d \in planned /\ r \in plan[d]
  /\ r \in removed[d] => e = "reopen"
  /\ Record(d, r, e)
  /\ inbox' = IF r \in Captures /\ Follows(d, r, e)
              THEN [inbox EXCEPT ![r] = StatusOf(@, e)] ELSE inbox
  /\ UNCHANGED <<habits, today, sheets, movedTo, closing, runs>>

-----------------------------------------------------------------------------
(* The inbox of captures *)

\* addTodoInboxItemToTodayPlan: an open capture at the end of today's plan.
PlanWith(c) == [plan EXCEPT ![today] = IF today \in planned THEN @ \cup {c} ELSE @]

\* captureTodoItems: written down, and put on today's sheet if there is one.
Capture(c) ==
  /\ inbox[c] = "none"
  /\ inbox' = [inbox EXCEPT ![c] = "open"]
  /\ plan' = PlanWith(c)
  /\ UNCHANGED <<habits, today, planned, moved, ledger, movedTo, closing, runs>>

\* POST /api/today/plan/add: a capture put on today's sheet by hand.
AddToPlan(c) ==
  /\ inbox[c] = "open" /\ today \in planned /\ c \notin plan[today]
  /\ plan' = PlanWith(c)
  /\ UNCHANGED <<habits, today, inbox, planned, moved, ledger, movedTo, closing, runs>>

\* syncPlanRowFromTodoInbox: the tick of a capture reaches its row of today.
MirrorTick(c) ==
  IF c \in Visible(today) /\ state[today][c] # "complete"
  THEN Record(today, c, "complete") ELSE UNCHANGED ledger

\* My todos, the Feishu command and the stale list: an open capture is ticked,
\* shelved or deleted.
CloseCapture(c, s) ==
  /\ inbox[c] = "open" /\ s \in {"done", "deferred", "deleted"}
  /\ inbox' = [inbox EXCEPT ![c] = s]
  /\ IF s = "done" THEN MirrorTick(c) ELSE UNCHANGED ledger
  /\ UNCHANGED <<habits, today, sheets, movedTo, closing, runs>>

\* Restoring from History or Deferred also clears the tick in the feedback ledger.
Restore(c) ==
  /\ inbox[c] \in {"done", "deferred"}
  /\ inbox' = [inbox EXCEPT ![c] = "open"]
  /\ Record(today, c, "reopen")
  /\ UNCHANGED <<habits, today, sheets, movedTo, closing, runs>>

-----------------------------------------------------------------------------
(* Planning runs *)

\* Mutant of Candidates: a tick excludes a row for its own day only.
CandidatesThatDay(d) == {r \in Open \cup Tasks : completedOn[r] # d} \ removed[d]

\* The weekly rows with a session on day d.
Scheduled(d) == {r \in Tasks : "sessions" \in habits /\ <<d, r>> \in OwnDays}

\* What the scorer hands the agent for day d: open captures and tasks, without
\* what is ticked (for a capture and for a session: ticked that day) or taken off
\* that day.
Candidates(d) ==
  {r \in Open \cup Tasks :
     completedOn[r] = 0 \/ (r \in Captures \cup Scheduled(d) /\ completedOn[r] # d)} \ removed[d]

\* A daily_plan run has scored its candidates and waits for the agent.
StartPlan(id, d) ==
  /\ \A run \in runs : run.id # id
  /\ d \in Days /\ d - today \in 0..1
  /\ d > today => "ahead" \in habits
  /\ "rerun" \in habits \/ (d \notin planned /\ \A run \in runs : run.date # d)
  /\ runs' = runs \cup {[id |-> id, date |-> d, candidates |-> Candidates(d)]}
  /\ UNCHANGED <<habits, today, inbox, ledger, sheets, movedTo, closing>>

\* Mutant of WithCaptures: only the captures the run knew when it started.
WithCapturesKnown(chosen, run) ==
  IF chosen = {} THEN chosen ELSE chosen \cup (Open \cap run.candidates)

\* mergeOpenCapturesIntoPlan: what the agent left out of the open captures is
\* appended; a plan without rows does not parse and is left as it is.
WithCaptures(chosen, run) == IF chosen = {} THEN chosen ELSE chosen \cup Open

\* Mutant of WithMoved: waiting rows are dropped with the file entry.
WithMovedDropped(rows, d) == rows

\* mergeMovedRowsIntoPlan: the rows waiting for the day's plan.
WithMoved(rows, d) == rows \cup moved[d]

\* Mutant of StillWaiting: the rows stay in the file after they were merged.
StillWaitingAll(d) == moved

\* What still waits once the rows of day d are on its plan.
StillWaiting(d) == [moved EXCEPT ![d] = {}]

\* The agent has answered: its choice is merged with the ledgers and saved.
SavePlan(run, chosen) ==
  /\ run \in runs /\ chosen \subseteq run.candidates
  /\ chosen = {} => "empty" \in habits
  /\ runs' = runs \ {run}
  /\ plan' = [plan EXCEPT ![run.date] = WithMoved(WithCaptures(chosen, run), run.date)]
  /\ planned' = planned \cup {run.date}
  /\ moved' = StillWaiting(run.date)
  /\ UNCHANGED <<habits, today, inbox, ledger, movedTo, closing>>

\* The agent failed twice, or the process died: nothing of the run is kept.
FailPlan(run) ==
  /\ run \in runs /\ runs' = runs \ {run}
  /\ UNCHANGED <<habits, today, inbox, ledger, sheets, movedTo, closing>>

-----------------------------------------------------------------------------
(* Closing out a day *)

Undecided(d) == {r \in Visible(d) : state[d][r] \notin Settled}

\* moveRowToDay, offered on the open rows of a past day: carried there, and
\* onto today's sheet, or waiting for today's plan.
Move(d, r) ==
  /\ "close" \in habits /\ d < today /\ r \in Undecided(d)
  /\ Record(d, r, "defer")
  /\ movedTo' = [movedTo EXCEPT ![d][r] = today]
  /\ IF today \in planned THEN plan' = PlanWith(r) /\ UNCHANGED moved
     ELSE moved' = [moved EXCEPT ![today] = @ \cup {r}] /\ UNCHANGED plan
  /\ UNCHANGED <<habits, today, inbox, planned, closing, runs>>

\* Mutant of MayClose: a reviewed day closes whatever its rows.
MayCloseReviewed(d) == Undecided(d) = {} \/ d \in sections

\* A day is clean when every row has a decision (openRowsOf).
MayClose(d) == Undecided(d) = {}

\* The day is closed, and its review runs late if the memory file has none.
CloseDay(d) ==
  /\ "close" \in habits /\ d < today /\ d \in planned /\ wrap[d] = "open" /\ MayClose(d)
  /\ wrap' = [wrap EXCEPT ![d] = "done"]
  /\ reviews' = IF d \in sections THEN reviews ELSE reviews \cup {d}
  /\ UNCHANGED <<habits, today, inbox, ledger, sheets, movedTo, sections, reviewed, runs>>

\* pendingWrapups: a past day that is neither closed nor skipped, and on which
\* there is a row that nobody decided on.
Pending(d) == d < today /\ wrap[d] = "open" /\ Undecided(d) # {}

\* The day is left as it is, on purpose; only a pending day is asked about.
SkipDay(d) ==
  /\ "close" \in habits /\ Pending(d)
  /\ wrap' = [wrap EXCEPT ![d] = "skipped"]
  /\ UNCHANGED <<habits, today, inbox, ledger, sheets, movedTo, sections, reviewed, reviews, runs>>

\* The evening review of today starts.
StartReview ==
  /\ "close" \in habits /\ today \notin reviews \cup sections
  /\ reviews' = reviews \cup {today}
  /\ UNCHANGED <<habits, today, inbox, ledger, sheets, movedTo, wrap, sections, reviewed, runs>>

\* A review ends: its section is appended to the day's memory file, or it failed.
EndReview(d) ==
  /\ d \in reviews /\ reviews' = reviews \ {d}
  /\ \/ sections' = sections \cup {d} /\ reviewed' = reviewed \cup {d}
     \/ UNCHANGED <<sections, reviewed>>
  /\ UNCHANGED <<habits, today, inbox, ledger, sheets, movedTo, wrap, runs>>

\* A revision request of the review: the note is a section of the same heading.
NoteReview ==
  /\ "note" \in habits /\ today \notin sections
  /\ sections' = sections \cup {today}
  /\ UNCHANGED <<habits, today, inbox, ledger, sheets, movedTo, wrap, reviewed, reviews, runs>>

NextDay ==
  /\ today < LastDay /\ today' = today + 1
  /\ "late" \in habits \/ \A run \in runs : run.date > today
  /\ UNCHANGED <<habits, inbox, ledger, sheets, movedTo, closing, runs>>

Next ==
  \/ \E d \in Days, r \in Rows, e \in Events : RowEvent(d, r, e)
  \/ \E c \in Captures : Capture(c) \/ AddToPlan(c) \/ Restore(c)
  \/ \E c \in Captures, s \in {"done", "deferred", "deleted"} : CloseCapture(c, s)
  \/ \E id \in 1..MaxRuns, d \in Days : StartPlan(id, d)
  \/ \E run \in runs : FailPlan(run)
  \/ \E run \in runs, chosen \in SUBSET Rows : SavePlan(run, chosen)
  \/ \E d \in Days, r \in Rows : Move(d, r)
  \/ \E d \in Days : CloseDay(d) \/ SkipDay(d) \/ EndReview(d)
  \/ StartReview \/ NoteReview \/ NextDay

Spec == Init /\ [][Next]_vars

-----------------------------------------------------------------------------
(* Properties.  A habit named in one is a habit under which the code breaks it. *)

\* "Captures go straight onto the sheet and stay there until they are done,
\* deferred or deleted": through any planning run of the day, however the
\* capture and the run's start and end fall, unless the run plans a rest day.
CaptureStays ==
  [][\A c \in Captures :
       ("empty" \notin habits /\ inbox[c] = "open" /\ inbox'[c] = "open" /\ today' = today /\ c \in plan[today])
         => c \in plan'[today]]_vars

\* A capture is one thing with two ledgers: a finished capture's row of today is
\* not shown as open work.
FinishedNotOpen ==
  \A c \in Captures \cap Visible(today) : inbox[c] = "done" => state[today][c] \in Settled

\* A correction of a past day never overrules a later day: where the latest
\* sheet that spoke of a capture says complete, the capture is not open.
LastWordWins ==
  \A c \in Captures : spoke[c] > 0 /\ state[spoke[c]][c] = "complete" => inbox[c] # "open"

\* A task ticked on an earlier day is not planned again, whatever run was
\* under way when it was ticked, unless it has a session today, the tick itself
\* came days late, the plan was made the evening before, or the user carried an
\* older row of the task over to today: nothing asks whether another day has
\* ticked it.
TickedStaysOff ==
  {"past", "ahead"} \cap habits = {} =>
    \A r \in Tasks \cap Visible(today) :
      \/ completedOn[r] \in {0, today} \/ r \in Scheduled(today)
      \/ \E d \in Days : movedTo[d][r] = today

\* "Ticking yesterday's session must not drop today's": a run is offered every
\* session of its day, unless that day, or a later one, has said something of it.
SessionsOffered ==
  \A run \in runs : \A r \in Scheduled(run.date) : r \in run.candidates \/ spoke[r] >= run.date

FinishedStaysOff == TickedStaysOff /\ SessionsOffered

\* A row moved to today is on today's sheet, or waits for the plan that will
\* hold it, unless today is planned again.
MovedOnSheet ==
  "rerun" \notin habits =>
    \A d \in Days, r \in Rows :
      movedTo[d][r] = today => r \in (IF today \in planned THEN plan[today] ELSE moved[today])

\* "A day is clean when every row has a decision": a day closed as done has no
\* undecided row, unless a run of it outlasted midnight or a row was reopened.
ClosedMeansDecided ==
  {"late", "past"} \cap habits = {} =>
    \A d \in Days : wrap[d] = "done" => Undecided(d) = {}

(* No row falls between two days: one that was moved to a day is on its    *)
(* sheet or waits for it, and a day that is closed out has a decision on   *)
(* each row (todo/wrapup.ts).                                              *)
RowsNotForgotten == MovedOnSheet /\ ClosedMeansDecided
=============================================================================
