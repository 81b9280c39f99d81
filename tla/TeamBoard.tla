----------------------------- MODULE TeamBoard -----------------------------
(***************************************************************************)
(* What a tick of the team sync carries besides the cycles: the owner's    *)
(* plans of today and the last days, pushed when they differ from what was *)
(* pushed last; the owner's board of notes, pushed while sharing is on and *)
(* deleted when it is off; the viewer's copies of both; and the deletion   *)
(* of old rows (team/sync.ts, team/cache.ts).  The owner and the viewer    *)
(* each run one job at a time, read their state file when it begins and    *)
(* write it when it ends; a request may be refused, or be done and its     *)
(* answer lost, and a process may end in the middle of a job.              *)
(*                                                                         *)
(* A hash is the content it stands for.                                    *)
(***************************************************************************)
EXTENDS Naturals, FiniteSets

CONSTANTS
  Contents,      \* plans and boards
  NoContent,
  LastDay,       \* the days are 1..LastDay
  PushDays,      \* PAST_PLAN_PUSH_DAYS
  HistoryDays,   \* TEAM_PLAN_HISTORY_DAYS, and the local retention
  RetentionDays, \* REMOTE_PLAN_RETENTION_DAYS
  MaxClock,      \* bound: the changes of rows
  Doses          \* bounds: how often what happens from outside happens

Days == 1..LastDay
Maybe == Contents \union {NoContent}
NoRow == [c |-> NoContent, at |-> 0]
Rows == [c : Maybe, at : 0..MaxClock]
Dose == [edits : Nat, days : Nat, toggles : Nat, ticks : Nat, looks : Nat, faults : Nat]

VARIABLES
  today,
  plan, board, sharing, \* the owner's plan of each day, notes and setting
  saved,     \* the owner's state file: pushedPlans, lastPlanPurgeDate, stickyBoardHash
  tick,      \* the owner's job: its step and its copy of the state
  planRow,   \* the remote rows of the days
  boardRow,  \* the remote row of the board
  clock,     \* the time of the last change of a row
  mark,      \* the viewer's state file: planWatermark
  look,      \* the viewer's job
  planFile,  \* the viewer's copies of the days
  boardFile, \* and of the board
  clean,     \* what is settled: what the owner last did, what the viewer saw of it
  hit,       \* whether the owner forgot something it sent
  dose       \* what is left of the bounds

owner == <<plan, board, sharing, saved, tick>>
remote == <<planRow, boardRow, clock>>
viewer == <<mark, look, planFile, boardFile>>
vars == <<today, owner, remote, viewer, clean, hit, dose>>

NoTick == [step |-> "idle", day |-> 1, pushed |-> [d \in Days |-> NoContent], keep |-> [d \in Days |-> NoContent],
           purged |-> 0, hash |-> NoContent, ok |-> TRUE]
NoLook == [step |-> "idle", mark |-> 0, seen |-> 0, ok |-> TRUE]
(* A thing is settled when a job that began after it last changed ended    *)
(* without an error, and has been seen when a look that began after that   *)
(* ended so as well.                                                       *)
Unsettled == [sent |-> FALSE, sending |-> FALSE, seen |-> FALSE, seeing |-> FALSE]

Init ==
  /\ today = 1 /\ plan = [d \in Days |-> NoContent] /\ board \in Contents /\ sharing = FALSE
  /\ saved = [pushed |-> [d \in Days |-> NoContent], purged |-> 0, hash |-> NoContent]
  /\ tick = NoTick /\ planRow = [d \in Days |-> NoRow] /\ boardRow = NoRow /\ clock = 0
  /\ mark = 0 /\ look = NoLook /\ planFile = [d \in Days |-> NoRow] /\ boardFile = NoRow
  /\ clean = Unsettled /\ hit = FALSE /\ dose \in Doses

Spend(what) == dose[what] > 0 /\ dose' = [dose EXCEPT ![what] = @ - 1]
Since(n) == {d \in Days : d + n >= today}

(***************************************************************************)
(* The owner                                                               *)
(***************************************************************************)
EditPlan(d, c) ==
  /\ Spend("edits") /\ d <= today /\ d \in Since(PushDays) /\ plan[d] # c
  /\ plan' = [plan EXCEPT ![d] = c] /\ clean' = Unsettled
  /\ UNCHANGED <<today, board, sharing, saved, tick, remote, viewer, hit>>

EditBoard(c) ==
  /\ Spend("edits") /\ board # c /\ board' = c /\ clean' = Unsettled
  /\ UNCHANGED <<today, plan, sharing, saved, tick, remote, viewer, hit>>

Share(on) ==
  /\ Spend("toggles") /\ sharing # on /\ sharing' = on /\ clean' = Unsettled
  /\ UNCHANGED <<today, plan, board, saved, tick, remote, viewer, hit>>

NextDay ==
  /\ Spend("days") /\ today < LastDay /\ today' = today + 1 /\ clean' = Unsettled
  /\ UNCHANGED <<owner, remote, viewer, hit>>

Step(s) == tick' = [tick EXCEPT !.step = s]

(* syncTeamOnce, after the cycles: pushTodayPlan keeps what was pushed for *)
(* the last days.                                                          *)
TickStarts ==
  /\ Spend("ticks") /\ tick.step = "idle"
  /\ tick' = [tick EXCEPT !.step = "plans", !.day = today, !.pushed = saved.pushed, !.purged = saved.purged,
                          !.hash = saved.hash, !.ok = TRUE,
                          !.keep = [d \in Days |-> IF d \in Since(PushDays) THEN saved.pushed[d] ELSE NoContent]]
  /\ clean' = [clean EXCEPT !.sending = TRUE]
  /\ UNCHANGED <<today, plan, board, sharing, saved, remote, viewer, hit>>

Due == {d \in Days : d <= tick.day /\ d + PushDays >= tick.day /\ plan[d] # NoContent /\ plan[d] # tick.keep[d]}
Stamped(c) == [c |-> c, at |-> clock + 1]

(* pushPlanSnapshot, of the oldest day that differs.                       *)
PushPlan(d) ==
  /\ tick.step = "plans" /\ d \in Due /\ \A e \in Due : d <= e /\ clock < MaxClock
  /\ planRow' = [planRow EXCEPT ![d] = Stamped(plan[d])] /\ clock' = clock + 1
  /\ tick' = [tick EXCEPT !.keep[d] = plan[d]]
  /\ UNCHANGED <<today, plan, board, sharing, saved, boardRow, viewer, clean, hit, dose>>

\* A day this tick has pushed, and its state file does not have yet.
Unsaved == \E e \in Days : tick.keep[e] \notin {NoContent, saved.pushed[e]}

(* Refused, or done and the answer lost: what this tick has pushed is not  *)
(* remembered, and the boards are next.                                    *)
PushPlanFails(d) ==
  /\ Spend("faults") /\ tick.step = "plans" /\ d \in Due /\ \A e \in Due : d <= e
  /\ \/ UNCHANGED <<planRow, clock>> /\ hit' = (hit \/ Unsaved)
     \/ /\ clock < MaxClock /\ clock' = clock + 1 /\ planRow' = [planRow EXCEPT ![d] = Stamped(plan[d])]
        /\ hit' = TRUE
  /\ tick' = [tick EXCEPT !.step = "board", !.ok = FALSE]
  /\ UNCHANGED <<today, plan, board, sharing, saved, boardRow, viewer, clean>>

PlansPushed ==
  /\ tick.step = "plans" /\ Due = {}
  /\ tick' = [tick EXCEPT !.step = IF tick.purged = today THEN "board" ELSE "purge", !.pushed = tick.keep, !.purged = today]
  /\ UNCHANGED <<today, plan, board, sharing, saved, remote, viewer, clean, hit, dose>>

Old == {d \in Days : d + RetentionDays < tick.purged}

(* purgeOwnRemotePlans: the day is noted before the request.               *)
Purge ==
  /\ tick.step = "purge" /\ Step("board")
  /\ planRow' = [d \in Days |-> IF d \in Old THEN NoRow ELSE planRow[d]]
  /\ UNCHANGED <<today, plan, board, sharing, saved, boardRow, clock, viewer, clean, hit, dose>>

PurgeFails ==
  /\ Spend("faults") /\ tick.step = "purge" /\ tick' = [tick EXCEPT !.step = "board", !.ok = FALSE]
  /\ UNCHANGED <<today, plan, board, sharing, saved, remote, viewer, clean, hit>>

BoardDue == IF sharing THEN tick.hash # board ELSE tick.hash # NoContent

(* Mutant of PushBoard: what was sent before the deletion is remembered.   *)
PushBoardKeepsHash ==
  /\ tick.step = "board" /\ BoardDue /\ clock < MaxClock
  /\ boardRow' = IF sharing THEN Stamped(board) ELSE NoRow
  /\ clock' = IF sharing THEN clock + 1 ELSE clock
  /\ tick' = [tick EXCEPT !.step = "save", !.hash = IF sharing THEN board ELSE tick.hash]
  /\ UNCHANGED <<today, plan, board, sharing, saved, planRow, viewer, clean, hit, dose>>

(* pushStickyBoard: the board, or the deletion of its row.                 *)
PushBoard ==
  /\ tick.step = "board" /\ BoardDue /\ clock < MaxClock
  /\ boardRow' = IF sharing THEN Stamped(board) ELSE NoRow
  /\ clock' = IF sharing THEN clock + 1 ELSE clock
  /\ tick' = [tick EXCEPT !.step = "save", !.hash = IF sharing THEN board ELSE NoContent]
  /\ UNCHANGED <<today, plan, board, sharing, saved, planRow, viewer, clean, hit, dose>>

PushBoardFails ==
  /\ Spend("faults") /\ tick.step = "board" /\ BoardDue
  /\ \/ UNCHANGED <<boardRow, clock, hit>>
     \/ /\ clock < MaxClock /\ boardRow' = (IF sharing THEN Stamped(board) ELSE NoRow)
        /\ clock' = (IF sharing THEN clock + 1 ELSE clock) /\ hit' = TRUE
  /\ tick' = [tick EXCEPT !.step = "save", !.ok = FALSE]
  /\ UNCHANGED <<today, plan, board, sharing, saved, planRow, viewer, clean>>

BoardInOrder ==
  /\ tick.step = "board" /\ ~BoardDue /\ Step("save")
  /\ UNCHANGED <<today, plan, board, sharing, saved, remote, viewer, clean, hit, dose>>

(* writeTeamCacheState                                                     *)
TickEnds ==
  /\ tick.step = "save" /\ tick' = NoTick
  /\ saved' = [pushed |-> tick.pushed, purged |-> tick.purged, hash |-> tick.hash]
  /\ clean' = IF tick.ok /\ clean.sending THEN [clean EXCEPT !.sent = TRUE] ELSE clean
  /\ UNCHANGED <<today, plan, board, sharing, remote, viewer, hit, dose>>

TickCutOff ==
  /\ Spend("faults") /\ tick.step # "idle" /\ tick' = NoTick
  /\ hit' = (hit \/ Unsaved \/ tick.hash # saved.hash)
  /\ clean' = [clean EXCEPT !.sending = FALSE]
  /\ UNCHANGED <<today, plan, board, sharing, saved, remote, viewer>>

(***************************************************************************)
(* The viewer                                                              *)
(***************************************************************************)
Latest == CHOOSE n \in {planRow[d].at : d \in Days} : \A d \in Days : planRow[d].at <= n

(* Mutant of LookStarts: the mark of the state is moved by the probe.      *)
LookStartsMarked ==
  /\ Spend("looks") /\ look.step = "idle"
  /\ look' = [look EXCEPT !.step = IF Latest = mark THEN "boards" ELSE "fetch", !.mark = Latest, !.seen = Latest, !.ok = TRUE]
  /\ clean' = [clean EXCEPT !.seeing = clean.sent]
  /\ UNCHANGED <<today, owner, remote, mark, planFile, boardFile, hit>>

(* pullTeammatePlans: the probe.                                           *)
LookStarts ==
  /\ Spend("looks") /\ look.step = "idle"
  /\ look' = [look EXCEPT !.step = IF Latest = mark THEN "boards" ELSE "fetch", !.mark = mark, !.seen = Latest, !.ok = TRUE]
  /\ clean' = [clean EXCEPT !.seeing = clean.sent]
  /\ UNCHANGED <<today, owner, remote, mark, planFile, boardFile, hit>>

(* The rows of the last days, and those that are newer than their copies;  *)
(* pruneCachedDailyPlans afterwards.                                       *)
Newer(d) == IF d \in Since(HistoryDays) /\ planRow[d].at > planFile[d].at THEN planRow[d] ELSE planFile[d]
Kept(d) == IF d \in Since(HistoryDays) THEN Newer(d) ELSE NoRow

FetchPlans ==
  /\ look.step = "fetch" /\ look' = [look EXCEPT !.step = "boards", !.mark = look.seen]
  /\ planFile' = [d \in Days |-> Kept(d)]
  /\ UNCHANGED <<today, owner, remote, mark, boardFile, clean, hit, dose>>

(* A pull that fails, of the plans or of the boards.                       *)
LookFails ==
  /\ Spend("faults") /\ look.step \in {"fetch", "boards"}
  /\ look' = [look EXCEPT !.step = IF look.step = "fetch" THEN "boards" ELSE "save", !.ok = FALSE]
  /\ UNCHANGED <<today, owner, remote, mark, planFile, boardFile, clean, hit>>

(* pullTeammateStickyBoards and pruneCachedStickyBoards                    *)
FetchBoards ==
  /\ look.step = "boards" /\ look' = [look EXCEPT !.step = "save"]
  /\ boardFile' = CASE boardRow.at = 0 -> NoRow
                    [] boardRow.at > boardFile.at -> boardRow
                    [] OTHER -> boardFile
  /\ UNCHANGED <<today, owner, remote, mark, planFile, clean, hit, dose>>

LookEnds ==
  /\ look.step = "save" /\ look' = NoLook /\ mark' = look.mark
  /\ clean' = IF look.ok /\ clean.seeing /\ clean.sent THEN [clean EXCEPT !.seen = TRUE] ELSE clean
  /\ UNCHANGED <<today, owner, remote, planFile, boardFile, hit, dose>>

LookCutOff ==
  /\ Spend("faults") /\ look.step # "idle" /\ look' = NoLook /\ clean' = [clean EXCEPT !.seeing = FALSE]
  /\ UNCHANGED <<today, owner, remote, mark, planFile, boardFile, hit>>

(***************************************************************************)
(* The pages of the viewer, from disk only                                 *)
(***************************************************************************)
(* listCachedDailyPlans: the days there is a copy of.                      *)
Copied == {d \in Days : planFile[d].at # 0}

(* readTeamDayState: the sheet of one day, and the days one can go to.     *)
ShownOn(d) == [c |-> planFile[d].c, dates |-> Copied]

(* readTeamTodayState: the newest sheet there is, with a note when it is   *)
(* of an earlier day.                                                      *)
ShownToday ==
  IF Copied = {} THEN [c |-> NoContent, stale |-> FALSE]
  ELSE LET d == CHOOSE e \in Copied : \A f \in Copied : f <= e IN [c |-> planFile[d].c, stale |-> d # today]

(* readTeamStickiesState: somebody who shares nothing is listed without.   *)
ShownBoard == boardFile.c

Next ==
  \/ \E d \in Days, c \in Contents : EditPlan(d, c)
  \/ \E c \in Contents : EditBoard(c)
  \/ \E on \in BOOLEAN : Share(on)
  \/ NextDay \/ TickStarts
  \/ \E d \in Days : PushPlan(d) \/ PushPlanFails(d)
  \/ PlansPushed \/ Purge \/ PurgeFails \/ PushBoard \/ PushBoardFails \/ BoardInOrder \/ TickEnds \/ TickCutOff
  \/ LookStarts \/ FetchPlans \/ LookFails \/ FetchBoards \/ LookEnds \/ LookCutOff

Spec == Init /\ [][Next]_vars

(***************************************************************************)
(* Properties                                                              *)
(***************************************************************************)
TypeOK ==
  /\ today \in Days /\ plan \in [Days -> Maybe] /\ board \in Contents /\ sharing \in BOOLEAN
  /\ planRow \in [Days -> Rows] /\ boardRow \in Rows /\ clock \in 0..MaxClock
  /\ planFile \in [Days -> Rows] /\ boardFile \in Rows /\ mark \in 0..MaxClock
  /\ saved.hash \in Maybe /\ tick.step \in {"idle", "plans", "purge", "board", "save"}
  /\ look.step \in {"idle", "fetch", "boards", "save"}

(* After a tick of the owner without an error and then a look of the viewer *)
(* without one, the viewer has the rows of the days that are pushed.  They  *)
(* are what the owner has, and the page of today shows the one of today     *)
(* without the note that it is of an earlier day, unless the owner forgot   *)
(* something it sent: then a plan that is changed back to what it remembers *)
(* is not sent again (sync.ts pushTodayPlan, pullTeammatePlans,             *)
(* readTeamTodayState) ...                                                  *)
PlansShown == clean.seen =>
  /\ \A d \in Since(PushDays) : planRow[d].at # 0 => planFile[d] = planRow[d]
  /\ ~hit => \A d \in Since(PushDays) :
              d <= today /\ plan[d] # NoContent => ShownOn(d).c = plan[d] /\ d \in ShownOn(d).dates
  /\ ~hit /\ plan[today] # NoContent => ShownToday = [c |-> plan[today], stale |-> FALSE]

(* ... and the board is its copy: what the owner has while it is shared,    *)
(* and none when it is not, through any turning off and on, with the same   *)
(* exception.                                                               *)
BoardShown == clean.seen =>
  /\ boardFile = boardRow
  /\ ~hit => ShownBoard = IF sharing THEN board ELSE NoContent
=============================================================================
