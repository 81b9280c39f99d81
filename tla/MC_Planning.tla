---------------------------- MODULE MC_Planning ----------------------------
(***************************************************************************)
(* What a day is planned from, on small instances: the day sheet with its  *)
(* ledgers, the files of two cycles, the schedule of one cycle, the        *)
(* ranking of the candidates, the frame of a day, the history that is      *)
(* brought into the cycle files, the outputs that are kept of each day,    *)
(* and the captures over weeks.  A behaviour is one of these parts, the    *)
(* others are not there.                                                   *)
(***************************************************************************)
EXTENDS DaySheet, TLC

CONSTANTS
  c1, t1, OpenParts,
  LastCycle, Things, Issues, Captured, Jobs, Loads,        \* of CycleDocs
  Items, Regular, Adhocs, ItemOf, LastPlanned, Budgets,    \* of CycleSchedule
  Tables, OkrRows, Records, Passings                       \* of Migration

VARIABLES
  part,
  now, files, broken, docs, reflections, jobs, left,                           \* CycleDocs
  cycleDay, sched, fixed, dealt, extras, page, job, undo, budget,              \* CycleSchedule
  day, issue, open, lines, slots, covered, done, gone, carried, fetched, ranking, outing, \* Scorer
  template, mode, feed, override, adhoc, shown, wish, effort,                  \* DayFrame
  records, cells, archive, torn, pass, same, energy,                           \* Migration
  date, leaves, latest, store, saving, entries, clock, halved, bustle,          \* DayArchive
  written, weekday, pile, heard, patience                                       \* Inbox

docVars == <<now, files, broken, docs, reflections, jobs, left>>
schedVars == <<cycleDay, sched, fixed, dealt, extras, page, job, undo, budget>>
scoreVars == <<day, issue, open, lines, slots, covered, done, gone, carried, fetched, ranking, outing>>
frameVars == <<template, mode, feed, override, adhoc, shown, wish, effort>>
pastVars == <<records, cells, archive, torn, pass, same, energy>>
keptVars == <<date, leaves, latest, store, saving, entries, clock, halved, bustle>>
inboxVars == <<written, weekday, pile, heard, patience>>
sheetVars == <<habits, today, inbox, planned, plan, state, removed, completedOn, spoke, movedTo, moved,
               wrap, sections, reviewed, reviews, runs>>

(***************************************************************************)
(* The sheet of one capture and one task, with users who plan ahead and    *)
(* correct yesterday; who undo and remove while runs go on past midnight;  *)
(* who close days out; whose task has a session on the second day; who do  *)
(* little.                                                                 *)
(***************************************************************************)
OneCapture == {c1}
OneTask == {t1}
Corrects == {"complete", "missed", "reopen", "rerun", "past", "ahead"}
Undoes == {"complete", "partial", "reopen", "remove", "rerun", "late"}
Closes == {"complete", "defer", "close", "ahead", "note"}
Simple == {"complete", "defer"}
InSessions == {"complete", "remove", "reopen", "rerun", "ahead", "sessions"}
SecondDay == {<<2, t1>>}
Users == {Corrects, Undoes, Closes, InSessions}
OnlySimple == {Simple}

(***************************************************************************)
(* Two cycle files, an errand and an issue: runs and drafts; the filing of *)
(* lines with Linear; reviews; faults.                                     *)
(***************************************************************************)
Docs == INSTANCE CycleDocs WITH habits <- reflections

ASSUME CyclesAssumption == LastCycle \in Nat \ {0}
ASSUME ThingsAssumption == Issues \subseteq Things /\ Captured \subseteq Things
ASSUME LoadsAssumption == Loads \subseteq Docs!Load

No == [saves |-> 0, runs |-> 0, asks |-> 0, syncs |-> 0, faults |-> 0]
Planning == [No EXCEPT !.saves = 1, !.runs = 2]
Filing == [No EXCEPT !.saves = 2, !.asks = 2, !.syncs = 1]
Reviewing == [No EXCEPT !.saves = 2, !.runs = 1, !.asks = 1]
Failing == [No EXCEPT !.saves = 1, !.runs = 1, !.asks = 1, !.faults = 1]
AllLoads == {Planning, Filing, Reviewing, Failing}
OneReview == {Reviewing}

(***************************************************************************)
(* A priority with two sessions and an ad-hoc one on three days: rows;     *)
(* rows with a generation; rows with an old copy in a client.              *)
(***************************************************************************)
Belongs == "i1" :> "i" @@ "i2" :> "i" @@ "a" :> "i"
Null == [acts |-> 0, adds |-> 0, gens |-> 0, pages |-> 0]
TodayOnly == [Null EXCEPT !.acts = 2, !.adds = 1]
WithModel == [Null EXCEPT !.acts = 1, !.adds = 1, !.gens = 1]
WithPage == [Null EXCEPT !.acts = 1, !.adds = 1, !.pages = 1]
AllBudgets == {TodayOnly, WithModel, WithPage}
Plan == INSTANCE CycleSchedule WITH today <- cycleDay, LastDay <- LastPlanned

(* The names are none of the marks.                                        *)
ASSUME ScheduleAssumption ==
  LastPlanned \in Nat \ {0} /\ Plan!Nobody \notin Adhocs /\ Plan!Unadded.row \notin Items

(***************************************************************************)
(* The candidates: three captures, one of them like the note of the vault, *)
(* one naming an issue; two issues, one urgent; three lines of the cycle.  *)
(***************************************************************************)
Titles == {"jot", "old", "near", "I1", "I2", "note", "w1", "w2", "own"}
Unscheduled == [t \in Titles |-> {}]
Slots == [Unscheduled EXCEPT !["w1"] = {1}, !["w2"] = {1, 2}, !["own"] = {2}]
Naming == [t \in Titles |-> CASE t \in {"I1", "I2"} -> {t} [] t \in {"w1", "near"} -> {"I1"} [] OTHER -> {}]
Deadlines == "I2" :> 1 @@ "near" :> 4 @@ "note" :> 0
WrittenOn == "jot" :> 2 @@ "old" :> 1 @@ "near" :> 1
Quiet == [ticks |-> 0, moves |-> 0, edits |-> 0]
Score == INSTANCE Scorer WITH
  plan <- ranking, Captures <- <<"jot", "old", "near">>, Issues <- <<"I1", "I2">>, Notes <- <<"note">>,
  Cycle <- <<<<"w1", "w2">>, <<"own">>>>, Schedules <- {Unscheduled, Slots}, Work <- 1, Names <- Naming,
  Alike <- {{"old", "note"}}, Due <- Deadlines, Never <- 99, Written <- WrittenOn,
  Urgency <- "I1" :> "urgent" @@ "I2" :> "none", Linked <- {"w1"}, Facing <- {"w2"}, RestDays <- {2},
  TopN <- 4, LastDay <- 2,
  Outings <- {[Quiet EXCEPT !.ticks = 1], [Quiet EXCEPT !.moves = 1], [Quiet EXCEPT !.edits = 1]}

(***************************************************************************)
(* A day of four hours with two modes, one meeting at two times or none,   *)
(* and a row that takes room: a change with rows; changes with a template, *)
(* with another answer of the calendar; the row alone.                     *)
(***************************************************************************)
Span(from, to) == [from |-> from, to |-> to]
Slot(name, from, to) == [id |-> [root |-> name, cut |-> <<>>], from |-> from, to |-> to]
Meal == Slot("meal", 3, 4)
Still == [changes |-> 0, templates |-> 0, fetches |-> 0, rows |-> 0]
Frame == INSTANCE DayFrame WITH
  rows <- adhoc, page <- shown, load <- effort, Midnight <- 4,
  Templates <- {[work |-> {Slot("out", 0, 3), Meal}, rest |-> {Slot("gym", 0, 2), Meal}],
                [work |-> {Slot("out", 1, 3), Meal}, rest |-> {Slot("gym", 0, 2)}]},
  Feeds <- {<<>>, <<Slot("meeting", 1, 2)>>, <<Slot("meeting", 2, 3)>>},
  Spans <- {Span(0, 1), Span(1, 2), Span(2, 4), Span(2, 2)}, Additions <- {"call"}, Rows <- {"row"},
  Loads <- {[Still EXCEPT !.changes = 1, !.rows = 2], [Still EXCEPT !.changes = 2, !.templates = 1],
            [Still EXCEPT !.changes = 2, !.fetches = 1], [Still EXCEPT !.rows = 4]}

(***************************************************************************)
(* A table whose retros come first and two of the partner, one of them     *)
(* without words; runs that plan a cycle and review another; a user who    *)
(* writes a retro, edits a file or tears it; two passes.                   *)
(***************************************************************************)
Column(kind, c) == [kind |-> kind, of |-> c, suffix |-> TRUE]
Item(r, n) == [row |-> r, n |-> n]
BothTables ==
  <<[owner |-> "self", named |-> {1}, empty |-> FALSE,
     columns |-> <<Column("retro", 2), Column("task", 2), Column("retro", 1), Column("task", 1)>>],
    [owner |-> "partner", named |-> {1}, empty |-> TRUE,
     columns |-> <<Column("task", 2), Column("retro", 2), Column("task", 1)>>],
    [owner |-> "partner", named |-> {1}, empty |-> FALSE, columns |-> <<Column("task", 2)>>]>>
AllRecords ==
  {[target |-> 2, review |-> 1, items |-> <<Item(2, 1), Item(1, 2), Item(2, 3)>>, text |-> TRUE],
   [target |-> 2, review |-> 1, items |-> <<>>, text |-> TRUE],
   [target |-> 1, review |-> 2, items |-> <<Item(1, 1)>>, text |-> FALSE]}
AllPassings == {[runs |-> 1, words |-> 1, edits |-> 1, passes |-> 2], [runs |-> 2, words |-> 0, edits |-> 1, passes |-> 2]}
Past == INSTANCE Migration WITH docs <- archive, load <- energy, Rows <- OkrRows, Loads <- Passings

(***************************************************************************)
(* Three days with a cache that keeps one: runs that are cut short or run  *)
(* beside each other; rows added and notes taken; reviews that are         *)
(* confirmed twice.                                                        *)
(***************************************************************************)
Rest == [runs |-> 2, adds |-> 1, notes |-> 0, presses |-> 0, deaths |-> 0, beside |-> 1, spoiled |-> FALSE,
         flows |-> {"daily_plan", "weekly_review"}]
Adding == [Rest EXCEPT !.runs = 3]
Beside == [Rest EXCEPT !.beside = 2]
Dying == [Rest EXCEPT !.deaths = 1, !.spoiled = TRUE]
Noting == [Rest EXCEPT !.notes = 1]
Confirming == [Rest EXCEPT !.adds = 0, !.runs = 3, !.presses = 2, !.flows = {"daily_plan", "daily_review"}]
AllRests == {Adding, Beside, Dying, Noting, Confirming}
Outputs == INSTANCE DayArchive WITH
  day <- date, pages <- leaves, pointer <- latest, cache <- store, saves <- saving, carried <- entries,
  torn <- halved, load <- bustle, Rows <- {"row", "new"}, Planned <- {{"row"}}, LastDay <- 3, Kept <- 1, Loads <- AllRests

(***************************************************************************)
(* Captures over four days, stale after one and retired after two: texts   *)
(* that are typed and said, one of them within the other.                  *)
(***************************************************************************)
Letters == INSTANCE Inbox WITH
  items <- written, day <- weekday, listed <- pile, said <- heard, load <- patience,
  LastDay <- 4, StaleDays <- 1, RetentionDays <- 2,
  Loads <- {[says |-> 2, hands |-> 1, renders |-> 1], [says |-> 3, hands |-> 0, renders |-> 0]}

(***************************************************************************)
(* One part at a time                                                      *)
(***************************************************************************)
First(S) == CHOOSE x \in S : TRUE

NoDocs == now = 0 /\ files = 0 /\ broken = 0 /\ docs = 0 /\ reflections = 0 /\ jobs = 0 /\ left = 0
NoSchedule == /\ cycleDay = 0 /\ sched = 0 /\ fixed = 0 /\ dealt = 0 /\ extras = 0 /\ page = 0
              /\ job = 0 /\ undo = 0 /\ budget = 0
NoScore == /\ day = 0 /\ issue = 0 /\ open = 0 /\ lines = 0 /\ slots = 0 /\ covered = 0 /\ done = 0
           /\ gone = 0 /\ carried = 0 /\ fetched = 0 /\ ranking = 0 /\ outing = 0
NoFrame == /\ template = 0 /\ mode = 0 /\ feed = 0 /\ override = 0 /\ adhoc = 0 /\ shown = 0 /\ wish = 0
           /\ effort = 0

NoPast == /\ records = 0 /\ cells = 0 /\ archive = 0 /\ torn = 0 /\ pass = 0 /\ same = 0 /\ energy = 0

NoOutputs == /\ date = 0 /\ leaves = 0 /\ latest = 0 /\ store = 0 /\ saving = 0 /\ entries = 0 /\ clock = 0
             /\ halved = 0 /\ bustle = 0

NoInbox == written = 0 /\ weekday = 0 /\ pile = 0 /\ heard = 0 /\ patience = 0

Parts ==
  /\ part \in OpenParts /\ Init
  /\ IF part = "sheet" THEN TRUE ELSE habits = First(Profiles)
  /\ IF part = "docs" THEN Docs!Init ELSE NoDocs
  /\ IF part = "schedule" THEN Plan!Init ELSE NoSchedule
  /\ IF part = "score" THEN Score!Init ELSE NoScore
  /\ IF part = "frame" THEN Frame!Init ELSE NoFrame
  /\ IF part = "history" THEN Past!Init ELSE NoPast
  /\ IF part = "outputs" THEN Outputs!Init ELSE NoOutputs
  /\ IF part = "inbox" THEN Letters!Init ELSE NoInbox

Step ==
  \/ part = "sheet" /\ Next
     /\ UNCHANGED <<part, docVars, schedVars, scoreVars, frameVars, pastVars, keptVars, inboxVars>>
  \/ part = "docs" /\ Docs!Next
     /\ UNCHANGED <<part, sheetVars, schedVars, scoreVars, frameVars, pastVars, keptVars, inboxVars>>
  \/ part = "schedule" /\ Plan!Next
     /\ UNCHANGED <<part, sheetVars, docVars, scoreVars, frameVars, pastVars, keptVars, inboxVars>>
  \/ part = "score" /\ Score!Next
     /\ UNCHANGED <<part, sheetVars, docVars, schedVars, frameVars, pastVars, keptVars, inboxVars>>
  \/ part = "frame" /\ Frame!Next
     /\ UNCHANGED <<part, sheetVars, docVars, schedVars, scoreVars, pastVars, keptVars, inboxVars>>
  \/ part = "history" /\ Past!Next
     /\ UNCHANGED <<part, sheetVars, docVars, schedVars, scoreVars, frameVars, keptVars, inboxVars>>
  \/ part = "outputs" /\ Outputs!Next
     /\ UNCHANGED <<part, sheetVars, docVars, schedVars, scoreVars, frameVars, pastVars, inboxVars>>
  \/ part = "inbox" /\ Letters!Next
     /\ UNCHANGED <<part, sheetVars, docVars, schedVars, scoreVars, frameVars, pastVars, keptVars>>

PartsSpec ==
  Parts /\ [][Step]_<<part, sheetVars, docVars, schedVars, scoreVars, frameVars, pastVars, keptVars, inboxVars>>

TypesOK == CASE part = "sheet" -> TypeOK
             [] part = "docs" -> Docs!TypeOK
             [] part = "schedule" -> Plan!TypeOK
             [] part = "score" -> Score!TypeOK
             [] part = "frame" -> Frame!TypeOK
             [] part = "history" -> Past!TypeOK
             [] part = "outputs" -> Outputs!TypeOK
             [] part = "inbox" -> Letters!TypeOK

(* No draft and no body of a cycle file goes unread, and what the user     *)
(* wrote stays (cycles/file.ts), through passes of the migration as well   *)
(* (cycles/migration.ts).                                                  *)
WordsKept == /\ [](part = "docs" => Docs!DraftBesideKept)
             /\ [][part = "docs" => Docs!KeepsOwnedWords /\ Docs!KeepsDraft]_docVars
             /\ [][part = "history" => Past!KeepsWords]_pastVars

(* The history stands under the cycle it is about, once and whole, and a   *)
(* second pass has nothing to write (cycles/migration.ts).                 *)
HistoryFiled == part = "history" => Past!FiledRight /\ Past!RendersAll /\ Past!SecondPassRests

(* What an ad-hoc session took stays off (cycles/schedule-writeback.ts).   *)
TakenStaysOff == part = "schedule" => Plan!TakenStaysOff

(* The plan holds the lines of the day first and what is late before the   *)
(* rest (todo/scorer.ts).                                                  *)
SheetOrder ==
  /\ [](part = "score" => Score!LateFirst)
  /\ [][part = "score" => Score!PutsLinesFirst]_scoreVars

(* A block stands where the user put it, whatever pieces it was shown in,  *)
(* and the room of an ad-hoc row follows the row (user/routine.ts).        *)
FrameKept == part = "frame" => Frame!FrameKept

(* The plan of a day stays whatever workflow finishes after it, with the   *)
(* rows that were added, a broken rerun does not hide it, and a row is     *)
(* carried once (storage/memory.ts, todo/day-history.ts).  What is typed   *)
(* into the capture field is taken down or is about a capture it names,    *)
(* and what was decided about a capture retires after its time, not before *)
(* (todo/inbox.ts).                                                        *)
OutputsStay ==
  /\ [](part = "outputs" => Outputs!CarryHonest)
  /\ [][part = "outputs" => Outputs!KeepsSheet /\ Outputs!KeepsHistory]_keptVars
  /\ [][part = "inbox" => Letters!FieldTakesAll /\ Letters!HistoryStays]_inboxVars

(* today-plan.ts:132 says that "a past day shows exactly what its Today    *)
(* page showed at the end of that day".                                    *)
PastDayShown == [][part = "outputs" => Outputs!PastAsItEnded]_keptVars

(* server.ts:2131 says of the drafting of a review that it "only ever      *)
(* fills a gap".                                                           *)
ReviewFillsGap == [][part = "docs" => Docs!FillsGap]_docVars

(* schedule-writeback.ts:9 says that "every change is reversible".         *)
UndoRestores == [][part = "schedule" => Plan!Restores]_schedVars
=============================================================================
