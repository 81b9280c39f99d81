---------------------------- MODULE MC_Workflows ----------------------------
(***************************************************************************)
(* The records of the runs, the evidence a run collects, the calendar a    *)
(* planned day is written into, the input pack of a skill and the way of   *)
(* its draft into the shared table, on small instances.  A behaviour is    *)
(* one of the parts, the others are not there.                             *)
(***************************************************************************)
EXTENDS WorkflowRun, Integers, Sequences, FiniteSets, TLC

CONSTANTS
  w1, w2, s1, OpenParts,
  Titles, Windows, LastSlot, Wishes, MaxCards, MaxHandlers, MaxBatch, Bookings, \* of Calendar
  Weeks, Kept, MaxDrafts, Endings, Efforts                                     \* of ReviewWriteback

VARIABLES part, agenda, wishes, cards, kept, claimed, events, rows, batches, work, made, booking,
  world, issue, asked, answers, pack, prompt, warned, calls, phase, moves,
  amounts, skill, blocks, known,                                           \* SkillPack
  drafts, stored, enabled, docs, year, previews, told, cliCalls, table, confirmed, effort  \* ReviewWriteback

runVars == vars
bookVars == <<agenda, wishes, cards, kept, claimed, events, rows, batches, work, made, booking>>
readVars == <<world, issue, asked, answers, pack, prompt, warned, calls, phase, moves>>
packVars == <<amounts, skill, blocks, known>>
reviewVars == <<drafts, stored, enabled, docs, year, previews, told, cliCalls, table, confirmed, effort>>

(* A run that sends, one that does not, a skill run.                       *)
AllWorkflows == {w1, w2}
SendingOnes == {w1}
AllSkills == {s1}

(***************************************************************************)
(* Two priorities in two windows and a free slot; one can be moved, the    *)
(* other dropped.  Confirmations in turn, with new drafts; side by side;   *)
(* with faults; where a slot that is taken is left alone.                  *)
(***************************************************************************)
Quiet == [edits |-> 0, wishes |-> 0, presses |-> 0, undos |-> 0, faults |-> 0,
          together |-> FALSE, policy |-> "warn", hit |-> "no"]
InTurn == [Quiet EXCEPT !.edits = 1, !.wishes = 1, !.presses = 2, !.undos = 1]
SideBySide == [Quiet EXCEPT !.wishes = 1, !.presses = 2, !.undos = 1, !.together = TRUE]
Faulty == [Quiet EXCEPT !.wishes = 1, !.presses = 2, !.undos = 1, !.faults = 1]
TwoWindows == <<1, 3>>
MoveOrDrop == {[kind |-> "move", title |-> "paper", slot |-> 2], [kind |-> "drop", title |-> "mail"]}
Blocking == [Quiet EXCEPT !.wishes = 1, !.presses = 2, !.policy = "block"]
AllBookings == {InTurn, SideBySide, Faulty, Blocking}
Book == INSTANCE Calendar WITH saved <- kept

ASSUME CalendarAssumption ==
  IsFiniteSet(Titles) /\ MaxHandlers \in Nat /\ MaxBatch \in Nat /\ Bookings \subseteq Book!Booking

(***************************************************************************)
(* Every source says something; one after the other meets something else;  *)
(* an issue is moved twice while Linear is read.  Then evidence far too    *)
(* large, in long texts, in long lists, in many sources; and a little over *)
(* one limit.                                                              *)
(***************************************************************************)
AllPoints == {"linear", "codex", "github", "vault", "scan", "note", "okr", "feishu", "calendar", "tasks", "docA",
              "docB", "im", "bot", "minutes", "chrome", "apple", "files", "cycle", "column", "inbox", "ledger"}
Fine == [at |-> [p \in AllPoints |-> "some"], bulk |-> <<>>, filter |-> "keeps", repos |-> FALSE, moves |-> 0,
         workflow |-> "daily_plan", extra |-> {"cycle_focus", "fixed_schedule"}, headless |-> FALSE]
Amiss ==
  {[Fine EXCEPT !.at[p] = m] : p \in {"linear", "github", "vault", "feishu"}, m \in {"off", "unset"}}
  \cup {[Fine EXCEPT !.at[p] = "fails"] : p \in {"linear", "github", "note", "okr", "tasks", "chrome", "apple", "bot"}}
  \cup {[Fine EXCEPT !.at[p] = "none"] : p \in {"github", "okr", "calendar", "minutes", "files", "inbox", "cycle"}}
  \cup {[Fine EXCEPT !.at["docA"] = a, !.at["docB"] = b] : a \in {"none", "off"}, b \in {"fails", "off", "unset", "some"}}
  \cup {[Fine EXCEPT !.at["linear"] = "unset", !.at["codex"] = m] : m \in {"fails", "noise"}}
  \cup {[Fine EXCEPT !.at["scan"] = "gone"], [Fine EXCEPT !.at["github"] = "fails", !.repos = TRUE],
        [Fine EXCEPT !.filter = "drops", !.headless = TRUE], [Fine EXCEPT !.moves = 2]}
  \cup {[Fine EXCEPT !.workflow = w, !.extra = {x}] : w \in {"daily_review", "weekly_review"}, x \in {"plan", "ticks"}}

Texts(lengths) == [state |-> "available", texts |-> lengths, lists |-> <<>>, marked |-> FALSE]
Listed(items, each) == [Texts(<<>>) EXCEPT !.lists = <<[items |-> items, each |-> each]>>]
Closed == [Listed(40, 900) EXCEPT !.lists = Append(@, [items |-> 60, each |-> 1000])]
LongDocs == "feishu_work_docs" :> Texts(<<160000>>) @@ "vault_todo" :> Texts(<<2005, 1900>>) @@ "linear" :> Closed
LongLists == "feishu_work_im_history" :> Listed(80, 900) @@ "github" :> Listed(50, 1500) @@ "linear" :> Closed
Many == LongLists @@ "feishu_work_tasks" :> Listed(24, 1000) @@ "todo_inbox" :> Listed(30, 700)
        @@ "vault_scan" :> Listed(40, 420) @@ "apple_calendar_snapshot" :> Listed(2, 30000)
        @@ "progress_ledger" :> Texts(<<9000>>) @@ "chrome_snapshot" :> Texts(<<900>>)
        @@ "todo_scored" :> Listed(20, 900)
Large == {[Fine EXCEPT !.bulk = b, !.workflow = w, !.at["feishu"] = f] :
            b \in {LongDocs, LongLists, Many}, w \in {"daily_plan", "weekly_review"}, f \in {"some", "off"}}
Reading == INSTANCE Evidence WITH Worlds <- Amiss \cup Large, Budget <- 120000, Trims <- 14, MaxAttempts <- 2

(***************************************************************************)
(* Few issues and many, with and without long notes, beside short and long *)
(* texts; no Linear, and cycles that are told of or not.                   *)
(***************************************************************************)
Issues(n, every) ==
  [i \in 1..n |-> IF i % every = 0 THEN "started" ELSE IF i % 3 = 0 THEN "backlog" ELSE "unstarted"]
Completed(n) == [i \in 1..n |-> "completed"]
Cycle(retro, plan, begun) == [retro |-> retro, plan |-> plan, begun |-> begun]
Usual == [linear |-> "available", items |-> Issues(8, 2), notes |-> 300, texts |-> 1, okr |-> 900, context |-> 1200,
          days |-> 200, request |-> 20, strategy |-> 680, rest |-> 50000,
          cycles |-> <<Cycle(0, 900, FALSE), Cycle(700, 0, TRUE), Cycle(1600, 2500, TRUE), Cycle(90, 1900, TRUE)>>]
Amounts ==
  {[Usual EXCEPT !.items = Issues(n, every) \o Completed(c), !.notes = length, !.texts = t, !.okr = okr] :
     n \in {0, 40, 100}, every \in {1, 5}, c \in {0, 30}, length \in {0, 1200, 1201, 5000}, t \in {1, 4},
     okr \in {0, 4000}}
  \cup {[Usual EXCEPT !.linear = "error", !.cycles = SubSeq(@, 1, n), !.context = 3000] : n \in {0, 2}}
  \cup {[Usual EXCEPT !.items = Issues(100, 5), !.okr = 8300 - 600 - request - strategy - context, !.context = context,
                      !.request = request, !.strategy = strategy] :
           request \in {0, 1500}, strategy \in {680, 2600}, context \in {0, 2400}}
  \cup {[Usual EXCEPT !.items = Issues(100, 5), !.okr = 12700]}
Packing == INSTANCE SkillPack WITH
  world <- amounts, pack <- blocks, Worlds <- Amounts, Cut <- 20000, LineLength <- 158, Room <- 8300

(***************************************************************************)
(* Two drafts of one week: of each mode the CLI runs, one that cannot be   *)
(* filed whole, and one it does not know.  The switch is turned, somebody  *)
(* writes into the table, a year begins with no document filled in.        *)
(***************************************************************************)
Ready == [mode |-> "weekly", week |-> "w", ready |-> TRUE, review |-> TRUE]
AllEndings == {Ready, [Ready EXCEPT !.mode = "biweekly"], [Ready EXCEPT !.mode = "biweekly", !.ready = FALSE],
               [Ready EXCEPT !.mode = "quarterly", !.ready = FALSE, !.review = FALSE]}
Confirming == [confirms |-> 2, switches |-> 0, hands |-> 0, years |-> 0, filled |-> <<TRUE>>]
AllEfforts == {[Confirming EXCEPT !.switches = 1], [Confirming EXCEPT !.hands = 1],
               [Confirming EXCEPT !.years = 1, !.confirms = 1, !.filled = <<TRUE, FALSE>>]}
Review == INSTANCE ReviewWriteback WITH calls <- cliCalls

(***************************************************************************)
(* One part at a time                                                      *)
(***************************************************************************)
NoBook == /\ agenda = 0 /\ wishes = 0 /\ cards = 0 /\ kept = 0 /\ claimed = 0 /\ events = 0 /\ rows = 0
          /\ batches = 0 /\ work = 0 /\ made = 0 /\ booking = 0
NoReading == /\ world = 0 /\ issue = 0 /\ asked = 0 /\ answers = 0 /\ pack = 0 /\ prompt = 0 /\ warned = 0 /\ calls = 0
             /\ phase = 0 /\ moves = 0
NoPacking == amounts = 0 /\ skill = 0 /\ blocks = 0 /\ known = 0
NoReview == /\ drafts = 0 /\ stored = 0 /\ enabled = 0 /\ docs = 0 /\ year = 0 /\ previews = 0 /\ told = 0
            /\ cliCalls = 0 /\ table = 0 /\ confirmed = 0 /\ effort = 0

Parts ==
  /\ part \in OpenParts /\ Init
  /\ IF part = "calendar" THEN Book!Init ELSE NoBook
  /\ IF part = "evidence" THEN Reading!Init ELSE NoReading
  /\ IF part = "pack" THEN Packing!Init ELSE NoPacking
  /\ IF part = "review" THEN Review!Init ELSE NoReview

Step ==
  \/ part = "runs" /\ Next /\ UNCHANGED <<part, bookVars, readVars, packVars, reviewVars>>
  \/ part = "calendar" /\ Book!Next /\ UNCHANGED <<part, runVars, readVars, packVars, reviewVars>>
  \/ part = "evidence" /\ Reading!Next /\ UNCHANGED <<part, runVars, bookVars, packVars, reviewVars>>
  \/ part = "pack" /\ Packing!Next /\ UNCHANGED <<part, runVars, bookVars, readVars, reviewVars>>
  \/ part = "review" /\ Review!Next /\ UNCHANGED <<part, runVars, bookVars, readVars, packVars>>

PartsSpec ==
  Parts /\ [][Step]_<<part, runVars, bookVars, readVars, packVars, reviewVars>> /\ Fairness

TypesOK == CASE part = "runs" -> TypeOK
             [] part = "calendar" -> Book!TypeOK
             [] part = "evidence" -> Reading!TypeOK
             [] part = "pack" -> Packing!TypeOK
             [] part = "review" -> Review!TypeOK

(* What is written is reached again, as far as Calendar says so: a row has *)
(* its event, an undo finds its rows and the events, and a task has one    *)
(* event (calendar/writeback.ts).                                          *)
CalendarKept == part = "calendar" => Book!RowsHaveEvents /\ Book!UndoReaches /\ Book!OneEventPerTask

(* What is taken from the evidence of a model is on the console, and a cut *)
(* text, a source that went and one that could not be read say so to the   *)
(* model (evidence-budget.ts); as long as the texts ahead of it leave room *)
(* life-review-os reads all of the snapshot of Linear, which prefers what  *)
(* is under way, and a note is cut in its middle (skills/runner.ts).       *)
EvidenceHonest ==
  /\ part = "evidence" => Reading!EvidenceHonest
  /\ part = "pack" => Packing!SnapshotRead /\ Packing!UnderWayFirst /\ Packing!NotesKeepEnds

(* A card writes the draft it shows into the shared table, and nothing     *)
(* that was not confirmed comes there (skills/life-review-os.ts).          *)
WritebackConfirmed == part = "review" => Review!CardWritesShown /\ Review!TableConfirmed

(* feishu-interaction.ts:1679 says that "the exact draft" is kept so that  *)
(* the confirmation "writes back what was shown".                          *)
ConfirmWritesShown == [][part = "calendar" => Book!WritesShown]_bookVars
=============================================================================
