---------------------------- MODULE MC_Services ----------------------------
(***************************************************************************)
(* What is shared with others and with the user's own editors, on small    *)
(* instances: the session of a team, the checkout of a skill, the progress *)
(* that is written into the OKR files, the replies to suggestions and      *)
(* progress, the accounts of the console, and what the user writes for     *)
(* himself.  A behaviour is one of these parts, the others are at rest or *)
(* not there.                                                              *)
(***************************************************************************)
EXTENDS TeamSession, Integers, TLC

CONSTANTS
  OpenParts, \* the parts there are
  Names, Admin, Passwords, Consoles, Tokens, TTL, LastDate, Uses,     \* Accounts
  Dirs, Home, Link, Nowhere, Settings, LastHead, Chores,              \* SkillRepo
  Krs, Files, Top, BigJump, KeptRuns, MaxRuns, Proposals, Efforts, \* OkrWriteback
  Suggestions, Options, Messages, MaxTold, MaxKept, Ticks, Talks   \* Replies

VARIABLES
  part,
  repo, registry, setting, page, upstream, jobs, started, work, wished, chore,  \* SkillRepo
  okr, editor, drafts, packs, card, shown, history, writing, saved, loose, wrote, effort, \* OkrWriteback
  pending, gen, told, signature, due, run, candidates, cards, ledger, mail, queue, poll, seen, logged,
  record, load,                                                                 \* Replies
  accounts, legacy, sessions, file, issued, sign, granted, quit, ended, owners, date, use,  \* Accounts
  notes, broken, answered, wiped, pages, first, meant, noteDay, pen,                        \* Stickies
  items, today, passed, asked, spent                                                        \* Countdowns

sessionVars == vars
repoVars == <<repo, registry, setting, page, upstream, jobs, started, work, wished, chore>>
okrVars == <<okr, editor, drafts, packs, card, shown, history, writing, saved, loose, wrote, effort>>
replyVars == <<pending, gen, told, signature, due, run, candidates, cards, ledger, mail, queue, poll, seen, logged,
               record, load>>
accountVars == <<accounts, legacy, sessions, file, issued, sign, granted, quit, ended, owners, date, use>>
noteVars == <<notes, broken, answered, wiped, pages, first, meant, noteDay, pen>>
itemVars == <<items, today, passed, asked, spent>>

(***************************************************************************)
(* One operation after the other, in a world that fails in every way and   *)
(* with a member who changes the team elsewhere, or where the tokens       *)
(* expire twice; and two operations at once on two accounts, with one more *)
(* operation or with tokens that expire.                                   *)
(***************************************************************************)
OneByOne == [atOnce |-> 1, signIns |-> 2, ops |-> 3, expiries |-> 1, faults |-> 1, elsewhere |-> 1]
TwoAtOnce == [atOnce |-> 2, signIns |-> 2, ops |-> 2, expiries |-> 0, faults |-> 0, elsewhere |-> 0]
Both == {OneByOne, [OneByOne EXCEPT !.ops = 2, !.expiries = 2, !.elsewhere = 0],
         TwoAtOnce, [TwoAtOnce EXCEPT !.ops = 1, !.expiries = 1]}
Symmetry == Permutations(Threads)

(***************************************************************************)
(* Two directories: a user who works in one; with an old page of the       *)
(* console; with a crash.                                                  *)
(***************************************************************************)
NoChore == [works |-> 0, calls |-> 0, saves |-> 0, crashes |-> 0]
AllChores == {[NoChore EXCEPT !.works = 3, !.calls = 1], [NoChore EXCEPT !.works = 2, !.calls = 2, !.saves = 1],
              [NoChore EXCEPT !.works = 1, !.calls = 2, !.saves = 1, !.crashes = 1]}
Skill == INSTANCE SkillRepo

ASSUME SkillAssumption ==
  /\ Nowhere \notin Dirs /\ Home \in Dirs /\ Link \in Skill!Places /\ Settings # {}
  /\ LastHead \in Nat \ {0} /\ Chores \subseteq Skill!Chore

(***************************************************************************)
(* Two key results in two files, four levels, a jump of two of them.       *)
(***************************************************************************)
Missing == -1
Proposed == {[to |-> ("k" :> 1 @@ "m" :> 3), found |-> {"m"}], [to |-> ("k" :> 2 @@ "m" :> Missing), found |-> {}],
             [to |-> ("k" :> 4 @@ "m" :> 2), found |-> {"k", "m"}]}
AllEfforts == {[edits |-> 1, presses |-> 1, faults |-> 0, apart |-> TRUE],
               [edits |-> 1, presses |-> 1, faults |-> 1, apart |-> FALSE],
               [edits |-> 0, presses |-> 2, faults |-> 1, apart |-> FALSE]}
Progress == INSTANCE OkrWriteback WITH told <- shown

ASSUME ProgressAssumption ==
  /\ IsFiniteSet(Krs) /\ Files \in Nat \ {0} /\ Top \in Nat /\ BigJump \in Nat /\ KeptRuns \in Nat /\ MaxRuns \in Nat
  /\ Proposals \subseteq Progress!Drafts /\ Efforts \subseteq Progress!Effort

(***************************************************************************)
(* Two suggestions, two candidates, two messages.                          *)
(***************************************************************************)
Silence == [runs |-> 0, faults |-> 0, changes |-> 0, cards |-> 0, presses |-> 0, polls |-> 0, kinds |-> {}]
Suggesting == [Silence EXCEPT !.runs = 2, !.kinds = {"accept", "dismiss", "acceptAll"}]
Failing == [Silence EXCEPT !.runs = 2, !.faults = 1, !.kinds = {"accept"}]
Reading == [Silence EXCEPT !.runs = 1, !.faults = 1, !.polls = 1, !.kinds = {"accept", "acceptAll"}]
Progressing == [Silence EXCEPT !.changes = 1, !.cards = 2, !.presses = 1, !.kinds = {"confirmAll", "done", "carry", "ignore"}]
Mixed == [Silence EXCEPT !.runs = 1, !.cards = 1, !.polls = 1, !.kinds = {"confirmAll", "ignore", "accept", "carry"}]
Writing == [Silence EXCEPT !.polls = 2, !.faults = 1, !.kinds = {"capture", "revise"}]
AllTalks == {Suggesting, Failing, Reading, Progressing, Mixed, Writing}
Answers == INSTANCE Replies WITH Candidates <- Options, Loads <- Talks

ASSUME AnswersAssumption ==
  /\ IsFiniteSet(Suggestions) /\ IsFiniteSet(Options)
  /\ MaxTold \in Nat /\ MaxKept \in Nat

(***************************************************************************)
(* An administrator and a second account, two days, and a console that is  *)
(* started again, with the command line beside it.                         *)
(***************************************************************************)
AllUses == {[consoles |-> {"ui"}, resets |-> 1, restarts |-> 1, faults |-> 0],
            [consoles |-> {"ui"}, resets |-> 0, restarts |-> 1, faults |-> 1]}
Console == INSTANCE Accounts WITH
  users <- accounts, cache <- sessions, left <- quit, day <- date, load <- use, LastDay <- LastDate, Loads <- Uses

ASSUME ConsoleAssumption == IsFiniteSet(Consoles) /\ TTL \in Nat /\ Uses \subseteq Console!Load

(***************************************************************************)
(* Two notes on a ladder of three, the pages of two days; two countdowns   *)
(* over three days of a calendar with months of two to four.               *)
(***************************************************************************)
Board == INSTANCE Stickies WITH
  told <- answered, day <- noteDay, load <- pen,
  Ids <- {"n", "m"}, Intervals <- <<1, 2, 3>>, Skies <- {"sun", "rain"}, LastDay <- 2,
  Loads <- {[zones |-> {0}, acts |-> 4, edits |-> 1], [zones |-> {0, 1}, acts |-> 3, edits |-> 0]}

DaysOf(y, m) == IF m # 2 THEN 4 ELSE IF y = 2 THEN 3 ELSE 2
Unsent == [sent |-> FALSE, value |-> 0]
As(value) == [sent |-> TRUE, value |-> value]
Entry(d, repeat) == [date |-> d, repeat |-> As(repeat), since |-> Unsent, pinned |-> Unsent, note |-> Unsent,
                     end |-> Unsent, lead |-> Unsent]
Entries == {Entry(<<1, 1, 4>>, "monthly"), Entry(<<2, 2, 3>>, "yearly"),
            [Entry(<<2, 1, 1>>, "none") EXCEPT !.pinned = As(TRUE), !.note = As(TRUE)],
            [Entry(<<2, 3, 2>>, "none") EXCEPT !.repeat = Unsent], [Entry(<<1, 2, 1>>, "none") EXCEPT !.since = As(TRUE)],
            [Entry(<<1, 1, 3>>, "monthly") EXCEPT !.end = As(<<2, 2, 1>>), !.lead = As(1)],
            [Entry(<<1, 2, 1>>, "yearly") EXCEPT !.end = As(<<2, 1, 1>>)]}
Days == INSTANCE Countdowns WITH
  Ids <- {"n", "m"}, Years <- 4, Months <- 3, Length <- DaysOf, Horizon <- 3, Limit <- 1, Inputs <- Entries,
  FirstDays <- {<<2, 1, 3>>, <<2, 2, 3>>, <<3, 1, 4>>}, LastDay <- 3, Writes <- 3

(***************************************************************************)
(* One part at a time                                                      *)
(***************************************************************************)
First(S) == CHOOSE x \in S : TRUE

NoSkill == /\ repo = 0 /\ registry = 0 /\ setting = 0 /\ page = 0 /\ upstream = 0 /\ jobs = 0 /\ started = 0
           /\ work = 0 /\ wished = 0 /\ chore = 0
NoProgress == /\ okr = 0 /\ editor = 0 /\ drafts = 0 /\ packs = 0 /\ card = 0 /\ shown = 0 /\ history = 0
              /\ writing = 0 /\ saved = 0 /\ loose = 0 /\ wrote = 0 /\ effort = 0
NoReplies == /\ pending = 0 /\ gen = 0 /\ told = 0 /\ signature = 0 /\ due = 0 /\ run = 0 /\ candidates = 0
             /\ cards = 0 /\ ledger = 0 /\ mail = 0 /\ queue = 0 /\ poll = 0 /\ seen = 0 /\ logged = 0
             /\ record = 0 /\ load = 0
NoAccounts == /\ accounts = 0 /\ legacy = 0 /\ sessions = 0 /\ file = 0 /\ issued = 0 /\ sign = 0
              /\ granted = 0 /\ quit = 0 /\ ended = 0 /\ owners = 0 /\ date = 0 /\ use = 0
NoNotes == /\ notes = 0 /\ broken = 0 /\ answered = 0 /\ wiped = 0 /\ pages = 0 /\ first = 0 /\ meant = 0
           /\ noteDay = 0 /\ pen = 0
NoItems == items = 0 /\ today = 0 /\ passed = 0 /\ asked = 0 /\ spent = 0
AtRest == left = First(Loads) /\ \A u \in Users : member[u] = NoTeam

Parts ==
  /\ part \in OpenParts /\ Init
  /\ part = "session" \/ AtRest
  /\ IF part = "skill" THEN Skill!Init ELSE NoSkill
  /\ IF part = "okr" THEN Progress!Init ELSE NoProgress
  /\ IF part = "replies" THEN Answers!Init ELSE NoReplies
  /\ IF part = "accounts" THEN Console!Init ELSE NoAccounts
  /\ IF part = "notes" THEN Board!Init ELSE NoNotes
  /\ IF part = "days" THEN Days!Init ELSE NoItems

Step ==
  \/ part = "session" /\ Next /\ UNCHANGED <<part, repoVars, okrVars, replyVars, accountVars, noteVars, itemVars>>
  \/ part = "skill" /\ Skill!Next /\ UNCHANGED <<part, sessionVars, okrVars, replyVars, accountVars, noteVars, itemVars>>
  \/ part = "okr" /\ Progress!Next /\ UNCHANGED <<part, sessionVars, repoVars, replyVars, accountVars, noteVars, itemVars>>
  \/ part = "replies" /\ Answers!Next /\ UNCHANGED <<part, sessionVars, repoVars, okrVars, accountVars, noteVars, itemVars>>
  \/ part = "accounts" /\ Console!Next /\ UNCHANGED <<part, sessionVars, repoVars, okrVars, replyVars, noteVars, itemVars>>
  \/ part = "notes" /\ Board!Next /\ UNCHANGED <<part, sessionVars, repoVars, okrVars, replyVars, accountVars, itemVars>>
  \/ part = "days" /\ Days!Next /\ UNCHANGED <<part, sessionVars, repoVars, okrVars, replyVars, accountVars, noteVars>>

PartsSpec == Parts /\ [][Step]_<<part, sessionVars, repoVars, okrVars, replyVars, accountVars, noteVars, itemVars>>

TypesOK == CASE part = "session" -> TypeOK
             [] part = "skill" -> Skill!TypeOK
             [] part = "okr" -> Progress!TypeOK
             [] part = "replies" -> Answers!TypeOK
             [] part = "accounts" -> Console!TypeOK
             [] part = "notes" -> Board!TypeOK
             [] part = "days" -> Days!TypeOK

(* Neither an update nor an installation touches what the user did in a    *)
(* checkout, and no registration takes back the settings saved meanwhile;  *)
(* an installation that replaces a filled configuration carries it over    *)
(* (skills/update.ts).                                                     *)
InstallKeeps == /\ [](part = "skill" => Skill!WorkKept /\ Skill!SettingsKept)
                /\ [][part = "skill" => Skill!CarriesFilled]_repoVars

(* The files say what the history or the user said last, but for the rows  *)
(* whose line is still to come, was lost, or came after an edit of another *)
(* process, and no row jumps without evidence (okr/biweekly-progress.ts,   *)
(* okr/writeback-guardrails.ts).                                           *)
ProgressHonest == /\ [](part = "okr" => Progress!HistoryTellsAll)
                  /\ [][part = "okr" => Progress!ProvesJumps]_okrVars

(* What an answer records is what the user was told: by number, the        *)
(* suggestion that stood there; by a press, what the card showed           *)
(* (service/background-suggestions.ts, interaction/feishu-interaction.ts); *)
(* and nothing is recorded twice, from two routes or by repeated polls     *)
(* (feedback/feishu-feedback.ts).                                          *)
AnswersMeanTold == part = "replies" => Answers!NumbersHold /\ Answers!PressConfirmsShown /\ Answers!NothingTwice

(* What ends stays ended and what was granted stays granted when the       *)
(* console is started again, and one account at most becomes the owner by  *)
(* signing up (ui/auth.ts).                                                *)
SessionsHold == part = "accounts" => Console!EndedStaysOut /\ Console!RestartsKeep /\ Console!OneOwner

(* A note is on the board until it is put away, on the rung its answers    *)
(* led to; a page reads as it was saved, under its first weather; a date   *)
(* that comes round points at its next day, and the card names the nearest *)
(* (reminders/store.ts, todo/journal.ts, countdown/store.ts).              *)
NotesTell == /\ part = "notes" => Board!BoardIsKept /\ Board!LadderTells /\ Board!PagesTell
             /\ part = "days" => Days!PointsAtNext /\ Days!CardTells

(* A start that finds no checkout in use installs one ("so a machine gets  *)
(* biweekly by launching the app, no manual clone", skills/update.ts).     *)
LaunchProvides == part = "skill" => Skill!LaunchProvides

(* A confirmation writes what was shown for it ("re-derives the same       *)
(* preview from the stored draft", okr-writeback-card.ts).                 *)
WritesAsShown == part = "okr" => Progress!WritesAsShown

(* card.ts:33 tells the user of the candidates that they are written into  *)
(* the day's ledger only once confirmed.                                   *)
ConfirmedWasShown == part = "replies" => Answers!ConfirmedWasShown
=============================================================================
