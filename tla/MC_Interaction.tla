--------------------------- MODULE MC_Interaction ---------------------------
(***************************************************************************)
(* What happens in a chat, on small instances: a conversation with an      *)
(* agent, the long-term rules and the chats they are asked for in, the     *)
(* progress that is not synced, the chat of the console, and the budget of *)
(* the calls of a model.  A behaviour is one of these parts, the others    *)
(* are not there.                                                          *)
(***************************************************************************)
EXTENDS Conversation, Sequences, TLC

CONSTANTS
  OpenParts, \* the parts there are
  Rules, Talks, Processes, MaxCandidates, MaxChats, Tasks, \* PolicyRules
  Linear, Github, NoIssue, Mentions, Sayings, Downs, LastDay, Reviews, Rounds, \* SyncDrift
  Calls, Payers, Callers, Costs, Dearest, TaskLimit, DayLimit, LastBill \* TokenMeter

VARIABLES
  part,
  store, rules, readable, asked, told, chats, file, env, dotenv, lock, job, greeted, task, \* PolicyRules
  day, utc, said, touched, listed, review, cards, ended, decided, pressed, round, \* SyncDrift
  webSession, turn, child, listedRun, stop, lines, effort,                      \* WebChat
  spendDay, ledger, call, copy,                                                 \* TokenMeter
  guard, mode, looking, arrived, waiting, working, heard, sent, runs, claims, acts, came, marked, now, desk \* Desk

chatVars == vars
ruleVars == <<store, rules, readable, asked, told, chats, file, env, dotenv, lock, job, greeted, task>>
driftVars == <<day, utc, said, touched, listed, review, cards, ended, decided, pressed, round>>
webVars == <<webSession, turn, child, listedRun, stop, lines, effort>>
meterVars == <<spendDay, ledger, call, copy>>
deskVars == <<guard, mode, looking, arrived, waiting, working, heard, sent, runs, claims, acts, came, marked, now, desk>>

(***************************************************************************)
(* A long conversation, and a shorter one in which things fail; one        *)
(* message, where nothing fails but the agent.                             *)
(***************************************************************************)
Long == [msgs |-> 3, changes |-> 1, faults |-> 0]
Failing == [msgs |-> 2, changes |-> 0, faults |-> 2]
BothLoads == {Long, Failing}
Short == {[msgs |-> 1, changes |-> 0, faults |-> 0]}
TwoPolicies == {"A", "B"}

(***************************************************************************)
(* Two rules in one conversation; two processes that greet chats.          *)
(***************************************************************************)
Calm == [edits |-> 0, asks |-> 0, commands |-> 0, starts |-> 0, late |-> 0, restarts |-> 0, hit |-> FALSE]
Ruling == [Calm EXCEPT !.edits = 1, !.asks = 3, !.commands = 4]
Greeting == [Calm EXCEPT !.starts = 4, !.late = 2, !.restarts = 1]
AllTasks == {Ruling, Greeting}
Rule == INSTANCE PolicyRules WITH policy <- rules, Scopes <- Talks

(* Nobody is who holds a lock that nobody holds.                           *)
ASSUME TaskAssumption ==
  MaxCandidates \in Nat /\ MaxChats \in Nat /\ Tasks \subseteq Rule!Task /\ "none" \notin Processes

(***************************************************************************)
(* An issue of each tracker, where that of GitHub names the other one; a   *)
(* user whose zone is ahead of UTC and one whose lags behind.              *)
(***************************************************************************)
GithubNames == [i \in Github |-> Linear]
BothSayings ==
  {[names |-> Linear, like |-> NoIssue, from |-> "ledger"], [names |-> {}, like |-> "L", from |-> "message"],
   [names |-> Github, like |-> "L", from |-> "message"]}
LinearDown == {{}, {"linear"}}
FourRounds ==
  {[says |-> 1, reviews |-> 2, updates |-> 0, presses |-> 2, fails |-> 0, lag |-> 1],
   [says |-> 0, reviews |-> 2, updates |-> 1, presses |-> 1, fails |-> 1, lag |-> 0],
   [says |-> 2, reviews |-> 1, updates |-> 0, presses |-> 1, fails |-> 1, lag |-> 0],
   [says |-> 1, reviews |-> 1, updates |-> 1, presses |-> 1, fails |-> 0, lag |-> 1]}
Drift == INSTANCE SyncDrift WITH None <- NoIssue

ASSUME DriftAssumption ==
  /\ NoIssue \notin Drift!Issues /\ LastDay \in Nat \ {0} /\ Mentions \in [Github -> SUBSET Drift!Issues]
  /\ Sayings \subseteq Drift!Saying /\ Rounds \subseteq Drift!Round

(***************************************************************************)
(* Turns one after the other, with a stop or a deletion and a crash; turns *)
(* side by side that are stopped and whose requests close.                 *)
(***************************************************************************)
InTurn == [turns |-> 2, stops |-> 1, crashes |-> 0, closes |-> 0, overlap |-> FALSE]
SideBySide == [InTurn EXCEPT !.stops = 0, !.overlap = TRUE]
Web == INSTANCE WebChat WITH
  session <- webSession, agent <- child, listed <- listedRun, said <- lines, load <- effort,
  MaxTurns <- 3, MaxStops <- 2,
  Loads <- {[InTurn EXCEPT !.turns = 3], [InTurn EXCEPT !.crashes = 1], [SideBySide EXCEPT !.stops = 2],
            [SideBySide EXCEPT !.closes = 2]}

(***************************************************************************)
(* Four calls of two runs in one process on two days, each limit reached   *)
(* by the second of them that costs something: without the look at the run *)
(* three calls exceed what a run may cost, without that at the day four    *)
(* what a day may.                                                         *)
(***************************************************************************)
Meter == INSTANCE TokenMeter WITH
  day <- spendDay, Runs <- Payers, Processes <- Callers, LastDay <- LastBill

ASSUME MeterAssumption ==
  /\ IsFiniteSet(Calls) /\ IsFiniteSet(Payers) /\ Payers # {} /\ IsFiniteSet(Callers) /\ Callers # {}
  /\ Dearest \in Nat \ {0} /\ Costs \subseteq 0 .. Dearest
  /\ TaskLimit \in Nat /\ DayLimit \in Nat /\ LastBill \in Nat \ {0}

(***************************************************************************)
(* Messages of two topics and the kind of their chat; texts that are       *)
(* joined; the calibration chat; a guest of a group; own messages that     *)
(* come back; presses; and a service whose output is off.                  *)
(***************************************************************************)
Quiet == [chat |-> "direct", role |-> "owner", texts |-> {"plan"}, mention |-> FALSE, agent |-> TRUE,
          readOnly |-> FALSE, writes |-> TRUE, pending |-> FALSE, output |-> TRUE, cliUser |-> FALSE,
          messages |-> 0, echoes |-> 0, presses |-> 0, faults |-> 0, restarts |-> 0]
InTopics == [Quiet EXCEPT !.chat = "topic", !.texts = {"talk"}, !.writes = FALSE, !.messages = 3]
Unfound == [InTopics EXCEPT !.messages = 2, !.faults = 2]
Joined == [Quiet EXCEPT !.texts = {"plan", "remember", "numbers", "adopt"}, !.pending = TRUE, !.messages = 2,
                        !.restarts = 1]
Calibrating == [Quiet EXCEPT !.chat = "calibration", !.role = "allowed_user", !.texts = {"rule", "calibrate", "talk"},
                             !.messages = 2]
InGroup == [Quiet EXCEPT !.chat = "group", !.role = "allowed_chat", !.mention = TRUE, !.agent = FALSE,
                         !.texts = {"capture", "revise", "yes", "status", "progress"}, !.messages = 2]
Echoing == [Quiet EXCEPT !.texts = {"plan", "status"}, !.messages = 1, !.echoes = 2, !.restarts = 1, !.cliUser = TRUE]
Pressing == [Quiet EXCEPT !.presses = 3, !.faults = 1]
OutputOff == [Quiet EXCEPT !.messages = 1, !.presses = 1, !.faults = 2, !.output = FALSE]
Front == INSTANCE Desk WITH
  load <- desk, Midnight <- 1, End <- 2,
  Loads <- {InTopics, Unfound, Joined, Calibrating, InGroup, Echoing, Pressing, OutputOff}

(***************************************************************************)
(* One part at a time                                                      *)
(***************************************************************************)
First(S) == CHOOSE x \in S : TRUE

NoRules == /\ store = 0 /\ rules = 0 /\ readable = 0 /\ asked = 0 /\ told = 0 /\ chats = 0 /\ file = 0 /\ env = 0
           /\ dotenv = 0 /\ lock = 0 /\ job = 0 /\ greeted = 0 /\ task = 0
NoDrift == /\ day = 0 /\ utc = 0 /\ said = 0 /\ touched = 0 /\ listed = 0 /\ review = 0 /\ cards = 0 /\ ended = 0
           /\ decided = 0 /\ pressed = 0 /\ round = 0
NoWeb == /\ webSession = 0 /\ turn = 0 /\ child = 0 /\ listedRun = 0 /\ stop = 0 /\ lines = 0 /\ effort = 0
NoDesk == /\ guard = 0 /\ mode = 0 /\ looking = 0 /\ arrived = 0 /\ waiting = 0 /\ working = 0 /\ heard = 0 /\ sent = 0
          /\ runs = 0 /\ claims = 0 /\ acts = 0 /\ came = 0 /\ marked = 0 /\ now = 0 /\ desk = 0
NoMeter == spendDay = 0 /\ ledger = 0 /\ call = 0 /\ copy = 0

Parts ==
  /\ part \in OpenParts /\ Init
  /\ IF part = "chat" THEN TRUE ELSE left = First(Loads)
  /\ IF part = "rules" THEN Rule!Init ELSE NoRules
  /\ IF part = "drift" THEN Drift!Init ELSE NoDrift
  /\ IF part = "web" THEN Web!Init ELSE NoWeb
  /\ IF part = "meter" THEN Meter!Init ELSE NoMeter
  /\ IF part = "desk" THEN Front!Init ELSE NoDesk

Step ==
  \/ part = "chat" /\ Next /\ UNCHANGED <<part, ruleVars, driftVars, webVars, meterVars, deskVars>>
  \/ part = "rules" /\ Rule!Next /\ UNCHANGED <<part, chatVars, driftVars, webVars, meterVars, deskVars>>
  \/ part = "drift" /\ Drift!Next /\ UNCHANGED <<part, chatVars, ruleVars, webVars, meterVars, deskVars>>
  \/ part = "web" /\ Web!Next /\ UNCHANGED <<part, chatVars, ruleVars, driftVars, meterVars, deskVars>>
  \/ part = "meter" /\ Meter!Next /\ UNCHANGED <<part, chatVars, ruleVars, driftVars, webVars, deskVars>>
  \/ part = "desk" /\ Front!Next /\ UNCHANGED <<part, chatVars, ruleVars, driftVars, webVars, meterVars>>

WebFairness ==
  /\ \A t \in 1 .. 3 : WF_webVars(part = "web" /\ Web!TurnStep(t))
  /\ \A s \in 1 .. 2 : WF_webVars(part = "web" /\ Web!Answered(s))

PartsSpec ==
  Parts /\ [][Step]_<<part, chatVars, ruleVars, driftVars, webVars, meterVars, deskVars>>
        /\ Fairness /\ WebFairness /\ WF_deskVars(part = "desk" /\ Front!ServiceStep)

TypesOK == CASE part = "chat" -> TypeOK
             [] part = "rules" -> Rule!TypeOK
             [] part = "drift" -> Drift!TypeOK
             [] part = "web" -> Web!TypeOK
             [] part = "meter" -> Meter!TypeOK
             [] part = "desk" -> Front!TypeOK

(* A rule stands in the user's policy as long as it was confirmed, and in  *)
(* the words that were confirmed (decision/candidates.ts); and the chat it *)
(* is confirmed in is greeted once in a day, however the console and the   *)
(* interaction set it up at once (interaction/onboarding.ts).              *)
RulesKept == /\ [](part = "rules" => Rule!RulesAreConfirmed /\ Rule!GreetedOnce)
             /\ [][part = "rules" => Rule!KeepsRules]_ruleVars


(* In a session of the console each message has its one answer, every stop *)
(* and every message is dealt with in the end, the agent of a session that *)
(* is used by one page can be stopped and resumes what the last one left,  *)
(* and an archived session stays archived (ui/chat.ts).                    *)
TurnsSettle ==
  /\ [](part = "web" => Web!OneAnswer /\ Web!Stoppable /\ Web!ResumesLatest)
  /\ [][part = "web" => Web!StaysArchived]_webVars
  /\ <>[](part = "web" => Web!Settled)

(* At the desk of the Feishu interaction nothing of its own is answered,   *)
(* topics and their order are kept, a press is acted on once, the ledger   *)
(* says of a run what was shown of it, and every message and run is dealt  *)
(* with in the end (interaction/feishu-interaction.ts, self-origin.ts).    *)
DeskKept ==
  /\ [](part = "desk" => /\ Front!OwnLeftAlone /\ Front!TopicsApart /\ Front!InOrder
                          /\ Front!ToldAsShown /\ Front!PressedOnce)
  /\ <>[](part = "desk" => Front!Answered)

(* What runs and days spend exceeds a limit by no more than the calls that *)
(* were under way when it was reached (agent/token-meter.ts).              *)
SpendBounded == part = "meter" => Meter!SpendBounded

(* What a review found is asked or decided unless its card fails, nothing  *)
(* is asked after it was decided, and no reference is shown as a guess     *)
(* (progress/sync-drift.ts).                                               *)
DriftAsked == part = "drift" => Drift!DriftAsked

(* policy.ts tells the user that a candidate, "once you confirm it, is     *)
(* saved as a long-term rule".                                             *)
ConfirmedIsSaved == [][part = "rules" => Rule!SavesConfirmed]_ruleVars
=============================================================================
