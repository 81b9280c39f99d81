-------------------------------- MODULE Desk --------------------------------
(***************************************************************************)
(* The desk of the Feishu interaction: how a message is taken in while the *)
(* kind of its chat is looked up and while the service still learns who it *)
(* is itself (interaction/self-origin.ts), which handler a batch gets      *)
(* (feishu-interaction.ts, daily-os-command.ts, access-policy.ts), how a   *)
(* press is claimed, and what the ledger says of a run whose card was or   *)
(* was not sent (connectors/lark-cli.ts).  What the handlers do with their *)
(* own data is in the modules of their components.                         *)
(*                                                                         *)
(* One chat and one person who writes in it.  A reply always arrives; the  *)
(* card of a run may not.  The clock counts the 30 seconds for which a     *)
(* press is remembered; an own message comes back within the five minutes  *)
(* for which it is.                                                        *)
(***************************************************************************)
EXTENDS Naturals, Sequences, FiniteSets

LOCAL INSTANCE SequencesExt

CONSTANTS
  Midnight, \* the clock at which the second day begins
  End,      \* bound of the clock
  Loads     \* bounds: the settings there are, and how often what comes from outside does

None == "none"

(***************************************************************************)
(* Texts: commands that have to stand alone, one that takes the rest of    *)
(* the text, and what may be said without the prefix.  "rule" is the bare  *)
(* command of the calibration chat.                                        *)
(***************************************************************************)
Alone == {"status", "progress", "calibrate", "plan"}
Texts == Alone \union {"remember", "rule", "yes", "numbers", "adopt", "capture", "revise", "talk"}

(* What the service sends: replies to a message, texts and cards to the    *)
(* chat, and the output of a run, which the lark-cli sends as its user.    *)
Own == {"reply", "send", "output"}
Messages == [text : Texts, thread : {None, "a", "b"}, reply : BOOLEAN, own : Own \union {None},
             looksOwn : BOOLEAN, at : Nat, guard : {None, "blind", "known"},
             looked : BOOLEAN, mode : {"unknown", "direct", "group", "topic"}]

(* Buttons: run the plan again, a row is done, and the plan is confirmed.  *)
Presses == [button : {"rerun", "tick", "confirm"}, card : 1..2]
Run == [by : {"text", "press"}, ledger : {"running", "skipped", "delivered", "failed"},
        card : {"none", "out", "back"}, shown : BOOLEAN, presented : BOOLEAN, told : BOOLEAN, lost : BOOLEAN]
Load == [chat : {"direct", "group", "topic", "calibration"}, role : {"owner", "allowed_user", "allowed_chat"},
         texts : SUBSET Texts, mention : BOOLEAN, agent : BOOLEAN, readOnly : BOOLEAN, writes : BOOLEAN, pending : BOOLEAN,
         output : BOOLEAN, cliUser : BOOLEAN,
         messages : Nat, echoes : Nat, presses : Nat, faults : Nat, restarts : Nat]

VARIABLES
  guard,   \* selfOriginGuard: not there yet, without an identity, or with one
  mode,    \* chatModes of the chat
  looking, \* messages that wait for their chat's mode
  arrived, \* how many came
  waiting, \* the queue of each scope
  working, \* the batch of each scope that is handled: [batch, by, run]
  heard,   \* the batches that were handled, in that order
  sent,    \* kinds of messages the service sent
  runs,    \* the runs and what the ledger says of them
  claims,  \* recentCardActions
  acts,    \* the presses that were acted on since the start, in that order
  came,    \* the presses that were delivered since the start: [press, now]
  marked,  \* ticks: the day of the card and the day they are filed under
  now,
  load

vars == <<guard, mode, looking, arrived, waiting, working, heard, sent, runs, claims, acts, came, marked, now, load>>
messageVars == <<looking, arrived, waiting, working, heard>>
pressVars == <<claims, acts, came, marked>>

Scopes == {"chat", "a", "b"}
Idle == [batch |-> <<>>, by |-> None, run |-> 0]
DayOf(t) == IF t < Midnight THEN 1 ELSE 2

Init ==
  /\ guard = None /\ mode = "unknown" /\ looking = {} /\ arrived = 0 /\ now = 0
  /\ waiting = [s \in Scopes |-> <<>>] /\ working = [s \in Scopes |-> Idle] /\ heard = <<>> /\ sent = {} /\ runs = <<>>
  /\ claims = {} /\ acts = <<>> /\ came = {} /\ marked = {} /\ load \in Loads

Spend(what) == load[what] > 0 /\ load' = [load EXCEPT ![what] = @ - 1]
Calibration == load.chat = "calibration"

(***************************************************************************)
(* Who the service is: connect() comes before resolve(), which may have to *)
(* ask, and may find no identity.                                          *)
(***************************************************************************)
Resolve == /\ guard # "known" /\ guard' \in {"known", "blind"} \ {guard}
           /\ UNCHANGED <<mode, messageVars, sent, runs, pressVars, now, load>>

(* isSelfOriginMessage: by the sender, by the ids of what was replied, and *)
(* without an identity by how it begins.  The lark-cli sends as its user.  *)
SentAsBot(m) == m.own \in {"reply", "send"} \/ (m.own = "output" /\ ~load.cliUser)
(* Mutant of Recognised: only the ids of what was replied are known.       *)
RecognisedById(m) == guard # None /\ m.own = "reply"
Recognised(m) ==
  \/ guard = "known" /\ SentAsBot(m)
  \/ guard # None /\ m.own = "reply"
  \/ guard = "blind" /\ m.looksOwn

(***************************************************************************)
(* decideFeishuControl for what the person may do: a guest of the chat     *)
(* runs workflows and reads, rules and the setup are the owner's, and the  *)
(* access level has to let agents write.                                   *)
(***************************************************************************)
May(effect) ==
  /\ load.role = "allowed_chat" => effect \in {"read", "workflow_trigger"}
  /\ effect \in {"policy_write", "interaction_admin"} => load.role = "owner"
  /\ effect = "workspace_write" => load.writes

(***************************************************************************)
(* Taking in.  In a group an unmentioned message has to be a command, or a *)
(* reply the agent or a handler may be meant by.                           *)
(***************************************************************************)
Prefixed == Alone \union {"remember"}
Meant(m) ==
  \/ Calibration \/ load.chat = "direct" \/ ~load.mention \/ m.text \in Prefixed
  \/ (m.reply \/ m.thread # None) /\ (load.agent \/ m.text \in {"yes", "numbers", "revise"})

(* Mutant of Scope: a topic is not told from its chat.                     *)
ScopeOfChat(m) == "chat"
Scope(m) == IF m.mode = "topic" /\ m.thread # None THEN m.thread ELSE "chat"

File(m) == waiting' = IF Meant(m) THEN [waiting EXCEPT ![Scope(m)] = Append(@, m)] ELSE waiting

(* intakeMessage: a first message has to wait for the mode of its chat.    *)
Intake(m) ==
  /\ arrived' = arrived + 1
  /\ IF Recognised(m) THEN UNCHANGED <<looking, waiting>>
     ELSE IF mode = "unknown" THEN looking' = looking \union {m} /\ UNCHANGED waiting
     ELSE File([m EXCEPT !.mode = mode]) /\ UNCHANGED looking
  /\ UNCHANGED <<guard, mode, working, heard, sent, runs, pressVars, now>>

Message == [text |-> "talk", thread |-> None, reply |-> FALSE, own |-> None, looksOwn |-> FALSE, at |-> arrived,
            guard |-> guard, looked |-> mode = "unknown", mode |-> "unknown"]

Write == /\ Spend("messages")
         /\ \E text \in load.texts, thread \in IF load.chat = "topic" THEN {"a", "b"} ELSE {None}, reply \in BOOLEAN :
              (reply => thread = None /\ text \in {"yes", "revise", "talk"}) /\
              Intake([Message EXCEPT !.text = text, !.thread = thread, !.reply = reply])

(* What the service sent comes back as a message of the chat.              *)
Echo == /\ Spend("echoes")
        /\ \E own \in sent, looksOwn \in BOOLEAN : Intake([Message EXCEPT !.own = own, !.looksOwn = looksOwn])

(* resolveChatMode: a failed request leaves the kind of the chat for good, *)
(* and the message is filed by the answer to its own request.              *)
LookedUp(m, found) ==
  /\ m \in looking /\ looking' = looking \ {m}
  /\ IF found THEN UNCHANGED load ELSE Spend("faults")
  /\ mode' = IF found \/ load.chat # "topic" THEN (IF Calibration THEN "group" ELSE load.chat) ELSE "group"
  /\ File([m EXCEPT !.mode = mode'])
  /\ UNCHANGED <<guard, arrived, working, heard, sent, runs, pressVars, now>>

(***************************************************************************)
(* Routing.  The texts of a batch are joined, so that a command that has   *)
(* to stand alone is one only in a batch of its own.  The first route that *)
(* applies is taken.                                                       *)
(***************************************************************************)
Command(b) ==
  LET first == Head(b).text IN
  IF first = "remember" \/ (Len(b) = 1 /\ first \in Alone) \/ (Calibration /\ first = "rule") THEN first ELSE None
Said(b, text) == \E i \in DOMAIN b : b[i].text = text

Routes == <<"confirm", "confirmSome", "status", "progress", "calibrate", "command", "calibration", "suggestion",
            "capture", "revise", "agent", "nothing">>
Applies(b) ==
  [r \in ToSet(Routes) |->
    CASE r = "confirm" -> Command(b) = None /\ Len(b) = 1 /\ Head(b).text = "yes"
      [] r = "confirmSome" -> Command(b) = None /\ Said(b, "numbers")
      [] r \in {"status", "progress", "calibrate"} -> Command(b) = r
      [] r = "command" -> Command(b) # None
      [] r = "calibration" -> Calibration
      [] r = "suggestion" -> load.pending /\ Said(b, "adopt") /\ Head(b).text \notin Prefixed
      [] r = "capture" -> Head(b).text = "capture"
      [] r = "revise" -> (Last(b).reply \/ Last(b).thread # None) /\ Head(b).text \notin Prefixed /\ Said(b, "revise")
      [] r = "agent" -> load.agent
      [] OTHER -> TRUE]
Route(b) == LET first == CHOOSE i \in DOMAIN Routes : /\ Applies(b)[Routes[i]]
                                                      /\ \A j \in 1..(i - 1) : ~Applies(b)[Routes[j]]
            IN Routes[first]

(* commandEffect, and what runBatch asks for before it acts.               *)
Effect(b) ==
  LET route == Route(b) IN
  CASE route \in {"confirm", "confirmSome", "capture", "revise"} -> "memory_write"
    [] route = "calibrate" -> "interaction_admin"
    [] route = "agent" -> IF load.readOnly THEN "workspace_read" ELSE "workspace_write"
    [] route = "command" /\ Command(b) = "plan" -> "workflow_trigger"
    [] route = "command" /\ Command(b) = "rule" -> "policy_write"
    [] route = "command" -> "memory_write"
    [] OTHER -> "read"

(* The debounce timer of a scope that is not blocked.                      *)
Flush(s) == LET b == waiting[s] IN
  /\ b # <<>> /\ working[s] = Idle
  /\ waiting' = [waiting EXCEPT ![s] = <<>>]
  /\ working' = [working EXCEPT ![s] = [batch |-> b, by |-> IF May(Effect(b)) THEN Route(b) ELSE "refused", run |-> 0]]
  /\ UNCHANGED <<guard, mode, looking, arrived, heard, sent, runs, pressVars, now, load>>

Done(s) == /\ heard' = Append(heard, [batch |-> working[s].batch, by |-> working[s].by, scope |-> s])
           /\ working' = [working EXCEPT ![s] = Idle]

Plans(s) == working[s].by = "command" /\ Command(working[s].batch) = "plan"
NewRun(by) == [by |-> by, ledger |-> "running", card |-> "none", shown |-> FALSE, presented |-> FALSE, told |-> FALSE, lost |-> FALSE]

(* replyToMessage, the one way of sending that records what it sent.       *)
Replied == sent \union {"reply"}

(* runBatch: every route but a run answers at once; "nothing" says nothing.*)
Handle(s) ==
  /\ working[s] # Idle /\ ~Plans(s) /\ Done(s)
  /\ sent' = CASE working[s].by \in {"status", "progress", "agent"} -> sent \union {"send"}
               [] working[s].by = "nothing" -> sent
               [] OTHER -> Replied
  /\ UNCHANGED <<guard, mode, looking, arrived, waiting, runs, pressVars, now, load>>

StartRun(s) ==
  /\ Plans(s) /\ working[s].run = 0
  /\ working' = [working EXCEPT ![s].run = Len(runs) + 1] /\ runs' = Append(runs, NewRun("text"))
  /\ sent' = Replied
  /\ UNCHANGED <<guard, mode, looking, arrived, waiting, heard, pressVars, now, load>>

(***************************************************************************)
(* A run that is not to send ends with its delivery skipped; its card is   *)
(* sent afterwards, its rows are recorded as presented, and the ledger is  *)
(* told again: the process may die between any two of these.               *)
(***************************************************************************)
ForText(r) == {s \in Scopes : working[s].run = r}
Over(r) == IF ForText(r) = {} THEN UNCHANGED <<working, heard>> ELSE \E s \in ForText(r) : Done(s)

Generated(r) ==
  /\ runs[r].ledger = "running" /\ ~runs[r].lost /\ runs' = [runs EXCEPT ![r].ledger = "skipped"]
  /\ UNCHANGED <<guard, mode, messageVars, sent, pressVars, now, load>>

Told(r) == [runs[r] EXCEPT !.told = TRUE]

UnderWay(r) == ~runs[r].told /\ ~runs[r].lost
Tell(r) == sent \union {IF runs[r].by = "text" THEN "reply" ELSE "send"}

(* The run, or the evidence its card is made of, fails: the chat is told.  *)
Fails(r) ==
  /\ runs[r].ledger \in {"running", "skipped"} /\ runs[r].card = "none" /\ UnderWay(r) /\ Spend("faults") /\ Over(r)
  /\ runs' = [runs EXCEPT ![r] = [Told(r) EXCEPT !.ledger = IF @ = "running" THEN "failed" ELSE @]]
  /\ sent' = Tell(r)
  /\ UNCHANGED <<guard, mode, looking, arrived, waiting, pressVars, now>>

(* A typed run goes to the configured output, which may be off, a pressed  *)
(* one to the chat of the card.                                            *)
Leaves(r) == runs[r].by = "press" \/ load.output

(* The card arrives;                                                       *)
SendCard(r) ==
  /\ runs[r].ledger = "skipped" /\ runs[r].card = "none" /\ UnderWay(r)
  /\ runs' = [runs EXCEPT ![r].card = "out", ![r].shown = Leaves(r)]
  /\ sent' = sent \union (IF Leaves(r) THEN {IF runs[r].by = "text" THEN "output" ELSE "send"} ELSE {})
  /\ UNCHANGED <<guard, mode, messageVars, pressVars, now, load>>

(* the answer comes back, and recordTodoPresented writes the rows,         *)
Answer(r) ==
  /\ runs[r].card = "out" /\ UnderWay(r) /\ runs' = [runs EXCEPT ![r].card = "back", ![r].presented = TRUE]
  /\ UNCHANGED <<guard, mode, messageVars, sent, pressVars, now, load>>

(* and markWorkflowRunSucceeded the ledger.                                *)
Deliver(r) ==
  /\ runs[r].card = "back" /\ UnderWay(r) /\ Over(r)
  /\ runs' = [runs EXCEPT ![r] = [Told(r) EXCEPT !.ledger = "delivered"]]
  /\ UNCHANGED <<guard, mode, looking, arrived, waiting, sent, pressVars, now, load>>

(* The sending fails, or the answer to a card that arrived is lost, or     *)
(* what was presented cannot be written: markWorkflowRunFailed.            *)
SendFails(r) ==
  /\ runs[r].ledger = "skipped" /\ runs[r].card \in {"none", "out"} /\ Leaves(r) /\ UnderWay(r) /\ Spend("faults")
  /\ Over(r) /\ runs' = [runs EXCEPT ![r] = [Told(r) EXCEPT !.ledger = "failed"]]
  /\ sent' = Tell(r)
  /\ UNCHANGED <<guard, mode, looking, arrived, waiting, pressVars, now>>

(***************************************************************************)
(* Presses.  claimCardAction remembers the card, the person and the value  *)
(* of the button for 30 seconds, whatever becomes of the handler.          *)
(***************************************************************************)
(* Mutant of SameKey: the value of the button is not part of the key.      *)
SameKeyOfCard(p, q) == p.card = q.card
SameKey(p, q) == p = q
Claimed(p) == \E c \in claims : SameKey(c.press, p) /\ c.until > now

(* handleTodoCardAction files a tick under the day it is pressed on.        *)
Marked(p) == IF p.button = "tick" THEN marked \union {[card |-> p.card, filed |-> DayOf(now)]} ELSE marked

(* handleWorkflowCardCommand: whatever the button asks for, the chat is     *)
(* told.                                                                   *)
Answers == sent \union {"send"}

Acts(p) ==
  /\ claims' = {c \in claims : c.until > now} \union {[press |-> p, until |-> now + 1]}
  /\ acts' = Append(acts, [press |-> p, now |-> now])
  /\ sent' = Answers
  /\ runs' = IF p.button = "rerun" THEN Append(runs, NewRun("press")) ELSE runs
  /\ marked' = Marked(p)

(* A press is delivered, or delivered again.                               *)
Press(p) ==
  /\ p.card <= DayOf(now) /\ Spend("presses") /\ came' = came \union {[press |-> p, now |-> now]}
  /\ IF Claimed(p) THEN UNCHANGED <<claims, acts, sent, runs, marked>> ELSE Acts(p)
  /\ UNCHANGED <<guard, mode, messageVars, now>>

Pass == /\ now < End /\ load.presses > 0 /\ now' = now + 1
        /\ UNCHANGED <<guard, mode, messageVars, sent, runs, pressVars, load>>

(* The process is started again: what it held in memory is gone.           *)
Restart ==
  /\ Spend("restarts") /\ guard' = None /\ mode' = "unknown" /\ looking' = {} /\ claims' = {}
  /\ waiting' = [s \in Scopes |-> <<>>] /\ working' = [s \in Scopes |-> Idle]
  /\ runs' = [r \in DOMAIN runs |-> [runs[r] EXCEPT !.lost = ~runs[r].told]]
  /\ acts' = <<>> /\ came' = {}
  /\ UNCHANGED <<arrived, heard, sent, marked, now>>

(***************************************************************************)
(* Specification                                                           *)
(***************************************************************************)
ServiceStep ==
  \/ Resolve
  \/ \E m \in looking, found \in BOOLEAN : LookedUp(m, found)
  \/ \E s \in Scopes : Flush(s) \/ Handle(s) \/ StartRun(s)
  \/ \E r \in DOMAIN runs : Generated(r) \/ Fails(r) \/ SendCard(r) \/ Answer(r) \/ Deliver(r) \/ SendFails(r)
Next == ServiceStep \/ Write \/ Echo \/ (\E p \in Presses : Press(p)) \/ Pass \/ Restart

Spec == Init /\ [][Next]_vars /\ WF_vars(ServiceStep)

TypeOK ==
  /\ guard \in {None, "blind", "known"} /\ mode \in {"unknown", "direct", "group", "topic"}
  /\ looking \subseteq Messages /\ arrived \in Nat /\ waiting \in [Scopes -> Seq(Messages)]
  /\ working \in [Scopes -> [batch : Seq(Messages), by : ToSet(Routes) \union {None, "refused"}, run : Nat]]
  /\ heard \in Seq([batch : Seq(Messages), by : ToSet(Routes) \union {"refused"}, scope : Scopes])
  /\ sent \subseteq Own /\ runs \in Seq(Run) /\ claims \subseteq [press : Presses, until : Nat]
  /\ acts \in Seq([press : Presses, now : 0..End]) /\ came \subseteq [press : Presses, now : 0..End]
  /\ marked \subseteq [card : 1..2, filed : 1..2] /\ now \in 0..End /\ load \in Load

(***************************************************************************)
(* Properties                                                              *)
(***************************************************************************)
Batches == {heard[i].batch : i \in DOMAIN heard} \union {working[s].batch : s \in Scopes}

(* Nothing the service sent as itself is answered as if a person had said  *)
(* it, once it knows who it is; without an identity that holds of replies  *)
(* and of what begins like the service (self-origin.ts).                   *)
OwnLeftAlone ==
  \A b \in Batches : \A i \in DOMAIN b : LET m == b[i] IN
    ~ /\ SentAsBot(m)
      /\ m.guard = "known" \/ (m.guard = "blind" /\ (m.looksOwn \/ m.own = "reply"))

(* What is said in one topic is not joined with what is said in another,   *)
(* as long as the mode of the chat was found.                              *)
TopicsApart ==
  \A b \in Batches : \A i, j \in DOMAIN b :
    b[i].mode = "topic" /\ b[j].mode = "topic" => b[i].thread = b[j].thread

(* The messages of one scope are handled in the order they came, but for   *)
(* those that waited for the mode of the chat.                             *)
InOrder ==
  LET scopeOf(s) == FlattenSeq([i \in DOMAIN heard |-> IF heard[i].scope = s THEN heard[i].batch ELSE <<>>])
                    \o working[s].batch \o waiting[s]
  IN \A s \in Scopes : LET all == scopeOf(s) IN
       \A i, j \in DOMAIN all : i < j /\ ~all[i].looked /\ ~all[j].looked => all[i].at < all[j].at

(* Wherever the process dies, a run the ledger calls delivered was shown,  *)
(* and only rows that were shown count as presented; what is still running *)
(* was not shown.  A run that ended - the chat was told, or has its card - *)
(* is called skipped only if it was not shown, and delivered only with its *)
(* rows presented: of a process that dies before that nothing is claimed.  *)
(* Typed runs are exempt while the output is off.                          *)
ToldAsShown ==
  \A r \in DOMAIN runs : Leaves(r) =>
    /\ runs[r].ledger = "delivered" => runs[r].shown /\ runs[r].presented
    /\ runs[r].presented => runs[r].shown
    /\ runs[r].ledger = "running" => ~runs[r].shown
    /\ runs[r].ledger = "skipped" /\ runs[r].told => ~runs[r].shown

(* A press is acted on, and however often it is delivered within 30        *)
(* seconds only once, whatever else is pressed, as long as the process     *)
(* lives.                                                                  *)
PressedOnce == \A c \in came : Cardinality({i \in DOMAIN acts : acts[i] = c}) = 1

(* Every message is handled and every run is told of in the end.           *)
Answered ==
  /\ looking = {} /\ \A s \in Scopes : waiting[s] = <<>> /\ working[s] = Idle
  /\ \A r \in DOMAIN runs : runs[r].told \/ runs[r].lost

(* self-origin.ts:32: "record the message_id of anything we emit", so that *)
(* what the lark-cli sends as its user is known as well.                   *)
OutputLeftAlone == \A b \in Batches : \A i \in DOMAIN b : b[i].own = None \/ b[i].guard # "known"

(* run-ledger.ts calls the delivery of what was not sent skipped; a process *)
(* that dies between the card's arrival and the record leaves it so.       *)
SkippedIsUnshown == \A r \in DOMAIN runs : runs[r].ledger = "skipped" /\ runs[r].lost => ~runs[r].shown

(* A tick belongs to the plan whose card it is on.                         *)
TicksItsDay == \A t \in marked : t.filed = t.card
=============================================================================
