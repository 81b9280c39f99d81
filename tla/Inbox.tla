------------------------------- MODULE Inbox --------------------------------
(***************************************************************************)
(* The todo inbox over weeks (todo/inbox.ts): what is typed into the       *)
(* capture field of the console, which takes commands as well, or said in  *)
(* Feishu; the captures nobody decided on, which are let go as a pile; and *)
(* the history, from which what is old retires when the page is rendered.  *)
(* How a capture relates to the plan of its day is in DaySheet.            *)
(*                                                                         *)
(* One process: every operation reads and writes the ledger at once.       *)
(***************************************************************************)
EXTENDS Naturals, Sequences

LOCAL INSTANCE SequencesExt

CONSTANTS
  LastDay,
  StaleDays,     \* STALE_CAPTURE_DAYS
  RetentionDays, \* TODO_HISTORY_RETENTION_DAYS
  Loads          \* bounds: how often something is typed or said, changed by hand, and rendered

VARIABLES
  items,  \* the ledger, in the order of capture
  day,
  listed, \* the stale captures the page shows
  said,   \* what was typed or said last, and where
  load

vars == <<items, day, listed, said, load>>

(***************************************************************************)
(* Texts.  A command is a verb before the text it is about; taken for a    *)
(* capture it is a text as well.  The one short text is part of the others.*)
(* "intro" is an introduction with nothing behind it ("add for me"), which *)
(* splitRevisionItems strips off; a numbered list is several captures.     *)
(***************************************************************************)
Texts == {"paper", "long paper", "done paper"}
Within(a, b) == a = b \/ a = "paper"
Statuses == {"open", "done", "deferred", "deleted"}
Item == [text : Texts, made : 1..LastDay, touched : 1..LastDay, status : Statuses]
Verbs == {"capture", "done", "deferred", "deleted", "rename"}
Inputs == [verb : Verbs, target : {"paper", "long paper"}] \cup {[verb |-> "capture", target |-> "intro"]}
Verbatim(input) == IF input.verb = "capture" THEN input.target ELSE "done paper"
Load == [says : Nat, hands : Nat, renders : Nat]
Silence == [where |-> "none", verb |-> "capture", target |-> "paper"]

Init == items = <<>> /\ day = 1 /\ listed = {} /\ said = Silence /\ load \in Loads

Spend(what) == load[what] > 0 /\ load' = [load EXCEPT ![what] = @ - 1]
Open == {i \in DOMAIN items : items[i].status = "open"}
Touch(i, status, text) == [items EXCEPT ![i].status = status, ![i].text = text, ![i].touched = day]

(* findOpenItem: the first open one with that text, or that holds it.      *)
First(S) == CHOOSE i \in S : \A j \in S : i <= j
(* Mutant of Found: the first one that holds the text.                     *)
FoundWithin(target) == {i \in Open : Within(target, items[i].text)}
Found(target) ==
  LET same == {i \in Open : items[i].text = target} IN
  IF same # {} THEN same ELSE {i \in Open : Within(target, items[i].text)}

TakenDown(text) ==
  IF text = "intro" THEN items
  ELSE Append(items, [text |-> text, made |-> day, touched |-> day, status |-> "open"])

(* handleTodoInboxCommand: without a match the reply says so.              *)
Handled(input) ==
  LET found == Found(input.target)  i == First(found) IN
  IF input.verb = "capture" THEN TakenDown(input.target)
  ELSE IF found = {} THEN items
  ELSE IF input.verb = "rename" THEN Touch(i, "open", "long paper")
  ELSE Touch(i, input.verb, items[i].text)

(* The capture field (resolveCaptureCommand): a command that names nothing *)
(* is taken down as it stands.                                             *)
(* Mutant of Resolved: a command is a command.                             *)
ResolvedAlways(input) == Handled(input)
Resolved(input) ==
  IF input.verb # "capture" /\ Found(input.target) = {} THEN TakenDown(Verbatim(input)) ELSE Handled(input)

Say(where, input) ==
  /\ Spend("says") /\ said' = [where |-> where, verb |-> input.verb, target |-> input.target]
  /\ items' = IF where = "field" THEN Resolved(input) ELSE Handled(input)
  /\ UNCHANGED <<day, listed>>

(* updateTodoInboxItemById, from the lists of the page: an open one is     *)
(* closed or gets another text, one of the history is opened again.        *)
Update(i, status, text) ==
  /\ Spend("hands") /\ items[i].status # "deleted"
  /\ status = "open" \/ items[i].status = "open"
  /\ items' = Touch(i, status, text) /\ UNCHANGED <<day, listed, said>>

(* syncTodoInboxFromPlanRow: the row of a capture is ticked, removed, or   *)
(* taken back.                                                             *)
RowChanged(i, status) ==
  /\ Spend("hands") /\ status # items[i].status
  /\ items' = Touch(i, status, items[i].text) /\ UNCHANGED <<day, listed, said>>

(* The page of the todos: what is past its time retires first.             *)
(* Mutant of PastTime: the time counts from the capture.                   *)
PastTimeOfCapture(i) == day > items[i].made + RetentionDays
PastTime(i) == day > items[i].touched + RetentionDays
Stale(i) == items[i].status = "open" /\ day >= items[i].made + StaleDays

Render ==
  /\ Spend("renders") /\ listed' = {i \in DOMAIN items : Stale(i)}
  /\ items' = [i \in DOMAIN items |->
                 IF items[i].status \in {"done", "deferred"} /\ PastTime(i)
                 THEN [items[i] EXCEPT !.status = "deleted"] ELSE items[i]]
  /\ UNCHANGED <<day, said>>

(* abandonCaptures: those of the list that are still open.                 *)
Abandon ==
  /\ listed # {} /\ listed' = {}
  /\ items' = [i \in DOMAIN items |->
                 IF i \in listed \cap Open THEN [items[i] EXCEPT !.status = "deferred", !.touched = day] ELSE items[i]]
  /\ UNCHANGED <<day, said, load>>

NextDay == day < LastDay /\ day' = day + 1 /\ UNCHANGED <<items, listed, said, load>>

Next ==
  \/ \E where \in {"field", "feishu"}, input \in Inputs : Say(where, input)
  \/ \E i \in DOMAIN items, status \in Statuses : Update(i, status, items[i].text) \/ Update(i, status, "long paper")
  \/ \E i \in DOMAIN items, status \in {"open", "done", "deleted"} : RowChanged(i, status)
  \/ Render \/ Abandon \/ NextDay

Spec == Init /\ [][Next]_vars

TypeOK == /\ items \in Seq(Item) /\ day \in 1..LastDay /\ listed \subseteq DOMAIN items /\ load \in Load
          /\ said \in [where : {"none", "field", "feishu"}, verb : Verbs, target : Texts \cup {"intro"}]

(***************************************************************************)
(* Properties                                                              *)
(***************************************************************************)
Changed == {i \in DOMAIN items : items'[i] # items[i]}

(* What is typed into the field is taken down, or is about a capture it    *)
(* names, unless it is an introduction alone; and a command is about the   *)
(* capture of that very text, if there is one.                             *)
FieldTakesAll ==
  load'.says < load.says =>
    /\ said'.where = "field" /\ said'.target # "intro" =>
         Len(items') > Len(items) \/ \E i \in Open : Within(said'.target, items[i].text)
    /\ \A i \in Changed : items[i].text = said'.target \/ \A j \in Open : items[j].text # said'.target

(* Nobody who looks at the page takes away what was decided less than the  *)
(* retention ago, and what is let go as a pile was carried for a week and  *)
(* can be found among what was put off.                                    *)
HistoryStays ==
  /\ load'.renders < load.renders =>
       \A i \in Changed : items[i].status # "open" /\ items[i].touched + RetentionDays < day
  /\ listed # {} /\ listed' = {} /\ load' = load =>
       \A i \in Changed : items[i].made + StaleDays <= day /\ items'[i].status = "deferred"

(* inbox.ts:309: "a capture nobody has touched in a week".                 *)
StaleUntouched == \A i \in listed : items[i].status = "open" => items[i].touched + StaleDays <= day
=============================================================================
