------------------------------ MODULE Replies ------------------------------
(***************************************************************************)
(* What the user answers in Feishu, and what becomes of it.  Suggestions   *)
(* found in the chats are kept in a file, told by a message and answered   *)
(* by number (service/background-suggestions.ts); candidates for the       *)
(* day's progress are shown on cards and confirmed by a button or by       *)
(* number (progress/capture.ts, progress/card.ts); a message is handled    *)
(* when it arrives (interaction/feishu-interaction.ts runBatch) and, when  *)
(* the fallback is on, read once more by a poll of the chat                *)
(* (feedback/feishu-feedback.ts).                                          *)
(*                                                                         *)
(* The user's texts are of a few kinds, and Picked and Revises say how the *)
(* patterns of the code read each of them.                                 *)
(***************************************************************************)
EXTENDS Naturals, Sequences, FiniteSets

CONSTANTS
  Suggestions, \* what may be suggested
  Candidates,  \* what may be progress
  Messages,    \* bound: the messages the user writes, in order 1, 2, ...
  MaxTold,     \* the suggestions a message tells (five in the code)
  MaxKept,     \* the suggestions that are kept
  Ticks,       \* the ticks of the scheduler that overlap
  Loads        \* bounds: how often what happens from outside happens

Orders(S) == {s \in UNION {[1..n -> S] : n \in 0..Cardinality(S)} :
                \A i, j \in DOMAIN s : s[i] = s[j] => i = j}
Kinds == {"accept", "dismiss", "acceptAll", "confirmAll", "done", "carry", "ignore", "capture", "revise"}
OfSuggestions == {"accept", "dismiss", "acceptAll"}
OfProgress == {"confirmAll", "done", "carry", "ignore"}

VARIABLES
  pending,    \* the file of the suggestions that wait: the entries [n, id]
  gen,        \* which writing of that file it is, and those that no message went out for,
              \* as the set was the one told last
  told,       \* the messages of suggestions that reached the user: what they list, all that
              \* the run found, and which writing of the file it was
  signature,  \* last_signature: the set of what was told last
  due,        \* whether interval_minutes have passed since last_run_at
  run,        \* run[t]: the run of a tick
  candidates, \* the candidates the sources show now
  cards,      \* the lists of candidates that reached the user
  ledger,     \* ledger[c]: how often a candidate is in the day's ledger
  mail,       \* the messages written so far
  queue,      \* those the interaction has not handled
  poll,       \* the poll under way: what it has seen and what it will handle
  seen,       \* processed_ids
  logged,     \* the messages that feedback.md names
  record,     \* what was recorded: by which message, what, and about which
  load        \* what is left of the bounds

suggested == <<pending, gen, told, signature, due, run>>
progress == <<candidates, cards, ledger>>
routes == <<mail, queue, poll, seen, logged>>
vars == <<suggested, progress, routes, record, load>>

NoRun == [step |-> "idle", list |-> <<>>, old |-> {}, gen |-> 0]
NoPoll == [on |-> FALSE, seen |-> {}, todo |-> {}]

Init ==
  /\ pending = {} /\ gen = [number |-> 0, silent |-> {}] /\ told = <<>> /\ signature = {} /\ due = TRUE
  /\ run = [t \in Ticks |-> NoRun]
  /\ candidates \in Orders(Candidates)
  /\ cards = <<>> /\ ledger = [c \in Candidates |-> 0]
  /\ mail = <<>> /\ queue = <<>> /\ poll = NoPoll /\ seen = {} /\ logged = {}
  /\ record = {} /\ load \in Loads
  /\ load.changes = 0 => Len(candidates) = Cardinality(Candidates)

Spend(what) == load[what] > 0 /\ load' = [load EXCEPT ![what] = @ - 1]
First(s, n) == [i \in {j \in DOMAIN s : j <= n} |-> s[i]]
Ids(s) == {s[i] : i \in DOMAIN s}

(***************************************************************************)
(* Suggestions                                                             *)
(***************************************************************************)
(* runBackgroundSuggestions: the state is read when the run begins.        *)
RunStarts(t) ==
  /\ Spend("runs") /\ due /\ run[t] = NoRun /\ \A u \in Ticks : u < t => run[u] # NoRun
  /\ run' = [run EXCEPT ![t] = [step |-> "analysing", list |-> <<>>, old |-> signature, gen |-> 0]]
  /\ UNCHANGED <<pending, gen, told, signature, due, progress, routes, record>>

(* writeBackgroundSuggestionsState, at the end of a run.                   *)
RunEnds(t, sig) ==
  /\ signature' = sig /\ due' = FALSE
  /\ run' = [run EXCEPT ![t] = NoRun]

(* writePendingBackgroundSuggestions                                       *)
Kept(list) == {[n |-> i, id |-> list[i]] : i \in {j \in DOMAIN list : j <= MaxKept}}

(* The answer of the model: the file is written first, in the order of the *)
(* answer, and the message goes out if the set has changed.                *)
RunAnalysed(t, list) ==
  /\ run[t].step = "analysing"
  /\ pending' = Kept(list)
  /\ LET number == gen.number + 1
     IN IF list # <<>> /\ Ids(list) # run[t].old
        THEN /\ run' = [run EXCEPT ![t] = [step |-> "sending", list |-> list, old |-> @.old, gen |-> number]]
             /\ gen' = [gen EXCEPT !.number = number] /\ UNCHANGED <<signature, due>>
        ELSE RunEnds(t, Ids(list)) /\ gen' = [number |-> number, silent |-> gen.silent \union {number}]
  /\ UNCHANGED <<told, progress, routes, record, load>>

(* sendFeishuMessage, and a message that arrives though its sender failed. *)
Told(t) ==
  told' = Append(told, [list |-> First(run[t].list, MaxTold), all |-> Ids(run[t].list), gen |-> run[t].gen])

RunSends(t) ==
  /\ run[t].step = "sending" /\ Told(t) /\ RunEnds(t, Ids(run[t].list))
  /\ UNCHANGED <<pending, gen, progress, routes, record, load>>

RunFails(t) ==
  /\ Spend("faults") /\ run[t].step # "idle" /\ RunEnds(t, run[t].old)
  /\ UNCHANGED told \/ (run[t].step = "sending" /\ Told(t))
  /\ UNCHANGED <<pending, gen, progress, routes, record>>

TimePasses ==
  /\ ~due /\ due' = TRUE
  /\ UNCHANGED <<pending, gen, told, signature, run, progress, routes, record, load>>

(* readPendingBackgroundSuggestions: pending_ttl_hours are over.           *)
Expire ==
  /\ Spend("faults") /\ pending # {} /\ pending' = {}
  /\ UNCHANGED <<gen, told, signature, due, run, progress, routes, record>>

(***************************************************************************)
(* Progress                                                                *)
(***************************************************************************)
(* An issue or a message is updated: the next collection finds others, or  *)
(* the same in another order.                                              *)
SourcesChange(c) ==
  /\ Spend("changes") /\ c # candidates /\ candidates' = c
  /\ UNCHANGED <<suggested, cards, ledger, routes, record>>

(* The command, the button and the reminder: collectProgressCandidates and *)
(* the card with its buttons, which carry the ids.                         *)
ShowProgress ==
  /\ Spend("cards") /\ cards' = Append(cards, candidates)
  /\ UNCHANGED <<suggested, candidates, ledger, routes, record>>

(* appendConfirmedProgress                                                 *)
Confirmed(entries) == [c \in Candidates |-> IF c \in entries /\ ledger[c] = 0 THEN 1 ELSE ledger[c]]

Noted(m, what, ids, saw) == {[by |-> m, what |-> what, id |-> i, gen |-> gen.number, saw |-> saw] : i \in ids}

(* Mutant of PressConfirm: everything that is collected now.               *)
PressConfirmAll(k) ==
  /\ Spend("presses") /\ k \in DOMAIN cards
  /\ ledger' = Confirmed(Ids(candidates))
  /\ record' = record \union Noted(0, "press", Ids(candidates), k)
  /\ UNCHANGED <<suggested, candidates, cards, routes>>

(* handleProgressCardAction, confirm_all: of what is collected now, what   *)
(* the card listed.                                                        *)
PressConfirm(k) ==
  /\ Spend("presses") /\ k \in DOMAIN cards
  /\ LET entries == Ids(candidates) \cap Ids(cards[k])
     IN ledger' = Confirmed(entries) /\ record' = record \union Noted(0, "press", entries, k)
  /\ UNCHANGED <<suggested, candidates, cards, routes>>

(***************************************************************************)
(* The user writes                                                         *)
(***************************************************************************)
(* By number: the user means what stands there in the list told last.      *)
Write(kind, n) ==
  /\ kind \in load.kinds /\ Len(mail) < Messages
  /\ kind \in OfSuggestions => told # <<>> /\ n \in DOMAIN told[Len(told)].list
  /\ kind \in OfProgress => cards # <<>> /\ n \in DOMAIN cards[Len(cards)]
  /\ kind \in {"capture", "revise", "acceptAll", "confirmAll"} => n = 1
  /\ mail' = Append(mail, [kind |-> kind, n |-> n,
                           saw |-> IF kind \in OfSuggestions THEN Len(told) ELSE Len(cards)])
  /\ queue' = Append(queue, Len(mail) + 1)
  /\ UNCHANGED <<suggested, progress, poll, seen, logged, record, load>>

(* parsePendingSuggestionReply: the numbers of the waiting suggestions     *)
(* that a text names; a text about the candidates reads like one about     *)
(* the suggestions when it says "confirm all" or "ignore".                 *)
Waiting == {e.n : e \in pending}
Picked(x) ==
  CASE x.kind \in {"accept", "dismiss", "ignore"} -> Waiting \cap {x.n}
    [] x.kind \in {"acceptAll", "confirmAll"} -> Waiting
    [] OTHER -> {}
Verb(x) == IF x.kind \in {"dismiss", "ignore"} THEN "dismissed" ELSE "accepted"
Revises(x) == x.kind \in {"revise", "carry"}

(* Mutant of Left: the numbers are given out anew.                         *)
LeftRenumbered(numbers) ==
  LET rest == {e \in pending : e.n \notin numbers}
  IN {[e EXCEPT !.n = Cardinality({f \in rest : f.n <= e.n})] : e \in rest}

(* writePendingBackgroundSuggestionSnapshot: the others keep their number. *)
Left(numbers) == {e \in pending : e.n \notin numbers}

(* Mutant of AnswerSuggestion: what is answered stays in the file.         *)
AnswerSuggestionKept(m) ==
  LET ids == {e.id : e \in {f \in pending : f.n \in Picked(mail[m])}}
  IN /\ UNCHANGED pending
     /\ logged' = logged \union {m}
     /\ record' = record \union Noted(m, Verb(mail[m]), ids, mail[m].saw)

(* handlePendingBackgroundSuggestionReply                                  *)
AnswerSuggestion(m) ==
  LET ids == {e.id : e \in {f \in pending : f.n \in Picked(mail[m])}}
  IN /\ pending' = Left(Picked(mail[m]))
     /\ logged' = logged \union {m}
     /\ record' = record \union Noted(m, Verb(mail[m]), ids, mail[m].saw)

(* handleTodoInboxCommand: every call makes an item.                       *)
Capture(m) == record' = record \union {[by |-> m, what |-> "captured", id |-> Cardinality(record), gen |-> 0, saw |-> 0]}

(* appendDailyMemory and appendFeedbackLog                                 *)
Revise(m, how) ==
  /\ logged' = logged \union {m}
  /\ record' = record \union {[by |-> m, what |-> how, id |-> Cardinality(record), gen |-> 0, saw |-> 0]}

(* The replies by number and by one word: the candidates are collected     *)
(* again, and a number counts in the new list.                             *)
At(n) == IF n \in DOMAIN candidates THEN {candidates[n]} ELSE {}
AnswerProgress(m) ==
  LET x == mail[m]
      entries == CASE x.kind = "confirmAll" -> Ids(candidates) [] x.kind = "done" -> At(x.n) [] OTHER -> {}
  IN /\ ledger' = Confirmed(entries)
     /\ record' = record \union Noted(m, "confirmed", entries, x.saw)
          \union Noted(m, "carried", IF x.kind = "carry" THEN At(x.n) ELSE {}, x.saw)

(* runBatch, for a batch of one message.                                   *)
Handle ==
  /\ queue # <<>> /\ queue' = Tail(queue)
  /\ LET m == Head(queue) x == mail[m]
     IN CASE x.kind \in OfProgress -> AnswerProgress(m) /\ UNCHANGED <<pending, logged>>
          [] x.kind \notin OfProgress /\ Picked(x) # {} -> AnswerSuggestion(m) /\ UNCHANGED ledger
          [] x.kind = "capture" -> Capture(m) /\ UNCHANGED <<pending, logged, ledger>>
          [] x.kind = "revise" -> Revise(m, "revised") /\ UNCHANGED <<pending, ledger>>
          [] OTHER -> UNCHANGED <<pending, logged, ledger, record>>
  /\ UNCHANGED <<gen, told, signature, due, run, candidates, cards, mail, poll, seen, load>>

(***************************************************************************)
(* The poll                                                                *)
(***************************************************************************)
(* pollFeishuFeedback: the state, and then the messages of the chat.       *)
PollStarts ==
  /\ Spend("polls") /\ ~poll.on
  /\ poll' = [on |-> TRUE, seen |-> seen, todo |-> DOMAIN mail \ seen]
  /\ UNCHANGED <<suggested, progress, mail, queue, seen, logged, record>>

(* Mutant of FallbackRevises: the log is not looked at.                    *)
FallbackRevisesAgain(m) == Revises(mail[m])

(* handleWorkflowRevision: a message that the log names is done.           *)
FallbackRevises(m) == Revises(mail[m]) /\ m \notin logged

(* handleFallbackReply                                                     *)
Fallback(m) ==
  LET x == mail[m]
  IN CASE Picked(x) # {} -> AnswerSuggestion(m)
       [] Picked(x) = {} /\ x.kind = "capture" -> Capture(m) /\ UNCHANGED <<pending, logged>>
       [] Picked(x) = {} /\ FallbackRevises(m) -> Revise(m, "polled") /\ UNCHANGED pending
       [] OTHER -> UNCHANGED <<pending, logged, record>>

Handled(m) == Picked(mail[m]) # {} \/ mail[m].kind = "capture" \/ Revises(mail[m])

Earliest == {m \in poll.todo : \A k \in poll.todo : m <= k}

PollHandles ==
  /\ poll.on
  /\ \E m \in Earliest :
       /\ Fallback(m)
       /\ poll' = [poll EXCEPT !.todo = @ \ {m}, !.seen = IF Handled(m) THEN @ \union {m} ELSE @]
  /\ UNCHANGED <<gen, told, signature, due, run, progress, mail, queue, seen, load>>

(* The reply to a message cannot be sent, or the process dies: what was    *)
(* recorded stays, what was seen is not saved.                             *)
PollFails ==
  /\ Spend("faults") /\ poll.on /\ poll' = NoPoll
  /\ \/ \E m \in Earliest : Fallback(m)
     \/ UNCHANGED <<pending, logged, record>>
  /\ UNCHANGED <<gen, told, signature, due, run, progress, mail, queue, seen>>

PollEnds ==
  /\ poll.on /\ poll.todo = {} /\ seen' = poll.seen /\ poll' = NoPoll
  /\ UNCHANGED <<suggested, progress, mail, queue, logged, record, load>>

Next ==
  \/ \E t \in Ticks : RunStarts(t) \/ RunSends(t) \/ RunFails(t) \/ \E l \in Orders(Suggestions) : RunAnalysed(t, l)
  \/ TimePasses \/ Expire \/ ShowProgress
  \/ \E c \in Orders(Candidates) : SourcesChange(c)
  \/ \E k \in DOMAIN cards : PressConfirm(k)
  \/ \E kind \in Kinds, n \in 1..(Cardinality(Suggestions) + Cardinality(Candidates)) : Write(kind, n)
  \/ Handle \/ PollStarts \/ PollHandles \/ PollFails \/ PollEnds

Spec == Init /\ [][Next]_vars

(***************************************************************************)
(* Properties                                                              *)
(***************************************************************************)
TypeOK ==
  /\ pending \subseteq [n : 1..MaxKept, id : Suggestions]
  /\ Ids(queue) \subseteq DOMAIN mail /\ poll.todo \subseteq DOMAIN mail /\ seen \subseteq DOMAIN mail
  /\ logged \subseteq DOMAIN mail /\ signature \subseteq Suggestions
  /\ \A t \in Ticks : run[t].step \in {"idle", "analysing", "sending"}
  /\ \A d \in record : d.by \in DOMAIN mail \union {0}

(* A suggestion keeps its number in the list the user was told, however     *)
(* many of that list were answered before, on whichever route: an answer by *)
(* number records the one that stood there, as long as no later run has     *)
(* written the file anew.  A run does that before its message is out, or    *)
(* without one when it finds the same set in another order; what is         *)
(* recorded then may be another, but after a run without a message never    *)
(* one that no message spoke of (background-suggestions.ts                  *)
(* runBackgroundSuggestions, handlePendingBackgroundSuggestionReply).       *)
NumbersHold == \A d \in record : d.what \in {"accepted", "dismissed"} =>
  /\ mail[d.by].kind \in {"accept", "dismiss"} =>
       \/ told[d.saw].list[mail[d.by].n] = d.id
       \/ d.gen > told[d.saw].gen
  /\ d.gen \in gen.silent => \E k \in DOMAIN told : d.id \in told[k].all

(* The message asks for an answer by number ("accept number 1",             *)
(* background-suggestions.ts:230), but a run that finds the same set in     *)
(* another order numbers it anew without a message (:64, :81).              *)
NumbersStay == \A d \in record :
  d.what \in {"accepted", "dismissed"} /\ mail[d.by].kind \in {"accept", "dismiss"} /\ d.gen \in gen.silent =>
    told[d.saw].list[mail[d.by].n] = d.id

(* Nothing is recorded twice by the two routes and the repeated polls: one  *)
(* answer for a suggestion while its file stands, one entry for a candidate *)
(* in the ledger, one revision for a message that the poll reads after the  *)
(* interaction had it or after a poll that failed (feishu-feedback.ts:164). *)
NothingTwice ==
  /\ \A d, e \in record : d.what \in {"accepted", "dismissed"} /\ e.what \in {"accepted", "dismissed"}
       /\ d.gen = e.gen /\ d.id = e.id => d = e
  /\ \A c \in Candidates : ledger[c] <= 1
  /\ \A d, e \in record : d.what \in {"revised", "polled"} /\ e.what = "polled" /\ d.by = e.by => d.id >= e.id

(* A press confirms what its card showed, whatever was collected since      *)
(* (feishu-interaction.ts handleProgressCardAction).                        *)
PressConfirmsShown == \A d \in record : d.what = "press" => d.id \in Ids(cards[d.saw])

(* card.ts:33 tells the user of the candidates that "they are no facts yet; *)
(* only once confirmed are they written": what a reply in words writes into *)
(* the ledger was on a card.                                                *)
ConfirmedWasShown == \A d \in record : d.what = "confirmed" => d.id \in Ids(cards[d.saw])
=============================================================================
