------------------------------ MODULE Calendar ------------------------------
(***************************************************************************)
(* The day's calendar draft and its way into the Feishu calendar: tasks    *)
(* are laid into slots (calendar/bridge.ts), adjusted as the user asked    *)
(* (calendar/adjust.ts), shown on a card, and, when the card is confirmed, *)
(* written one event at a time (calendar/writeback.ts), with a row for     *)
(* each event in the database so that a second confirmation finds it and   *)
(* an undo can delete it.  Card actions are handled side by side, and a    *)
(* request to the calendar may fail, or be done and its answer lost.       *)
(*                                                                         *)
(* One day and one type of task: a block is the slot in which it begins,   *)
(* and takes that slot and the next.  A task's id is its place in the list *)
(* of the week's priorities, and a draft has its blocks by id.             *)
(***************************************************************************)
EXTENDS Naturals, Sequences, FiniteSets

CONSTANTS
  Titles,      \* the priorities
  Windows,     \* the slots of the policy, in order
  LastSlot,    \* the slots are 1..LastSlot
  Wishes,      \* bound: the adjustments that are asked for
  MaxCards,    \* bound: the cards that are sent
  MaxHandlers, \* bound: what is handled at a time
  MaxBatch,    \* bound: the write-backs
  Bookings     \* what is done about a conflict, and bounds: how often what happens from outside happens

Slots == 1..LastSlot
Handlers == 1..MaxHandlers
Keys == 1..Cardinality(Titles)  \* calendarDedupKey: the id of the task, and the day
Batches == 1..MaxBatch
Events == 1..(MaxBatch * Cardinality(Titles))
Agendas == {a \in UNION {[1..n -> Titles] : n \in 1..Cardinality(Titles)} :
              \A i, j \in DOMAIN a : a[i] = a[j] => i = j}
Booking == [edits : Nat, wishes : Nat, presses : Nat, undos : Nat, faults : Nat, together : BOOLEAN,
            policy : {"warn", "block", "ignore"}, hit : {"no", "fault", "crash"}]

VARIABLES
  agenda,   \* the tasks, in order
  wishes,   \* the stored adjustments
  cards,    \* the drafts of the cards, in order
  saved,    \* the snapshot that a confirmation reads
  claimed,  \* the cards whose press is remembered
  events,   \* the events in the calendar that came from here
  rows,     \* rows[k]: the write-back of key k
  batches,  \* batches[b]: "new", "open", "recorded" or "undone"
  work,     \* work[h]: what a handler does
  made,     \* the events made so far
  booking   \* what is left of the bounds, the policy, and what has hit

vars == <<agenda, wishes, cards, saved, claimed, events, rows, batches, work, made, booking>>

NoRow == [event |-> 0, slot |-> 0, batch |-> 0, active |-> FALSE]
Idle == [kind |-> "idle"]

Spend(what) == booking[what] > 0 /\ booking' = [booking EXCEPT ![what] = @ - 1]
Hit(how) ==
  /\ booking.faults > 0
  /\ booking' = [booking EXCEPT !.faults = @ - 1, !.hit = IF @ = "crash" THEN @ ELSE how]

(***************************************************************************)
(* The draft                                                               *)
(***************************************************************************)
(* runBuiltinCalendarDraft: the next window of the type, and the last one  *)
(* when they are used up.                                                  *)
SlotFor(i) == Windows[IF i < Len(Windows) THEN i ELSE Len(Windows)]
Built == [i \in DOMAIN agenda |-> [title |-> agenda[i], slot |-> SlotFor(i)]]

(* matches: the stored adjustments that are about a title.                 *)
About(title, kind) == {n \in DOMAIN wishes : wishes[n].kind = kind /\ wishes[n].title = title}
Last(S) == CHOOSE n \in S : \A m \in S : m <= n

(* applyCalendarAdjustments, in the order in which they were asked: what   *)
(* is dropped is gone, and of the moves the last one counts.               *)
Adjusted(draft) ==
  [i \in {j \in DOMAIN draft : About(draft[j].title, "drop") = {}} |->
     LET moves == About(draft[i].title, "move")
     IN IF moves = {} THEN draft[i] ELSE [draft[i] EXCEPT !.slot = wishes[Last(moves)].slot]]

(* runCalendarDraft                                                        *)
Draft == Adjusted(Built)

Init ==
  /\ agenda \in Agendas /\ Len(agenda) = Cardinality(Titles)
  /\ wishes = <<>>
  /\ cards = <<>> /\ saved = <<>> /\ claimed = {}
  /\ events = [e \in {} |-> 0]
  /\ rows = [k \in Keys |-> NoRow]
  /\ batches = [b \in Batches |-> "new"]
  /\ work = [h \in Handlers |-> Idle]
  /\ made = 0
  /\ booking \in Bookings

(* The priorities are planned anew.                                        *)
EditAgenda(a) ==
  /\ Spend("edits") /\ a # agenda /\ agenda' = a
  /\ UNCHANGED <<wishes, cards, saved, claimed, events, rows, batches, work, made>>

(* calendar adjust: what is asked is added to what was.                    *)
Adjust(wish) ==
  /\ Spend("wishes") /\ wishes' = Append(wishes, wish)
  /\ UNCHANGED <<agenda, cards, saved, claimed, events, rows, batches, work, made>>

Clear ==
  /\ wishes # <<>> /\ wishes' = <<>>
  /\ UNCHANGED <<agenda, cards, saved, claimed, events, rows, batches, work, booking, made>>

(* sendCalendarCardOutput: the draft that was run is saved under its id,   *)
(* which is that of the period and the day.                                *)
ShowDraft ==
  /\ Len(cards) < MaxCards
  /\ cards' = Append(cards, Draft) /\ saved' = Draft
  /\ UNCHANGED <<agenda, wishes, claimed, events, rows, batches, work, booking, made>>

(***************************************************************************)
(* Confirmation                                                            *)
(***************************************************************************)
Free == {h \in Handlers : work[h] = Idle}
FreeHandler == IF Free = {} THEN 0 ELSE CHOOSE h \in Free : \A g \in Free : h <= g
Unused == {b \in Batches : batches[b] = "new"}
NextBatch == IF Unused = {} THEN 0 ELSE CHOOSE b \in Unused : \A d \in Unused : b <= d
Becomes(h, x) == work' = [work EXCEPT ![h] = x]
Confirming(h) == work[h].kind = "confirm"
First(S) == CHOOSE i \in S : \A j \in S : i <= j
Task(h) == First(work[h].todo)
Block(h) == work[h].draft[Task(h)]
Advanced(w, n) == [w EXCEPT !.todo = @ \ {First(@)}, !.step = "look", !.done = @ + n]

(* handleCardAction, handleCalendarCardAction: a press that is not a       *)
(* repetition of a recent one takes the snapshot.                          *)
Press(c, h, b) ==
  /\ Spend("presses") /\ c \in DOMAIN cards /\ c \notin claimed
  /\ h = FreeHandler /\ b = NextBatch
  /\ booking.together \/ Free = Handlers
  /\ claimed' = claimed \union {c}
  /\ batches' = [batches EXCEPT ![b] = "open"]
  /\ Becomes(h, [kind |-> "confirm", shown |-> cards[c], draft |-> saved, todo |-> DOMAIN saved, step |-> "look",
                 batch |-> b, event |-> 0, done |-> 0])
  /\ UNCHANGED <<agenda, wishes, cards, saved, events, rows, made>>

(* claimCardAction: after half a minute a press counts again.              *)
Forget(c) ==
  /\ c \in claimed /\ claimed' = claimed \ {c}
  /\ UNCHANGED <<agenda, wishes, cards, saved, events, rows, batches, work, booking, made>>

Here(h, step) == Confirming(h) /\ work[h].todo # {} /\ work[h].step = step

(* Mutant of Look: what was written before is not looked for.              *)
LookAnew(h) ==
  /\ Here(h, "look")
  /\ Becomes(h, [work[h] EXCEPT !.event = 0, !.step = IF booking.policy = "ignore" THEN "ask" ELSE "check"])
  /\ UNCHANGED <<agenda, wishes, cards, saved, claimed, events, rows, batches, booking, made>>

(* dbFindCalendarWriteback, and what is settled without the calendar.      *)
Look(h) ==
  /\ Here(h, "look")
  /\ LET r == rows[Task(h)]
     IN Becomes(h, IF r.active /\ r.slot = Block(h).slot THEN Advanced(work[h], 0)
                   ELSE [work[h] EXCEPT !.event = IF r.active THEN r.event ELSE 0,
                                        !.step = IF booking.policy = "ignore" THEN "ask" ELSE "check"])
  /\ UNCHANGED <<agenda, wishes, cards, saved, claimed, events, rows, batches, booking, made>>

(* overlaps                                                                *)
Overlap(s, t) == s <= t + 1 /\ t <= s + 1

(* queryFreeBusy: the intervals of the events in the calendar.             *)
Busy(slot) == \E e \in DOMAIN events : Overlap(events[e].slot, slot)

(* A conflict is kept out only when the policy says so; a check that fails *)
(* finds none.                                                             *)
Check(h) ==
  /\ Here(h, "check")
  /\ Becomes(h, IF Busy(Block(h).slot) /\ booking.policy = "block" THEN Advanced(work[h], 0)
                ELSE [work[h] EXCEPT !.step = "ask"])
  /\ UNCHANGED <<agenda, wishes, cards, saved, claimed, events, rows, batches, booking, made>>

(* createEvent, updateEvent and deleteEvent: what the calendar then holds. *)
Booked(e, x) == [f \in DOMAIN events \union {e} |-> IF f = e THEN x ELSE events[f]]
Unbooked(e) == [f \in DOMAIN events \ {e} |-> events[f]]

(* What has an event is moved, and what has none gets one; to move an      *)
(* event that is gone is an error.                                         *)
Ask(h) ==
  /\ Here(h, "ask")
  /\ LET x == [title |-> Block(h).title, slot |-> Block(h).slot]
         w == work[h]
     IN CASE w.event = 0 ->
               /\ made' = made + 1 /\ events' = Booked(made + 1, x)
               /\ Becomes(h, [w EXCEPT !.event = made + 1, !.step = "created"])
          [] w.event \in DOMAIN events ->
               events' = Booked(w.event, x) /\ Becomes(h, [w EXCEPT !.step = "updated"]) /\ UNCHANGED made
          [] OTHER -> Becomes(h, Advanced(w, 0)) /\ UNCHANGED <<events, made>>
  /\ UNCHANGED <<agenda, wishes, cards, saved, claimed, rows, batches, booking>>

(* Mutant of Answer: a moved event's row is active, whatever it was.       *)
AnswerRevives(h) ==
  /\ Here(h, "created") \/ Here(h, "updated")
  /\ LET w == work[h]
     IN /\ rows' = [rows EXCEPT ![Task(h)] =
             [event |-> w.event, slot |-> Block(h).slot, batch |-> w.batch, active |-> TRUE]]
        /\ Becomes(h, Advanced(w, 1))
  /\ UNCHANGED <<agenda, wishes, cards, saved, claimed, events, batches, booking, made>>

(* dbUpsertCalendarWriteback, dbUpdateCalendarWritebackTime                *)
Answer(h) ==
  /\ Here(h, "created") \/ Here(h, "updated")
  /\ LET w == work[h]
     IN /\ rows' = [rows EXCEPT ![Task(h)] =
             IF w.step = "created"
             THEN [event |-> w.event, slot |-> Block(h).slot, batch |-> w.batch, active |-> TRUE]
             ELSE [@ EXCEPT !.slot = Block(h).slot, !.batch = w.batch]]
        /\ Becomes(h, Advanced(w, 1))
  /\ UNCHANGED <<agenda, wishes, cards, saved, claimed, events, batches, booking, made>>

(* The request fails and nothing was done.                                 *)
Refuse(h) ==
  /\ Spend("faults") /\ Here(h, "ask")
  /\ Becomes(h, Advanced(work[h], 0))
  /\ UNCHANGED <<agenda, wishes, cards, saved, claimed, events, rows, batches, made>>

(* It was done, and the answer did not arrive in time.                     *)
Lose(h) ==
  /\ Hit("fault") /\ (Here(h, "created") \/ Here(h, "updated"))
  /\ Becomes(h, Advanced(work[h], 0))
  /\ UNCHANGED <<agenda, wishes, cards, saved, claimed, events, rows, batches, made>>

(* Mutant of EndConfirm: a batch is recorded when everything was written.  *)
EndConfirmAll(h) ==
  /\ Confirming(h) /\ work[h].todo = {}
  /\ batches' = [batches EXCEPT ![work[h].batch] =
       IF work[h].done = Cardinality(DOMAIN work[h].draft) THEN "recorded" ELSE "dropped"]
  /\ Becomes(h, Idle)
  /\ UNCHANGED <<agenda, wishes, cards, saved, claimed, events, rows, booking, made>>

(* The batch is recorded when anything was written.                        *)
EndConfirm(h) ==
  /\ Confirming(h) /\ work[h].todo = {}
  /\ batches' = [batches EXCEPT ![work[h].batch] = IF work[h].done > 0 THEN "recorded" ELSE "dropped"]
  /\ Becomes(h, Idle)
  /\ UNCHANGED <<agenda, wishes, cards, saved, claimed, events, rows, booking, made>>

(***************************************************************************)
(* Undo                                                                    *)
(***************************************************************************)
Recorded == {b \in Batches : batches[b] = "recorded"}
OfBatch(b) == {k \in Keys : rows[k].active /\ rows[k].batch = b}

(* undoCalendarBatch, of the latest batch or of one that is named.         *)
Undo(h, b) ==
  /\ Spend("undos") /\ b \in Recorded /\ h = FreeHandler
  /\ booking.together \/ Free = Handlers
  /\ Becomes(h, [kind |-> "undo", batch |-> b, rows |-> {<<k, rows[k].event>> : k \in OfBatch(b)},
                 gone |-> <<0, 0>>, failed |-> FALSE])
  /\ UNCHANGED <<agenda, wishes, cards, saved, claimed, events, rows, batches, made>>

Undoing(h) == work[h].kind = "undo"

(* deleteEvent: an event that is not there is an error.                    *)
Delete(h, r) ==
  /\ Undoing(h) /\ r \in work[h].rows /\ work[h].gone = <<0, 0>>
  /\ events' = Unbooked(r[2])
  /\ Becomes(h, IF r[2] \in DOMAIN events THEN [work[h] EXCEPT !.gone = r]
                ELSE [work[h] EXCEPT !.rows = @ \ {r}, !.failed = TRUE])
  /\ UNCHANGED <<agenda, wishes, cards, saved, claimed, rows, batches, booking, made>>

(* dbMarkCalendarWritebackDeleted                                          *)
Deleted(h) ==
  /\ Undoing(h) /\ work[h].gone # <<0, 0>>
  /\ rows' = [rows EXCEPT ![work[h].gone[1]].active = FALSE]
  /\ Becomes(h, [work[h] EXCEPT !.rows = @ \ {work[h].gone}, !.gone = <<0, 0>>])
  /\ UNCHANGED <<agenda, wishes, cards, saved, claimed, events, batches, booking, made>>

(* The request fails and nothing was done.                                 *)
RefuseDelete(h, r) ==
  /\ Spend("faults") /\ Undoing(h) /\ r \in work[h].rows /\ work[h].gone = <<0, 0>>
  /\ Becomes(h, [work[h] EXCEPT !.rows = @ \ {r}, !.failed = TRUE])
  /\ UNCHANGED <<agenda, wishes, cards, saved, claimed, events, rows, batches, made>>

(* The event is deleted, and the answer did not arrive in time.            *)
LoseDelete(h) ==
  /\ Hit("fault") /\ Undoing(h) /\ work[h].gone # <<0, 0>>
  /\ Becomes(h, [work[h] EXCEPT !.rows = @ \ {work[h].gone}, !.gone = <<0, 0>>, !.failed = TRUE])
  /\ UNCHANGED <<agenda, wishes, cards, saved, claimed, events, rows, batches, made>>

(* A batch of which something is left can be undone again.                 *)
EndUndo(h) ==
  /\ Undoing(h) /\ work[h].rows = {}
  /\ batches' = [batches EXCEPT ![work[h].batch] = IF work[h].failed THEN @ ELSE "undone"]
  /\ Becomes(h, Idle)
  /\ UNCHANGED <<agenda, wishes, cards, saved, claimed, events, rows, booking, made>>

(* The user deletes an event in the calendar.                              *)
DeleteByHand(e) ==
  /\ Hit("fault") /\ e \in DOMAIN events
  /\ events' = Unbooked(e)
  /\ UNCHANGED <<agenda, wishes, cards, saved, claimed, rows, batches, work, made>>

Crash ==
  /\ Hit("crash") /\ work' = [h \in Handlers |-> Idle] /\ claimed' = {}
  /\ batches' = [b \in Batches |-> IF batches[b] = "open" THEN "dropped" ELSE batches[b]]
  /\ UNCHANGED <<agenda, wishes, cards, saved, events, rows, made>>

Next ==
  \/ \E a \in Agendas : EditAgenda(a)
  \/ \E wish \in Wishes : Adjust(wish)
  \/ Clear
  \/ ShowDraft
  \/ \E c \in 1..MaxCards : Forget(c)
  \/ \E c \in 1..MaxCards, h \in Handlers, b \in Batches : Press(c, h, b)
  \/ \E h \in Handlers : Look(h) \/ Check(h) \/ Ask(h) \/ Answer(h) \/ EndConfirm(h)
  \/ \E h \in Handlers : Refuse(h) \/ Lose(h) \/ LoseDelete(h)
  \/ \E h \in Handlers, b \in Batches : Undo(h, b)
  \/ \E h \in Handlers : (\E r \in Keys \X Events : Delete(h, r) \/ RefuseDelete(h, r)) \/ Deleted(h) \/ EndUndo(h)
  \/ \E e \in Events : DeleteByHand(e)
  \/ Crash

Spec == Init /\ [][Next]_vars

(***************************************************************************)
(* Properties                                                              *)
(***************************************************************************)
TypeOK ==
  /\ agenda \in Agendas /\ claimed \subseteq DOMAIN cards
  /\ DOMAIN events \subseteq Events
  /\ \A e \in DOMAIN events : events[e].title \in Titles /\ events[e].slot \in Slots
  /\ rows \in [Keys -> [event : Events \union {0}, slot : Slots \union {0},
                        batch : Batches \union {0}, active : BOOLEAN]]
  /\ made \in Events \union {0}
  /\ batches \in [Batches -> {"new", "open", "recorded", "dropped", "undone"}]
  /\ \A h \in Handlers : work[h].kind \in {"idle", "confirm", "undo"}

(* However write-backs and undos overlap, and whatever requests are refused: *)
(* an active row names an event that is in the calendar, or one that an     *)
(* undo has just deleted and is about to mark (writeback.ts                 *)
(* writebackCalendarDraft, undoCalendarBatch).  Once an answer was lost, an *)
(* event deleted by hand, or the process killed (hit), it may not.          *)
RowsHaveEvents == booking.hit = "no" => \A k \in Keys :
  rows[k].active => \/ rows[k].event \in DOMAIN events
                    \/ \E h \in Handlers : Undoing(h) /\ work[h].gone = <<k, rows[k].event>>

(* "so undo can reach whatever got written" (writeback.ts:234), as far as   *)
(* it is so.  Of the rows: the batch of an active row is recorded and not   *)
(* undone, or its write-back still runs, unless the process was killed.  Of *)
(* the events: one in the calendar has such a row, or is about to get it,   *)
(* when confirmations come one after the other and no answer was lost: an   *)
(* event whose create answer was lost has no row (212, 228), and of two     *)
(* that are made side by side for one task only one keeps it; no undo finds *)
(* the other.                                                               *)
UndoReaches ==
  /\ booking.hit # "crash" => \A k \in Keys :
       rows[k].active => batches[rows[k].batch] \in {"open", "recorded"}
  /\ ~booking.together /\ booking.hit = "no" => \A e \in DOMAIN events :
       \/ \E k \in Keys : rows[k].active /\ rows[k].event = e
       \/ \E h \in Handlers : Confirming(h) /\ work[h].step = "created" /\ work[h].event = e

(* Confirmations one after the other, of old and new drafts, with requests  *)
(* that are refused, leave one event for a task and a day, and the row      *)
(* names its time.  It says nothing of what happens once an answer is lost: *)
(* the next confirmation then books the task a second time.                 *)
OneEventPerTask == ~booking.together /\ booking.hit = "no" =>
  /\ Cardinality(DOMAIN events) = Cardinality({k \in Keys : rows[k].active})
       + Cardinality({h \in Handlers : Confirming(h) /\ work[h].step = "created"})
       - Cardinality({h \in Handlers : Undoing(h) /\ work[h].gone # <<0, 0>>})
  /\ \A k \in Keys : rows[k].active /\ (\A h \in Handlers : work[h] = Idle)
       => events[rows[k].event].slot = rows[k].slot

(* feishu-interaction.ts:1679 says that "the exact draft" is kept so that   *)
(* the confirmation "writes back what was shown".                           *)
WritesShown ==
  \A h \in Handlers : work[h] = Idle /\ work'[h].kind = "confirm" =>
    work'[h].draft = work'[h].shown
ConfirmWritesShown == [][WritesShown]_vars
=============================================================================
