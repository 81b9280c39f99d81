----------------------------- MODULE SyncDrift -----------------------------
(***************************************************************************)
(* Progress of the day that the trackers do not show yet                   *)
(* (progress/sync-drift.ts).  What the day's ledger and messages say, and  *)
(* the GitHub issues updated that day, are matched with the issues of      *)
(* Linear and GitHub, by reference or by title; the findings go on a card  *)
(* that follows the daily review, and what the user ignores or has handled *)
(* is kept in a ledger of its own by the finding's key and the card's      *)
(* date, so that no later card of that date asks again.                    *)
(*                                                                         *)
(* A finding's key is its kind and its issue.  A signal names issues by    *)
(* reference, or none, and has the words of one issue's title, or of none. *)
(* The date of a review is the user's, the times of messages and updates   *)
(* are compared as UTC writes them.                                        *)
(***************************************************************************)
EXTENDS Naturals, FiniteSets

CONSTANTS
  Linear, Github, \* the issues of each tracker
  None,           \* no issue
  Mentions,       \* Mentions[i]: the other issues that the text of a GitHub issue names
  Sayings,        \* bound: what may be said
  Downs,          \* bound: the trackers that cannot be read
  LastDay,        \* the days are 1..LastDay
  Reviews,        \* the reviews and drafts under way at a time
  Rounds          \* bounds: how often what happens from outside happens, and
                  \* whether the user's zone lags behind UTC

Issues == Linear \union Github
Days == 1..LastDay
Saying == [names : SUBSET Issues, like : Issues \union {None}, from : {"ledger", "message"}]
Round == [says : Nat, reviews : Nat, updates : Nat, presses : Nat, fails : Nat, lag : {0, 1}]

VARIABLES
  day,      \* today, where the user is
  utc,      \* the day of UTC
  said,     \* said[d]: the signals of a day, with the UTC day they were made
  touched,  \* touched[i]: the UTC day an issue was last updated, 0 before
  listed,   \* the issues on the trackers' lists of active ones
  review,   \* review[r]: a review or a draft under way, the evidence it collected
            \* and what it is about to ask
  cards,    \* the cards and drafts that arrived
  ended,    \* the reviews that are over: their evidence, and if their card failed
  decided,  \* the ledger: <<key, date>>
  pressed,  \* what the user decided: <<key, date of the card>>
  round     \* what is left of the bounds

vars == <<day, utc, said, touched, listed, review, cards, ended, decided, pressed, round>>

NoEvidence == [day |-> 1, signals |-> {}, touched |-> [i \in Issues |-> 0], listed |-> {}, down |-> {}]
Idle == [pc |-> "off", kind |-> "review", of |-> NoEvidence, found |-> {}, before |-> {}]

Init ==
  /\ round \in Rounds
  /\ day = 1 /\ utc = round.lag /\ said = [d \in Days |-> {}]
  /\ touched = [i \in Issues |-> 0] /\ listed = Issues
  /\ review = [r \in Reviews |-> Idle]
  /\ cards = {} /\ ended = {} /\ decided = {} /\ pressed = {}

Spend(what) == round[what] > 0 /\ round' = [round EXCEPT ![what] = @ - 1]

(***************************************************************************)
(* collectSyncDrift                                                        *)
(***************************************************************************)
Available(e, i) == IF i \in Linear THEN "linear" \notin e.down ELSE "github" \notin e.down
Stale(i) == IF i \in Linear THEN "linear-stale" ELSE "github-stale"
Finding(kind, i, sure) == [key |-> <<kind, i>>, sure |-> sure]

(* evaluateExactMatches: an issue updated today is in order.               *)
Behind(e, i) == Available(e, i) /\ i \in e.listed /\ e.touched[i] # e.day
Unknown(e, i) == Available(e, i) /\ i \notin e.listed
Exact(e, s) ==
  {Finding(Stale(i), i, TRUE) : i \in {j \in s.names : Behind(e, j)}} \union
  {Finding("no-tracker", i, TRUE) : i \in {j \in s.names : Unknown(e, j)}}

(* evaluateFuzzyMatch: of a signal that names nothing, whatever the day of *)
(* the issue's update.                                                     *)
Alluded(e, s) == {i \in {s.like} \ {None} : s.names = {} /\ Available(e, i) /\ i \in e.listed}
Fuzzy(e, s) == {Finding(Stale(i), i, FALSE) : i \in Alluded(e, s)}

(* gatherSignals: the ledger of the day; its messages, of which only those *)
(* count that UTC has made on that day; and the text of the GitHub issues  *)
(* that were updated on it, which names the issue itself.                  *)
Heard(d) == {s \in said[d] : s.from = "ledger" \/ s.at = d}
Updated(d, down) ==
  {[names |-> {i} \union Mentions[i], like |-> None, from |-> "github", at |-> d] :
     i \in {j \in Github \intersect listed : touched[j] = d /\ "github" \notin down}}
Evidence(d, down) ==
  [day |-> d, signals |-> Heard(d) \union Updated(d, down), touched |-> touched, listed |-> listed, down |-> down]

Keys(F) == {f.key : f \in F}

(* dedupeFindings: of those with one key a sure one, if there is one.      *)
Deduped(F) == {f \in F : f.sure \/ \A g \in F : g.key = f.key => ~g.sure}

Findings(e) == Deduped(UNION {Exact(e, s) \union Fuzzy(e, s) : s \in e.signals})

(* filterUndecidedFindings                                                 *)
Undecided(e) == {f \in Findings(e) : <<f.key, e.day>> \notin decided}

(***************************************************************************)
(* Reviews and presses                                                     *)
(***************************************************************************)
Collected(kind, e) == [pc |-> "writing", kind |-> kind, of |-> e, found |-> {}, before |-> {}]

(* runWorkflow, a daily review: the evidence is collected ...              *)
Collect(r, down) ==
  /\ Spend("reviews") /\ review[r].pc = "off"
  /\ review' = [review EXCEPT ![r] = Collected("review", Evidence(day, down))]
  /\ UNCHANGED <<day, utc, said, touched, listed, cards, ended, decided, pressed>>

(* ... and nothing is asked when it fails, is cancelled or is not sent;    *)
GiveUp(r) ==
  /\ review[r].pc = "writing" /\ review' = [review EXCEPT ![r] = Idle]
  /\ UNCHANGED <<day, utc, said, touched, listed, cards, ended, decided, pressed, round>>

Over(r, failed) == ended \union (IF review[r].kind = "review" THEN {[of |-> review[r].of, failed |-> failed]} ELSE {})

(* once the review is sent, what is undecided then goes on a card, and no  *)
(* card is sent for nothing; a draft says that there is nothing.           *)
Ask(r) ==
  LET it == review[r] IN
  /\ it.pc = "writing"
  /\ IF it.kind = "review" /\ Undecided(it.of) = {}
     THEN review' = [review EXCEPT ![r] = Idle] /\ ended' = Over(r, FALSE)
     ELSE /\ review' = [review EXCEPT ![r] = [it EXCEPT !.pc = "sending", !.found = Undecided(it.of), !.before = pressed]]
          /\ UNCHANGED ended
  /\ UNCHANGED <<day, utc, said, touched, listed, cards, decided, pressed, round>>

Shown(r) == [kind |-> review[r].kind, of |-> review[r].of, found |-> review[r].found, before |-> review[r].before]

(* The card arrives;                                                       *)
SendCard(r) ==
  /\ review[r].pc = "sending" /\ review' = [review EXCEPT ![r] = Idle]
  /\ cards' = cards \union {Shown(r)} /\ ended' = Over(r, FALSE)
  /\ UNCHANGED <<day, utc, said, touched, listed, decided, pressed, round>>

(* or its sending fails, though it may have arrived, and a warning is all  *)
(* that follows.                                                           *)
SendFails(r) ==
  /\ Spend("fails") /\ review[r].pc = "sending" /\ review' = [review EXCEPT ![r] = Idle]
  /\ cards' \in {cards, cards \union {Shown(r)}} /\ ended' = Over(r, TRUE)
  /\ UNCHANGED <<day, utc, said, touched, listed, decided, pressed>>

(* Mutant of Recorded: the decision counts for the day of the press.       *)
RecordedToday(c) == {<<k, day>> : k \in Keys(c.found)}

(* recordSyncDriftDecision, for each key of the card.                      *)
Recorded(c) == {<<k, c.of.day>> : k \in Keys(c.found)}

(* handleSyncDriftCardAction: ignore, handled.                             *)
Press(c) ==
  /\ Spend("presses") /\ c.kind = "review"
  /\ decided' = decided \union Recorded(c)
  /\ pressed' = pressed \union {<<k, c.of.day>> : k \in Keys(c.found)}
  /\ UNCHANGED <<day, utc, said, touched, listed, review, cards, ended>>

(* draft: the evidence is collected anew, for the card's date.             *)
PressDraft(r, c) ==
  /\ Spend("presses") /\ c.kind = "review" /\ review[r].pc = "off"
  /\ review' = [review EXCEPT ![r] = Collected("draft", Evidence(c.of.day, {}))]
  /\ UNCHANGED <<day, utc, said, touched, listed, cards, ended, decided, pressed>>

(* The user tells of progress;                                             *)
Say(s) ==
  /\ Spend("says")
  /\ said' = [said EXCEPT ![day] = @ \union {[names |-> s.names, like |-> s.like, from |-> s.from, at |-> utc]}]
  /\ UNCHANGED <<day, utc, touched, listed, review, cards, ended, decided, pressed>>

(* updates an issue, or closes it.                                         *)
Update(i) ==
  /\ Spend("updates") /\ i \in listed /\ touched' = [touched EXCEPT ![i] = utc]
  /\ listed' \in {listed, listed \ {i}}
  /\ UNCHANGED <<day, utc, said, review, cards, ended, decided, pressed>>

(* A day has hours of two days of UTC.                                     *)
UtcTurns ==
  /\ utc + 1 = day + round.lag /\ utc' = utc + 1
  /\ UNCHANGED <<day, said, touched, listed, review, cards, ended, decided, pressed, round>>

NextDay ==
  /\ utc = day + round.lag /\ day < LastDay /\ day' = day + 1
  /\ UNCHANGED <<utc, said, touched, listed, review, cards, ended, decided, pressed, round>>

Next ==
  \/ \E r \in Reviews :
       \/ GiveUp(r) \/ Ask(r) \/ SendCard(r) \/ SendFails(r)
       \/ \E down \in Downs : Collect(r, down)
       \/ \E c \in cards : PressDraft(r, c)
  \/ \E c \in cards : Press(c)
  \/ \E s \in Sayings : Say(s)
  \/ \E i \in Issues : Update(i)
  \/ UtcTurns \/ NextDay

Spec == Init /\ [][Next]_vars

(***************************************************************************)
(* Properties                                                              *)
(***************************************************************************)
TypeOK ==
  /\ day \in Days /\ utc \in {day + round.lag - 1, day + round.lag} /\ round \in Round
  /\ touched \in [Issues -> 0..(LastDay + 1)] /\ listed \subseteq Issues
  /\ \A c \in cards : c.of.day \in Days /\ (c.kind = "review" => c.found # {})
  /\ {p[2] : p \in decided} \subseteq Days

(* What a review owes by its evidence: a stale issue that something names   *)
(* or, naming none, alludes to, and one that nobody has on the list.        *)
Owed(e) == UNION {
  {<<Stale(i), i>> : i \in {j \in s.names : Behind(e, j)} \union Alluded(e, s)} \union
  {<<"no-tracker", i>> : i \in {j \in s.names : Unknown(e, j)}} : s \in e.signals}

AskedOn(d, k) ==
  <<k, d>> \in pressed \/ \E c \in cards : c.kind = "review" /\ c.of.day = d /\ k \in Keys(c.found)

(* Whatever reviews and drafts overlap, and whenever a card is pressed, also *)
(* after midnight or while the next card is on its way: when a review is     *)
(* over, all that its evidence shows is on a card of its date or was decided *)
(* for that date - a decision about another day, or about another finding,   *)
(* silences nothing - unless the sending of its card failed, of which only   *)
(* the log tells (run-workflow.ts runWorkflow).                              *)
AskedOrDecided == \A x \in ended : x.failed \/ \A k \in Owed(x.of) : AskedOn(x.of.day, k)

(* No card and no draft asks for what the user had decided for its date      *)
(* before it was made (sync-drift.ts filterUndecidedFindings).               *)
NotAskedAgain == \A c \in cards : \A k \in Keys(c.found) : <<k, c.of.day>> \notin c.before

(* A reference is never shown as a guess: where a signal of the day names an *)
(* issue that was not updated, what is asked about it is sure, though        *)
(* another signal has only the words of its title (sync-drift.ts:11).        *)
ReferenceWins ==
  \A c \in cards : \A f \in c.found : \A s \in c.of.signals :
    f.key[2] \in s.names /\ Behind(c.of, f.key[2]) => f.sure

DriftAsked == AskedOrDecided /\ NotAskedAgain /\ ReferenceWins

(* sync-drift.ts:8 says what is looked for: "progress made today but not    *)
(* yet synced".  A guess is made of an issue that was updated, too;         *)
UpdatedIsSynced == \A c \in cards : \A f \in c.found : c.of.touched[f.key[2]] # c.of.day

(* what was told in the hours that UTC gives to another day is not heard;   *)
TodayIsHeard ==
  [][\A r \in Reviews : review[r].pc = "off" /\ review'[r].pc = "writing" /\ review'[r].of.day = day =>
       said[day] \subseteq review'[r].of.signals]_vars

(* and what a card that failed asked for is not asked by another.           *)
NothingMissed == \A x \in ended : \A k \in Owed(x.of) : AskedOn(x.of.day, k)
=============================================================================
