------------------------------ MODULE Stickies ------------------------------
(***************************************************************************)
(* What the user writes for himself: the sticky notes, which come up again *)
(* after growing intervals (reminders/store.ts), and the journal, one      *)
(* file for a day with the weather it was first written under              *)
(* (todo/journal.ts), through the handlers of ui/server.ts.                *)
(*                                                                         *)
(* Each request names the zone of its client, so that two clients may be a *)
(* day apart.  The user may also edit the file of the notes by hand: a row *)
(* may lose its date, and a file that does not parse reads as empty.       *)
(* Colours, positions and sizes are left out, but not that a moved note is *)
(* read, normalised and written like any other.                            *)
(***************************************************************************)
EXTENDS Integers, Sequences, FiniteSets

CONSTANTS
  Ids,        \* the notes there may be
  Intervals,  \* SURFACE_INTERVALS: days of sleep on each rung
  Skies,      \* the weather a client may see
  LastDay,    \* bound
  Loads       \* how much happens

Rungs == 0 .. Len(Intervals) - 1
Dates == 1 .. LastDay
NoNote == [box |-> 0, next |-> 0, gone |-> FALSE]
NoPage == [words |-> "none", sky |-> "none"]

VARIABLES
  notes,    \* the rows of the file
  broken,   \* the file does not parse
  told,     \* per note: how it was last answered, and on which day
  wiped,    \* the user broke the file by hand
  pages,    \* the journal: the file of each date
  first,    \* the weather each page was created under
  meant,    \* the words each page was last saved with
  day,      \* the day where the service is
  load

vars == <<notes, broken, told, wiped, pages, first, meant, day, load>>

Untold == [since |-> 0, oks |-> 0, away |-> FALSE]

TypeOK ==
  /\ \A i \in Ids : notes[i].box \in Rungs /\ notes[i].next \in Nat /\ notes[i].gone \in BOOLEAN
  /\ \A i \in Ids : told[i].oks \in Nat
  /\ broken \in BOOLEAN /\ wiped \in BOOLEAN /\ day \in Dates
  /\ \A d \in Dates : pages[d].words \in {"none", "plain", "fenced"} /\ pages[d].sky \in Skies \cup {"none"}

Init ==
  /\ notes = [i \in Ids |-> NoNote] /\ told = [i \in Ids |-> Untold]
  /\ broken = FALSE /\ wiped = FALSE
  /\ pages = [d \in Dates |-> NoPage] /\ first = [d \in Dates |-> "none"] /\ meant = [d \in Dates |-> "none"]
  /\ day = 1
  /\ load \in Loads

noteVars == <<notes, broken, told, wiped>>
pageVars == <<pages, first, meant>>

(***************************************************************************)
(* stickyToday: the day in the zone of the client.                         *)
(***************************************************************************)
Today == {day + z : z \in load.zones}

(* readStickies, normalizeStored: a file that does not parse is empty, and *)
(* a row without its date comes up today.                                  *)
There(i) == ~broken /\ notes[i] # NoNote
Read(today) ==
  [i \in Ids |-> IF ~There(i) THEN NoNote
                 ELSE IF notes[i].next = 0 THEN [notes[i] EXCEPT !.next = today] ELSE notes[i]]

Written(today, i, note) == notes' = [Read(today) EXCEPT ![i] = note] /\ broken' = FALSE
Spent == load.acts > 0 /\ load' = [load EXCEPT !.acts = @ - 1]

(* saveSticky: an unknown id makes a new note, which sleeps first; a known *)
(* one keeps its place on the ladder.                                      *)
Saved(i, today) ==
  IF There(i) THEN Read(today)[i] ELSE [box |-> 0, next |-> today + Intervals[1], gone |-> FALSE]

Save(i, today) ==
  /\ Spent /\ (There(i) \/ told[i] = Untold)
  /\ Written(today, i, Saved(i, today))
  /\ told' = IF There(i) THEN told ELSE [told EXCEPT ![i] = [since |-> today, oks |-> 0, away |-> FALSE]]
  /\ UNCHANGED <<wiped, pageVars, day>>

Clamped(box) == IF box > Len(Intervals) - 1 THEN Len(Intervals) - 1 ELSE box

(* surfaceSticky: done puts a note away, keep takes it to the shortest     *)
(* sleep, ok lets it climb.  A note that was put away on another screen    *)
(* is answered as well, and stays away.                                    *)
Surfaced(note, response, today) ==
  CASE response = "done" -> [note EXCEPT !.gone = TRUE]
    [] response = "keep" -> [note EXCEPT !.box = 0, !.next = today + Intervals[1]]
    [] response = "ok" -> [note EXCEPT !.box = Clamped(@ + 1), !.next = today + Intervals[Clamped(note.box + 1) + 1]]

Surface(i, response, today) ==
  /\ Spent /\ There(i) /\ UNCHANGED <<wiped, pageVars, day>>
  /\ Written(today, i, Surfaced(Read(today)[i], response, today))
  /\ told' = [told EXCEPT ![i] =
                CASE response = "done" -> [@ EXCEPT !.away = TRUE]
                  [] response = "keep" -> [@ EXCEPT !.since = today, !.oks = 0]
                  [] response = "ok" -> [@ EXCEPT !.since = today, !.oks = @ + 1]]

(* archiveSticky refuses a note that was put away, and so do moveSticky    *)
(* and resizeSticky, which change nothing that is modelled.                *)
Archived(i, today) == IF There(i) /\ ~notes[i].gone THEN {[Read(today)[i] EXCEPT !.gone = TRUE]} ELSE {}
Moved(i, today) == IF There(i) /\ ~notes[i].gone THEN {Read(today)[i]} ELSE {}

Archive(i, today) ==
  /\ Spent /\ \E note \in Archived(i, today) : Written(today, i, note)
  /\ told' = [told EXCEPT ![i].away = TRUE]
  /\ UNCHANGED <<wiped, pageVars, day>>

Move(i, today) ==
  /\ Spent /\ \E note \in Moved(i, today) : Written(today, i, note)
  /\ UNCHANGED <<told, wiped, pageVars, day>>

(* The user edits the file: a row loses its date, or the file its form. *)
LosesDate(i) ==
  /\ load.edits > 0 /\ There(i) /\ notes[i].next # 0
  /\ notes' = [notes EXCEPT ![i].next = 0]
  /\ load' = [load EXCEPT !.edits = @ - 1]
  /\ told' = [told EXCEPT ![i].since = 0]
  /\ UNCHANGED <<broken, wiped, pageVars, day>>
Breaks ==
  /\ load.edits > 0 /\ ~broken
  /\ broken' = TRUE /\ wiped' = TRUE
  /\ load' = [load EXCEPT !.edits = @ - 1]
  /\ UNCHANGED <<notes, told, pageVars, day>>

(***************************************************************************)
(* The journal.  Words that begin with a fence look like front matter.     *)
(***************************************************************************)
(* parse: what a file reads as.  With no weather of its own in front, a    *)
(* fence the user wrote is taken for the front matter and is not shown.    *)
ReadsAs(page) == IF page.words = "fenced" /\ page.sky = "none" THEN "cut" ELSE page.words

(* writeJournal: empty words delete the page; the weather of the first     *)
(* save stays.                                                             *)
Kept(page, sky) == IF page.sky # "none" THEN page.sky ELSE sky

Page(d, words, sky) == IF words = "none" THEN NoPage ELSE [words |-> words, sky |-> Kept(pages[d], sky)]

Write(d, words, sky) ==
  /\ Spent /\ d <= day
  /\ pages' = [pages EXCEPT ![d] = Page(d, words, sky)]
  /\ meant' = [meant EXCEPT ![d] = words]
  /\ first' = [first EXCEPT ![d] = CASE words = "none" -> "none" [] @ = "none" -> sky [] OTHER -> @]
  /\ UNCHANGED <<noteVars, day>>

(* deleteJournalEntry *)
Tear(d) ==
  /\ Spent /\ pages[d] # NoPage
  /\ pages' = [pages EXCEPT ![d] = NoPage]
  /\ meant' = [meant EXCEPT ![d] = "none"] /\ first' = [first EXCEPT ![d] = "none"]
  /\ UNCHANGED <<noteVars, day>>

NextDay == day < LastDay /\ day' = day + 1 /\ UNCHANGED <<noteVars, pageVars, load>>

Next ==
  \/ \E i \in Ids, t \in Today :
       \/ Save(i, t) \/ Archive(i, t) \/ Move(i, t)
       \/ \E r \in {"done", "keep", "ok"} : Surface(i, r, t)
  \/ \E i \in Ids : LosesDate(i)
  \/ Breaks
  \/ \E d \in Dates, w \in {"none", "plain", "fenced"}, s \in Skies \cup {"none"} : Write(d, w, s)
  \/ \E d \in Dates : Tear(d)
  \/ NextDay

Spec == Init /\ [][Next]_vars

(***************************************************************************)
(* Properties                                                              *)
(***************************************************************************)
(* listStickies *)
Board == {i \in Ids : There(i) /\ ~notes[i].gone}

(* What was written and not put away is on the board, and nothing else,    *)
(* unless the user broke the file ("one bad note never blanks the board"). *)
BoardIsKept == ~wiped => Board = {i \in Ids : told[i] # Untold /\ ~told[i].away}

(* A note on the board sleeps the interval of the answers since it was     *)
(* last said to be still on the user's mind, from the day of the last.     *)
LadderTells ==
  \A i \in Board : told[i].since # 0 =>
    notes[i].next = told[i].since + Intervals[Clamped(told[i].oks) + 1]

(* A page reads as it was saved, if a weather was sent with it, and shows  *)
(* the weather it was first written under (journal.ts on LEO-351).         *)
PagesTell ==
  \A d \in Dates : /\ pages[d].sky = first[d]
                   /\ first[d] # "none" => ReadsAs(pages[d]) = meant[d]

(* Without that restriction: what is saved is what is read. *)
SavedIsRead == \A d \in Dates : ReadsAs(pages[d]) = meant[d]
=============================================================================
