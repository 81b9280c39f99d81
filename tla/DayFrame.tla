------------------------------ MODULE DayFrame ------------------------------
(***************************************************************************)
(* The frame of one day (user/routine.ts, calendar/subscriptions.ts and    *)
(* the handlers of ui/server.ts): the blocks of the mode that is picked,   *)
(* cut where an event of a subscribed calendar stands, with the changes of *)
(* this one date on top.                                                   *)
(*                                                                         *)
(* A window that opens inside a block cuts it in two, whose ids are the    *)
(* id of the block with an "a" or a "b" behind it.  The client knows the   *)
(* pieces only: a change names the id of a piece that it once was shown.   *)
(* The hours are 0 .. Midnight.  Titles, categories and notes are left out.*)
(***************************************************************************)
EXTENDS Integers, FiniteSets, Sequences, SequencesExt

CONSTANTS
  Midnight,   \* the end of the day
  Templates,  \* what the editor may save: the blocks of each mode of the day
  Feeds,      \* what the calendar may answer: the events in the order of their hours
  Spans,      \* the windows the users ask for, <<from, to>>
  Additions,  \* names of blocks that are added to the date
  Rows,       \* ad-hoc rows of the sheet
  Loads       \* how much happens

VARIABLES
  template,   \* routines.json: the blocks of each mode
  mode,       \* the mode picked for the date
  feed,       \* the copy of the calendar on disk
  override,   \* the changes of the date: hidden, edits, clears
  rows,       \* the ad-hoc rows
  page,       \* the ids of the pieces a client shows
  wish,       \* what the users asked for, block by block
  load

vars == <<template, mode, feed, override, rows, page, wish, load>>

(***************************************************************************)
(* Blocks, their ids and the windows that cut them                         *)
(***************************************************************************)
Id(name) == [root |-> name, cut |-> <<>>]
Block(name, from, to) == [id |-> Id(name), from |-> from, to |-> to]
IdsOf(blocks) == {b.id : b \in blocks}

(* The block a piece was cut from, when that is a block of the day.        *)
Root(id, ids) ==
  LET cuts == {n \in 0 .. Len(id.cut) : [id EXCEPT !.cut = SubSeq(@, 1, n)] \in ids}
  IN  IF cuts = {} THEN id
      ELSE [id EXCEPT !.cut = SubSeq(@, 1, CHOOSE n \in cuts : \A m \in cuts : m <= n)]

Pieces(b, w) ==
  IF b.to <= w.from \/ b.from >= w.to THEN {b}
  ELSE {[b EXCEPT !.id.cut = Append(@, "a"), !.to = w.from] : x \in {y \in {b} : y.from < w.from}}
       \cup {[b EXCEPT !.id.cut = Append(@, "b"), !.from = w.to] : x \in {y \in {b} : y.to > w.to}}

GiveWay(blocks, windows) ==
  FoldLeft(LAMBDA left, w : UNION {Pieces(b, w) : b \in left}, blocks, windows)

(***************************************************************************)
(* The day: the mode, the calendar, the changes                            *)
(***************************************************************************)
None == [hidden |-> {}, edits |-> <<>>, clears |-> <<>>]

Known(t, f) == UNION {IdsOf(t[m]) : m \in DOMAIN t} \cup IdsOf(ToSet(f))

Overlaid(blocks, over, known) ==
  LET ids == IdsOf(blocks)
      hidden == {Root(id, ids) : id \in over.hidden}
      IsAdded(e) == LET r == Root(e.id, ids) IN r \notin ids /\ r \notin known /\ e.id \notin known
      added == SelectSeq(over.edits, LAMBDA e : IsAdded(e) /\ e.id \notin hidden)
      EditsOf(b) == SelectSeq(over.edits, LAMBDA e : ~IsAdded(e) /\ Root(e.id, ids) = b.id)
      Placed(b) == IF EditsOf(b) = <<>> THEN b ELSE [Last(EditsOf(b)) EXCEPT !.id = b.id]
  IN  GiveWay({Placed(b) : b \in {x \in blocks : x.id \notin hidden}}, over.clears \o added)
      \cup ToSet(added)

Resolved(t, m, f, over) ==
  Overlaid(GiveWay(t[m], f) \cup ToSet(f), over, Known(t, f))

Day == Resolved(template, mode, feed, override)

(***************************************************************************)
(* One change of the date, and what is saved of it                         *)
(***************************************************************************)
Valid(w) == w.from < w.to /\ w.from \in 0 .. Midnight - 1 /\ w.to <= Midnight
Without(s, id) == SelectSeq(s, LAMBDA x : x.id # id)

Normal(over) == [over EXCEPT !.edits = SelectSeq(@, Valid), !.clears = SelectSeq(@, Valid)]

(* Mutant of Own: the change keeps the id of the piece.                    *)
OwnPiece(id) == id

Own(id) == Root(id, IdsOf(template[mode]))

Edited(id, from, to) ==
  Normal([override EXCEPT !.edits = Append(Without(@, Own(id)), [id |-> Own(id), from |-> from, to |-> to]),
                          !.hidden = @ \ {Own(id)}])
Hidden(id) == [override EXCEPT !.hidden = @ \cup {Own(id)}]
Back(id) == [override EXCEPT !.hidden = @ \ {Own(id)}, !.edits = Without(@, Own(id))]
Cleared(r, from, to) ==
  Normal([override EXCEPT !.clears = Append(Without(@, Id(r)), Block(r, from, to))])
Given(r) == [override EXCEPT !.clears = Without(@, Id(r))]

Room(r) == SelectSeq(override.clears, LAMBDA c : c.id = Id(r))

(***************************************************************************)
(* Init and what the users ask for.  wish has no counterpart in the code:  *)
(* it is what the user of a client means by a change, by name of a block.  *)
(* A change that the code keeps under the id of a piece (of an event, or   *)
(* of a block that the mode of now does not have) is lost to its block.    *)
(***************************************************************************)
Names == UNION {UNION {{b.id.root : b \in t[m]} : m \in DOMAIN t} : t \in Templates}
         \cup UNION {{e.id.root : e \in ToSet(f)} : f \in Feeds} \cup Additions
AsIs == [asked |-> "nothing", from |-> 0, to |-> 0]
NoRow == [state |-> "none", from |-> 0, minutes |-> 0, whole |-> FALSE]

Init ==
  /\ template \in Templates /\ mode \in DOMAIN template
  /\ feed \in Feeds /\ override = None
  /\ rows = [r \in Rows |-> NoRow]
  /\ page = IdsOf(Day)
  /\ wish = [n \in Names |-> AsIs]
  /\ load \in Loads

Asks(id, what, w) ==
  wish' = [wish EXCEPT ![id.root] =
             IF @.asked = "lost" \/ (id.cut # <<>> /\ Id(id.root) \notin IdsOf(template[mode])) THEN [AsIs EXCEPT !.asked = "lost"]
             ELSE IF what = "nothing" THEN AsIs
             ELSE [asked |-> what, from |-> w.from, to |-> w.to]]

Spend(kind) == load[kind] > 0 /\ load' = [load EXCEPT ![kind] = @ - 1]

(* The client that asked is answered with the day; another one keeps what  *)
(* it shows.                                                               *)
Answered == page' \in {page, IdsOf(Day')}

Save(over) == override' = over /\ UNCHANGED <<template, mode, feed>>

(***************************************************************************)
(* saveDayOverride: a piece on the page is moved, hidden or put back       *)
(***************************************************************************)
Edit(id, w) ==
  /\ Spend("changes") /\ id \in page
  /\ Save(Edited(id, w.from, w.to)) /\ Answered
  /\ Asks(id, IF w.from < w.to THEN "move" ELSE "nothing", w)
  /\ UNCHANGED rows

Hide(id) ==
  /\ Spend("changes") /\ id \in page
  /\ Save(Hidden(id)) /\ Answered
  /\ Asks(id, "hide", wish[id.root])
  /\ UNCHANGED rows

Reset(id) ==
  /\ Spend("changes")
  /\ id \in page \cup override.hidden
  /\ Save(Back(id)) /\ Answered
  /\ Asks(id, "nothing", AsIs)
  /\ UNCHANGED rows

(* The chat, or a past day, adds a block.                                  *)
Add(n, w) ==
  /\ Spend("changes") /\ w.from < w.to /\ wish[n] = AsIs
  /\ Save(Edited(Id(n), w.from, w.to)) /\ Answered
  /\ Asks(Id(n), "move", w)
  /\ UNCHANGED rows

SwitchMode(m) ==
  /\ Spend("changes") /\ m # mode /\ m \in DOMAIN template
  /\ mode' = m
  /\ UNCHANGED <<template, feed, override, rows, wish>> /\ Answered

(***************************************************************************)
(* saveRoutines: the editor saves the blocks of the modes and leaves the   *)
(* changes of the dates; refreshCalendarSubscriptions: an answer replaces  *)
(* the copy, a failed request keeps it.                                    *)
(***************************************************************************)
SaveTemplate(t) ==
  /\ Spend("templates") /\ t # template
  /\ template' = t
  /\ UNCHANGED <<mode, feed, override, rows, page, wish>>

Refresh(f) ==
  /\ Spend("fetches") /\ f # feed
  /\ feed' = f
  /\ UNCHANGED <<template, mode, override, rows, page, wish>>

(***************************************************************************)
(* addAdhoc, adhocFollowsRow and undoAdhoc: a row at a time of its own,    *)
(* with room in the frame that follows the row                             *)
(***************************************************************************)
AddRow(r, w) ==
  /\ Spend("rows") /\ w.from < w.to /\ rows[r].state = "none"
  /\ rows' = [rows EXCEPT ![r] = [state |-> "there", from |-> w.from, minutes |-> w.to - w.from, whole |-> TRUE]]
  /\ Save(Cleared(r, w.from, w.to)) /\ Answered
  /\ UNCHANGED wish

Plus(from, minutes) == IF from + minutes > Midnight THEN Midnight ELSE from + minutes

Follow(r, from, minutes) ==
  IF Room(r) = <<>> THEN Save(override) ELSE Save(Cleared(r, from, Plus(from, minutes)))

Place(r, from) ==
  /\ Spend("rows") /\ rows[r].state = "there"
  /\ LET length == IF Room(r) = <<>> THEN 0 ELSE Room(r)[1].to - Room(r)[1].from
     IN  /\ Follow(r, from, length)
         /\ rows' = [rows EXCEPT ![r].from = from, ![r].whole = @ /\ from + length <= Midnight]
  /\ UNCHANGED <<page, wish>>

Stretch(r, minutes) ==
  /\ Spend("rows") /\ rows[r].state = "there"
  /\ LET from == IF Room(r) = <<>> THEN 0 ELSE Room(r)[1].from
     IN  /\ Follow(r, from, minutes)
         /\ rows' = [rows EXCEPT ![r].minutes = minutes, ![r].whole = from + minutes <= Midnight /\ Room(r) # <<>>]
  /\ UNCHANGED <<page, wish>>

RemoveRow(r) ==
  /\ Spend("rows") /\ rows[r].state = "there"
  /\ rows' = [rows EXCEPT ![r].state = "removed"]
  /\ Save(Given(r))
  /\ UNCHANGED <<page, wish>>

ReopenRow(r) ==
  /\ Spend("rows") /\ rows[r].state = "removed"
  /\ rows' = [rows EXCEPT ![r].state = "there", ![r].whole = FALSE]
  /\ UNCHANGED <<template, mode, feed, override, page, wish>>

UndoRow(r) ==
  /\ Spend("rows") /\ rows[r].state \in {"there", "removed"}
  /\ rows' = [rows EXCEPT ![r] = [NoRow EXCEPT !.state = "undone"]]
  /\ Save(Given(r))
  /\ UNCHANGED <<page, wish>>

Next ==
  \/ \E id \in page \cup override.hidden : Reset(id)
  \/ \E id \in page : Hide(id) \/ \E w \in Spans : Edit(id, w)
  \/ \E n \in Additions, w \in Spans : Add(n, w)
  \/ \E m \in DOMAIN template : SwitchMode(m)
  \/ \E t \in Templates : SaveTemplate(t)
  \/ \E f \in Feeds : Refresh(f)
  \/ \E r \in Rows :
       \/ \E w \in Spans : AddRow(r, w)
       \/ \E w \in Spans : Place(r, w.from)
       \/ \E minutes \in 1 .. 2 : Stretch(r, minutes)
       \/ RemoveRow(r) \/ ReopenRow(r) \/ UndoRow(r)

Spec == Init /\ [][Next]_vars

(***************************************************************************)
(* Properties                                                              *)
(***************************************************************************)
TypeOK ==
  /\ template \in Templates /\ mode \in DOMAIN template /\ feed \in Feeds
  /\ page \subseteq [root : Names, cut : UNION {[1 .. n -> {"a", "b"}] : n \in 0 .. 6}]
  /\ wish \in [Names -> [asked : {"nothing", "move", "hide", "lost"}, from : 0 .. Midnight, to : 0 .. Midnight]]

HoursOf(b) == b.from .. b.to - 1
Hours(blocks) == UNION {HoursOf(b) : b \in blocks}

(* An edit whose block is nowhere is read as an addition.                  *)
Strays == {e \in ToSet(override.edits) :
             e.id.root \notin Additions /\ (e.id.cut # <<>> \/ e.id \notin Known(template, feed))}

(* What the user asked for, said of whole blocks.                          *)
Added == {n \in Additions : wish[n].asked = "move"}
Taken == Hours(ToSet(override.clears)) \cup UNION {wish[n].from .. wish[n].to - 1 : n \in Added}
Meant(b) ==
  CASE wish[b.id.root].asked = "hide" -> {}
    [] wish[b.id.root].asked = "move" -> wish[b.id.root].from .. wish[b.id.root].to - 1
    [] OTHER -> HoursOf(b)

(* A block that no event cuts stands where the user put it, whole but for  *)
(* the windows of the day, whatever pieces the client named and whichever  *)
(* mode or template came since; and a window gives back what it took.      *)
FrameAsMeant ==
  LET day == Day
      taken == Taken
      meetings == Hours(ToSet(feed))
      Shown(n) == Hours({b \in day : b.id.root = n})
      AsMeant(b) == wish[b.id.root].asked # "lost" => Shown(b.id.root) = Meant(b) \ taken
  IN  Strays = {} =>
        /\ \A b \in template[mode] : HoursOf(b) \cap meetings = {} => AsMeant(b)
        /\ \A e \in ToSet(feed) : AsMeant(e)
        /\ \A n \in Added : Shown(n) = wish[n].from .. wish[n].to - 1

(* The room a row has is the time the row has, once it is gone there is    *)
(* none, unless it was restored or did not fit into the day.               *)
RoomFollowsRow ==
  \A r \in Rows :
    /\ rows[r].state = "there" /\ rows[r].whole =>
         /\ Len(Room(r)) = 1
         /\ Room(r)[1].from = rows[r].from /\ Room(r)[1].to = rows[r].from + rows[r].minutes
    /\ rows[r].state \in {"removed", "undone"} => Room(r) = <<>>

FrameKept == FrameAsMeant /\ RoomFollowsRow
=============================================================================
