------------------------------- MODULE Scorer -------------------------------
(***************************************************************************)
(* How the morning plan gets its rows: Linear issues, captures, notes of   *)
(* the vault and the cycle's lines become one pool without repetitions,    *)
(* which is cut to what the cycle names, to what the user has not ticked   *)
(* or taken off, and to the schedule of the cycle, and is ranked by a      *)
(* weighted score (todo/scorer.ts, todo/scorer-config.ts, todo/feedback.ts,*)
(* workflows/run-workflow.ts).  The same run keeps the cycle's lines in    *)
(* step with Linear (cycles/linear-sync.ts).                               *)
(*                                                                         *)
(* A title is a model value; the issues it names and the titles it reads   *)
(* like are constants.  A day is a number; a due day counts from its       *)
(* midnight.                                                               *)
(***************************************************************************)
EXTENDS Integers, Sequences, SequencesExt, FiniteSets, TLC

CONSTANTS
  Captures, Issues, Notes, \* titles, in the order their source lists them
  Cycle,      \* the cycle's lines at the start: groups of titles
  Schedules,  \* the days each line may be scheduled on at the start
  Work,       \* the group of the cycle that gets the work of Linear
  Names,      \* the issues a title names
  Alike,      \* pairs of titles that read alike
  Due,        \* the day a title is due, or Never
  Never,
  Written,    \* the day a capture was written
  Urgency,    \* Linear's priority: "urgent", "high" or "none"
  Linked,     \* titles that name a key result
  Facing,     \* titles that read as work for a customer
  RestDays, TopN, LastDay,
  Outings     \* bounds: how often what happens from outside happens

Elems(s) == {s[i] : i \in DOMAIN s}
Titles == Elems(Captures) \union Elems(Issues) \union Elems(Notes)
            \union UNION {Elems(Cycle[g]) : g \in DOMAIN Cycle}
States == {"backlog", "started", "review", "completed"}

VARIABLES
  day,
  issue,   \* the state of each issue in Linear
  open,    \* the captures that are open
  lines,   \* the cycle's lines: groups of [title, done]
  slots,   \* the days each line is scheduled on
  covered, \* the lines that stand inside a fixed row of the day
  done,    \* the feedback ledger: what was ticked, and on which day
  gone,    \* ... what was taken off
  carried, \* ... what was carried over, on which day and for how many in a row
  fetched, \* what a run read from Linear
  plan,    \* the rows of the last plan
  outing   \* what is left of the bounds

vars == <<day, issue, open, lines, slots, covered, done, gone, carried, fetched, plan, outing>>

NoCarry == -1
NotFetched == [on |-> 0, issue |-> [i \in Elems(Issues) |-> "backlog"]]
Outing == [ticks : Nat, moves : Nat, edits : Nat]
(* A candidate id: a line's holds its place among the cycle's lines.       *)
Id(source, place, title) == <<source, place, title>>
Ids == {Id(s, 0, t) : s \in {"todo_inbox", "linear", "vault"}, t \in Titles}
         \union {Id("weekly", n, t) : n \in 1..Cardinality(Titles), t \in Titles}

Init ==
  /\ day = 1 /\ issue \in [Elems(Issues) -> {"backlog", "started"}]
  /\ open = {c \in Elems(Captures) : Written[c] = 1}
  /\ lines = [g \in DOMAIN Cycle |-> [n \in DOMAIN Cycle[g] |-> [title |-> Cycle[g][n], done |-> FALSE]]]
  /\ slots \in Schedules /\ covered = {}
  /\ done = {} /\ gone = {} /\ carried = {}
  /\ fetched = NotFetched /\ plan = [on |-> 0, rows |-> <<>>]
  /\ outing \in Outings

Spend(what) == outing[what] > 0 /\ outing' = [outing EXCEPT ![what] = @ - 1]

(***************************************************************************)
(* The pool: every source's rows, one after the other.                     *)
(***************************************************************************)
Listed(ls) == FlattenSeq(ls)
Raw(source, place, title) ==
  [id |-> Id(source, place, title), source |-> source, title |-> title,
   due |-> IF title \in DOMAIN Due THEN Due[title] ELSE Never,
   pri |-> IF source = "linear" THEN Urgency[title] ELSE "none", state |-> "none", carry |-> NoCarry,
   linked |-> title \in Linked, hit |-> source = "weekly", facing |-> title \in Facing]

FromInbox(opened, d) ==
  LET of(t) == [Raw("todo_inbox", 0, t) EXCEPT !.carry = d - Written[t]]
      kept == SelectSeq(Captures, LAMBDA t : t \in opened)
  IN  [n \in DOMAIN kept |-> of(kept[n])]
FromLinear(states) ==
  LET kept == SelectSeq(Issues, LAMBDA t : states[t] # "completed")
  IN  [n \in DOMAIN kept |-> [Raw("linear", 0, kept[n]) EXCEPT !.state = states[kept[n]]]]
FromVault == [n \in DOMAIN Notes |-> Raw("vault", 0, Notes[n])]
(* A ticked line keeps its place and is no candidate.                      *)
FromLines(ls) ==
  LET placed == [n \in DOMAIN Listed(ls) |-> Listed(ls)[n] @@ [place |-> n]]
      kept == SelectSeq(placed, LAMBDA l : ~l.done)
  IN  [n \in DOMAIN kept |-> Raw("weekly", kept[n].place, kept[n].title)]

(***************************************************************************)
(* Rows of one thing become one row: of the source that knows most, with   *)
(* what only the other one knows.                                          *)
(***************************************************************************)
Standing(source) == CASE source = "linear" -> 4 [] source = "todo_inbox" -> 3
                      [] source = "weekly" -> 2 [] OTHER -> 1
Same(a, b) ==
  \/ a.id = b.id
  \/ a.source # b.source /\ Names[a.title] \cap Names[b.title] # {}
  \/ a.title = b.title \/ {a.title, b.title} \in Alike
Merged(w, l) ==
  [w EXCEPT !.due = IF @ = Never THEN l.due ELSE @, !.pri = IF @ = "none" THEN l.pri ELSE @,
            !.state = IF @ = "none" THEN l.state ELSE @, !.carry = IF @ = NoCarry THEN l.carry ELSE @,
            !.linked = @ \/ l.linked, !.facing = @ \/ l.facing, !.hit = @ \/ l.hit]
Kept(kept, c) ==
  LET n == SelectInSeq(kept, LAMBDA other : Same(other, c))
  IN  IF n = 0 THEN Append(kept, c)
      ELSE [kept EXCEPT ![n] = IF Standing(c.source) > Standing(@.source) THEN Merged(c, @) ELSE Merged(@, c)]
Pool(opened, states, ls, d) ==
  FoldLeft(Kept, <<>>, FromInbox(opened, d) \o FromLinear(states) \o FromVault \o FromLines(ls))

Urgent(c, d) == c.due # Never /\ c.due - d <= 1
(* With lines in the cycle, an issue stays only if one of them names it or *)
(* if it is due within a day.                                              *)
Anchored(pool, ls, d) ==
  LET named == UNION {Names[l.title] : l \in Elems(Listed(ls))}
  IN  IF Listed(ls) = <<>> THEN pool
      ELSE SelectSeq(pool, LAMBDA c : c.source # "linear" \/ c.title \in named \/ Urgent(c, d))

(***************************************************************************)
(* What the user has ticked or taken off stays off: an issue or a capture  *)
(* for the day, a note or a line for good, and a session of the schedule   *)
(* for the day it was ticked on.                                           *)
(***************************************************************************)
SelfTracking(id) == id[1] \in {"linear", "todo_inbox"}
Entry(id, d) == [id |-> id, on |-> d]
Completed(id, d) == \E e \in done : e.id = id /\ (SelfTracking(id) => e.on = d)
Session(c, d) == c.source = "weekly" /\ d \in slots[c.title]
(* Mutant of Off: a session of an earlier day counts.                      *)
OffForGood(c, d) == Entry(c.id, d) \in gone \/ Completed(c.id, d)
Off(c, d) == \/ Entry(c.id, d) \in gone
             \/ IF Session(c, d) THEN Entry(c.id, d) \in done ELSE Completed(c.id, d)
(* What was carried over for some days in a row weighs as much as a        *)
(* capture that waits for so long.                                         *)
Carried(c) ==
  LET streak == {e.days : e \in {x \in carried : x.id = c.id}}
  IN  [c EXCEPT !.carry = IF \E n \in streak : n > @ THEN CHOOSE n \in streak : TRUE ELSE @]

(***************************************************************************)
(* The score, and the order.                                               *)
(***************************************************************************)
Deadline(c, d) == IF c.due = Never THEN 0 ELSE IF c.due < d THEN 35 ELSE IF c.due - d <= 1 THEN 25
                  ELSE IF c.due - d <= 3 THEN 12 ELSE 0
Board(c) == IF c.source # "linear" THEN 0
            ELSE (CASE c.pri = "urgent" -> 20 [] c.pri = "high" -> 12 [] OTHER -> 0)
                   + (CASE c.state = "review" -> 8 [] c.state = "started" -> 15 [] OTHER -> 0)
(* Mutant of Damping: what is late is damped as well.                      *)
DampingAll(c, d) == IF d \in RestDays /\ c.source \in {"linear", "weekly"} THEN -18 ELSE 0
Damping(c, d) == IF d \in RestDays /\ c.source \in {"linear", "weekly"} /\ ~Urgent(c, d) THEN -18 ELSE 0
Least(a, b) == IF a < b THEN a ELSE b
Worn(c) == IF c.carry > 0 THEN Least(5 * c.carry, 15) ELSE 0
Score(c, d) ==
  Deadline(c, d) + Board(c) + Worn(c)
    + (IF c.linked THEN 12 ELSE IF c.hit THEN 6 ELSE 0) + (IF c.facing THEN 10 ELSE 0)
    + (IF c.source = "todo_inbox" THEN 20 ELSE 0) + Damping(c, d)

(* Equal scores are ordered by title; here the order of the pool stands    *)
(* for the order of the titles.                                            *)
Better(rows, m, n, d) == \/ Score(rows[m], d) > Score(rows[n], d)
                         \/ Score(rows[m], d) = Score(rows[n], d) /\ m < n
Ranked(rows, d) ==
  LET rank(n) == 1 + Cardinality({m \in DOMAIN rows : Better(rows, m, n, d)})
  IN  [k \in DOMAIN rows |-> rows[CHOOSE n \in DOMAIN rows : rank(n) = k]]
Leading(c, d) == Session(c, d) /\ c.title \notin covered
Elsewhere(c, d) == c.source = "weekly" /\ slots[c.title] # {} /\ d \notin slots[c.title]
InFixed(c) == c.source = "weekly" /\ c.title \in covered
FirstOf(s, n) == SubSeq(s, 1, Least(n, Len(s)))
(* The scheduled rows lead and are always kept; the rest fills what is     *)
(* left of TopN places.                                                    *)
Arranged(rows, d) ==
  LET lead == SelectSeq(rows, LAMBDA c : Leading(c, d))
      rest == SelectSeq(rows, LAMBDA c : ~Leading(c, d) /\ ~Elsewhere(c, d) /\ ~InFixed(c))
  IN  lead \o FirstOf(Ranked(rest, d), IF TopN > Len(lead) THEN TopN - Len(lead) ELSE 0)

Scored(opened, states, ls, d) ==
  LET left == SelectSeq(Anchored(Pool(opened, states, ls, d), ls, d), LAMBDA c : ~Off(c, d))
  IN  Arranged([n \in DOMAIN left |-> Carried(left[n])], d)

(***************************************************************************)
(* The cycle's lines follow Linear: a line is ticked when all it names is  *)
(* completed, and what was started and no line names is added to the group *)
(* of the work.                                                            *)
(***************************************************************************)
Ticked(ls, states) ==
  [g \in DOMAIN ls |-> [n \in DOMAIN ls[g] |->
     [ls[g][n] EXCEPT !.done = @ \/ (Names[ls[g][n].title] # {}
                                      /\ \A i \in Names[ls[g][n].title] : states[i] = "completed")]]]
Synced(ls, states) ==
  LET named == UNION {Names[l.title] : l \in Elems(Listed(ls))}
      news == SelectSeq(Issues, LAMBDA i : states[i] \in {"started", "review"} /\ i \notin named)
  IN  [Ticked(ls, states) EXCEPT ![Work] = @ \o [n \in DOMAIN news |-> [title |-> news[n], done |-> FALSE]]]

(***************************************************************************)
(* A run of the daily plan: Linear is asked first; when it has answered    *)
(* the captures and the cycle's lines are read, the lines are brought in   *)
(* step, and the rows are scored from what was read.                       *)
(***************************************************************************)
Fetch ==
  /\ fetched = NotFetched /\ fetched' = [on |-> day, issue |-> issue]
  /\ UNCHANGED <<day, issue, open, lines, slots, covered, done, gone, carried, plan, outing>>

Plan ==
  /\ fetched # NotFetched
  /\ lines' = Synced(lines, fetched.issue)
  /\ plan' = [on |-> fetched.on, rows |-> Scored(open, fetched.issue, lines, fetched.on)]
  /\ fetched' = NotFetched
  /\ UNCHANGED <<day, issue, open, slots, covered, done, gone, carried, outing>>

(***************************************************************************)
(* The sheet: a row is ticked, taken off or opened again; a capture goes   *)
(* with its row (syncTodoInboxFromPlanRow).                                *)
(***************************************************************************)
Others(entries, id) == {e \in entries : e.id # id}
Tick(id) ==
  /\ Spend("ticks") /\ done' = Others(done, id) \union {Entry(id, plan.on)}
  /\ open' = IF id[1] = "todo_inbox" THEN open \ {id[3]} ELSE open
  /\ UNCHANGED <<day, issue, lines, slots, covered, gone, carried, fetched, plan>>

TakeOff(id) ==
  /\ Spend("ticks") /\ gone' = gone \union {Entry(id, plan.on)}
  /\ open' = IF id[1] = "todo_inbox" THEN open \ {id[3]} ELSE open
  /\ UNCHANGED <<day, issue, lines, slots, covered, done, carried, fetched, plan>>

Again(id) ==
  /\ Spend("ticks") /\ (Others(done, id) # done \/ Entry(id, plan.on) \in gone)
  /\ done' = Others(done, id) /\ gone' = gone \ {Entry(id, plan.on)}
  /\ open' = IF id[1] = "todo_inbox" THEN open \union {id[3]} ELSE open
  /\ UNCHANGED <<day, issue, lines, slots, covered, carried, fetched, plan>>

(* The review of the day carries a row over to the next.                   *)
CarryOver(id) ==
  /\ Spend("ticks") /\ \A e \in carried : e.id = id => e.on # plan.on
  /\ LET before == {e.days : e \in {x \in carried : x.id = id /\ x.on = plan.on - 1}}
     IN  carried' = Others(carried, id) \union
                      {[id |-> id, on |-> plan.on, days |-> 1 + (IF before = {} THEN 0 ELSE CHOOSE n \in before : TRUE)]}
  /\ UNCHANGED <<day, issue, open, lines, slots, covered, done, gone, fetched, plan>>

OnSheet == {plan.rows[n].id : n \in DOMAIN plan.rows}
OnTheSheet == \E id \in OnSheet : Tick(id) \/ TakeOff(id) \/ Again(id) \/ CarryOver(id)

(* The schedule is edited, and a fixed row of the day takes a line in.     *)
Schedule ==
  /\ \E l \in Elems(Listed(lines)), d \in day..LastDay :
       slots' = [slots EXCEPT ![l.title] = IF d \in @ THEN @ \ {d} ELSE @ \union {d}]
  /\ Spend("edits") /\ UNCHANGED <<day, issue, open, lines, covered, done, gone, carried, fetched, plan>>
Cover ==
  /\ \E l \in Elems(Listed(lines)) : l.title \notin covered /\ covered' = covered \union {l.title}
  /\ Spend("edits") /\ UNCHANGED <<day, issue, open, lines, slots, done, gone, carried, fetched, plan>>

(* The world: an issue moves on, a capture is written, a day ends.         *)
Move ==
  /\ \E i \in Elems(Issues), s \in States : s # issue[i] /\ issue' = [issue EXCEPT ![i] = s]
  /\ Spend("moves") /\ UNCHANGED <<day, open, lines, slots, covered, done, gone, carried, fetched, plan>>
NextDay ==
  /\ day < LastDay /\ day' = day + 1
  /\ open' = open \union {c \in Elems(Captures) : Written[c] = day + 1}
  /\ UNCHANGED <<issue, lines, slots, covered, done, gone, carried, fetched, plan, outing>>

Next == Fetch \/ Plan \/ OnTheSheet \/ Schedule \/ Cover \/ Move \/ NextDay

Spec == Init /\ [][Next]_vars

(***************************************************************************)
(* Properties                                                              *)
(***************************************************************************)
(* The ledger speaks of days there were, and the plan of no more rows than *)
(* there are titles.                                                       *)
TypeOK ==
  /\ day \in 1..LastDay /\ issue \in [Elems(Issues) -> States] /\ open \subseteq Elems(Captures)
  /\ slots \in [Titles -> SUBSET (1..LastDay)] /\ covered \subseteq Titles
  /\ done \subseteq [id : Ids, on : 1..day] /\ gone \subseteq [id : Ids, on : 1..day]
  /\ \A e \in carried : e.id \in Ids /\ e.on \in 1..day /\ e.days \in 1..e.on
  /\ fetched.on \in 0..day /\ plan.on \in 0..day
  /\ OnSheet \subseteq Ids /\ Len(plan.rows) <= Cardinality(Titles)
  /\ outing \in Outing

(* A line of the cycle scheduled on a day leads the plan made for the day, *)
(* however many rows there are and whatever was ticked on other days,      *)
(* unless it was ticked or taken off that day, stands inside a fixed row   *)
(* or is the same thing as an issue or a capture (rankWithSchedule, and    *)
(* the sessions buildScoredTodos tells from the line).                     *)
Alone(t) == \A other \in Titles \ {t} : Names[t] \cap Names[other] = {} /\ {t, other} \notin Alike
PutsLinesFirst ==
  Plan => \A n \in DOMAIN Listed(lines) :
    LET t == Listed(lines)[n].title
        id == Id("weekly", n, t)
        d == plan'.on
    IN  (/\ ~Listed(lines)[n].done /\ d \in slots[t] /\ t \notin covered /\ Alone(t)
         /\ t \notin Elems(Issues) /\ Entry(id, d) \notin done \union gone)
        => \E k \in DOMAIN plan'.rows :
             /\ plan'.rows[k].id = id
             /\ \A m \in 1..k : plan'.rows[m].source = "weekly"
LinesLead == [][PutsLinesFirst]_vars

(* A thing jotted down on the day, with nothing that makes it urgent,      *)
(* never stands above one that is already late - on a rest day either      *)
(* (scorer-config.ts: "something jotted this morning should reach the      *)
(* shortlist, not outrank a delivery that is already late").               *)
LateFirst ==
  \A m, n \in DOMAIN plan.rows :
    LET jotted == plan.rows[m]
        late == plan.rows[n]
    IN  (/\ jotted.source = "todo_inbox" /\ jotted.carry = 0 /\ jotted.due = Never
         /\ ~jotted.linked /\ ~jotted.facing /\ ~jotted.hit
         /\ late.due # Never /\ late.due < plan.on) => n < m

(* The plan of a run proposes no line of the cycle that the same run found *)
(* done in Linear (run-workflow.ts: "done issues ticked, started ones      *)
(* added - before scoring, so today's plan reads the updated 要务").        *)
ReadsSynced ==
  Plan => \A n \in DOMAIN Listed(lines) :
    LET t == Listed(lines)[n].title
    IN  (Names[t] # {} /\ \A i \in Names[t] : fetched.issue[i] = "completed")
        => Id("weekly", n, t) \notin {plan'.rows[k].id : k \in DOMAIN plan'.rows}
PlanReadsSynced == [][ReadsSynced]_vars
=============================================================================
