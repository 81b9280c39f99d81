----------------------------- MODULE DayArchive -----------------------------
(***************************************************************************)
(* Where the output of a workflow is kept (storage/memory.ts): the page of *)
(* its day, which only grows; the pointer, which holds the last output of  *)
(* any workflow; the cache of single outputs, which is pruned after some   *)
(* days.  The sheet of a day is read from the pointer or the cache, a past *)
(* day from all three (todo/day-history.ts).  A run saves its output in    *)
(* three steps; the process may die between them, and the service and the  *)
(* console do so side by side.                                             *)
(*                                                                         *)
(* `torn' has the days whose plan was saved by a run that died half way or *)
(* beside another step on the same day.                                    *)
(***************************************************************************)
EXTENDS Naturals, Sequences, FiniteSets

CONSTANTS
  Rows,       \* the rows a plan may hold
  Planned,    \* the sets of rows a run comes up with
  LastDay,    \* bound: the days
  Kept,       \* how many days the cache keeps an output
  Loads       \* bounds: how often each thing happens, of which workflows, how many runs at once,
              \* and whether the first day was saved with a broken rerun

VARIABLES day, pages, pointer, cache, saves, carried, clock, torn, load

vars == <<day, pages, pointer, cache, saves, carried, clock, torn, load>>

Days == 1..LastDay
Flows == {"daily_plan", "daily_review", "weekly_review"}
None == [form |-> "none"]

Content(form, by, rows, finished, carry) ==
  [form |-> form, by |-> by, rows |-> rows, finished |-> finished, carry |-> carry]
Prose(by) == Content("text", by, {}, {}, {})
Broken(by) == Content("broken", by, {}, {}, {})
PlanOf(by, rows) == Content("rows", by, rows, {}, {})

Empty == [flow |-> "none", of |-> 0, content |-> None]
Spend(what) == load[what] > 0 /\ load' = [load EXCEPT ![what] = @ - 1]

(***************************************************************************)
(* Reading                                                                 *)
(***************************************************************************)

(* JSON that does not parse cannot be read, anything else can.             *)
Readable(content) == content.form # "broken"

Cached(d) == {r \in cache : r.flow = "daily_plan" /\ r.of = d}
Newest(S) == CHOOSE r \in S : \A o \in S : o.made <= r.made

(* The sheet of day d: what the pointer holds if that is a plan of d, else *)
(* the newest plan of d in the cache.                                      *)
SheetOf(d) ==
  IF pointer.flow = "daily_plan" /\ pointer.of = d THEN pointer.content
  ELSE IF Cached(d) # {} THEN Newest(Cached(d)).content ELSE None

Sections(d, flow) == SelectSeq(pages[d], LAMBDA s : s.flow = flow)
LastOf(seq) == seq[Len(seq)]

(* The newest version of the plan of day d that can be read: the sheet,    *)
(* the cache, the sections of the page from the last one back.             *)
HistoryOf(d) ==
  LET sheet == SheetOf(d)
      stored == {r \in Cached(d) : Readable(r.content)}
      plans == Sections(d, "daily_plan")
      legible == SelectSeq(plans, LAMBDA s : Readable(s.content))
  IN  IF sheet # None /\ Readable(sheet) THEN sheet
      ELSE IF stored # {} THEN Newest(stored).content
      ELSE IF legible # <<>> THEN LastOf(legible).content
      ELSE IF sheet # None THEN sheet
      ELSE IF plans # <<>> THEN LastOf(plans).content ELSE None

(* A review is one if it reconciles some row.                              *)
Reconciles(content) == content.form = "recon" /\ content.rows # {}

(***************************************************************************)
(* A run that saves                                                        *)
(***************************************************************************)
Midway(job, d) == job.left \in {"pointer", "cache"} /\ job.flow = "daily_plan" /\ job.of = d
Disturbed(jobs) == {d \in Days : \E other \in jobs : Midway(other, d)}

(* What a run of a workflow comes up with, read from the sheet of the day  *)
(* when it reviews: a plan, prose, or each row of the sheet finished or    *)
(* not and carried or not.                                                 *)
Outputs(flow, by) ==
  {Prose(by)} \cup
  CASE flow = "daily_plan" -> {PlanOf(by, rows) : rows \in Planned}
    [] flow = "daily_review" /\ SheetOf(day).form = "rows" ->
         LET rows == SheetOf(day).rows
         IN  {Content("recon", by, rows, finished, carry) : finished \in SUBSET rows, carry \in SUBSET rows}
    [] OTHER -> {}

Begin(flow) ==
  /\ flow \in load.flows /\ Cardinality(saves) < load.beside /\ Spend("runs")
  /\ \E output \in Outputs(flow, load.runs) :
       saves' = saves \cup {[left |-> "page", flow |-> flow, of |-> day, content |-> output]}
  /\ UNCHANGED <<day, pages, pointer, cache, carried, clock, torn>>

AppendToPage(d, flow, content) ==
  pages' = [pages EXCEPT ![d] = Append(@, [flow |-> flow, content |-> content])]

Proceeds(job, next) ==
  /\ saves' = (saves \ {job}) \cup next
  /\ torn' = torn \cup Disturbed(saves \ {job})

SavePage(job) ==
  /\ job.left = "page"
  /\ AppendToPage(job.of, job.flow, job.content)
  /\ Proceeds(job, {[job EXCEPT !.left = "pointer"]})
  /\ UNCHANGED <<day, pointer, cache, carried, clock, load>>

SavePointer(job) ==
  /\ job.left = "pointer"
  /\ pointer' = [flow |-> job.flow, of |-> job.of, content |-> job.content]
  /\ Proceeds(job, {[job EXCEPT !.left = "cache"]})
  /\ UNCHANGED <<day, pages, cache, carried, clock, load>>

(* What was written more than Kept days ago goes; of what was written Kept *)
(* days ago, what is older than some hour.                                 *)
Pruned(records) ==
  {{r \in records : r.written + Kept > day \/ (r.written + Kept = day /\ r.made >= hour)} : hour \in 1..clock}

SaveCache(job) ==
  /\ job.left = "cache"
  /\ clock' = clock + 1
  /\ LET record == [flow |-> job.flow, of |-> job.of, content |-> job.content, made |-> clock, written |-> day]
     IN  cache' \in Pruned(cache \cup {record})
  /\ Proceeds(job, {})
  /\ UNCHANGED <<day, pages, pointer, carried, load>>

(* The process dies before or between the steps.                           *)
Die(job) ==
  /\ Spend("deaths")
  /\ torn' = torn \cup Disturbed({job})
  /\ saves' = saves \ {job}
  /\ UNCHANGED <<day, pages, pointer, cache, carried, clock>>

(***************************************************************************)
(* The user                                                                *)
(***************************************************************************)

(* Mutant of Rewrite: only the pointer is written.                         *)
RewritePointer(d, content) ==
  /\ pointer' = IF pointer.flow = "daily_plan" /\ pointer.of = d
                THEN [pointer EXCEPT !.content = content] ELSE pointer
  /\ cache' = cache

(* The content of the plan of day d is replaced where it is read from.     *)
Rewrite(d, content) ==
  /\ pointer' = IF pointer.flow = "daily_plan" /\ pointer.of = d
                THEN [pointer EXCEPT !.content = content] ELSE pointer
  /\ cache' = IF Cached(d) = {} THEN cache
              ELSE LET r == Newest(Cached(d))
                   IN  (cache \ {r}) \cup {[r EXCEPT !.content = content, !.written = day]}

(* A row is added to the plan of the day, if there is one that parses.     *)
AddRow(row) ==
  /\ Spend("adds")
  /\ SheetOf(day).form = "rows" /\ row \notin SheetOf(day).rows
  /\ Rewrite(day, [SheetOf(day) EXCEPT !.rows = @ \cup {row}])
  /\ torn' = torn \cup Disturbed(saves)
  /\ UNCHANGED <<day, pages, saves, carried, clock>>

(* What the user says of an output is noted on the page under its heading. *)
Note(flow) ==
  /\ Spend("notes")
  /\ AppendToPage(day, flow, Prose(0))
  /\ UNCHANGED <<day, pointer, cache, saves, carried, clock, torn>>

(* The plan is confirmed; a revision of the plan or the review is asked    *)
(* for.                                                                    *)
ConfirmTodo == Note("daily_plan")
Revise == \E flow \in {"daily_plan", "daily_review"} : Note(flow)

(* The rows a review carries: those it proposes and does not call done.    *)
CarriedBy(review) == review.carry \ review.finished

(* Rows are entered once a day into the ledger.                            *)
RecordCarryOver(d, rows) ==
  LET pending == {row \in rows : \A i \in DOMAIN carried : carried[i] # [of |-> d, row |-> row]}
  IN  \E order \in [1..Cardinality(pending) -> pending] :
        /\ {order[i] : i \in DOMAIN order} = pending
        /\ carried' = carried \o [i \in DOMAIN order |-> [of |-> d, row |-> order[i]]]

(* What the pointer holds counts if it is the review of today.             *)
OpenInReview ==
  IF pointer.flow = "daily_review" /\ pointer.of = day /\ Reconciles(pointer.content)
  THEN CarriedBy(pointer.content) ELSE {}

(* The review is confirmed, or its open rows are to be carried.            *)
ConfirmReview ==
  /\ Spend("presses")
  /\ AppendToPage(day, "daily_review", Prose(0))
  /\ RecordCarryOver(day, OpenInReview)
  /\ UNCHANGED <<day, pointer, cache, saves, clock, torn>>

NextDay ==
  /\ day < LastDay /\ day' = day + 1
  /\ UNCHANGED <<pages, pointer, cache, saves, carried, clock, torn, load>>

Init ==
  /\ day = 1 /\ load \in Loads /\ torn = {} /\ carried = <<>>
  /\ saves = {}
  /\ \/ ~load.spoiled /\ pages = [d \in Days |-> <<>>] /\ pointer = Empty /\ cache = {} /\ clock = 1
     \* a day that was saved before broken reruns were refused
     \/ \E rows \in Planned : load.spoiled /\
          LET good == [flow |-> "daily_plan", of |-> 1, content |-> PlanOf(9, rows), made |-> 1, written |-> 1]
              bad == [good EXCEPT !.content = Broken(8), !.made = 2]
          IN  /\ pages = [d \in Days |-> IF d = 1 THEN <<[flow |-> "daily_plan", content |-> good.content],
                                                          [flow |-> "daily_plan", content |-> bad.content]>>
                                         ELSE <<>>]
              /\ pointer = [flow |-> "daily_plan", of |-> 1, content |-> bad.content]
              /\ cache = {good, bad} /\ clock = 3

Next ==
  \/ \E flow \in Flows : Begin(flow)
  \/ \E job \in saves : SavePage(job) \/ SavePointer(job) \/ SaveCache(job) \/ Die(job)
  \/ \E row \in Rows : AddRow(row)
  \/ ConfirmTodo \/ Revise \/ ConfirmReview \/ NextDay

Spec == Init /\ [][Next]_vars

(***************************************************************************)
(* Properties                                                              *)
(***************************************************************************)
Forms == {"rows", "recon", "text", "broken"}
Outcome == [form : Forms, by : 0..9, rows : SUBSET Rows, finished : SUBSET Rows, carry : SUBSET Rows]

TypeOK ==
  /\ day \in Days /\ clock \in Nat /\ torn \subseteq Days
  /\ pages \in [Days -> Seq([flow : Flows, content : Outcome])]
  /\ pointer \in [flow : Flows, of : Days, content : Outcome] \cup {Empty}
  /\ cache \subseteq [flow : Flows, of : Days, content : Outcome, made : Nat, written : Days]
  /\ saves \subseteq [left : {"page", "pointer", "cache"}, flow : Flows, of : Days, content : Outcome]
  /\ carried \in Seq([of : Days, row : Rows])

(* The run that takes this step saves a plan of day d.                     *)
Saving(d) == \E job \in saves \ saves' : job.flow = "daily_plan" /\ job.of = d

Noted(d) == \E i \in DOMAIN pages[d] : pages[d][i] = [flow |-> "daily_plan", content |-> Prose(0)]

(* The sheet of a day stays while the cache keeps it, whatever other       *)
(* workflow finishes: only a run of that day brings another plan, and the  *)
(* rows added to it stay (storage/memory.ts:105, 154).                     *)
KeepsSheet ==
  \A d \in Days \ torn' :
    d + Kept > day' /\ SheetOf(d) # None =>
      /\ SheetOf(d)' # None
      /\ SheetOf(d)'.by = SheetOf(d).by => SheetOf(d).rows \subseteq SheetOf(d)'.rows
      /\ SheetOf(d)'.by # SheetOf(d).by => Saving(d)

(* A day that could be read reads as the same plan after the cache was     *)
(* pruned, unless a note stands under the heading of the plan: a broken    *)
(* rerun does not take its place (todo/day-history.ts:124-138).            *)
KeepsHistory ==
  \A d \in Days \ torn' :
    HistoryOf(d).form = "rows" /\ ~Noted(d)' /\ HistoryOf(d)'.by # HistoryOf(d).by => Saving(d)

(* A row is carried once a day, and a review of that day proposed it       *)
(* without calling it done (todo/feedback.ts:192-198, summary.ts:212).     *)
CarryHonest ==
  /\ \A i, j \in DOMAIN carried : carried[i] = carried[j] => i = j
  /\ \A i \in DOMAIN carried :
       \E k \in DOMAIN pages[carried[i].of] :
         LET section == pages[carried[i].of][k]
         IN  section.flow = "daily_review" /\ carried[i].row \in section.content.carry \ section.content.finished

(* A past day shows what its page showed at its end (day-history.ts:8,     *)
(* today-plan.ts:132).                                                     *)
PastAsItEnded == \A d \in Days \ torn' : d < day /\ ~Saving(d) => HistoryOf(d)' = HistoryOf(d)
=============================================================================
