------------------------------ MODULE Migration ------------------------------
(***************************************************************************)
(* The migration of the history into the cycle files (scripts/             *)
(* migrate-cycles.ts, cycles/migration.ts).  The records of the planning   *)
(* runs tell the priorities of the cycle they planned and the review of    *)
(* the one before it; the tables of a document tell the retros, and below  *)
(* a marker in a retro cell the review once more.  A pass reads the        *)
(* records, waits for the document, plans every cycle and brings one file  *)
(* after the other up to date; the user writes into cells and files        *)
(* meanwhile, and passes are repeated.                                     *)
(***************************************************************************)
EXTENDS Naturals, Sequences, FiniteSets

CONSTANTS
  LastCycle,  \* cycles are 1..LastCycle, the newest last
  Tables,     \* the tables of the document: [owner, columns, named]
  Rows,       \* the OKR rows a priority can be meant for
  Records,    \* what a run can leave: [target, review, items, text]
  Loads       \* bounds: sets of records [runs, words, edits, passes]

VARIABLES
  records, \* the records of the runs, the last to change last
  cells,   \* the retro cells: [words, review], by table and column
  docs,    \* the cycle files of the vault ("self") and of the export ("partner")
  torn,    \* the files whose front matter does not parse
  pass,    \* the pass under way
  same,    \* records, cells and files are as the last full pass left them
  load

vars == <<records, cells, docs, torn, pass, same, load>>

Cycles == 1..LastCycle
Owners == {"self", "partner"}
Sections == {"priorities", "retro", "review"}
Nothing == [kind |-> "none"]
NoSection == [content |-> Nothing, source |-> "unknown", draft |-> Nothing, there |-> FALSE]
Blank == [s \in Sections |-> NoSection]
Idle == [pc |-> "idle", records |-> <<>>, plans |-> {}]

Spend(what) == load[what] > 0 /\ load' = [load EXCEPT ![what] = @ - 1]

(***************************************************************************)
(* The records                                                             *)
(***************************************************************************)
Largest(S) == CHOOSE i \in S : \A j \in S : j <= i
Smallest(S) == CHOOSE i \in S : \A j \in S : i <= j

(* Mutant of LastAbout: the review belongs to the cycle the run planned.   *)
LastAboutTarget(rs, c) ==
  LET S == {i \in 1..Len(rs) : rs[i].text /\ rs[i].target = c}
  IN IF S = {} THEN 0 ELSE Largest(S)

(* latestRunByKey by the planned and by the reviewed cycle; 0 for none.    *)
LastFor(rs, c) == LET S == {i \in 1..Len(rs) : rs[i].target = c} IN IF S = {} THEN 0 ELSE Largest(S)
LastAbout(rs, c) ==
  LET S == {i \in 1..Len(rs) : rs[i].text /\ rs[i].review = c}
  IN IF S = {} THEN 0 ELSE Largest(S)

(* renderPrioritiesFromRun: each row that has a name, with its items or    *)
(* none, in order; then the items whose row has no name, row by row.       *)
Rendered(items, named) ==
  LET under(r) == SelectSeq(items, LAMBDA i : i.row = r)
      blocks == [r \in 1..Rows |->
                   IF r \in named THEN <<[heading |-> r, lines |-> under(r)]>> ELSE <<>>]
      rest == SelectSeq(items, LAMBDA i : i.row \notin named)
      firsts == SelectSeq([i \in 1..Len(rest) |-> i], LAMBDA i : \A j \in 1..(i - 1) : rest[j].row # rest[i].row)
      upto[n \in 0..Rows] == IF n = 0 THEN <<>> ELSE upto[n - 1] \o blocks[n]
  IN IF items = <<>> THEN <<>>
     ELSE upto[Rows] \o [k \in 1..Len(firsts) |-> [heading |-> rest[firsts[k]].row,
                                                     lines |-> SelectSeq(rest, LAMBDA i : i.row = rest[firsts[k]].row)]]

(***************************************************************************)
(* The tables                                                              *)
(***************************************************************************)
(* detectTableLayout, by the headers alone: the side is that of the first  *)
(* retro and the first header that says 要务.                              *)
RetroFirst(t) ==
  LET retros == {k \in DOMAIN t.columns : t.columns[k].kind = "retro"}
      tasks == {k \in DOMAIN t.columns : t.columns[k].kind = "task" /\ t.columns[k].suffix}
  IN retros # {} /\ tasks # {} /\ Smallest(retros) < Smallest(tasks)

(* findCycleColumns; 0 for none.                                           *)
TaskColumn(t, c) ==
  LET S == {k \in DOMAIN t.columns : t.columns[k].kind = "task" /\ t.columns[k].of = c}
  IN IF S = {} THEN 0 ELSE Smallest(S)

RetroColumn(t, c) ==
  LET k == TaskColumn(t, c)
      beside == IF k = 0 THEN 0 ELSE IF RetroFirst(t) THEN k - 1 ELSE k + 1
  IN IF beside \in DOMAIN t.columns /\ t.columns[beside].kind = "retro" THEN beside ELSE 0

TablesOf(o) == {i \in DOMAIN Tables : Tables[i].owner = o}
Located(o, c) ==
  LET S == {i \in TablesOf(o) : TaskColumn(Tables[i], c) # 0} IN IF S = {} THEN 0 ELSE Smallest(S)

(* splitRetroAndReview: what stands above the marker and what below.       *)
CellOf(seen, i, c) ==
  IF i = 0 \/ RetroColumn(Tables[i], c) = 0 THEN [words |-> 0, review |-> 0]
  ELSE seen[<<i, RetroColumn(Tables[i], c)>>]

(* Mutant of RetroIn: the cell is taken as it stands.                      *)
RetroInWhole(cell, k) ==
  IF cell.words = 0 THEN Nothing ELSE [kind |-> "words", of |-> k, n |-> cell.words, with |-> cell.review]

RetroIn(cell, k) == IF cell.words = 0 THEN Nothing ELSE [kind |-> "words", of |-> k, n |-> cell.words, with |-> 0]
ReviewIn(cell) == IF cell.review = 0 THEN Nothing ELSE [kind |-> "review", run |-> cell.review]

(***************************************************************************)
(* The plans                                                               *)
(***************************************************************************)
(* The owner of a column's words is what the column is for; the code sees  *)
(* only where it stands.                                                   *)
Meant(i, c) == IF i = 0 \/ RetroColumn(Tables[i], c) = 0 THEN 0 ELSE Tables[i].columns[RetroColumn(Tables[i], c)].of

Filled(f) == {s \in Sections : f[s] # Nothing}

(* planSelfCycles                                                          *)
SelfPlan(rs, seen, c) ==
  LET i == Located("self", c)
      run == LastFor(rs, c)
      about == LastAbout(rs, c)
      chunks == Rendered(rs[run].items, IF i = 0 THEN {} ELSE Tables[i].named)
  IN [owner |-> "self", cycle |-> c,
      sections |-> [priorities |-> IF run = 0 \/ chunks = <<>> THEN Nothing
                                   ELSE [kind |-> "priorities", run |-> run, chunks |-> chunks],
                    retro |-> RetroIn(CellOf(seen, i, c), Meant(i, c)),
                    review |-> IF about = 0 THEN Nothing ELSE [kind |-> "review", run |-> about]]]
SelfPlans(rs, seen) ==
  {SelfPlan(rs, seen, c) : c \in {d \in Cycles : LastFor(rs, d) # 0 \/ LastAbout(rs, d) # 0}}

(* renderPrioritiesFromTable                                               *)
ColumnText(i) == IF Tables[i].empty THEN Nothing ELSE [kind |-> "column", table |-> i]

(* planPartnerCycles: the first table that has anything for the cycle.     *)
PartnerPlan(seen, i, c) ==
  [owner |-> "partner", cycle |-> c,
   sections |-> [priorities |-> ColumnText(i),
                 retro |-> RetroIn(CellOf(seen, i, c), Meant(i, c)),
                 review |-> ReviewIn(CellOf(seen, i, c))]]
PartnerPlans(seen) ==
  {LET S == {i \in TablesOf("partner") : /\ TaskColumn(Tables[i], c) # 0
                                         /\ Filled(PartnerPlan(seen, i, c).sections) # {}}
   IN PartnerPlan(seen, Smallest(S), c) :
     c \in {d \in Cycles : \E i \in TablesOf("partner") :
                             TaskColumn(Tables[i], d) # 0 /\ Filled(PartnerPlan(seen, i, d).sections) # {}}}

(* planCycles: what would be empty is not planned.                         *)
PlansOf(rs, seen) == {p \in SelfPlans(rs, seen) \union PartnerPlans(seen) : Filled(p.sections) # {}}

(***************************************************************************)
(* The files                                                               *)
(***************************************************************************)
SourceFor(s) == CASE s = "retro" -> "user" [] s = "review" -> "ai" [] OTHER -> "planner"

(* Mutant of Kept: a review that is there is not looked at.                *)
KeptOwn(s, stored) == stored.source = "user"

(* What a pass may not replace: the user's own, and a review that is there. *)
Kept(s, stored) == stored.source = "user" \/ (s = "review" /\ stored.content # Nothing)

(* applyCyclePlan, for one section.                                        *)
Merged(s, stored, content) ==
  CASE stored.there /\ Kept(s, stored) /\ stored.content # content ->
         [stored EXCEPT !.draft = content]
    [] stored.there /\ stored.content = content -> stored
    [] OTHER -> [content |-> content, source |-> SourceFor(s), draft |-> Nothing, there |-> TRUE]
Applied(p, doc) ==
  [s \in Sections |-> IF s \in Filled(p.sections) THEN Merged(s, doc[s], p.sections[s]) ELSE doc[s]]

Init ==
  /\ records = <<>> /\ torn = {} /\ pass = Idle /\ same = FALSE
  /\ cells = [at \in {x \in (DOMAIN Tables) \X (1..4) :
                        x[2] \in DOMAIN Tables[x[1]].columns /\ Tables[x[1]].columns[x[2]].kind = "retro"}
                |-> [words |-> 0, review |-> 0]]
  /\ docs = [o \in Owners |-> [c \in Cycles |-> Blank]]
  /\ load \in Loads

(***************************************************************************)
(* What comes from outside                                                 *)
(***************************************************************************)
(* A run of the planner; it appends its review below the marker of the     *)
(* cycle it is about, if that has a cell.                                  *)
PlannerRuns ==
  \E r \in Records, also \in BOOLEAN :
    /\ Spend("runs") /\ records' = Append(records, r) /\ same' = FALSE
    /\ cells' = LET i == Located("self", r.review) IN
         IF also /\ r.text /\ i # 0 /\ RetroColumn(Tables[i], r.review) # 0
         THEN [cells EXCEPT ![<<i, RetroColumn(Tables[i], r.review)>>].review = Len(records) + 1] ELSE cells
    /\ UNCHANGED <<docs, torn, pass>>

WritesRetro ==
  \E at \in DOMAIN cells :
    /\ Spend("words") /\ cells' = [cells EXCEPT ![at].words = @ + 1] /\ same' = FALSE
    /\ UNCHANGED <<records, docs, torn, pass>>

(* saveCycleSection: whatever the user types is his, an empty text too.    *)
Edits ==
  \E c \in Cycles, s \in Sections, text \in {Nothing, [kind |-> "own", left |-> load.edits]} :
    /\ Spend("edits") /\ c \notin torn /\ same' = FALSE
    /\ docs' = [docs EXCEPT !.self[c][s] = [content |-> text, source |-> "user", draft |-> Nothing, there |-> TRUE]]
    /\ UNCHANGED <<records, cells, torn, pass>>

(* resolveCycleDraft                                                       *)
Accepts ==
  \E c \in Cycles, s \in Sections :
    LET stored == docs.self[c][s] IN
    /\ stored.draft # Nothing /\ c \notin torn /\ same' = FALSE
    /\ docs' = [docs EXCEPT !.self[c][s] = [content |-> stored.draft, source |-> SourceFor(s), draft |-> Nothing, there |-> TRUE]]
    /\ UNCHANGED <<records, cells, torn, pass, load>>

Discards ==
  \E c \in Cycles, s \in Sections :
    /\ docs.self[c][s].draft # Nothing /\ c \notin torn /\ same' = FALSE
    /\ docs' = [docs EXCEPT !.self[c][s].draft = Nothing]
    /\ UNCHANGED <<records, cells, torn, pass, load>>

Tears ==
  \E c \in Cycles :
    /\ Spend("edits") /\ torn' = torn \union {c} /\ same' = FALSE
    /\ UNCHANGED <<records, cells, docs, pass>>

(***************************************************************************)
(* A pass                                                                  *)
(***************************************************************************)
(* loadRuns: without records there is no pass.                             *)
Start ==
  /\ pass = Idle /\ records # <<>> /\ Spend("passes")
  /\ pass' = [pc |-> "document", records |-> records, plans |-> {}]
  /\ same' = TRUE /\ UNCHANGED <<records, cells, docs, torn>>

(* The document is there, or is not.                                       *)
Plan ==
  /\ pass.pc = "document"
  /\ \/ pass' = [pass EXCEPT !.pc = "files", !.plans = PlansOf(pass.records, cells)] /\ UNCHANGED same
     \/ pass' = Idle /\ same' = FALSE
  /\ UNCHANGED <<records, cells, docs, torn, load>>

(* One file after the other, this machine's first, the newest first; one   *)
(* that cannot be read is left as it is.                                   *)
Before(p, q) == IF p.owner = q.owner THEN p.cycle > q.cycle ELSE p.owner = "self"
Put ==
  /\ pass.pc = "files" /\ pass.plans # {}
  /\ LET p == CHOOSE q \in pass.plans : \A r \in pass.plans \ {q} : Before(q, r)
         readable == ~(p.owner = "self" /\ p.cycle \in torn) IN
     /\ docs' = IF readable THEN [docs EXCEPT ![p.owner][p.cycle] = Applied(p, @)] ELSE docs
     /\ pass' = [pass EXCEPT !.plans = @ \ {p}]
     /\ same' = (same /\ readable)
  /\ UNCHANGED <<records, cells, torn, load>>

End ==
  /\ pass.pc = "files" /\ pass.plans = {}
  /\ pass' = Idle /\ UNCHANGED <<records, cells, docs, torn, same, load>>

Next == PlannerRuns \/ WritesRetro \/ Edits \/ Accepts \/ Discards \/ Tears \/ Start \/ Plan \/ Put \/ End
Spec == Init /\ [][Next]_vars

TypeOK ==
  /\ records \in Seq(Records) /\ torn \subseteq Cycles /\ same \in BOOLEAN
  /\ pass.pc \in {"idle", "document", "files"}
  /\ \A o \in Owners, c \in Cycles, s \in Sections :
       docs[o][c][s].source \in {"user", "planner", "ai", "unknown"} /\ docs[o][c][s].there \in BOOLEAN

(* A pass replaces neither the user's words nor a review that is there,    *)
(* though the user writes while it waits for the document.                 *)
KeepsWords ==
  \A o \in Owners, c \in Cycles, s \in Sections :
    LET stored == docs[o][c][s] IN
    pass.pc = "files" /\ pass'.plans # pass.plans /\ stored.there
      /\ (stored.source = "user" \/ (s = "review" /\ stored.content # Nothing))
    => docs'[o][c][s].content = stored.content

(* After a pass that nothing disturbed a second one has nothing to write.  *)
SecondPassRests ==
  pass = Idle /\ same => \A p \in PlansOf(records, cells) : Applied(p, docs[p.owner][p.cycle]) = docs[p.owner][p.cycle]

(* Every text stands under the cycle it is about, in its body or as a      *)
(* draft, and in one section only.                                         *)
FiledRight ==
  \A c \in Cycles, s \in Sections : \A text \in {docs.self[c][s].content, docs.self[c][s].draft} :
    CASE text.kind = "priorities" -> s = "priorities" /\ records[text.run].target = c
      [] text.kind = "review" -> s = "review" /\ records[text.run].review = c
      [] text.kind = "words" -> s = "retro" /\ text.of = c /\ text.with = 0
      [] OTHER -> TRUE

(* No item of a run is lost or doubled in what is rendered of it.          *)
RendersAll ==
  \A c \in Cycles : LET text == docs.self[c].priorities.content IN
    text.kind = "priorities" =>
      \A i \in {records[text.run].items[k] : k \in 1..Len(records[text.run].items)} :
        /\ Cardinality({k \in DOMAIN text.chunks : \E j \in DOMAIN text.chunks[k].lines : text.chunks[k].lines[j] = i}) = 1
        /\ \A k \in DOMAIN text.chunks : text.chunks[k].heading = i.row =>
             \E j \in DOMAIN text.chunks[k].lines : text.chunks[k].lines[j] = i
=============================================================================
