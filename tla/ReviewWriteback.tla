-------------------------- MODULE ReviewWriteback --------------------------
(***************************************************************************)
(* How the draft of a weekly review gets into the shared table: a run of   *)
(* the skill stores its draft and sends a card; a press asks for a         *)
(* preview, a press on the preview has the priorities written and another  *)
(* one the retro review, and the same two steps can be typed               *)
(* (skills/life-review-os.ts, skills/runner.ts, feishu-interaction.ts,     *)
(* daily-os-command.ts).  What is written is decided by the CLI of         *)
(* life-review-os, which keeps the drafts and is not part of this code: it *)
(* overwrites nothing, writes nothing twice and may be killed.             *)
(*                                                                         *)
(* A draft is known by its place in the order of the runs.                 *)
(***************************************************************************)
EXTENDS Integers, Sequences, FiniteSets

LOCAL INSTANCE FiniteSetsExt

CONSTANTS
  Weeks,     \* cycles of the table
  Kept,      \* how many runs _skill-runs.json keeps
  MaxDrafts, \* bound
  Endings,   \* bound: the drafts a run may end with
  Efforts    \* bounds: how often the rest happens, and the config.yaml there is

Nothing == 0
ByHand == -1
Things == {"tasks", "review"}
(* The modes the CLI runs, and one that an agent runs from the pack.       *)
Modes == {"weekly", "biweekly", "quarterly"}
Drafts == [mode : Modes, week : Weeks, ready : BOOLEAN, review : BOOLEAN]
Effort == [confirms : Nat, switches : Nat, hands : Nat, years : Nat, filled : Seq(BOOLEAN)]

VARIABLES
  drafts,    \* the drafts so far, the newest last
  stored,    \* the ones in _skill-runs.json
  enabled,   \* skills.feishu_writeback
  docs,      \* documents.weekly of the CLI's config.yaml: the year of each, and whether it is filled in
  year,
  previews,  \* the preview cards: the draft of each
  told,      \* the draft the last typed preview showed, of each thing
  calls,     \* the calls of the CLI under way
  table,     \* what stands in the two columns of each cycle
  confirmed, \* what was confirmed: [what, draft, by, shown, enabled]
  effort

vars == <<drafts, stored, enabled, docs, year, previews, told, calls, table, confirmed, effort>>
fixed == <<docs, year>>

Call == [what : Things, draft : 1..MaxDrafts]
Confirmation == [what : Things, draft : 1..MaxDrafts, by : {"card", "text"}, shown : BOOLEAN, enabled : BOOLEAN]

Empty == [pair |-> FALSE, tasks |-> Nothing, review |-> Nothing]
Init ==
  /\ drafts = <<>> /\ stored = {} /\ enabled \in BOOLEAN /\ year = 1
  /\ effort \in Efforts /\ docs = [i \in DOMAIN effort.filled |-> [year |-> i, filled |-> effort.filled[i]]]
  /\ previews = {} /\ told = [what \in Things |-> Nothing] /\ calls = {} /\ table = [w \in Weeks |-> Empty]
  /\ confirmed = {}

Spend(what) == effort[what] > 0 /\ effort' = [effort EXCEPT ![what] = @ - 1]

(***************************************************************************)
(* checkLifeReviewOsConfig: the document of this year, else the first.     *)
(* requireLifeReviewOsCli asks it before every call.                       *)
(***************************************************************************)
OfYear == {i \in DOMAIN docs : docs[i].year = year}
ConfigFilled == docs[IF OfYear = {} THEN 1 ELSE Min(OfYear)].filled

ByCli(d) == drafts[d].mode # "quarterly"

(***************************************************************************)
(* recordLatestSkillRun keeps the newest runs; readLatestSkillRun returns  *)
(* the newest of a mode.                                                   *)
(***************************************************************************)
Newest(n, ids) == {d \in ids : Cardinality({e \in ids : e > d}) < n}
OfMode(modes) == {d \in stored : drafts[d].mode \in modes}
LatestOf(modes) == IF OfMode(modes) = {} THEN Nothing ELSE Max(OfMode(modes))

(* Which draft the typed commands are about: the newest one of any mode;   *)
(* for the review the newest biweekly one, else the newest weekly one.     *)
Meant(what) ==
  IF what = "tasks" THEN LatestOf(Modes)
  ELSE IF LatestOf({"biweekly"}) # Nothing THEN LatestOf({"biweekly"}) ELSE LatestOf({"weekly"})

(***************************************************************************)
(* A run ends: its draft is stored and its card is sent.                   *)
(***************************************************************************)
RunEnds(d) ==
  /\ Len(drafts) < MaxDrafts /\ (d.mode # "quarterly" => ConfigFilled)
  /\ drafts' = Append(drafts, d) /\ stored' = Newest(Kept, stored \union {Len(drafts) + 1})
  /\ UNCHANGED <<enabled, fixed, previews, told, calls, table, confirmed, effort>>

(***************************************************************************)
(* prepareLifeReviewOsWriteback: off by default, and only what can be      *)
(* filed under the rows of the table whole.                                *)
(***************************************************************************)
Prepares(d) == enabled /\ ConfigFilled /\ ByCli(d) /\ drafts[d].ready

PressPrepare(d) ==
  /\ d \in DOMAIN drafts /\ Prepares(d) /\ previews' = previews \union {d}
  /\ UNCHANGED <<drafts, stored, enabled, fixed, told, calls, table, confirmed, effort>>

TypePreview(what) ==
  /\ Meant(what) # Nothing /\ Prepares(Meant(what)) /\ (what = "review" => drafts[Meant(what)].review)
  /\ told' = [told EXCEPT ![what] = Meant(what)]
  /\ UNCHANGED <<drafts, stored, enabled, fixed, previews, calls, table, confirmed, effort>>

(***************************************************************************)
(* executeLifeReviewOsWriteback, executeLifeReviewOsRetroReview: the call  *)
(* of the CLI is started.  A button knows its draft by its token.          *)
(***************************************************************************)
Starts(what, d, by, shown) ==
  /\ enabled /\ ConfigFilled /\ Spend("confirms")
  /\ calls' = calls \union {[what |-> what, draft |-> d]}
  /\ confirmed' = confirmed \union
       {[what |-> what, draft |-> d, by |-> by, shown |-> shown, enabled |-> enabled]}
  /\ UNCHANGED <<drafts, stored, enabled, fixed, previews, told, table>>

(* Mutant of Pressed: the card confirms the newest draft.                  *)
PressedLatest(what, token) == Meant(what)

Pressed(what, token) == token

OnCard(what, d) == d \in previews /\ (what = "review" => drafts[d].review)
PressConfirm(what, d) ==
  /\ OnCard(what, d)
  /\ LET meant == Pressed(what, d) IN Starts(what, meant, "card", OnCard(what, d) /\ meant = d)

TypeConfirm(what) == Meant(what) # Nothing /\ Starts(what, Meant(what), "text", told[what] = Meant(what))

(***************************************************************************)
(* The CLI: the priorities into an empty column, which it makes if there   *)
(* is none, the review into the cell beside it.  It may be killed before   *)
(* or after it has written (the caller gives up after five minutes).       *)
(***************************************************************************)
Free(cell, d) == cell \in {Nothing, d}

Writes(c, cells) ==
  CASE ~ByCli(c.draft) -> cells
    [] c.what = "tasks" /\ drafts[c.draft].ready /\ Free(cells.tasks, c.draft) ->
         [cells EXCEPT !.pair = TRUE, !.tasks = c.draft]
    [] c.what = "review" /\ drafts[c.draft].review /\ cells.pair /\ Free(cells.review, c.draft) ->
         [cells EXCEPT !.review = c.draft]
    [] OTHER -> cells

CliEnds(c) ==
  /\ c \in calls /\ calls' = calls \ {c}
  /\ table' \in {table, [table EXCEPT ![drafts[c.draft].week] = Writes(c, @)]}
  /\ UNCHANGED <<drafts, stored, enabled, fixed, previews, told, confirmed, effort>>

(***************************************************************************)
(* The user: the switch, the config of the CLI, the table, and time.       *)
(***************************************************************************)
Switch ==
  /\ Spend("switches") /\ enabled' = ~enabled
  /\ UNCHANGED <<drafts, stored, fixed, previews, told, calls, table, confirmed>>

Fill(i) ==
  /\ ~docs[i].filled /\ docs' = [docs EXCEPT ![i].filled = TRUE]
  /\ UNCHANGED <<drafts, stored, enabled, year, previews, told, calls, table, confirmed, effort>>

NewYear ==
  /\ Spend("years") /\ year' = year + 1
  /\ UNCHANGED <<drafts, stored, enabled, docs, previews, told, calls, table, confirmed>>

WriteByHand(w) ==
  /\ Spend("hands") /\ table[w].tasks = Nothing
  /\ table' = [table EXCEPT ![w] = [@ EXCEPT !.pair = TRUE, !.tasks = ByHand]]
  /\ UNCHANGED <<drafts, stored, enabled, fixed, previews, told, calls, confirmed>>

Next ==
  \/ \E d \in Endings : RunEnds(d)
  \/ \E d \in 1..MaxDrafts : PressPrepare(d)
  \/ \E what \in Things, d \in 1..MaxDrafts : PressConfirm(what, d)
  \/ \E what \in Things : TypePreview(what) \/ TypeConfirm(what)
  \/ \E c \in calls : CliEnds(c)
  \/ Switch \/ NewYear
  \/ \E i \in DOMAIN docs : Fill(i)
  \/ \E w \in Weeks : WriteByHand(w)

Spec == Init /\ [][Next]_vars

Cell == {Nothing, ByHand} \union (1..MaxDrafts)
TypeOK ==
  /\ drafts \in Seq(Drafts) /\ Len(drafts) <= MaxDrafts /\ stored \subseteq DOMAIN drafts
  /\ Cardinality(stored) <= Kept /\ previews \subseteq DOMAIN drafts /\ calls \subseteq Call
  /\ told \in [Things -> 0..MaxDrafts] /\ confirmed \subseteq Confirmation /\ effort \in Effort
  /\ table \in [Weeks -> [pair : BOOLEAN, tasks : Cell, review : Cell]]

(* What a card confirms is what that card showed, however many runs have   *)
(* finished since, and nothing is started while the write-back is off.     *)
CardWritesShown == \A c \in confirmed : c.enabled /\ (c.by = "card" => c.shown)

(* What stands in the table was confirmed as such: the review "is          *)
(* confirmed on its own", never along with the priorities.                 *)
TableConfirmed ==
  \A w \in Weeks, what \in Things :
    table[w][what] > Nothing => \E c \in confirmed : c.what = what /\ c.draft = table[w][what]

(* The typed commands write what their preview showed: they mirror "what   *)
(* the Feishu confirm cards do" (runWritebackCommand).                     *)
TextWritesShown == \A c \in confirmed : c.shown
=============================================================================
