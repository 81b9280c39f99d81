---------------------------- MODULE OkrWriteback ----------------------------
(***************************************************************************)
(* The progress a biweekly review proposes for the key results, and how it *)
(* gets into the OKR files: a card or a command shows the increments that  *)
(* pass the guardrails, a press or a second command works them out again   *)
(* and writes them, one row after the other, and then the lines of history *)
(* of all that were written (okr/biweekly-progress.ts, okr/writeback.ts,   *)
(* okr/writeback-guardrails.ts, interaction/okr-writeback-card.ts).        *)
(* Meanwhile the user edits the files in the console from a copy that was  *)
(* loaded before (okr/editor.ts); where the listener is a process of its   *)
(* own (`interaction feishu`), the editor may save between two writes.     *)
(*                                                                         *)
(* Progress is counted in coarse steps; a proposal above Top is out of     *)
(* range.                                                                  *)
(***************************************************************************)
EXTENDS Integers, Sequences, SequencesExt

CONSTANTS
  Krs,       \* key results
  Files,     \* how many files, searched in their order
  Top,       \* 100 percent
  BigJump,   \* BIG_JUMP_THRESHOLD
  KeptRuns,  \* how many runs _skill-runs.json keeps
  MaxRuns,   \* bound: drafts
  Proposals, \* bound: what a draft may propose and where its evidence is found
  Efforts    \* bounds: how often what happens from outside happens

Missing == -1
Levels == 0..Top
Row == Levels \union {Missing}
(* What a draft proposes for each key result, Missing if it says nothing,  *)
(* and the ones whose evidence stands in its input pack.                   *)
Drafts == [to : [Krs -> Missing..Top + 1], found : SUBSET Krs]
Effort == [edits : Nat, presses : Nat, faults : Nat, apart : BOOLEAN]
None == [run |-> 0, shown |-> [k \in Krs |-> Missing]]
(* A confirmation under way: its draft, the progress it worked out the     *)
(* increments from, the rows to write, the lines of those written, and     *)
(* whether the editor has saved since.                                     *)
Idle == [run |-> 0, from |-> [k \in Krs |-> Missing], left |-> {}, lines |-> {}, cut |-> FALSE]

VARIABLES
  okr,     \* the row of each key result in each file
  editor,  \* the console's copy of the files
  drafts,  \* the drafts so far, the newest last
  packs,   \* the drafts whose input pack can be read
  card,    \* the card of each draft: what it showed
  told,    \* what the command showed last
  history, \* okr-progress-history.jsonl
  writing, \* the confirmation that is being written
  saved,   \* the progress the user or a line of history gave each key result last
  loose,   \* key results whose row was written and whose line was not, or came too late
  wrote,   \* whether the last write differed from what was shown for it
  effort   \* what is left of the bounds

vars == <<okr, editor, drafts, packs, card, told, history, writing, saved, loose, wrote, effort>>

Blank == [k \in Krs |-> Missing]

Init ==
  /\ okr \in {[f \in 1..Files |-> IF f = 1 THEN [k \in Krs |-> 0] ELSE Blank],
              [f \in 1..Files |-> [k \in Krs |-> 0]]}
  /\ editor = okr /\ drafts = <<>> /\ packs = {} /\ card = [r \in 1..MaxRuns |-> None] /\ told = None
  /\ history = <<>> /\ writing = Idle /\ saved = [k \in Krs |-> 0] /\ loose = {} /\ wrote = "as shown" /\ effort \in Efforts

(* What the listener does waits for a confirmation it is writing.          *)
Free == writing = Idle
Spend(what) == effort[what] > 0 /\ effort' = [effort EXCEPT ![what] = @ - 1]

(***************************************************************************)
(* matchBiweeklyProgress and assessKrProposals: the key results the files  *)
(* have, in range, that are no big jump or have their evidence.            *)
(***************************************************************************)
Having(o, k) == {f \in 1..Files : o[f][k] # Missing}
FileOf(k) == CHOOSE f \in Having(okr, k) : \A g \in Having(okr, k) : f <= g
In(o, k) ==
  IF Having(o, k) = {} THEN Missing ELSE o[CHOOSE f \in Having(o, k) : \A g \in Having(o, k) : f <= g][k]
Now(k) == In(okr, k)
Jump(a, b) == IF a > b THEN a - b ELSE b - a
Matched(d) == {k \in Krs : Having(okr, k) # {} /\ d.to[k] \in Levels}
(* Mutant of Accepted: without its pack a draft passes unchecked.          *)
AcceptedUnchecked(r) ==
  LET d == drafts[r] IN {k \in Matched(d) : r \in packs => k \in d.found}

Accepted(r) ==
  LET d == drafts[r] IN
  {k \in Matched(d) : IF r \in packs THEN k \in d.found ELSE Jump(Now(k), d.to[k]) < BigJump}

Shown(r) == [run |-> r, shown |-> [k \in Krs |-> IF k \in Accepted(r) THEN drafts[r].to[k] ELSE Missing]]
Stored == {r \in 1..Len(drafts) : r + KeptRuns > Len(drafts)}
Latest == Len(drafts)

(***************************************************************************)
(* A biweekly run ends: its draft is stored and its card is sent           *)
(* (recordLatestSkillRun, maybeSendOkrWritebackCard).                      *)
(***************************************************************************)
RunEnds(d) ==
  /\ Free /\ Len(drafts) < MaxRuns /\ drafts' = Append(drafts, d) /\ packs' = packs \union {Len(drafts) + 1}
  /\ UNCHANGED <<okr, editor, card, told, history, writing, saved, loose, wrote, effort>>

SendCard(r) ==
  /\ Free /\ r = Latest /\ r > 0 /\ card[r] = None /\ card' = [card EXCEPT ![r] = Shown(r)]
  /\ UNCHANGED <<okr, editor, drafts, packs, told, history, writing, saved, loose, wrote, effort>>

PackLost(r) ==
  /\ Free /\ r \in packs /\ Spend("faults") /\ packs' = packs \ {r}
  /\ UNCHANGED <<okr, editor, drafts, card, told, history, writing, saved, loose, wrote>>

(***************************************************************************)
(* A confirmation works out the increments again from the files as they    *)
(* are (executeConfirmedOkrWriteback).  The card names its draft; the      *)
(* command takes the newest one.                                           *)
(***************************************************************************)
Begin(r, seen) ==
  /\ Free /\ Spend("presses")
  /\ writing' = [Idle EXCEPT !.run = r, !.from = [k \in Krs |-> Now(k)], !.left = Accepted(r)]
  /\ wrote' = IF \E k \in Accepted(r) : seen.run # r \/ seen.shown[k] # drafts[r].to[k]
              THEN "otherwise" ELSE "as shown"
  /\ UNCHANGED <<okr, editor, drafts, packs, card, told, history, saved, loose>>

Press(r) == card[r] # None /\ r \in Stored /\ Begin(r, card[r])
ConfirmByText == Latest > 0 /\ told # None /\ Begin(Latest, told)

Tell ==
  /\ Free /\ Latest > 0 /\ told' = Shown(Latest) /\ told' # told
  /\ UNCHANGED <<okr, editor, drafts, packs, card, history, writing, saved, loose, wrote, effort>>

(***************************************************************************)
(* updateKrProgress in the first file that has the row; a file that cannot *)
(* be read or written, and a row that is gone, leave no line.              *)
(***************************************************************************)
Line(k) == [kr |-> k, from |-> writing.from[k], to |-> drafts[writing.run].to[k]]

WriteRow(k) ==
  /\ k \in writing.left /\ Having(okr, k) # {}
  /\ okr' = [okr EXCEPT ![FileOf(k)] = [@ EXCEPT ![k] = drafts[writing.run].to[k]]]
  /\ writing' = [writing EXCEPT !.left = @ \ {k}, !.lines = @ \union {Line(k)}]
  /\ UNCHANGED <<editor, drafts, packs, card, told, history, saved, loose, wrote, effort>>

RowFails(k) ==
  /\ k \in writing.left /\ writing' = [writing EXCEPT !.left = @ \ {k}]
  /\ IF Having(okr, k) = {} THEN UNCHANGED effort ELSE Spend("faults")
  /\ UNCHANGED <<okr, editor, drafts, packs, card, told, history, saved, loose, wrote>>

(***************************************************************************)
(* appendOkrProgressHistory: the lines of the rows that were written.  A   *)
(* history that cannot be read counts as empty; one that cannot be written *)
(* throws, and as when the process dies before, the rows stay as they are. *)
(***************************************************************************)
Done == {l.kr : l \in writing.lines}

(* Mutant of Recorded: a row that could not be written is recorded too.    *)
RecordedAll == {Line(k) : k \in {i \in Krs : drafts[writing.run].to[i] \in Levels}}

Recorded == writing.lines

AppendHistory ==
  /\ ~Free /\ writing.left = {} /\ writing' = Idle
  /\ \/ history' = history \o SetToSeq(Recorded) /\ UNCHANGED effort
     \/ history' = SetToSeq(Recorded) /\ Recorded # {} /\ history # <<>> /\ Spend("faults")
  /\ saved' = [k \in Krs |-> IF \E l \in Recorded : l.kr = k THEN drafts[writing.run].to[k] ELSE saved[k]]
  /\ loose' = IF writing.cut THEN loose \union Done ELSE loose \ Done
  /\ UNCHANGED <<okr, editor, drafts, packs, card, told, wrote>>

BreaksOff ==
  /\ ~Free /\ Spend("faults") /\ writing' = Idle /\ loose' = loose \union Done
  /\ UNCHANGED <<okr, editor, drafts, packs, card, told, history, saved, wrote>>

(***************************************************************************)
(* The editor: it loads the files and saves one of them whole.             *)
(***************************************************************************)
OpenEditor ==
  /\ Free \/ effort.apart
  /\ editor # okr /\ editor' = okr
  /\ UNCHANGED <<okr, drafts, packs, card, told, history, writing, saved, loose, wrote, effort>>

SaveFile(f, k, v) ==
  /\ Free \/ effort.apart
  /\ Spend("edits") /\ v # editor[f][k]
  /\ editor' = [editor EXCEPT ![f][k] = v] /\ okr' = [okr EXCEPT ![f] = editor'[f]]
  /\ LET changed == {i \in Krs : In(okr', i) # In(okr, i)} IN
     /\ saved' = [i \in Krs |-> IF i \in changed THEN In(okr', i) ELSE saved[i]]
     /\ loose' = loose \ changed
  /\ writing' = IF Free THEN writing ELSE [writing EXCEPT !.cut = TRUE]
  /\ UNCHANGED <<drafts, packs, card, told, history, wrote>>

Next ==
  \/ \E d \in Proposals : RunEnds(d)
  \/ \E r \in 1..MaxRuns : SendCard(r) \/ PackLost(r) \/ Press(r)
  \/ \E k \in Krs : WriteRow(k) \/ RowFails(k)
  \/ ConfirmByText \/ AppendHistory \/ BreaksOff \/ Tell \/ OpenEditor
  \/ \E f \in 1..Files, k \in Krs, v \in Row : SaveFile(f, k, v)

Spec == Init /\ [][Next]_vars

Shows == [run : 0..MaxRuns, shown : [Krs -> Row]]
Lines == [kr : Krs, from : Row, to : Levels]
Writings == [run : 0..MaxRuns, from : [Krs -> Row], left : SUBSET Krs, lines : SUBSET Lines, cut : BOOLEAN]
TypeOK ==
  /\ okr \in [1..Files -> [Krs -> Row]] /\ editor \in [1..Files -> [Krs -> Row]]
  /\ drafts \in Seq(Drafts) /\ Len(drafts) <= MaxRuns /\ packs \subseteq 1..Len(drafts)
  /\ card \in [1..MaxRuns -> Shows] /\ told \in Shows
  /\ history \in Seq(Lines) /\ writing.lines \subseteq Lines /\ writing \in Writings
  /\ saved \in [Krs -> Row] /\ loose \subseteq Krs
  /\ wrote \in {"as shown", "otherwise"} /\ effort \in Effort

(* A row that is written gets what its line will say, from what the file   *)
(* said, and a jump as large as BIG_JUMP_THRESHOLD from the progress in    *)
(* the file at that moment, not from the one on the card, had its evidence *)
(* in the draft's input pack (assessKrProposals is run again by the        *)
(* confirmation), unless the editor of another process saved in between.   *)
ProvesJumps ==
  \A l \in writing'.lines \ writing.lines :
    /\ l.to = In(okr', l.kr)
    /\ ~writing.cut =>
         /\ l.from = Now(l.kr)
         /\ Jump(l.from, l.to) >= BigJump =>
              writing.run \in packs /\ l.kr \in drafts[writing.run].found
NoUnprovenJump == [][ProvesJumps]_vars

(* The files say what the user saved or the history recorded last: a row   *)
(* that could not be written leaves no line, one that was written leaves   *)
(* one (applyBiweeklyWriteback), unless its line is still to come, was     *)
(* lost with a history that could not be written or a process that died,   *)
(* or came after the editor of another process had saved.                  *)
HistoryTellsAll == \A k \in Krs \ (Done \union loose) : Now(k) = saved[k]

(* The three things the code does not promise, each of them refuted: that  *)
(* every row that is written gets its line, that the history keeps its     *)
(* lines ("Append records to the rolling history JSONL", while one that    *)
(* cannot be read is begun anew), and that what a confirmation writes is   *)
(* what its card or its command showed ("re-derives the same preview from  *)
(* the stored draft", okr-writeback-card.ts).                              *)
NothingLoose == loose = {}
HistoryKept == [][IsPrefix(history, history')]_vars
WritesAsShown == wrote = "as shown"
=============================================================================
