----------------------------- MODULE SkillPack -----------------------------
(***************************************************************************)
(* The input pack of a skill (skills/runner.ts, cycles/context.ts): blocks *)
(* in a fixed order, of which life-review-os reads the first characters    *)
(* and any other skill all.  Which issues of Linear get a line, which get  *)
(* their notes, and what is cut out of a note that is too long; which      *)
(* cycles are told of.                                                     *)
(*                                                                         *)
(* Lengths are in characters, as in the code.  An issue is the type of its *)
(* state; all notes of a world are of one length.                          *)
(***************************************************************************)
EXTENDS Integers, Sequences, FiniteSets

LOCAL INSTANCE SequencesExt
LOCAL INSTANCE FiniteSetsExt
LOCAL INSTANCE Functions

CONSTANTS
  Worlds,      \* bound: how much there is of everything
  Cut,         \* how much of the pack life-review-os reads
  LineLength,  \* the longest line of the snapshot
  Room         \* what the texts ahead of the snapshot may take so that it is read

VARIABLES
  world,
  skill,   \* "life-review-os" or another one
  pack,    \* the blocks
  known    \* how much of each block the skill was given

vars == <<world, skill, pack, known>>

(***************************************************************************)
(* Linear: the open issues, then the ones completed lately.                *)
(***************************************************************************)
Types == {"started", "unstarted", "backlog", "completed"}
Items == IF world.linear = "available" THEN world.items ELSE <<>>
Rank(type) == CASE type = "started" -> 0 [] type = "unstarted" -> 1 [] OTHER -> 2
At(rank) == LET items == Items IN SelectSeq([i \in DOMAIN items |-> i], LAMBDA i : Rank(items[i]) = rank)
First(n, s) == SubSeq(s, 1, Min({n, Len(s)}))

(* Mutant of Snapshot: a line for every issue.                             *)
SnapshotAll == At(0) \o At(1) \o At(2)

Snapshot == First(60, At(0) \o At(1) \o At(2))

(* Only what is under way has notes, the description and three comments.   *)
Noted ==
  IF world.notes = 0 THEN <<>> ELSE First(12, At(0))

(* truncateNote: what is left of a note, as the stretches that are kept.   *)
(* Mutant of Stretches: the end is cut off.                                *)
StretchesHead(length) == IF length <= 1200 THEN <<<<1, length>>>> ELSE <<<<1, 1200>>>>

Stretches(length) ==
  IF length <= 1200 THEN <<<<1, length>>>> ELSE <<<<1, 800>>, <<length - 399, length>>>>

NoteLength(length) == IF length <= 1200 THEN length ELSE 1200 + 12

(***************************************************************************)
(* The retros and the priorities of the newest two cycles that have one,   *)
(* of those that have begun; each takes its limit from the budget, however *)
(* long it is.                                                             *)
(***************************************************************************)
Texts(cycles, part) == SelectSeq([i \in DOMAIN cycles |-> cycles[i][part]], LAMBDA length : length > 0)
Limit(k, each, total) == Min({each, total - (k - 1) * each})
Newest(lengths, each, total) ==
  [k \in 1..Min({2, Len(lengths)}) |-> Min({lengths[k], Limit(k, each, total)})]
Sum(lengths) == FoldFunction(+, 0, lengths)

Retros == Newest(Texts(world.cycles, "retro"), 1500, 3200)
Priorities == Newest(Texts(SelectSeq(world.cycles, LAMBDA c : c.begun), "plan"), 1800, 3200)

(***************************************************************************)
(* buildSkillInputPack: the blocks with the words around them.  A block    *)
(* with nothing to say says so in some words.  The user's request and the  *)
(* strategy, which is a file of the user, stand ahead of all that.         *)
(***************************************************************************)
Said(length) == IF length = 0 THEN 32 ELSE length
Block(name, length) == [name |-> name, length |-> length]

Ahead ==
  <<Block("contract", 758), Block("request", Said(world.request)),
    Block("okr", 456 + world.strategy + Said(world.okr)), Block("context", 221 + Said(world.context)),
    Block("unplanned", 118 + Said(world.days)), Block("calendar", 80 + Said(world.days)),
    Block("outcomes", 160 + Said(world.days))>>

Lines(snapshot) == Block("snapshot", 165 + Said(Len(snapshot) * LineLength))
Notes == Block("notes", 97 + Said(Len(Noted) * (100 + world.texts * (NoteLength(world.notes) + 16))))
Cycles == <<Block("retro", 158 + Said(Sum(Retros))), Block("priorities", 206 + Said(Sum(Priorities)))>>

(* The latest output, 40000 characters of memory and as many of the        *)
(* repository, the progress, the runs and the evidence.                    *)
Behind == <<Block("memory", Min({40000, world.rest})), Block("repository", Min({40000, world.rest})),
            Block("evidence", world.rest)>>

Blocks == Ahead \o <<Lines(Snapshot), Notes>> \o Cycles \o Behind

Offset(blocks, k) == FoldLeft(+, 0, [i \in 1..(k - 1) |-> blocks[i].length])
Given(blocks, k) ==
  IF skill = "life-review-os" THEN Max({0, Min({blocks[k].length, Cut - Offset(blocks, k)})}) ELSE blocks[k].length

Init == world \in Worlds /\ skill \in {"life-review-os", "other"} /\ pack = <<>> /\ known = <<>>

Build == pack = <<>> /\ pack' = Blocks /\ UNCHANGED <<world, skill, known>>

Read ==
  /\ pack # <<>> /\ known = <<>>
  /\ known' = [name \in {b.name : b \in Range(pack)} |->
                 LET k == CHOOSE i \in DOMAIN pack : pack[i].name = name IN Given(pack, k)]
  /\ UNCHANGED <<world, skill, pack>>

Next == Build \/ Read

Spec == Init /\ [][Next]_vars

TypeOK ==
  /\ Range(Items) \subseteq Types
  /\ pack \in Seq([name : STRING, length : Nat])
  /\ \A k \in DOMAIN pack : known # <<>> => known[pack[k].name] \in 0..pack[k].length

(* What there is of Linear is read to its last line ("budgeted to stay     *)
(* inside the first 20k chars", runner.ts:616), as long as all the texts   *)
(* ahead of it leave room; an OKR chain of 12.7 KB, as context.ts:20 found *)
(* one, does not (SnapshotAlwaysRead is violated).  The notes in the pack  *)
(* are of issues it lists (linearIssueSnapshot).                           *)
Before == world.request + world.strategy + world.okr + world.context + 3 * world.days
Whole(name) == \A k \in DOMAIN pack : pack[k].name = name => known[name] = pack[k].length
SnapshotRead ==
  /\ known # <<>> /\ Before <= Room => Whole("snapshot")
  /\ Range(Noted) \subseteq Range(Snapshot)
SnapshotAlwaysRead == known # <<>> => Whole("snapshot")

(* What is under way is not dropped for what is not, and a note that is    *)
(* cut keeps its beginning and its end in the pack: its conclusion is what *)
(* the planner needs most.  That the notes are read is not claimed.        *)
UnderWayFirst ==
  LET items == Items lines == Range(Snapshot) IN
  (\E j \in DOMAIN items \ lines : items[j] = "started") => \A i \in lines : items[i] = "started"
NotesKeepEnds ==
  LET kept == Stretches(world.notes) IN
  /\ kept[1][1] = 1 /\ kept[Len(kept)][2] = world.notes
  /\ FoldLeft(+, 0, [i \in DOMAIN kept |-> kept[i][2] - kept[i][1] + 1]) <= 1200

(* The retros are read: context.ts:25 says their block "is emitted near    *)
(* the top", because behind the cut it "has never once been seen".         *)
RetroRead == known # <<>> /\ Before <= Room => Whole("retro")
=============================================================================
