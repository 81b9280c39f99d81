------------------------------ MODULE Evidence ------------------------------
(***************************************************************************)
(* What a workflow run knows when it asks a model: five collectors read    *)
(* their sources side by side and tell in one word each how it went        *)
(* (workflows/evidence.ts, connectors/), what they read is cut until the   *)
(* prompt fits (workflows/evidence-budget.ts), and the model is called     *)
(* until it says something (agent/, workflows/run-workflow.ts).            *)
(*                                                                         *)
(* The world says at each point what a reader meets there.  A source is    *)
(* its state, the lengths of its single texts and its lists, each so many  *)
(* items of one length; lengths are in characters, as in the code; marked  *)
(* says that its own words tell of what was taken from it.  What           *)
(* the lists hold is left out except for one issue of Linear, which may be *)
(* moved (world.moves times, a bound) while it is being read.               *)
(***************************************************************************)
EXTENDS Integers, Sequences, FiniteSets

LOCAL INSTANCE SequencesExt
LOCAL INSTANCE FiniteSetsExt
LOCAL INSTANCE Functions

CONSTANTS
  Worlds,      \* what the readers meet, and how much there is of it
  Budget,      \* EVIDENCE_BUDGET_CHARS
  Trims,       \* bound: how often a source is halved (40, no list of the worlds needs as many)
  MaxAttempts  \* llm.max_attempts

VARIABLES
  world,
  issue,       \* the state of the issue in Linear
  asked,       \* what Linear said of the issue so far
  answers,     \* what each collector brought back
  pack,        \* evidence.sources
  prompt,      \* the sources in the last call of the model
  warned,      \* the notes on the console, which the model does not see
  calls,       \* the tries of this call, and the calls that said nothing
  phase,
  moves

vars == <<world, issue, asked, answers, pack, prompt, warned, calls, phase, moves>>

Collectors == {"vault", "snapshots", "feishu", "github", "linear"}

(* Switched off; on but not configured; the request fails; it says         *)
(* nothing; it says something; what it says cannot be read; what is read   *)
(* goes away meanwhile.                                                    *)
Meets == {"off", "unset", "fails", "none", "some", "noise", "gone"}
At(p) == world.at[p]

(* The order of the sources in the evidence.                               *)
Order == <<"vault_todo", "vault_okr", "vault_scan", "chrome_snapshot", "apple_calendar_snapshot", "local_files",
           "feishu_work_calendar", "feishu_work_tasks", "feishu_work_docs", "feishu_work_im_history",
           "feishu_minutes_bot_im_history", "feishu_minutes_bot_latest_docs", "github", "linear", "todo_inbox",
           "progress_ledger", "weekly_priorities", "todo_scored", "cycle_focus", "fixed_schedule",
           "daily_plan_todos", "todo_feedback", "daily_outcomes", "vault", "feishu">>
Names(sources) == SelectSeq(Order, LAMBDA name : name \in DOMAIN sources)

Bare(state) == [state |-> state, texts |-> <<>>, lists |-> <<>>, marked |-> FALSE]
Full(name) == IF name \in DOMAIN world.bulk THEN [world.bulk[name] EXCEPT !.state = "available"] ELSE Bare("available")

(***************************************************************************)
(* One word for what was read (workflows/types.ts)                         *)
(***************************************************************************)
SourceFromResult(name, p) == IF At(p) = "none" THEN Bare("empty") ELSE Full(name)

(***************************************************************************)
(* Linear (connectors/linear.ts): the open issues are asked for, then the  *)
(* completed and the canceled ones, which may fail; what the project       *)
(* filter leaves counts.  Without a key an agent is asked.                 *)
(***************************************************************************)
OpenState(s) == s # "completed"

FromLinear == IF world.filter = "drops" THEN Bare("empty") ELSE Full("linear")

ViaCodex ==
  CASE At("codex") \in {"fails", "unset"} -> Bare("missing")
    [] At("codex") = "noise" -> Bare("error")
    [] OTHER -> FromLinear

ByKey == At("linear") \in {"fails", "none", "some"}
Linear ==
  CASE At("linear") = "off" -> Bare("disabled")
    [] At("linear") = "unset" -> ViaCodex
    [] At("linear") = "fails" -> Bare("error")
    [] OTHER -> FromLinear

(***************************************************************************)
(* GitHub (connectors/github.ts): what is assigned, or every repository;   *)
(* a repository that fails says so in its own row.                         *)
(***************************************************************************)
GitHub ==
  CASE At("github") = "off" -> Bare("disabled")
    [] At("github") = "unset" -> Bare("missing")
    [] At("github") = "fails" -> IF world.repos THEN Bare("available") ELSE Bare("error")
    [] At("github") = "gone" -> Bare("error")
    [] OTHER -> IF world.repos THEN Full("github") ELSE SourceFromResult("github", "github")

(***************************************************************************)
(* The vault (connectors/vault-gate.ts).  A note that goes away between    *)
(* the listing and the reading ends the run.                               *)
(***************************************************************************)
ReadPath ==
  CASE At("note") \in {"unset", "none"} -> Bare("missing")
    [] At("note") = "fails" -> Bare("error")
    [] OTHER -> Full("vault_todo")

OkrEvidence ==
  CASE At("okr") = "some" -> Full("vault_okr")
    [] At("okr") = "none" -> Bare("empty")
    [] At("okr") = "fails" -> Bare("error")
    [] OTHER -> Bare("missing")

Vault ==
  CASE At("vault") = "off" -> [vault |-> Bare("disabled")]
    [] At("vault") = "unset" -> [vault |-> Bare("missing")]
    [] OTHER -> [vault_todo |-> ReadPath, vault_okr |-> OkrEvidence, vault_scan |-> Full("vault_scan")]

(***************************************************************************)
(* Feishu (connectors/lark-cli.ts): a work profile, and the minutes bot    *)
(* whose messages name the documents to fetch.                             *)
(***************************************************************************)
RunLark(name, p) ==
  CASE At(p) = "off" -> Bare("disabled")
    [] At(p) = "unset" -> Bare("missing")
    [] At(p) = "fails" -> Bare("error")
    [] OTHER -> SourceFromResult(name, p)

SourceFromDocuments(name, docs) ==
  CASE docs = {} -> Bare("missing")
    [] "available" \in docs -> Full(name)
    [] "error" \in docs -> Bare("error")
    [] "missing" \in docs -> Bare("missing")
    [] docs = {"disabled"} -> Bare("disabled")
    [] OTHER -> Bare("empty")

Documents == {RunLark("feishu_work_docs", p).state : p \in {"docA", "docB"}} \ {"disabled"}

MinutesDocs(history) ==
  CASE history.state # "available" -> Bare("missing")
    [] At("minutes") = "none" -> Bare("empty")
    [] OTHER -> SourceFromDocuments("feishu_minutes_bot_latest_docs",
                                    {RunLark("feishu_minutes_bot_latest_docs", "minutes").state})

Feishu ==
  IF At("feishu") = "off" THEN [feishu |-> Bare("disabled")]
  ELSE [feishu_work_calendar |-> RunLark("feishu_work_calendar", "calendar"),
        feishu_work_tasks |-> RunLark("feishu_work_tasks", "tasks"),
        feishu_work_docs |-> SourceFromDocuments("feishu_work_docs", Documents),
        feishu_work_im_history |-> RunLark("feishu_work_im_history", "im"),
        feishu_minutes_bot_im_history |-> RunLark("feishu_minutes_bot_im_history", "bot"),
        feishu_minutes_bot_latest_docs |-> MinutesDocs(RunLark("feishu_minutes_bot_im_history", "bot"))]

(***************************************************************************)
(* The snapshots (connectors/snapshots.ts, connectors/chrome-collector.ts) *)
(* A capture that fails leaves no tabs but still says so in a file.        *)
(***************************************************************************)
CaptureChrome == IF At("chrome") = "fails" THEN Bare("available") ELSE Full("chrome_snapshot")

Snapshots ==
  [chrome_snapshot |-> IF At("chrome") = "off" THEN Bare("disabled") ELSE CaptureChrome,
   apple_calendar_snapshot |->
     IF At("apple") \in {"fails", "noise"} THEN Bare("missing") ELSE RunLark("apple_calendar_snapshot", "apple"),
   local_files |-> IF At("files") = "off" THEN Bare("disabled") ELSE SourceFromResult("local_files", "files")]

(***************************************************************************)
(* The priorities of the cycle: the local file first, else the column of   *)
(* the Feishu document (workflows/weekly-priorities.ts)                    *)
(***************************************************************************)
LocalPriorities ==
  IF At("cycle") = "unset" THEN Bare("missing") ELSE SourceFromResult("weekly_priorities", "cycle")
ItemsOfColumn == SourceFromResult("weekly_priorities", "column")
FeishuPriorities(docs) == IF docs.state # "available" THEN Bare("missing") ELSE ItemsOfColumn
PreferLocal(local, feishu) == IF local.state = "available" THEN local ELSE feishu

(* Of the documents only those that were read are looked into.             *)
DocsSource(sources) ==
  LET read == {n \in {"feishu_work_docs", "feishu_minutes_bot_latest_docs"} \cap DOMAIN sources :
                 sources[n].state = "available"}
  IN  IF read = {} THEN Bare("missing") ELSE Bare("available")

(***************************************************************************)
(* The evidence of a run: the collected sources and the own ones, then     *)
(* what the workflow adds (workflows/run-workflow.ts)                      *)
(***************************************************************************)
Own(collected) ==
  [todo_inbox |-> RunLark("todo_inbox", "inbox"),
   progress_ledger |-> RunLark("progress_ledger", "ledger"),
   weekly_priorities |-> PreferLocal(LocalPriorities, FeishuPriorities(DocsSource(collected)))]

Collected ==
  LET named == [github |-> answers["github"], linear |-> answers["linear"]]
  IN  answers["vault"] @@ answers["snapshots"] @@ answers["feishu"] @@ named

Injected(names) == [n \in names |-> Full(n)]
Extra ==
  CASE world.workflow = "daily_plan" -> Injected({"todo_scored"} \cup world.extra)
    [] world.workflow = "daily_review" ->
         [daily_plan_todos |-> IF "plan" \in world.extra THEN Full("daily_plan_todos") ELSE Bare("missing"),
          todo_feedback |-> IF "ticks" \in world.extra THEN Full("todo_feedback") ELSE Bare("empty")]
    [] OTHER -> Injected({"daily_outcomes"})

Evidence == LET sources == Collected IN sources @@ Own(sources) @@ Extra

(***************************************************************************)
(* Making it fit (workflows/evidence-budget.ts)                            *)
(***************************************************************************)
Documented == {"feishu_work_docs", "feishu_minutes_bot_latest_docs"}
Chats == {"feishu_work_im_history", "feishu_minutes_bot_im_history"}
StringLimit(name) == CASE name \in Documented -> 4000 [] name \in Chats -> 800
                       [] name = "progress_ledger" -> 8000 [] OTHER -> 2000
SourceCap(name) == CASE name \in Chats -> 12000 [] name \in Documented -> 20000
                     [] name = "github" -> 45000 [] OTHER -> 25000
KeepOrder == <<"weekly_priorities", "todo_inbox", "progress_ledger", "linear", "github", "vault",
               "apple_calendar_snapshot", "feishu_work_calendar", "feishu_work_tasks", "feishu_work_docs",
               "feishu_minutes_bot_latest_docs", "feishu_work_im_history", "feishu_minutes_bot_im_history",
               "chrome_snapshot">>
Marker == 12
Small == 1000

Total(lengths) == FoldLeft(LAMBDA sum, l : sum + l, 0, lengths)
Measure(s) == Total(s.texts) + Total([i \in DOMAIN s.lists |-> s.lists[i].items * s.lists[i].each])
MeasureAll(sources) == Total([i \in DOMAIN Names(sources) |-> Measure(sources[Names(sources)[i]])])

(* A plan does without the lists of Linear.                                *)
WorkflowDrops(name, s) ==
  IF world.workflow = "daily_plan" /\ name = "linear" THEN [s EXCEPT !.lists = <<>>] ELSE s

(* A text that is cut ends in words that say so.                           *)
CapLength(l, limit) == IF l > limit THEN limit + Marker ELSE l
CapStrings(name, s) ==
  LET limit == StringLimit(name)
      capped == [s EXCEPT !.marked = TRUE,
                          !.texts = [i \in DOMAIN s.texts |-> CapLength(s.texts[i], limit)],
                          !.lists = [i \in DOMAIN s.lists |-> [s.lists[i] EXCEPT !.each = CapLength(@, limit)]]]
  IN  IF Measure(capped) < Measure(s) THEN capped ELSE s

(* The longest list loses its second half, again and again.                *)
Longest(s) == CHOOSE i \in DOMAIN s.lists : \A j \in DOMAIN s.lists : s.lists[j].items <= s.lists[i].items
Halved(name, s) ==
  IF Measure(s) <= SourceCap(name) \/ s.lists = <<>> \/ s.lists[Longest(s)].items <= 1 THEN s
  ELSE [s EXCEPT !.lists[Longest(s)].items = @ \div 2]
TrimArrays(name, s) ==
  LET trimmed[k \in 0..Trims] == IF k = 0 THEN s ELSE LET before == trimmed[k - 1] IN Halved(name, before)
  IN  trimmed[Trims]

Capped(name, s) == CapStrings(name, WorkflowDrops(name, s))
Shrunk(name, s) == TrimArrays(name, Capped(name, s))
NotesOf(name, s) ==
  {[source |-> name, why |-> why] : why \in
     {w \in {"drop", "cut", "trim"} :
        CASE w = "drop" -> WorkflowDrops(name, s) # s
          [] w = "cut" -> Capped(name, s) # WorkflowDrops(name, s)
          [] OTHER -> Shrunk(name, s) # Capped(name, s)}}

(* Whole sources go while it is too much, unknown ones first; what is left *)
(* of one is a word that it was taken.                                     *)
\* Mutant of EvictionOrder: what is ranked goes from its head.
EvictionOrderHeadFirst(sources) ==
  SelectSeq(Names(sources), LAMBDA n : n \notin ToSet(KeepOrder)) \o SelectSeq(KeepOrder, LAMBDA n : n \in DOMAIN sources)

EvictionOrder(sources) ==
  LET known == SelectSeq(KeepOrder, LAMBDA n : n \in DOMAIN sources)
      unranked == SelectSeq(Names(sources), LAMBDA n : n \notin ToSet(KeepOrder))
  IN  Reverse(unranked) \o Reverse(known)

Evict(shrunk) ==
  LET large == SelectSeq(EvictionOrder(shrunk), LAMBDA n : Measure(shrunk[n]) >= Small)
      left(k) == MeasureAll(shrunk) - Total([i \in 1..k |-> Measure(shrunk[large[i]])])
  IN  {large[k] : k \in {i \in DOMAIN large : left(i - 1) > Budget}}

Fit(sources) ==
  LET shrunk == [n \in DOMAIN sources |-> Shrunk(n, sources[n])]
      evicted == Evict(shrunk)
  IN  [sources |-> [n \in DOMAIN sources |-> IF n \in evicted THEN [Bare("empty") EXCEPT !.marked = TRUE] ELSE shrunk[n]],
       notes |-> UNION {NotesOf(n, sources[n]) : n \in DOMAIN sources}
                 \cup {[source |-> n, why |-> "evict"] : n \in evicted}]

(***************************************************************************)
(* Collecting                                                              *)
(***************************************************************************)
Init ==
  /\ world \in Worlds /\ issue \in {"open", "completed", "canceled"}
  /\ asked = [step |-> 0, items |-> FALSE, closed |-> FALSE, deaf |-> FALSE, still |-> TRUE]
  /\ answers = <<>> /\ pack = <<>> /\ prompt = <<>> /\ warned = {}
  /\ calls = [probed |-> FALSE, tries |-> 0, empty |-> 0] /\ phase = "collecting" /\ moves = 0

Brought(c) ==
  CASE c = "vault" -> Vault [] c = "snapshots" -> Snapshots [] c = "feishu" -> Feishu
    [] c = "github" -> GitHub [] c = "linear" -> Linear

(* The open issues, by every filter ...                                    *)
AskOpen ==
  /\ phase = "collecting" /\ ByKey /\ asked.step = 0
  /\ IF At("linear") = "fails"
     THEN /\ asked' = [asked EXCEPT !.step = 3]
          /\ answers' = answers @@ ("linear" :> Bare("error"))
     ELSE /\ asked' = [asked EXCEPT !.step = 1, !.items = OpenState(issue)]
          /\ UNCHANGED answers
  /\ UNCHANGED <<world, issue, pack, prompt, warned, calls, phase, moves>>

(* ... then what was closed of late; a lookup that fails is passed over.   *)
AskClosed ==
  /\ phase = "collecting" /\ asked.step \in {1, 2}
  /\ LET wanted == IF asked.step = 1 THEN "completed" ELSE "canceled" IN
     \/ asked' = [asked EXCEPT !.step = @ + 1, !.closed = @ \/ issue = wanted]
     \/ asked' = [asked EXCEPT !.step = @ + 1, !.deaf = TRUE]
  /\ answers' = IF asked.step = 2 THEN answers @@ ("linear" :> Linear) ELSE answers
  /\ UNCHANGED <<world, issue, pack, prompt, warned, calls, phase, moves>>

Answer(c) ==
  /\ phase = "collecting" /\ c \notin DOMAIN answers
  /\ c = "linear" => ~ByKey
  /\ IF c = "vault" /\ At("scan") = "gone"
     THEN phase' = "failed" /\ UNCHANGED answers
     ELSE answers' = answers @@ (c :> Brought(c)) /\ UNCHANGED phase
  /\ UNCHANGED <<world, issue, asked, pack, prompt, warned, calls, moves>>

Assemble ==
  /\ phase = "collecting" /\ DOMAIN answers = Collectors
  /\ pack' = Evidence
  /\ phase' = "ready"
  /\ UNCHANGED <<world, issue, asked, answers, prompt, warned, calls, moves>>

(* Somebody moves the issue meanwhile.                                     *)
MoveIssue ==
  /\ phase = "collecting" /\ ByKey /\ asked.step < 3 /\ moves < world.moves
  /\ \E s \in {"open", "completed", "canceled"} \ {issue} : issue' = s
  /\ asked' = [asked EXCEPT !.still = asked.step = 0]
  /\ moves' = moves + 1
  /\ UNCHANGED <<world, answers, pack, prompt, warned, calls, phase>>

(***************************************************************************)
(* Calling the model (agent/index.ts, agent/runtime-env.ts): a command     *)
(* line agent in the background is tried out first; only a timeout is      *)
(* tried again; an answer that says nothing is asked for once more.        *)
(***************************************************************************)
Probe ==
  /\ phase = "ready" /\ world.headless /\ ~calls.probed
  /\ \/ calls' = [calls EXCEPT !.probed = TRUE] /\ UNCHANGED phase
     \/ phase' = "failed" /\ UNCHANGED calls
  /\ UNCHANGED <<world, issue, asked, answers, pack, prompt, warned, moves>>

BuildPrompt == LET fit == Fit(pack) IN prompt' = fit.sources /\ warned' = fit.notes
Answered == phase' = "done" /\ UNCHANGED calls
Fails == phase' = "failed" /\ UNCHANGED calls
TimesOut ==
  /\ calls' = [calls EXCEPT !.tries = @ + 1]
  /\ phase' = IF calls.tries + 1 < MaxAttempts THEN "ready" ELSE "failed"
SaysNothing ==
  /\ calls' = [calls EXCEPT !.tries = 0, !.empty = @ + 1]
  /\ phase' = IF calls.empty = 0 THEN "ready" ELSE "failed"

RunAgent ==
  /\ phase = "ready" /\ (world.headless => calls.probed)
  /\ BuildPrompt
  /\ Answered \/ Fails \/ TimesOut \/ SaysNothing
  /\ UNCHANGED <<world, issue, asked, answers, pack, moves>>

Next ==
  \/ AskOpen \/ AskClosed \/ Assemble \/ MoveIssue \/ Probe \/ RunAgent
  \/ \E c \in Collectors : Answer(c)

Spec == Init /\ [][Next]_vars

(***************************************************************************)
(* Properties                                                              *)
(***************************************************************************)
States == {"available", "empty", "missing", "error", "disabled"}
TypeOK ==
  /\ world \in Worlds /\ issue \in {"open", "completed", "canceled"}
  /\ asked \in [step : 0..3, items : BOOLEAN, closed : BOOLEAN, deaf : BOOLEAN, still : BOOLEAN]
  /\ DOMAIN answers \subseteq Collectors
  /\ \A n \in DOMAIN pack : n \in ToSet(Order) /\ pack[n].state \in States
  /\ calls \in [probed : BOOLEAN, tries : 0..MaxAttempts, empty : 0..2]
  /\ phase \in {"collecting", "ready", "done", "failed"} /\ moves \in 0..world.moves

(* What is taken from the evidence is on the console and nothing else is:  *)
(* "a budget that trims in silence just moves the invisible failure one    *)
(* layer down" (evidence-budget.ts:18).  The model sees the sources alone  *)
(* (openai-agent.ts:98): a text that was cut and a source that went say so *)
(* themselves; items that were dropped from a list leave no word there     *)
(* (ModelTold is violated).  The call fits, or nothing large is left in    *)
(* it, and no source goes for good while a less valuable one stays.        *)
Warned(n) == \E note \in warned : note.source = n
Evicted(n) == [source |-> n, why |-> "evict"] \in warned
Value(n) == IF n \in ToSet(KeepOrder) THEN Len(KeepOrder) - (CHOOSE i \in DOMAIN KeepOrder : KeepOrder[i] = n) ELSE -1
TrimsTold ==
  prompt # <<>> =>
    /\ \A n \in DOMAIN pack :
         /\ prompt[n] # pack[n] <=> Warned(n)
         /\ Evicted(n) \/ prompt[n].texts # pack[n].texts => prompt[n].marked
    /\ MeasureAll(prompt) > Budget => \A n \in DOMAIN pack : Measure(prompt[n]) < Small
    /\ \A n, m \in DOMAIN pack :
         Evicted(n) /\ ~Evicted(m) /\ Value(m) < Value(n) => Measure(prompt[m]) < Small

(* Nothing is taken from the eyes of the model without a word to it.       *)
ModelTold == \A n \in DOMAIN prompt : prompt[n] # pack[n] => prompt[n].marked

(* A source that failed is not told as one with nothing to say, and a      *)
(* source of Feishu that fails does not hide the priorities on disk.       *)
PointOf == [apple_calendar_snapshot |-> "apple", feishu_work_calendar |-> "calendar",
            feishu_work_tasks |-> "tasks", feishu_work_im_history |-> "im", github |-> "github"]
SourcesTold ==
  /\ \A n \in DOMAIN PointOf \cap DOMAIN pack :
       At(PointOf[n]) \in {"fails", "unset", "off"} /\ ~(n = "github" /\ world.repos)
         => pack[n].state \notin {"available", "empty"}
  /\ pack # <<>> /\ At("cycle") = "some" => pack["weekly_priorities"] = Full("weekly_priorities")
  /\ pack # <<>> /\ "feishu_work_docs" \in DOMAIN pack /\ {At("docA"), At("docB")} = {"fails", "none"}
       => pack["feishu_work_docs"].state = "error"

(* An issue nobody touches while Linear is read is seen: an open one among *)
(* the open ones only, a closed one among the closed ones unless the       *)
(* lookup failed (connectors/linear.ts).                                   *)
IssueSeen ==
  asked.step = 3 /\ asked.still /\ At("linear") # "fails" =>
    /\ issue = "open" => asked.items /\ ~asked.closed
    /\ issue # "open" => asked.closed \/ asked.deaf
    /\ issue = "completed" => ~asked.items

EvidenceHonest == TrimsTold /\ SourcesTold /\ IssueSeen
=============================================================================
