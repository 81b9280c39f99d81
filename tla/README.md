# Verification of daily-os

This directory models the parts of daily-os that are hard to get right: what
runs concurrently, what survives a crash, what several writers share, what is
read before a wait and used after it. The modules are checked on small instances
by TLC, and the central safety properties of twenty-two of them are proved for every
instance with TLAPS. `PROJECT.json` relates every definition to the lines it models, and
lists the runs, the mutants that show each property can fail, the hazards, the
findings and the theorems.

## 1. The system

daily-os is one Node process on the user's Mac (`src/src`, TypeScript): a console
server, a scheduler, a Feishu bot, a sync loop towards Supabase. Its state is
files in a data directory and a vault of markdown, SQLite tables, and maps in
memory. Model agents are child processes that take minutes; everything else
shares one thread between two awaits, and files without a common lock.

| part (source) | state | operations | hard because of | correct if |
|---|---|---|---|---|
| Team cycle sync (`team/sync.ts`, `team/cache.ts`) | cycle files, `state.json`, cached files of teammates; the `cycles`, `plans`, `stickies` tables | push, probe, pull, cache, prune, reset | clocks and watermarks, lost answers, crashes between two files, changes of team | caches hold only committed rows, never go back, and catch up |
| Sync queue (`startTeamSync`) | keyed jobs, timers, watcher | save, change, tick, runNow, stop | joins of queued jobs, asynchronous start, throwing jobs | one writer, fresh answers, nothing after stop |
| Team session and membership (`team/session.ts`, `team/team.ts`, `supabase/`) | one session file; teams, members, codes | sign in and out, refresh, re-read; create, join, leave, rename | read, await, write back; rotating tokens; transactions side by side | accounts do not mix, sessions survive, nobody hops or is stranded |
| Scheduler (`service/launchd.ts`) | `fired` entries, lock files, retry times | tick, claim, run, unmark | overlapping ticks, two processes, crash with a lock | once a day, and at least once |
| Workflow and skill runs (`workflows/`, `skills/runner.ts`) | ledger records, `RunManager`, evidence, packs | collect, cut, start, retry, send, finish, cancel | cancel against end, process death, limits of the prompt | the ledger tells what happened, and what the model is not given is on record |
| Day sheet (`todo/`, `storage/memory.ts`) | inbox, plans, feedback ledger, moved rows, wrap-ups, pages, pointer, cache | capture, tick, plan, rerun, move, close, prune | a plan run reads, waits minutes and writes; three copies of a day | nothing the user did is lost or undone |
| Feishu chat (`interaction/`) | pending queue, active runs, cards, sessions, guards | message, batch, agent run, stop, press | messages during a run, repeated and lost deliveries | one agent per scope, everything answered, once |
| Suggestions, progress, drift (`service/`, `feedback/`, `progress/`) | pending lists, candidates, ledgers | collect, send, answer | list rewritten between question and answer | an answer means what was told |
| Cycles on disk (`cycles/`) | cycle files, schedule, migration | edit, draft, file, defer, restore, migrate | several writers of one document | no edit lost, history under its cycle |
| Calendar (`calendar/`), day frame (`user/`) | drafts, batches, events; blocks and changes of a day | propose, confirm, write, undo; hide, edit, reset | half-done write-backs; ids cut before what they name changed | each event once, each change on its block |
| OKR (`okr/`), review write-back (`skills/`) | OKR files, history; drafts, shared table | propose, guard, confirm, write | stale drafts against edited files | guarded and confirmed writes only |
| Skill checkout (`skills/update.ts`) | git directory, settings | install, update, register | minutes of git beside the user's work | the user's work and settings stay |
| Console (`ui/`) | accounts, sessions, chat turns, budget | sign in, talk, stop, delete | overlapping turns, restart, calls that cost after they were allowed | what ended stays ended, what is asked is answered |
| Notes, journal, countdowns, rules | small files | write, answer, list | rungs and dates at their ends; two processes | boards and dates tell what was saved |

How they interact: the scheduler and the console start workflow runs; a daily
plan run collects evidence, reads the inbox, the cycle's schedule and the
ledgers, and writes the day sheet; ticks on the sheet reach the inbox; saves of
cycles and plans enter the sync queue, whose jobs use the team session and the
remote tables; Feishu messages start agents, commands and runs, and their cards
confirm drafts into calendar, OKR files and shared tables.

## 2. The modules

A component is a module of its own. Components that share state are one module
(the sheet and its ledgers; the queue and its timers); those that do not interact
at all are put side by side in an MC module, see below.

| module | stands for |
|---|---|
| `CycleSync`, `TeamMirror` | the sync jobs of all machines and the cycles table; the abstract promise they implement: owners publish rising versions, mirrors only move forward |
| `SyncQueue` | the queue that makes the jobs of one machine exclusive (`CycleSync`'s "jobs never overlap") |
| `TeamBoard` | daily plans and sticky boards: push, purge, pull, prune, the sharing switch, and the viewer's pages of them |
| `Membership` | the transactions of the team functions in the database, with row lock and unique keys |
| `TeamSession` | session file, token rotation, membership facts |
| `Scheduler` | ticks, claims, retries of one or two processes |
| `WorkflowRun` | one run's record from start to end |
| `Evidence` | what five collectors bring, how it is cut to the budget, the calls with probe and retry |
| `SkillPack` | the input pack of a skill and what stands behind its cut |
| `DaySheet` | rows of the day and the ledgers, with plan runs under way |
| `DayArchive` | page, pointer and cache of a day; how today and past days are read |
| `Inbox` | captures over days: typed, named by commands, stale, retired |
| `Scorer` | the pool of candidates and their order |
| `CycleDocs`, `CycleSchedule`, `Migration` | cycle files of several writers; the schedule with rows put off and restored; old records and tables brought in |
| `DayFrame` | the blocks of a day under mode, calendar, edits and ad-hoc rows |
| `Calendar` | draft, confirmation, batches, undo |
| `OkrWriteback`, `ReviewWriteback` | progress into OKR files; the draft of a review into the shared table |
| `SkillRepo` | installation, update and registration of a checkout |
| `Desk` | a message or press from the connection to its handler, a run's card back to the chat |
| `Conversation` | one scope: debounce, batch, agent, card, session |
| `Replies`, `SyncDrift`, `PolicyRules` | answers to suggestions and progress on every route; unsynced progress; rules and the chats they are asked in |
| `WebChat`, `TokenMeter`, `Accounts` | turns of the console's chat; the budget; accounts and sessions |
| `Stickies`, `Countdowns` | notes and journal; dates that come round |
| `MC_*` | constants and sums for TLC (the two loads of `cycle` stand in `CycleSync`) |
| `CycleSync_proofs`, `Scheduler_proofs`, `Membership_proofs` | theorems and lemmas about the module they are named for |
| `SyncQueue_proofs`, `TeamSession_proofs`, `WorkflowRun_proofs`, `DaySheet_proofs`, `Conversation_proofs` | the same, and about other parts of the MC module they extend: `TeamBoard`; `Accounts`, `SkillRepo`, `OkrWriteback`, `Replies`; `ReviewWriteback`, `Calendar`; `CycleSchedule`, `CycleDocs`, `Migration`; `PolicyRules`, `SyncDrift`, `TokenMeter` |

How state and actions correspond to the code, where it is not obvious:

- **CycleSync.** `file` is the cycle file, `disk` is `state.json`, `mem` the record
  the running job works on, `cache` the files of teammates, `remote` the table.
  A push is two steps on the server: it takes its timestamp when it begins
  (`PushSend`) and is visible when it commits (`Commit`), because
  `touch_updated_at` uses `now()`. The actions are the stages of `syncTeamOnce`
  between its awaits; `Fail` ends a job early, `Crash` keeps the files only.
- **SyncQueue.** One action per entry (`Request`, `Change`, `FireTimer`,
  `Interval`, `Stop`), `JobStep` and `FailJob` for the drain. Contents are
  version numbers.
- **TeamSession.** Every operation is a thread that reads the file, awaits, and
  writes back. A sign-in reads it before the body of its answer (`Opened`) and again
  after it (`SignedIn`); `crossed` notes the teams it then took from another
  account's record. GoTrue (external) accepts the parent of the active token for a while.
- **Membership.** READ COMMITTED: a transaction reads at each statement
  (`Receive`, `Find`), holds the lock of its caller's row, and its writes are its
  last statements and one step.
- **Scheduler.** In one process a claim is atomic (synchronous code), between two
  every file operation is a step.
- **WorkflowRun.** `copy` is the record in the run's closure, `ledger` the file.
- **Evidence, SkillPack.** Texts are their lengths, lists the number and length of
  their items; the cuts are computed as the code does, with its own limits.
- **DaySheet.** A planning run takes its candidates at `StartPlan` and merges at
  `SavePlan`; everything else can fall between. A weekly row with a session on the
  day is kept off by a tick of that day only (`Scheduled`). `FinishedStaysOff` is not
  claimed of a row that was carried over to the day by hand.
- **DayArchive.** A save is three steps (page, pointer, cache), each of which may
  be the last one of its process.
- **CycleDocs, OkrWriteback, Calendar, ReviewWriteback.** A file is its rows or
  sections with who wrote them; a handler is a step up to its next await. The rows
  of a confirmation are written one by one (`WriteRow`), their lines in the history
  after all of them (`AppendHistory`), and it may break off before (`BreaksOff`);
  `loose` has the rows whose line was lost.
- **Replies.** `gen` counts the writings of the pending list, and which of them no
  message told of; an answer remembers the message and the writing it was given under.
- **SyncDrift.** A review is four steps: evidence, findings, card, end; `utc` and
  `day` are the two dates that are compared.
- **Calendar.** A draft is a function of what was built and of the adjustments
  since (`Adjusted`), found by the id of its day; `Busy` is what the calendar has
  in the slots, `Unbooked` what a confirmation has still to write.
- **Conversation.** `work` is `runBatch` between its awaits; `agent[r]` the child
  (running, exited, pipes closed); `Die` the end of the process by an unhandled
  rejection, after which children live on as orphans.
- **Desk.** `arrived`, `waiting`, `working` are a message's way through
  `resolveChatMode` and the queue; `claims` the guard of the presses; `Answers` what
  the handler of each command replies. A card that is out, its answer and the record
  of it are three steps (`SendCard`, `Answer`, `Deliver`).
- **Accounts.** Each request passes the session first, and the owner-only gate
  (`OwnerOnly`) where its route has it.

### Sums

Five MC modules hold several components that share no variable: `part` chooses,
in the first state, which one a behaviour is of; the variables of the others are
0 or at rest. `Step` is the disjunction of their `Next`, each guarded by its part,
and a property of a component is stated as `part = "x" => ...`, so that each is
checked on exactly its own behaviours and one exploration serves them all.
`OpenParts` in the cfg lists the parts there are. This is a sum, not a product:
nothing is claimed of two parts at once. Parts that theorems are about have their
parameters as CONSTANTS of the MC module, with the cfg giving the instance and an
ASSUME of the MC module saying what the theorem needs of any other one; the
parameters of the other parts stand in their INSTANCE. `TypesOK` of an MC module says the types
of its part; it is stated for whoever changes a module (it holds; the runs
spend their time on the other properties).

A **load** (also: effort, wish, rest, ...) is a record of bounds; a behaviour
stays within one of the given loads. It lets one run look at, say, two threads
without failures and one with all of them, where the product would be too large
and would show little more.

## 3. The runs

| run | instance | states | shows |
|---|---|---|---|
| `cycle` | 2 machines, 2 teams, 1 cycle, 2 texts; 2 edits with a fault, or an edit, a join, a departure and a fault | 0.42 M | `VersionsHonest`, `RemoteIsNewest`, `ImplementsMirror` (refinement of `TeamMirror`), `Converges` |
| `sched` | one process, 4 workflows, 2 days, 2 overlapping ticks, a failing run; two processes, 1 workflow, a failure and a crash; the plan alone, its review switched off | 0.19 M | `MarksHonest`, `DueGetsDone` |
| `team` | queue: 2 sources, 1 caller, 2 changes, a failing job; board: 3 days, 2 contents; plans that come and go back to what they were, a switch that is turned off and on, days that pass; members: 2 people, 2 labels, 2 transactions at once, up to 5 calls, a rename, a cancelled transaction | 1.1 M | `QueueHonest`, `JobsServed`, `TeammateSees`, `MembershipHolds` |
| `services` | session: 2 accounts, 2 threads, sign-ins that overlap, 1 or 2 expiries; skill: 2 directories, 2 upstream versions; okr: 2 key results in 2 files, a fault or a crash within a confirmation, or the editor of another process; replies: 2 suggestions, 2 candidates, 2 messages; accounts: 2 names, 2 tokens, a restart; notes: 2 notes, a ladder of 3; days: 2 entries, months of 2 to 4 days | 1.4 M | `AccountsNotMixed`, `SessionHonest`, `InstallKeeps`, `ProgressHonest`, `AnswersMeanTold`, `SessionsHold`, `NotesTell` |
| `planning` | sheet: 1 capture, 1 task, 2 days, 4 kinds of users, one with a session on the second day; docs: 2 cycle files, 2 jobs; schedule: 1 item, 3 sessions; score: 9 candidates; frame: a day of 4 hours; history: 3 tables, 3 records; outputs: 3 days, cache of 1; inbox: 3 texts, 4 days | 0.95 M | `LastWordWins`, `FinishedStaysOff`, `CaptureStays`, `RowsNotForgotten`, `WordsKept`, `TakenStaysOff`, `SheetOrder`, `FrameKept`, `HistoryFiled`, `OutputsStay` |
| `interaction` | chat: 3 messages and a change of the configuration, or 2 messages and 2 failures; rules: 2 rules, 2 processes; drift: 2 trackers, 2 days, 2 zones, 2 reviews, a failing card; web: 2 turns, stops, closes; meter: 2 turns, 4 calls, limits that one call more exceeds; desk: one chat, repeated and lost deliveries | 0.9 M | `AgentsKept`, `RequestsAnswered`, `RulesKept`, `DriftAsked`, `TurnsSettle`, `SpendBounded`, `DeskKept` |
| `workflows` | runs: one that sends, one that does not, a skill run; calendar: 2 priorities, 2 cards, 2 handlers, warning of a taken slot or leaving it alone; evidence: 22 sources, one amiss at a time, or far too large; pack: 0 to 130 issues, texts ahead of the snapshot within its room and beyond; review: 2 drafts, 4 endings | 0.9 M | `LedgerHonest`, `SkillCancelSticks`, `RunSettles`, `CalendarKept`, `EvidenceHonest`, `WritebackConfirmed` |
| `chat_failed`, `docs_review`, `plan_undo`, `confirm_shown`, `past_day` | one part each | | violations, section 6 |

Each finishes in one to four minutes with two workers.

Why the bounds suffice: each hazard needs a small number of actors, and every load
has them: two machines and one row in flight (CycleSync), one queued job and one
running (SyncQueue), two transactions and a lock (Membership), one operation that
overtakes another (TeamSession), two ticks or two processes on one key
(Scheduler), one plan run around one event and one midnight (DaySheet), two
writers and one document (CycleDocs), two cards of one draft (Calendar, OKR,
ReviewWriteback), a stop, a message and an agent (Conversation, WebChat), a press
and its repetition around another (Desk), a day, the next and the one on which the
cache is pruned (DayArchive), a text within another (Inbox). The limits of
Evidence and SkillPack are the code's own. Every counter is in a bound named in
the constants; nothing else is cut. Each property has a mutant of the code that
breaks it within these bounds. `CHECK_DEADLOCK FALSE` is given throughout: when the bounds are spent
the system rests, as the real one does when nobody acts.

Symmetry is used for the interchangeable threads of `services`, which has no
liveness property.

## 4. Fairness

- CycleSync: a tick is a timer that the queue serves although saves are in front
  (strong fairness of `StartTick`), and a job goes on (weak fairness of
  `JobStep`): each request has a timeout, so that it ends in an answer or a fault.
  Faults are bounded: the claim is about what happens after the last one.
- SyncQueue: the interval fires and jobs end. Nothing is assumed of the watcher or
  of the debounce timers, on which no property may depend.
- Membership: the database carries on with a transaction it has begun
  (`ServerStep`); a person need not call.
- Scheduler: time passes, `setInterval` fires, file operations and runs end (as in
  WorkflowRun), launchd restarts a dead process.
- WorkflowRun: a run ends, by the timeouts of the agent command and of the sender.
  `llm.timeout_ms` = 0 disables the first. `lark-cli` is given 30 s for a message
  (`connectors/lark-cli.ts:216`), but the Feishu SDK is created without a timeout
  (`connectors/feishu-sdk.ts:82`, `:143`): a connection that never answers then keeps
  the run for ever. Neither `RunSettles` nor `DueGetsDone` is claimed of these two
  settings, nor of a disk on which the ledger cannot be written: `safeWriteRun` warns
  and goes on (`workflows/run-ledger.ts`).
- Conversation: what is awaited is answered, timers go off, closing pipes are seen.
  An agent need **not** end by itself: that everything is answered rests on the
  time-out and the second signal.
- WebChat: the same for the turns of the console (its `Step`): a time-out ends
  every child.
- Desk: what is looked up is answered or fails, handlers and runs end.
- All other parts have safety properties only.

In a sum, fairness is asked of a part's own steps (`WF_v(part = "x" /\ ...)`), so
that it says nothing of the other parts' behaviours.

## 5. What is proved

Theorems of the form `Spec => [](...)` or `Spec => [][...]_vars`, for any
constants that satisfy the modules' assumptions. Each rests on an inductive
invariant, with one step per action; TLC checked each invariant on the runs
before it was proved. Of a part of a sum two theorems are stated: one of the
component's own specification (`Board!Spec => ...`), which is the result, and one of
`PartsSpec` with the property exactly as the run checks it.

- **CycleSync_proofs**: `TypeCorrect`, `VersionsAlwaysHonest` (`VersionsHonest`),
  `TableIsNewest` (`RemoteIsNewest`), `CacheAlwaysCommitted`, `MachinesMirror`
  (`ImplementsMirror`).
  The types are not inductive alone: a job that runs must act for a team, have a
  request open only while it waits for the answer, and know no less than
  `state.json`; this is `JobOK`, and `TypeInv` is both. For honesty, a file is
  cached before its version is claimed, a crash takes the job back to `disk`, and
  a change of team clears versions and files together; `HonestInv` joins the
  claim for `disk` and for `mem`, as each is copied into the other. That the table
  holds the newest needs `TableInv`: timestamps are handed out in order, an account
  has one transaction open at a time, and what is open is newer than what its
  owner has committed. The refinement is a step refinement: every step of `CycleSync`
  publishes, advances, forgets, or leaves `TeamMirror`'s variables alone
  (`MirrorInv` says that a cached row is a committed one of its key, and that the rows
  fetched are committed ones of others, one of a key, and not older than what is held).
- **SyncQueue_proofs**: `TypeCorrect`, `QueueAlwaysHonest` (`QueueHonest`),
  `NeverSentBack` (`SentNeverBack`). An answer is fresh because of what holds while
  the job is still running: what it has read of a source is not older than what
  any of its waiters asked for (`ReadsFresh`), which rests on every waiter having
  been made for the job's key (`WaitersKnown`) and on no waiter being added to a
  job that runs: a waiter's key is queued (`Queued`), and `Take` moves the waiters
  into the job with nothing read yet. One job at a time, and one source at a time
  in it (`SingleFlight`), keeps what is on its way between what the remote and the
  source hold (`OnItsWay`); `NeverSentBack` follows from it.
  Of the board: `BoardAlwaysShown`, `TeammateAlwaysSees` (`TeammateSees`).
  `BoardInv == BoardTypes /\ NotAhead /\ CopiesOlder /\ Remembers /\ Sent /\ Viewed`:
  no version and no watermark is ahead of the clock; a copy in the
  cache is the row of the remote or an older one the next look fetches; what the
  owner remembers of a row it sent is what stands there unless it forgot (`hit`);
  and the stages of a tick and of a look carry this to their end. The cache shows
  what was pushed because no more days are pushed than kept, on either side
  (`BoardAssumption`, the numbers of `sync.ts:186-201`).
- **TeamSession_proofs**: `TypeCorrect`, `AccountsStayApart` (`AccountsNotMixed`),
  `SessionAlwaysHonest` (`SessionHonest`), `FactsStayCurrent`. `SessionInv` says of
  the file and of every thread's copy that its token was issued to a sign-in of its
  account and that the account has been in its team; each copy is written
  back somewhere, so the property must hold of all of them. A sign-in holds a record of
  another account, maybe, until its body is there (`Opened`); what it then files is of
  the account's own teams, or of none, or noted in `crossed`, which `AccountsNotMixed`
  exempts (section 6). `FactsStayCurrent` is the
  part that several threads do *not* give (section 6). `SessionAlwaysHonest` and
  `FactsStayCurrent` speak of one operation at a time and have the hypothesis
  `ParentReuse`, that the server takes the parent of the active token once more, as
  GoTrue does; `AloneInv` says that the file's token is then the active one or its
  parent, and that the facts of the file and of the operation are the newest ones.
  Of the console: `ConsoleHoldsAlways`, `SessionsAlwaysHold` (`SessionsHold`).
  `ConsoleInv` says of the rows in the file and of the cache of a running console that
  they differ only in what is still to be written or was only granted in memory
  (`SessionsKept`), and of a sign-up in progress that it is the one that found no
  owner (`OwnerToBe`); the latter two for one console, whose requests have no
  await between reading the cache and writing it.
  Of the skills: `InstallAlwaysKeeps`, `CheckoutsAlwaysKept` (`InstallKeeps`). One
  job clones into a directory at a time (`OneCloner`), and a job that is about to
  pull has seen a checkout without changes (`WorkedIn`), so that what the user did
  is either seen and left, or came after and makes the pull stop.
  Of the key results: `HistoryAlwaysTells`, `ProgressAlwaysHonest` (`ProgressHonest`).
  The first file that has a key result is the one that is read and the one that is
  written (`FirstOf`), so a line of history tells what is then read; between a row
  and its line the confirmation under way knows the line, and a row whose line was
  lost is loose until it is saved or written again.
  Of the answers: `AnswersStayTold`, `AnswersAlwaysMeanTold` (`AnswersMeanTold`).
  `AnswersInv` says that a number that was told is that of its suggestion in the
  file for as long as that list is the file's (`ToldAs`), that a list written without
  a message has only suggestions that some message told, that an answer takes its
  suggestion out of it, so that no second route finds it (`RecordMeans`), and that
  the message of every revision is in the log before a poll could take it again; the
  lists that were told and shown only grow, so that what was meant stays meant.
- **Scheduler_proofs**: `TypeCorrect`, `MarksAlwaysHonest` (`MarksHonest`),
  `EntriesStay`, `AcceptedPlanStays`. The invariant joins the shape of a tick (what it
  holds, where it stands, which run it has started), the lock (held by at most one
  living claimant of its key), and what it read. The lock alone is not enough: under
  it a process works on the state it has read, so the file must not have changed
  behind it (`Reading`); this holds in one process, where a claim is not interrupted,
  and without a crash for several processes on one key (`Sole`). With two processes
  on two keys it is false (section 6), and the property does not claim it.
- **WorkflowRun_proofs**: `TypeCorrect`, `LedgerAlwaysHonest` (`LedgerHonest`),
  `SettledStays`, `CancelledSkillStays` (`SkillCancelSticks`). The invariant is
  `IInv == TypeOK /\ CopyIsLedger /\ StageHonest /\ LedgerHonest`: a run rewrites
  the file from its own copy, so the copy must equal the file (the cancel handler
  changes the copy too), and a stage implies the deed before it.
  Of the write-back of a review: `ConfirmedAlways`, `WritebackAlwaysConfirmed`
  (`WritebackConfirmed`). `ReviewInv` adds that each call of the CLI that is under way
  or was killed had been confirmed with its draft: it writes when it wants to.
  Of the calendar: `EventsAlwaysReached`, `CalendarAlwaysKept` (`CalendarKept`).
  `BookInv == BookTypes /\ Refs /\ Present /\ Batched /\ InOrder`: events, rows and
  batches refer to what was issued and no two rows to one event (`Refs`), an active
  row's event is there or just being deleted (`Present`), its batch is one undo
  can find (`Batched`), and, for confirmations one after the other of which no answer
  is lost, what stands in the calendar beyond the rows is the one event that was
  created and not yet noted (`InOrder`). Requests that are refused change nothing;
  an answer that is lost, an event deleted by hand and a crash are noted in `hit`. That there is one event for a task is a statement about three
  cardinalities; `BookCounts` derives it from bijections between the sets.
- **DaySheet_proofs**: `TypeCorrect`, `LastWordAlwaysWins` (`LastWordWins`),
  `CapturesStay` (`CaptureStays`), `NoRowForgotten` (`RowsNotForgotten`),
  `FinishedStaysOffAlways` (`FinishedStaysOff`). The invariant adds to the first
  property that the last day that spoke of a capture is the one recorded
  (`SpokeIsLast`) and that a capture which was never written has no state anywhere
  (`UnwrittenUnknown`): without them an event of an earlier day could be taken for
  the last word. For the rows, `SheetInv` says which days the runs under way can be
  of, given the user's habits (`RunsTimed`), that no later day is planned, waited for
  or closed (`NothingAhead`), and that a task's tick is of today, if it has one, in
  the candidates of today's runs and on today's sheet (`TasksFresh`), unless it has a
  session today; `OfferInv` says that the runs under way were offered their sessions.
  Of the schedule: `TakenAlwaysOff`, `TakenStaysOffAlways` (`TakenStaysOff`).
  `ScheduleInv` says the same of every copy of the sessions there is: the file, the
  page of a client, what a generation has read (`Copy`), because each of them is
  saved some day; a change of one is shown to take nothing (`Derived`).
  Of the cycle files: `DraftsAlwaysKept`, `WordsAlwaysKept` (`WordsKept`), the latter
  with the passes of the migration. A job carries the body it read before its
  wait, but what is owned is decided again when it writes; `DocsInv` needs only the
  types, that a draft lies only beside words that are kept (`DraftBesideKept`), and that
  a section without a file is unwritten. `DocsStep`, the action properties, is
  proved along with it.
- **Conversation_proofs**: `TypeCorrect`, `AgentsAlwaysKept` (`AgentsKept`). That a
  scope has one agent at a time, and that an agent resumes the latest thread of its
  policy, follows from how runs are handed on: messages are sent in order
  (`SentInOrder`), a stop under way is in no batch but its own (`StopsApart`), agents
  are started in order and one whose thread was kept is over (`AgentsInLine`), the
  batch at work has the latest agent (`WorkInLine`), the session's thread is of its
  policy with none kept after it (`SessionInLine`, `ResumesLatest`), and while
  nothing goes wrong the only agent at work is that of the batch (`OneAtATime`).
  Of the rules: `ConfirmedStay`, `RulesAlwaysKept` (`RulesKept`). A rule's words
  are those of a candidate that was confirmed for it, since a number names one
  candidate for good (`CandidateInv`); who greets holds the lock, and a chat that was
  greeted is filed as such or about to be (`GreetInv`), unless a lock was taken
  from a living process.
  Of the drift: `CardsAsk`, `DriftAlwaysAsked` (`DriftAsked`). The ledger of decisions
  has what was pressed, by the date of the card, and no more; a review between its
  look at the ledger and its card carries what was pressed before (`CardOk`,
  `AllAsked`); that a reference wins over a guess is `SureFirst`.
  Of the budget: `SpendStaysBounded`, `SpendAlwaysBounded` (`SpendBounded`). A run has
  one call at a time and began it under the limits, so that what is booked on a day,
  and each call still due on it at the price of the dearest, stay below the limit and
  one dearest call for each run (`RunBound`, `DayBound`). What calls cost is counted in
  units of a millionth, a sum is the number of units of its calls, and the proof
  counts units.
- **Membership_proofs**: `TypeCorrect`, `NobodyHops`, `NeverStranded`,
  `LabelsAlwaysApart`, `OldCodesStayDead`, the safety parts of `MembershipHolds`.
  The invariant says that who holds the lock of a row has seen that row as it still
  is (`HoldersFree`), that a team that was found is there and that codes are never
  issued twice. The module is only instanced, so the two assumptions on its
  constants are the hypothesis `Numbered` of its theorems: the bounds are bounds,
  and no call has the number that says a row is free.

Assumptions of the others: `NoTeam` and `NoContent` are no teams and texts, the
founded teams are teams; what is watched is a source; captures and tasks are
disjoint; senders are workflow runs; processes are finitely many, the days on which
a cycle is set are days, and a lock becomes stale after a positive time (30 minutes
in the code). All are evaluated by TLC on the runs.

The parts of the sums add: what is not there is no member (`NoContent`, `Nowhere`,
`Nobody`), bounds and days are numbers and there is a first cycle, file, day and
version; the loads are loads; key results, titles and consoles are finitely many;
a confirmation's handlers and batches are numbered; the days that are pushed
are no more than those that are kept; there is a price that no call exceeds; what
may be suggested and what may be progress is finite, and no process has the name
of an open lock.

Only model-checked:

- everything under fairness (`Converges`, `DueGetsDone`, `JobsServed`'s second half,
  `RequestsAnswered`, `RunSettles`, `TurnsSettle`, the last part of `MembershipHolds`
  and of `DeskKept`): neither ENABLED nor liveness under fairness is in the
  prover's reach;
- `EvidenceHonest`, `SheetOrder`, `FrameKept`, `HistoryFiled`, `NotesTell`: what cuts,
  orders, selections over sequences and calendars compute is an induction over
  data, out of the prover's reach. No theorem needs one, and no module that is proved
  about reaches a recursive operator;
- `DeskKept`'s safety, `OutputsStay`, whose invariants are not written yet.

## 6. Where code and documents disagree

Shown by a run:

1. `chat_failed`: an agent that fails before its card was sent ends the service
   (`interaction/feishu-interaction.ts:569`), against `README.md:664`.
2. `docs_review`: a drafted review is saved over what was written while the model
   worked (`ui/server.ts:2193`), against "It only ever fills a gap" (`:2134`).
3. `plan_undo`: a fixed row that is put off and restored does not come back
   (`cycles/fixed-schedule.ts:94`), against "Every change is reversible"
   (`cycles/schedule-writeback.ts:9`).
4. `confirm_shown`: confirming an older calendar card writes the newer draft
   (`calendar/bridge.ts:439`), against `storage/db.ts:389`.
5. `past_day`: a row added by hand is gone from a past day once the cache is
   pruned (`storage/memory.ts:110`), against `todo/today-plan.ts:132`.

The following were met while modelling; each was shown by a run while the module
was written, with the property named in parentheses where the module or its MC
module still states it, or is the reason for an exemption named in a property.

*Team.* A save right after a change of team writes the new team into `state.json`
without the reset (`team/sync.ts:300`, `:336`), so the tick keeps the old team's
watermark and hashes. A board whose push lost its answer is not known as shared, so
turning sharing off leaves its row (`:689`; both are why `BoardShown` and
`PlansShown` of `TeamBoard` exempt an owner who forgot what it sent). An answer lost after the row was
written, and the file edited back to the text last acknowledged: the push is
skipped (`:378`); so it is with a plan that was pushed, changed with the answer
lost, and changed back: a teammate keeps the text in between (`:571`, against
`:567`). With three machines a row with an older timestamp may commit
after a newer one (`:424`). An operation in flight writes the session back after a
sign-out (`team/team.ts:150`, against `:233`), and a re-read of the facts writes
back tokens read two awaits earlier (`:120`). A sign-in takes the team of the record
it read before the body of its answer arrived and looks only at the record there
afterwards: when a sign-in of the same account ends in between, or the file is
cleared, it files the other account's team (`team/team.ts:214`, `:217`, against
"must not inherit the previous one's cached team", `:215`; `AccountsAlwaysApart` of
`TeamSession`). In the database,
`rotate_invite_code` reads its team without a lock, so that somebody who leaves in
between still changes the code (`init.sql:472`), and a join that looked a code up
before it was changed commits after (`team.ts:316`).

*Scheduler and runs.* Two processes that claim two workflows at once lose one
entry (`service/launchd.ts:339`). A process that dies in a run leaves it marked as
done (`:194`) and `running` in the ledger (`workflows/run-ledger.ts:59`), against
`README.md:81`. A record that cannot be written is only warned of
(`run-ledger.ts:147`), and a message through the Feishu SDK has no timeout
(`connectors/feishu-sdk.ts:82`, `:143`), so that its run may never end (section 4). A
cancelled workflow run ends as succeeded
(`workflows/run-workflow.ts:197`, against `:68`).

*Evidence and packs.* `todo_scored`, `cycle_focus` and `fixed_schedule` have no rank
and go first when the prompt is too long (`evidence-budget.ts:84`), although
`linear.items` goes because every issue "is already in `todo_scored`"; the rank
`vault` and the names `feishu_work_*` match no source of the default profile. Some
sources are `available` when nothing was read (Linear without a filter, GitHub with
repositories, local files); the trace lists 14 sources; the memory section has no
budget; a probe that hung refuses the provider until restart. The retro block of a
skill's pack is "near the top" (`context.ts:25`) but behind up to twelve issues
with their comments, so it lands behind the cut (`RetroRead` of `SkillPack`). The snapshot of Linear is
"budgeted to stay inside the first 20k chars" (`skills/runner.ts:616`), which holds
while the texts ahead of it are at most 8,300 characters; the OKR chain alone was
measured at 12.7 KB (`context.ts:20`; `SnapshotAlwaysRead`). The notes of what was
cut from the evidence go to the console only (`agent/openai-agent.ts:77`): a list
that was shortened looks whole to the model (`ModelTold` of `Evidence`).

*Day sheet.* A capture ticked while a plan is made comes back as open work
(`workflows/run-workflow.ts:158`, against `todo/inbox.ts:430`). A rest-day plan
takes in no open captures. A row moved onto a planned day is in that plan's text
only (`todo/wrapup.ts:148`); a crash between the deletion of the waiting rows and
the save loses them (`:213`). A plan run that outlasts midnight brings open rows
into a closed day (`ui/server.ts:1931`). Deferring a ticked row leaves its capture
done (`todo/inbox.ts:250`). Staleness counts from the creation, so that a capture
renamed today is let go with the pile (`inbox.ts:309`), and what was let go is
deleted 30 days later (`server.ts:929`); an introduction alone captures nothing.
The plan reads the lines of the cycle before it ticks them from Linear
(`run-workflow.ts:84`); a line that names an issue merges into its row and loses
its slot. A note under the plan's heading reads as the plan after pruning; prose
appended to a review hides it from the history (`day-history.ts:43`).

*Cycles, calendar, frame.* A generation and the filing of a line read the body
before a wait of minutes (`todo/unplanned.ts`, `ui/server.ts:2689`). A table whose
headers drop the suffix is read with its columns in the wrong order; runs keyed by
a label have no year. Two cards, or a press after 30 seconds, book twice
(`calendar/writeback.ts:22`), and undoing a batch deletes an event that an
earlier batch created and this one only moved. A block that an event splits can be neither hidden nor edited
(`routine.ts:373`); an ad-hoc row past midnight shortens its room for good.

*Write-backs.* The history of the key results is said to be appended "atomically" (`okr/biweekly-progress.ts:220`),
but one that cannot be read is taken for empty and replaced (`:224`; `HistoryKept` of
`OkrWriteback`), and the rows are written before it: a process that dies in between,
or a history that cannot be written, leaves rows without a line (`NothingLoose`). A
confirmation works its rows out again, from the draft and the files of then, which
may not be what the card showed (`WritesAsShown`).

"Record the batch even on partial failure, so undo
can reach whatever got written" (`calendar/writeback.ts:234`): an event whose create
answer was lost has no row (`:212`, `:228`), no undo reaches it, and the next
confirmation books its task again. `UndoReaches` and `OneEventPerTask` exempt lost
answers for that reason; what is refused is covered.

*Suggestions.* The message says that a suggestion is answered by its number
(`service/background-suggestions.ts:230`), but a run that finds the same set in another
order writes the list anew (`:64`) and sends nothing (`:81`), so that `accept 1` records
another suggestion than the one told (`NumbersStay` of `Replies`); `NumbersHold` says
what is left: the number holds until the list is written anew, and what is then
recorded was told by some message. So it is between the writing of a list and its message.

*Drift.* When the sending of the card fails a line in the log is all there is
(`workflows/run-workflow.ts:193`; `NothingMissed` of `SyncDrift`). Messages and updates
count for the day on which UTC has them, the review for the user's
(`progress/sync-drift.ts:626`), so what is said in the hours between is not heard
(`TodayIsHeard`); and a guess by title is made of an issue that was updated today, too,
against "not yet synced" (`:8`; `UpdatedIsSynced`).

*Chat.* Only replies through the SDK are recorded as own messages
(`self-origin.ts:32` says "anything we emit"; `OutputLeftAlone` of `Desk`). A process that
dies between the arrival of a card and its record leaves the run as `skipped`, which
the ledger has for what was not sent (`SkippedIsUnshown`). A tick on
an older card is filed under today (`TicksItsDay`). With the output off a typed
run is delivered to nobody and its rows count as shown. Two commands within one
debounce are joined and neither is carried out; a failed lookup makes a topic chat
a plain group; a stop pressed on an old card stops the listed run; a
confirmed text may be one that was not shown (`ConfirmedWasShown` of `Replies`,
`WritesAsShown` of `OkrWriteback`, `TextWritesShown` of `ReviewWriteback`); a
message the connection brought may be handled again by the poll; a bare
confirmation of a rule takes the newest.

*Console and small files.* A stop during the start of an agent misses it, and
overlapping turns share one entry; a deletion is answered before the last message
is stored. Failed answers cost and are not recorded. Two consoles on one data
directory overwrite each other's sessions; the reset of the admin password goes by
name (`RecoveryIsAdmin` of `Accounts`). Notes are "never synced"
(`reminders/store.ts:28`) but pushed (`team/sync.ts:715`); an unparsable file reads as empty
and the next save drops it (`SavedIsRead`). A yearly date shows before its first
year, ignores its end, and loses its note in an update (`NeverBeforeFirst`,
`EndsAtEnd`, `OmittedKept` of `Countdowns`); a passed date that is pinned is dropped from
the card (`countdown/store.ts:287`), against "Pinning it keeps it" (`:281`; `PinnedStays`). A start after an interrupted clone
provides nothing (`LaunchProvides` of `SkillRepo`).

## 7. Abstractions

- Contents are values, texts lengths, formats and wording left out. Time is a
  counter of ticks or days.
- A request in flight at a crash is committed or dropped; transactions that begin
  later have a larger timestamp.
- TeamSession: no operation outlives an access token; a sign-up needs no
  confirmation by mail. Membership: two people; any call may be sent, since the client's facts may be old.
- Scheduler: the configuration does not change, entries are not pruned.
- WorkflowRun: the newest 200 records are kept by the code, all by the model.
- DaySheet: a *profile* says which events a user sends; Linear rows are in `Scorer`,
  weekly rows in `CycleSchedule`, the calendar in `Calendar`. DayArchive: the cache
  keeps one of three days. Inbox: one process, three texts; the note of the vault is
  left out.
- Scorer: order of start times, calendar proximity and ties are left out, likeness
  is a given relation.
- OkrWriteback: one confirmation at a time; reading, changing and replacing the file
  of one row is one step. SyncDrift: a signal is the issues it names and the one its
  words are like; days are numbers. Replies: what is collected is a set in some order.
- Migration: one year, a dry run, dates from labels.
- Evidence: what a source contains is its lengths, but for one issue that moves;
  `warned` is what goes to the console. SkillPack: of the texts ahead of the snapshot
  the request and the strategy have lengths of their own, the rest is constant.
- Calendar: the dry run and an engine outside of daily-os are left out, and so is an
  event that is created without an id in the answer (`unknown-...`). ReviewWriteback: the CLI is one step, external.
- Conversation: time-outs are positive; only `new`, `stop` and free text are
  commands. Desk: one chat, one person; replies arrive; an own message comes back
  within its time to live; the other commands of a card are one confirm button.
- TokenMeter, Accounts, Inbox, ReviewWriteback: one process (two for `Accounts` on
  demand; section 6 says what two would do).

## 8. Not modelled

Configuration, command line and MCP: parsing and dispatch with no state of their
own. The companion app (Swift) and the scripts: clients and build steps outside the
backend. Pages and routing of the console, wording of cards and prompts, the
guides of habits, the rhythm notes, parsers of feeds and frontmatter, the login
throttle, the initialisation of OKR files, the plist: pure text, or one synchronous
call without an interleaving. `executeWeeklyReviewWriteback` has no caller. The
analysis of chats and the models' own answers are a choice in the models.

## 9. Plan

1. *Core, done*: CycleSync with TeamMirror, SyncQueue, TeamSession, Scheduler,
   WorkflowRun, DaySheet, Conversation, with their first theorems.
2. *Extension, done*: question and answer (Replies, SyncDrift, PolicyRules), cycles on
   disk (CycleDocs, CycleSchedule, Migration), write-backs (Calendar,
   OkrWriteback, ReviewWriteback), the day (Scorer, DayFrame, DayArchive, Inbox),
   evidence and packs, the console (WebChat, TokenMeter, Accounts), small stores,
   skills, Desk, TeamBoard, Membership; theorems about SyncQueue and Membership.
3. *Proofs, done*: the invariants and action properties of the components that run
   concurrently or survive a crash, the step refinement of `TeamMirror`, and the
   documents and write-backs with several writers.
4. *Later*: the invariants of Desk and DayArchive; Scheduler
   composed with WorkflowRun (an entry stands for a record that succeeded); a crash
   in DaySheet; two processes in Accounts and TokenMeter.
