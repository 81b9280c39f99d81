------------------------------ MODULE SyncQueue ------------------------------
(***************************************************************************)
(* The sync loop of one machine (startTeamSync in src/team/sync.ts): the   *)
(* single-flight queue through which the 60 s tick, the file watcher, the  *)
(* change bus and the console's buttons run sync jobs, the trailing        *)
(* debounce in front of it, the watcher's asynchronous start, and stop().  *)
(*                                                                         *)
(* A source is something that is pushed: a cycle file or the today plan.   *)
(* Its content is a version number.  A job for a source pushes that one; a *)
(* tick pushes every source.  A job reads a source when it comes to it and *)
(* the version it read lands on the remote some time later.                *)
(***************************************************************************)
EXTENDS Naturals, Sequences, SequencesExt

CONSTANTS
  Sources,     \* what can change and be pushed
  Watched,     \* the cycle files, which the watcher reports changes of;
               \* the change bus reports those of the other sources
  Callers,     \* the calls of pushCycle and runNow that await a result
  MaxChanges,  \* bound: changes of sources
  MaxFails     \* bound: jobs that fail

ASSUME WatchedAssumption == Watched \subseteq Sources

Tick == "tick"
JobKeys == Sources \union {Tick}
Covers(k) == IF k = Tick THEN Sources ELSE {k}

VARIABLES
  version,   \* version[s]: what the source holds
  sent,      \* sent[s]: what the remote holds
  queue,     \* the keys of the queued jobs, in insertion order
  waiters,   \* waiters[k]: the calls waiting on the queued job of k
  flight,    \* the jobs that are running
  running,   \* the flag of drain()
  timers,    \* the keys with a debounce timer
  watcher,   \* "warming" | "on" | "off"
  stopped,
  call,      \* call[r]: what each call asked and got
  spent

vars == <<version, sent, queue, waiters, flight, running, timers, watcher,
          stopped, call, spent>>

NoCall == [status |-> "none", key |-> Tick, asked |-> [s \in Sources |-> 0],
           got |-> [s \in Sources |-> 0]]
NewJob(k, W) == [key |-> k, waiters |-> W, todo |-> Covers(k),
                 carry |-> {}, got |-> [s \in Sources |-> 0]]

(* Mutant of Take: the loop ends and the flag is not cleared.              *)
TakeStuck(q, w, rest) ==
  IF q = <<>>
  THEN /\ queue' = q /\ waiters' = w /\ flight' = rest /\ running' = TRUE
  ELSE /\ queue' = Tail(q)
       /\ waiters' = [w EXCEPT ![Head(q)] = {}]
       /\ flight' = rest \union {NewJob(Head(q), w[Head(q)])}
       /\ running' = TRUE

(* drain(): take the first queued job, or leave the loop when there is     *)
(* none.  Checking and leaving are one synchronous step.                   *)
Take(q, w, rest) ==
  IF q = <<>>
  THEN /\ queue' = q /\ waiters' = w /\ flight' = rest /\ running' = FALSE
  ELSE /\ queue' = Tail(q)
       /\ waiters' = [w EXCEPT ![Head(q)] = {}]
       /\ flight' = rest \union {NewJob(Head(q), w[Head(q)])}
       /\ running' = TRUE

(* Mutant of Enqueue: a call joins the run of its key that is under way.    *)
EnqueueJoining(k, W) ==
  LET w == [waiters EXCEPT ![k] = @ \union W]
      live == {j \in flight : j.key = k}
  IN
  IF live # {}
  THEN /\ flight' = (flight \ live) \union {[j EXCEPT !.waiters = @ \union W] : j \in live}
       /\ UNCHANGED <<queue, waiters, running>>
  ELSE IF Contains(queue, k)
  THEN waiters' = w /\ UNCHANGED <<queue, flight, running>>
  ELSE IF running
       THEN queue' = Append(queue, k) /\ waiters' = w /\ UNCHANGED <<flight, running>>
       ELSE Take(Append(queue, k), w, flight)

(* Mutant of Enqueue: drain() starts a second loop.                        *)
EnqueueAlwaysDraining(k, W) ==
  LET w == [waiters EXCEPT ![k] = @ \union W] IN
  IF Contains(queue, k)
  THEN waiters' = w /\ UNCHANGED <<queue, flight, running>>
  ELSE Take(Append(queue, k), w, flight)

(* enqueue(): coalesce with the queued job of the same key, or queue a new *)
(* one and start draining unless a drain is under way.                     *)
Enqueue(k, W) ==
  LET w == [waiters EXCEPT ![k] = @ \union W] IN
  IF Contains(queue, k)
  THEN waiters' = w /\ UNCHANGED <<queue, flight, running>>
  ELSE IF running
       THEN queue' = Append(queue, k) /\ waiters' = w /\ UNCHANGED <<flight, running>>
       ELSE Take(Append(queue, k), w, flight)

Init ==
  /\ version = [s \in Sources |-> 0]
  /\ sent = [s \in Sources |-> 0]
  /\ queue = <<>>
  /\ waiters = [k \in JobKeys |-> {}]
  /\ flight = {NewJob(Tick, {})}        \* void runNow()
  /\ running = TRUE
  /\ timers = {}
  /\ watcher = "warming"
  /\ stopped = FALSE
  /\ call = [r \in Callers |-> NoCall]
  /\ spent = [changes |-> 0, fails |-> 0]

(* A source changes.  The change bus arms the source's timer; the watcher, *)
(* once it is on, too, or the tick's when the event bears no file name.    *)
Change(s) ==
  /\ spent.changes < MaxChanges
  /\ spent' = [spent EXCEPT !.changes = @ + 1]
  /\ version' = [version EXCEPT ![s] = @ + 1]
  /\ timers' \in CASE stopped -> {timers}
                  [] ~stopped /\ s \notin Watched -> {timers \union {s}}
                  [] ~stopped /\ s \in Watched ->
                       IF watcher = "on" THEN {timers \union {s}, timers \union {Tick}}
                       ELSE {timers}
  /\ UNCHANGED <<sent, queue, waiters, flight, running, watcher, stopped, call>>

FireTimer(k) ==
  /\ k \in timers
  /\ timers' = timers \ {k}
  /\ Enqueue(k, {})
  /\ UNCHANGED <<version, sent, watcher, stopped, call, spent>>

(* The 60 s interval.                                                      *)
Interval ==
  /\ ~stopped
  /\ Enqueue(Tick, {})
  /\ UNCHANGED <<version, sent, timers, watcher, stopped, call, spent>>

(* runNow and pushCycle from the console, also after stop().               *)
Request(r, k) ==
  /\ call[r].status = "none"
  /\ call' = [call EXCEPT ![r] = [status |-> "waiting", key |-> k, asked |-> version,
                                  got |-> NoCall.got]]
  /\ Enqueue(k, {r})
  /\ UNCHANGED <<version, sent, timers, watcher, stopped, spent>>

(* The job reads the next source it has to push.                           *)
Read(j, s) ==
  /\ j \in flight /\ s \in j.todo /\ j.carry = {}
  /\ flight' = (flight \ {j}) \union
       {[j EXCEPT !.todo = @ \ {s}, !.carry = {[source |-> s, content |-> version[s]]}]}
  /\ UNCHANGED <<version, sent, queue, waiters, running, timers, watcher, stopped,
                 call, spent>>

(* What it read is on the remote and acknowledged.                         *)
Land(j) ==
  \E c \in j.carry :
    /\ j \in flight
    /\ sent' = [sent EXCEPT ![c.source] = c.content]
    /\ flight' = (flight \ {j}) \union
         {[j EXCEPT !.carry = {}, !.got[c.source] = c.content]}
    /\ UNCHANGED <<version, queue, waiters, running, timers, watcher, stopped, call,
                   spent>>

(* The job is over: its waiters get the result, the loop goes on.          *)
Finish(j, status) ==
  /\ j \in flight
  /\ call' = [r \in Callers |->
       IF r \in j.waiters THEN [call[r] EXCEPT !.status = status, !.got = j.got]
       ELSE call[r]]
  /\ Take(queue, waiters, flight \ {j})
  /\ UNCHANGED <<version, sent, timers, watcher, stopped>>

Succeed(j) == j.todo = {} /\ j.carry = {} /\ Finish(j, "ok") /\ UNCHANGED spent

FailJob(j) ==
  /\ spent.fails < MaxFails
  /\ spent' = [spent EXCEPT !.fails = @ + 1]
  /\ Finish(j, "error")

(* warmPath and watchDirectory: the directory answers in time and can be   *)
(* watched, or it does not, or fs.watch throws.                            *)
Warmed == {"on", "off"}

(* Mutant of WatcherReady: stopped is not looked at after the await.       *)
WatcherReadyLate ==
  /\ watcher = "warming"
  /\ watcher' \in Warmed
  /\ UNCHANGED <<version, sent, queue, waiters, flight, running, timers, stopped,
                 call, spent>>

(* The end of the warm-up: the watcher starts, unless that failed or the   *)
(* loop was stopped in the meantime.                                       *)
WatcherReady ==
  /\ watcher = "warming"
  /\ watcher' \in (IF stopped THEN {"off"} ELSE Warmed)
  /\ UNCHANGED <<version, sent, queue, waiters, flight, running, timers, stopped,
                 call, spent>>

(* stop(): timers and sources of change are gone, what is queued or        *)
(* running goes on.                                                        *)
Stop ==
  /\ ~stopped
  /\ stopped' = TRUE
  /\ timers' = {}
  /\ watcher' = IF watcher = "on" THEN "off" ELSE watcher
  /\ UNCHANGED <<version, sent, queue, waiters, flight, running, call, spent>>

JobStep == \E j \in flight :
  (\E s \in Sources : Read(j, s)) \/ Land(j) \/ Succeed(j)

Next ==
  \/ \E s \in Sources : Change(s)
  \/ \E k \in JobKeys : FireTimer(k) \/ \E r \in Callers : Request(r, k)
  \/ Interval \/ JobStep \/ (\E j \in flight : FailJob(j))
  \/ WatcherReady \/ Stop

Spec == Init /\ [][Next]_vars

(* A running job comes to its end and the interval comes round; timers and *)
(* the watcher are an optimisation that nothing may depend on.             *)
Fairness == WF_vars(JobStep) /\ WF_vars(Interval)
FairSpec == Spec /\ Fairness

(***************************************************************************)
(* Properties.                                                             *)
(***************************************************************************)
(* The queue is a list of distinct keys, only queued keys have waiters,    *)
(* and a drain is under way exactly while a job runs.                      *)
TypeOK ==
  /\ version \in [Sources -> Nat] /\ sent \in [Sources -> Nat]
  /\ queue \in Seq(JobKeys) /\ IsInjective(queue)
  /\ \A k \in JobKeys : waiters[k] # {} => Contains(queue, k)
  /\ \A j \in flight : j.key \in JobKeys /\ j.todo \subseteq Covers(j.key)
  /\ running = (flight # {})
  /\ timers \subseteq JobKeys
  /\ watcher \in {"warming", "on", "off"}

(* What the remote holds of a source never goes back: a job that read an   *)
(* older version has landed before one that reads a newer ("state.json has *)
(* exactly one writer").                                                   *)
SentNeverBack == [][\A s \in Sources : sent'[s] >= sent[s]]_vars

(* A call answered without an error was served by a run that read, of      *)
(* every source it covers, what the source held when the call was made or  *)
(* something later: it never joined a run already past that point.         *)
AnswersAreFresh ==
  \A r \in Callers : call[r].status = "ok" =>
    \A s \in Covers(call[r].key) : call[r].got[s] >= call[r].asked[s]

(* After stop() no timer is armed and no watcher is open, even when stop   *)
(* came while the watcher was still starting.                              *)
QuietAfterStop == stopped => timers = {} /\ watcher # "on"

(* No answer is stale, and nothing goes on after stop().                   *)
QueueHonest == AnswersAreFresh /\ QuietAfterStop

(* A change that is not followed by others reaches the remote, with or     *)
(* without a watcher, unless the loop is stopped.                          *)
ChangesArrive == <>[](stopped \/ sent = version)

(* Every call is answered, even one made after stop().                     *)
CallsAnswered ==
  \A r \in Callers : call[r].status = "waiting" ~> call[r].status \in {"ok", "error"}

(* The drain never stops with work left: both of the above.                *)
Drains == ChangesArrive /\ CallsAnswered

(* Jobs run one after the other and none is the last: what was sent is     *)
(* never taken back, and all that waits is served.                         *)
JobsServed == SentNeverBack /\ Drains
=============================================================================
