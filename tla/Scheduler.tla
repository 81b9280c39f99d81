----------------------------- MODULE Scheduler -----------------------------
(***************************************************************************)
(* The scheduler (src/service/launchd.ts, driven by scheduler-port.ts):    *)
(* processes that look once a minute for workflows that are due, claim     *)
(* each of them under a lock file and an entry in a shared state file, run *)
(* it, and on failure take the entry back and try again later.             *)
(*                                                                         *)
(* A tick runs synchronously up to the workflow it awaits.  The next tick  *)
(* does not wait for it, so several ticks of a process may be under way.   *)
(* Between two processes every file operation is a step.  A key stands for *)
(* "date:workflow:time"; the configured times do not change, and the       *)
(* pruning of entries two weeks old is beyond the days of the model.       *)
(***************************************************************************)
EXTENDS Naturals, Sequences, FiniteSets

CONSTANTS
  Procs,            \* processes that run the scheduler on one data directory
  Slots,            \* the ticks of a process that may be under way at once
  Order,            \* the workflows, in the order a tick visits them
  TimeOf,           \* TimeOf[j]: the configured time of day
  DayLen,           \* length of a day
  WeeklyDays,       \* the days that bear the weekly review's weekday
  SkipOnWeeklyDay,  \* daily_review.skip_on_weekly_review_day
  CycleDays,        \* days on which a new cycle has not been set at first
  RetryDelay,       \* RETRY_DELAY_MINUTES
  StaleAfter,       \* SCHEDULER_LOCK_STALE_MS
  MaxClock,         \* bound: time
  Loads             \* bounds: the loads a behaviour may have

Jobs == {Order[n] : n \in 1..Len(Order)}
Days == 0..(MaxClock \div DayLen)
Keys == Jobs \X Days
Times == 0..MaxClock

ASSUME OrderAssumption == Order \in Seq(STRING) /\ \A m, n \in 1..Len(Order) :
                            Order[m] = Order[n] => m = n
ASSUME DayAssumption == DayLen \in Nat \ {0} /\ MaxClock \in Nat /\ CycleDays \subseteq Days
ASSUME DelayAssumption == RetryDelay \in Nat \ {0} /\ StaleAfter \in Nat \ {0}
ASSUME ProcsAssumption == IsFiniteSet(Procs) /\ Slots # {}

(* A load: which processes there are, how many of their ticks overlap, what *)
(* is enabled, until when, and how many runs fail and processes crash.     *)
Load == [procs : SUBSET Procs, slots : SUBSET Slots, enabled : SUBSET Jobs,
         until : Times, fails : Nat, crashes : Nat]
ASSUME LoadAssumption == Loads \subseteq Load

VARIABLES
  clock,
  file,      \* the keys in scheduler-state.json
  locks,     \* locks[k]: the times of creation of the lock file of k
  up,
  fired,     \* fired[p]: the keys p believes fired
  retry,     \* retry[p][k]: not before this time, 0 when there is no entry
  tick,      \* tick[p][t]: the ticks under way
  op,        \* op[p]: the file operation p is in the middle of
  plans,     \* the days that have a plan
  accepted,  \* those of them whose plan the user made before the day began
  cycleDue,  \* the days whose new cycle is not set
  done,      \* done[k]: runs of k that succeeded
  load,      \* the load, and what is left of it
  calm       \* no process has crashed

vars == <<clock, file, locks, up, fired, retry, tick, op, plans, accepted,
          cycleDue, done, load, calm>>
world == <<plans, accepted, cycleDue>>

DayOf(t) == t \div DayLen
KeyAt(x) == <<Order[x.i], DayOf(x.now)>>
Idle == [pc |-> "idle", now |-> 0, i |-> 1, skip |-> FALSE]
NoOp == [pc |-> "none", tick |-> CHOOSE t \in Slots : TRUE, read |-> {}]
NoRetry == [k \in Keys |-> 0]

(* isWorkflowDue, shouldRunScheduledWorkflow, isProgressReminderDue.       *)
BeforeReview(j, time) == TimeOf["daily_review"] <= TimeOf[j] \/ time < TimeOf["daily_review"]
Due(j, t) ==
  /\ j \in load.enabled /\ t % DayLen >= TimeOf[j]
  /\ j \in {"daily_plan", "progress_reminder"} => BeforeReview(j, t % DayLen)
  /\ j = "weekly_review" => DayOf(t) \in WeeklyDays
  /\ ~(/\ j = "daily_review" /\ SkipOnWeeklyDay /\ "weekly_review" \in load.enabled
       /\ DayOf(t) \in WeeklyDays)

(* Not fired and not waiting for a retry.                                  *)
MayRun(F, R, k, now) == k \notin F /\ R[k] <= now

(* Mutant of KeepsPlan: the plan that is there is not looked at.           *)
KeepsNoPlan(j, day) == j = "daily_plan" /\ day \in cycleDue

(* The day's plan is kept, or waits for the cycle: the key is claimed and  *)
(* nothing runs.                                                           *)
KeepsPlan(j, day) == j = "daily_plan" /\ day \in plans \union cycleDue

(* The tick goes on at item i: it passes over what may not run, drops the  *)
(* retry times that are over, and starts to claim the next key or ends.    *)
Continue(p, t, now, i, F, R) ==
  LET free == {n \in i..Len(Order) : Due(Order[n], now) /\
                                     MayRun(F, R, <<Order[n], DayOf(now)>>, now)}
      seen(last) == {<<Order[n], DayOf(now)>> : n \in i..last}
      kept(last) == [k \in Keys |->
        IF k \in seen(last) /\ Due(k[1], now) /\ k \notin F /\ R[k] <= now
        THEN 0 ELSE R[k]]
  IN
  \/ /\ free = {}
     /\ retry' = [retry EXCEPT ![p] = kept(Len(Order))]
     /\ tick' = [tick EXCEPT ![p][t] = Idle]
     /\ op' = [op EXCEPT ![p] = NoOp]
  \/ \E n \in free :
       /\ \A m \in free : n <= m
       /\ retry' = [retry EXCEPT ![p] = kept(n)]
       /\ tick' = [tick EXCEPT ![p][t] =
            [pc |-> "claiming", now |-> now, i |-> n,
             skip |-> KeepsPlan(Order[n], DayOf(now))]]
       /\ op' = [op EXCEPT ![p] = [pc |-> "lock", tick |-> t, read |-> {}]]

Init ==
  /\ clock = 0
  /\ file = {} /\ locks = [k \in Keys |-> {}]
  /\ load \in Loads /\ calm = TRUE
  /\ up = [p \in Procs |-> p \in load.procs]
  /\ fired = [p \in Procs |-> {}]
  /\ retry = [p \in Procs |-> NoRetry]
  /\ tick = [p \in Procs |-> [t \in Slots |-> Idle]]
  /\ op = [p \in Procs |-> NoOp]
  /\ plans = {} /\ accepted = {} /\ cycleDue = CycleDays
  /\ done = [k \in Keys |-> 0]

Key(p) == KeyAt(tick[p][op[p].tick])
Claiming(p) == tick[p][op[p].tick].pc = "claiming"

(* No process is so slow that a lock it holds becomes stale under it.      *)
TimePasses ==
  /\ clock < load.until
  /\ \A p \in Procs : op[p].pc = "held" =>
       \A made \in locks[Key(p)] : clock + 1 < made + StaleAfter
  /\ clock' = clock + 1
  /\ UNCHANGED <<file, locks, up, fired, retry, tick, op, world, done, load, calm>>

(* Mutant of Free: claimFired awaits its file operations.                  *)
FreeAnyTime(p) == up[p]

(* Nothing runs in the process: no tick is between two file operations.    *)
Free(p) == up[p] /\ op[p] = NoOp

BeginTick(p, t) ==
  /\ Free(p) /\ t \in load.slots /\ tick[p][t] = Idle
  /\ Continue(p, t, clock, 1, fired[p], retry[p])
  /\ UNCHANGED <<clock, file, locks, up, fired, world, done, load, calm>>

(***************************************************************************)
(* claimFired and unmarkFired                                              *)
(***************************************************************************)
(* Leave claimFired or unmarkFired with the set F in memory, having        *)
(* claimed the key or not.                                                 *)
Return(p, F, claimed) ==
  LET t == op[p].tick  x == tick[p][t] IN
  /\ fired' = [fired EXCEPT ![p] = F]
  /\ IF claimed /\ ~x.skip
     THEN /\ tick' = [tick EXCEPT ![p][t].pc = "running"]
          /\ op' = [op EXCEPT ![p] = NoOp]
          /\ UNCHANGED retry
     ELSE LET R == IF Claiming(p) THEN retry[p]
                   ELSE [retry[p] EXCEPT ![KeyAt(x)] = x.now + RetryDelay]
          IN Continue(p, t, x.now, x.i + 1, F, R)

(* The lock file was created, and the state file is read.                  *)
Locked(p) ==
  /\ locks' = [locks EXCEPT ![Key(p)] = {clock}]
  /\ op' = [op EXCEPT ![p].pc = "held", ![p].read = file]
  /\ UNCHANGED <<fired, retry, tick>>

(* The lock is taken by someone else: a claim gives up, an unmark only     *)
(* forgets the key in memory.                                              *)
Refused(p) ==
  /\ UNCHANGED locks
  /\ Return(p, IF Claiming(p) THEN fired[p] ELSE fired[p] \ {Key(p)}, FALSE)

(* Mutant of TryLock: a lock that is there is never reclaimed.             *)
TryLockOnly(p) ==
  /\ up[p] /\ op[p].pc = "lock"
  /\ IF locks[Key(p)] = {} THEN Locked(p) ELSE Refused(p)
  /\ UNCHANGED <<clock, file, up, world, done, load, calm>>

(* acquireSchedulerLock.                                                   *)
TryLock(p) ==
  /\ up[p] /\ op[p].pc = "lock"
  /\ \/ locks[Key(p)] = {} /\ Locked(p)
     \/ /\ \E made \in locks[Key(p)] : clock - made < StaleAfter
        /\ Refused(p)
     \/ /\ \E made \in locks[Key(p)] : clock - made >= StaleAfter
        /\ op' = [op EXCEPT ![p].pc = "reclaim"]
        /\ UNCHANGED <<locks, fired, retry, tick>>
  /\ UNCHANGED <<clock, file, up, world, done, load, calm>>

(* reclaimStaleSchedulerLock found the lock stale: whatever is there now   *)
(* is removed, and only then a new one is tried.                           *)
RemoveStale(p) ==
  /\ up[p] /\ op[p].pc = "reclaim"
  /\ locks' = [locks EXCEPT ![Key(p)] = {}]
  /\ op' = [op EXCEPT ![p].pc = "relock"]
  /\ UNCHANGED <<clock, file, up, fired, retry, tick, world, done, load, calm>>

Relock(p) ==
  /\ up[p] /\ op[p].pc = "relock"
  /\ IF locks[Key(p)] = {} THEN Locked(p) ELSE Refused(p)
  /\ UNCHANGED <<clock, file, up, world, done, load, calm>>

AlreadyFired(p) == Claiming(p) /\ Key(p) \in op[p].read

(* Mutant of Written: the claim is not on file before the run.             *)
WrittenLater(p) == IF Claiming(p) THEN op[p].read ELSE op[p].read \ {Key(p)}

(* Mutant of Written: the pruning drops the entries of other days.         *)
WrittenSameDay(p) ==
  {k \in IF Claiming(p) THEN op[p].read \union {Key(p)} ELSE op[p].read \ {Key(p)} :
     k[2] = Key(p)[2]}

(* What claimFired or unmarkFired writes.                                  *)
Written(p) == IF Claiming(p) THEN op[p].read \union {Key(p)}
              ELSE op[p].read \ {Key(p)}

(* Mutant of Release: the lock is taken, what was read is not looked at.   *)
ReleaseUnread(p) ==
  /\ up[p] /\ op[p].pc = "held"
  /\ locks' = [locks EXCEPT ![Key(p)] = {}]
  /\ file' = Written(p) /\ Return(p, Written(p), Claiming(p))
  /\ UNCHANGED <<clock, up, world, done, load, calm>>

(* The rest of claimFired and unmarkFired under the lock: a claim finds    *)
(* the key fired, or the state file is written; the lock is released.      *)
Release(p) ==
  /\ up[p] /\ op[p].pc = "held"
  /\ locks' = [locks EXCEPT ![Key(p)] = {}]
  /\ IF AlreadyFired(p)
     THEN UNCHANGED file /\ Return(p, op[p].read, FALSE)
     ELSE file' = Written(p) /\ Return(p, Written(p), Claiming(p))
  /\ UNCHANGED <<clock, up, world, done, load, calm>>

(***************************************************************************)
(* The workflow that was awaited                                           *)
(***************************************************************************)
Succeed(p, t) ==
  LET x == tick[p][t]  k == KeyAt(x) IN
  /\ Free(p) /\ x.pc = "running"
  /\ done' = [done EXCEPT ![k] = @ + 1]
  /\ IF k[1] = "daily_plan"
     THEN plans' = plans \union {k[2]} /\ accepted' = accepted \ {k[2]}
     ELSE UNCHANGED <<plans, accepted>>
  /\ Continue(p, t, x.now, x.i + 1, fired[p], [retry[p] EXCEPT ![k] = 0])
  /\ UNCHANGED <<clock, file, locks, up, fired, cycleDue, load, calm>>

(* Mutant of Fail: the claim is not taken back.                            *)
FailMarked(p, t) ==
  LET x == tick[p][t]  k == KeyAt(x) IN
  /\ Free(p) /\ x.pc = "running"
  /\ load.fails > 0 /\ x.now + RetryDelay <= load.until
  /\ load' = [load EXCEPT !.fails = @ - 1] /\ UNCHANGED calm
  /\ Continue(p, t, x.now, x.i + 1, fired[p], [retry[p] EXCEPT ![k] = x.now + RetryDelay])
  /\ UNCHANGED <<clock, file, locks, up, fired, world, done>>

(* A run that fails, a plan's perhaps after it was saved, in the sending.   *)
(* The bound leaves it time to be tried again.                             *)
Fail(p, t) ==
  LET x == tick[p][t]  k == KeyAt(x) IN
  /\ Free(p) /\ x.pc = "running"
  /\ load.fails > 0 /\ x.now + RetryDelay <= load.until
  /\ load' = [load EXCEPT !.fails = @ - 1] /\ UNCHANGED calm
  /\ \/ UNCHANGED <<plans, accepted>>
     \/ /\ k[1] = "daily_plan"
        /\ plans' = plans \union {k[2]} /\ accepted' = accepted \ {k[2]}
  /\ tick' = [tick EXCEPT ![p][t].pc = "failing"]
  /\ op' = [op EXCEPT ![p] = [pc |-> "lock", tick |-> t, read |-> {}]]
  /\ UNCHANGED <<clock, file, locks, up, fired, retry, cycleDue, done>>

(* The process dies, before or after the write it was about to make; a     *)
(* lock it holds stays.  The bound leaves the lock time to become stale.   *)
Crash(p) ==
  /\ up[p] /\ load.crashes > 0 /\ clock + StaleAfter <= load.until
  /\ load' = [load EXCEPT !.crashes = @ - 1] /\ calm' = FALSE
  /\ up' = [up EXCEPT ![p] = FALSE]
  /\ file' \in {file} \union
       (IF op[p].pc = "held" /\ ~AlreadyFired(p) THEN {Written(p)} ELSE {})
  /\ fired' = [fired EXCEPT ![p] = {}]
  /\ retry' = [retry EXCEPT ![p] = NoRetry]
  /\ tick' = [tick EXCEPT ![p] = [t \in Slots |-> Idle]]
  /\ op' = [op EXCEPT ![p] = NoOp]
  /\ UNCHANGED <<clock, locks, world, done>>

(* createSchedulerState                                                    *)
Restart(p) ==
  /\ ~up[p] /\ p \in load.procs
  /\ up' = [up EXCEPT ![p] = TRUE]
  /\ fired' = [fired EXCEPT ![p] = file]
  /\ UNCHANGED <<clock, file, locks, retry, tick, op, world, done, load, calm>>

(* The user makes a plan by hand, or sets the cycle.                       *)
UserPlans(d) ==
  /\ d \notin plans
  /\ plans' = plans \union {d}
  /\ accepted' = IF DayOf(clock) < d THEN accepted \union {d} ELSE accepted
  /\ UNCHANGED <<clock, file, locks, up, fired, retry, tick, op, cycleDue, done, load, calm>>

UserSetsCycle(d) ==
  /\ d \in cycleDue
  /\ cycleDue' = cycleDue \ {d}
  /\ UNCHANGED <<clock, file, locks, up, fired, retry, tick, op, plans, accepted,
                 done, load, calm>>

FileStep(p) == TryLock(p) \/ RemoveStale(p) \/ Relock(p) \/ Release(p)
Complete(p, t) == Succeed(p, t) \/ Fail(p, t)

Next ==
  \/ TimePasses
  \/ \E p \in Procs :
       \/ FileStep(p) \/ Crash(p) \/ Restart(p)
       \/ \E t \in Slots : BeginTick(p, t) \/ Complete(p, t)
  \/ \E d \in Days : UserPlans(d) \/ UserSetsCycle(d)

Spec == Init /\ [][Next]_vars

(* The supervisor restarts the process, the interval keeps firing, file    *)
(* operations end, a run ends one way or the other, and time goes on.      *)
FairSpec ==
  /\ Spec /\ WF_vars(TimePasses)
  /\ \A p \in Procs :
       /\ WF_vars(FileStep(p)) /\ WF_vars(Restart(p))
       /\ WF_vars(\E t \in Slots : BeginTick(p, t))
       /\ \A t \in Slots : WF_vars(Complete(p, t))

(***************************************************************************)
(* Properties                                                              *)
(***************************************************************************)
Ticks == [pc : {"idle", "claiming", "running", "failing"}, now : Times,
          i : 1..(Len(Order) + 1), skip : BOOLEAN]

(* The variables have their types, and a process is in the middle of a     *)
(* file operation exactly for the one tick that is claiming or failing.    *)
TypeOK ==
  /\ clock \in Times /\ file \subseteq Keys /\ locks \in [Keys -> SUBSET Times]
  /\ up \in [Procs -> BOOLEAN] /\ fired \in [Procs -> SUBSET Keys]
  /\ retry \in [Procs -> [Keys -> Nat]] /\ tick \in [Procs -> [Slots -> Ticks]]
  /\ op \in [Procs -> [pc : {"none", "lock", "reclaim", "relock", "held"},
                       tick : Slots, read : SUBSET Keys]]
  /\ plans \subseteq Days /\ accepted \subseteq plans /\ cycleDue \subseteq Days
  /\ done \in [Keys -> Nat]
  /\ load \in Load /\ calm \in BOOLEAN
  /\ \A p \in Procs, t \in Slots : tick[p][t].pc \in {"claiming", "failing"} =>
       op[p].pc # "none" /\ op[p].tick = t

Running(k) == {w \in Procs \X Slots :
                 tick[w[1]][w[2]].pc = "running" /\ KeyAt(tick[w[1]][w[2]]) = k}

(* A workflow runs to success at most once for a date and is never running *)
(* twice, whatever overlaps, fails, is retried, or restarts.  Two processes *)
(* that reclaim the lock of a crashed one both may; and two that claim     *)
(* different keys at once may lose an entry, so that what is said of two   *)
(* processes is said of one workflow.                                      *)
OneRunPerKey ==
  Cardinality(load.procs) = 1 \/ (calm /\ Cardinality(load.enabled) = 1 /\ DayOf(load.until) = 0) =>
    \A k \in Keys : done[k] + Cardinality(Running(k)) <= 1

(* An entry of the state file stands for a run that succeeded, one that is *)
(* under way, or a plan that was kept: a failed run is not marked done.    *)
(* For one process without a crash: an entry outlives the run that dies    *)
(* with its process, and the one whose lock is held when it is taken back. *)
MarkedMeansDone ==
  Cardinality(load.procs) = 1 /\ calm => \A k \in file :
    \/ done[k] > 0
    \/ k[1] = "daily_plan" /\ k[2] \in plans \union CycleDays
    \/ \E p \in Procs, t \in Slots : tick[p][t].pc # "idle" /\ KeyAt(tick[p][t]) = k

(* What the state file says of a day is what was done (service/launchd.ts). *)
MarksHonest == OneRunPerKey /\ MarkedMeansDone

(* Only taking back its own claim removes an entry of the state file.      *)
(* (Two processes that claim two workflows at once lose one of them.)      *)
EntriesPersist ==
  [][Cardinality(load.procs) = 1 => \A k \in file \ file' : \E p \in Procs :
       op[p].pc = "held" /\ ~Claiming(p) /\ Key(p) = k]_vars

(* A plan the user made before its day is the plan of the day.             *)
AcceptedPlanKept == [][accepted \subseteq accepted']_vars

(* The items that are due when the behaviour ends, and their keys.         *)
DueAtLast == {<<j, DayOf(load.until)>> : j \in {w \in Jobs : Due(w, load.until)}}

(* What is due while its window stays open does run, though the machine    *)
(* slept through its time, ticks were slow, or earlier attempts failed,    *)
(* unless the process died after claiming it.  (With two processes, a      *)
(* claim the other one is looking at is not taken back.)                   *)
DueWorkRuns ==
  <>(calm /\ Cardinality(load.procs) = 1 => \A k \in DueAtLast :
       done[k] > 0 \/ (k[1] = "daily_plan" /\ k[2] \in plans \union CycleDays))

(* A lock file left by a crash does not silence a workflow.                *)
LeftoverLockYields == <>[](DueAtLast \subseteq file)

(* What is due does get done: it is caught up, and a lock that a crash     *)
(* left behind does not silence it (service/launchd.ts).                   *)
DueGetsDone == DueWorkRuns /\ LeftoverLockYields
=============================================================================
