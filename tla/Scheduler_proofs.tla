-------------------------- MODULE Scheduler_proofs --------------------------
(***************************************************************************)
(* What the entries of the state file promise, proved for any workflows,   *)
(* times, processes and overlapping ticks.                                 *)
(*                                                                         *)
(* A tick that runs a key, or that has failed and not yet taken its entry  *)
(* back, holds the key.  What makes the claims exclusive is not the lock   *)
(* alone: under it a process works on what it has read, so that the file   *)
(* must not change behind it.  That is so when one process is all there is *)
(* (its file operations are one after the other), and when all ticks are   *)
(* at the same key and no crash has left a lock to be reclaimed.           *)
(***************************************************************************)
EXTENDS Scheduler, FunctionTheorems, FiniteSetTheorems, TLAPS

Holds(x) == x.pc \in {"running", "failing"}
One == Cardinality(load.procs) = 1
Sole == One \/ (calm /\ Cardinality(load.enabled) = 1 /\ DayOf(load.until) = 0)

\* T, O: the ticks and the operations.  The process is in the middle of an
\* operation for the one tick that is claiming or failing.
At(T, O, p) == KeyAt(T[p][O[p].tick])
Linked(T, O) == \A p \in Procs :
  /\ \A t \in Slots : T[p][t].pc \in {"claiming", "failing"} => O[p].pc # "none" /\ O[p].tick = t
  /\ O[p].pc # "none" => T[p][O[p].tick].pc \in {"claiming", "failing"}

\* What a tick is at is enabled by the load l, and was looked at not later
\* than now (c).
Timely(x, c, l) ==
  x.pc # "idle" => x.i \in 1..Len(Order) /\ Order[x.i] \in l.enabled /\ x.now <= c
Placed(T, U, c, l) == \A p \in Procs :
  /\ U[p] => p \in l.procs
  /\ \A t \in Slots : Timely(T[p][t], c, l) /\ (T[p][t].pc # "idle" => U[p])

\* A key is passed over because there is a plan or the cycle is not set, and
\* a plan is made where the user made none before.
Keeps(k, P) == k[1] = "daily_plan" /\ k[2] \in P \union CycleDays
Sober(x, P, A) ==
  /\ x.pc # "idle" /\ x.skip => Keeps(KeyAt(x), P) /\ x.pc = "claiming"
  /\ x.pc # "idle" /\ ~x.skip /\ Order[x.i] = "daily_plan" => DayOf(x.now) \notin A
Planned(T, P, A) == \A p \in Procs, t \in Slots : Sober(T[p][t], P, A)

\* Without a crash a lock is there as long as it is held, by one process, and
\* never grows stale.
Locking(T, O, L, c) ==
  /\ \A p \in Procs : O[p].pc \in {"none", "lock", "held"}
  /\ \A p \in Procs : O[p].pc = "held" => L[At(T, O, p)] # {}
  /\ \A k \in Keys : L[k] # {} => \E p \in Procs : O[p].pc = "held" /\ At(T, O, p) = k
  /\ \A k \in Keys : \A made \in L[k] : c < made + StaleAfter
  /\ \A p, q \in Procs : O[p].pc = "held" /\ O[q].pc = "held" /\ At(T, O, p) = At(T, O, q) => p = q

\* F, D: the file and the runs that succeeded.
Reading(O, F) == \A p \in Procs : O[p].pc = "held" => O[p].read = F
Once(T, F, D) ==
  /\ \A k \in Keys : D[k] \in {0, 1} /\ (k \notin F => D[k] = 0)
  /\ \A p \in Procs, t \in Slots : Holds(T[p][t]) => KeyAt(T[p][t]) \in F /\ D[KeyAt(T[p][t])] = 0
  /\ \A p, q \in Procs, t, u \in Slots :
       Holds(T[p][t]) /\ Holds(T[q][u]) /\ KeyAt(T[p][t]) = KeyAt(T[q][u]) => p = q /\ t = u
Meant(T, F, D, P) == \A k \in F :
  \/ D[k] > 0 \/ Keeps(k, P)
  \/ \E p \in Procs, t \in Slots : Holds(T[p][t]) /\ KeyAt(T[p][t]) = k

Ops == [pc : {"none", "lock", "reclaim", "relock", "held"}, tick : Slots, read : SUBSET Keys]

\* The types, with the sets of the ticks and the operations named.
Typed ==
  /\ clock \in Times /\ file \subseteq Keys /\ locks \in [Keys -> SUBSET Times]
  /\ up \in [Procs -> BOOLEAN] /\ fired \in [Procs -> SUBSET Keys]
  /\ retry \in [Procs -> [Keys -> Nat]] /\ tick \in [Procs -> [Slots -> Ticks]]
  /\ op \in [Procs -> Ops]
  /\ plans \subseteq Days /\ accepted \subseteq plans /\ cycleDue \subseteq Days
  /\ done \in [Keys -> Nat]
  /\ load \in Load /\ calm \in BOOLEAN

Shape ==
  /\ Typed /\ clock <= load.until /\ cycleDue \subseteq CycleDays
  /\ Linked(tick, op) /\ Placed(tick, up, clock, load) /\ Planned(tick, plans, accepted)
IInv ==
  /\ Shape
  /\ calm => Locking(tick, op, locks, clock)
  /\ Sole => Reading(op, file) /\ Once(tick, file, done)
  /\ One /\ calm => Meant(tick, file, done, plans)

(***************************************************************************)
(* Types and times                                                         *)
(***************************************************************************)
LEMMA DaysInOrder ==
  ASSUME NEW a \in Times, NEW b \in Times
  PROVE  /\ DayOf(a) \in Days
         /\ a <= b => DayOf(a) <= DayOf(b)
<1>. DayLen \in Nat /\ DayLen # 0 /\ MaxClock \in Nat /\ a \in Nat /\ b \in Nat /\ a <= MaxClock
  BY DayAssumption DEF Times
<1>1. ASSUME NEW m \in Nat, NEW n \in Nat, m <= n PROVE m \div DayLen <= n \div DayLen
  BY <1>1, Z3
<1>2. a \div DayLen \in Nat
  BY Z3
<1>3. MaxClock \div DayLen \in Nat
  BY Z3
<1>. QED  BY <1>1, <1>2, <1>3 DEF DayOf, Days

LEMMA KeysOfTicks ==
  ASSUME NEW x \in Ticks, x.i \in 1..Len(Order)
  PROVE  KeyAt(x) \in Keys /\ Order[x.i] \in Jobs
<1>1. DayOf(x.now) \in Days
  BY DaysInOrder DEF Ticks
<1>. QED  BY <1>1 DEF KeyAt, Keys, Jobs

LEMMA RestTypes == Idle \in Ticks /\ NoOp \in Ops /\ Idle.pc = "idle" /\ NoOp.pc = "none"
<1>1. Len(Order) \in Nat
  BY OrderAssumption
<1>2. (CHOOSE t \in Slots : TRUE) \in Slots
  BY ProcsAssumption
<1>. QED  BY <1>1, <1>2, DayAssumption DEF Idle, NoOp, Ticks, Ops, Times

LEMMA TypesNamed == Typed /\ Linked(tick, op) => TypeOK
BY DEF Typed, TypeOK, Linked, Ops

LEMMA LoadTypes ==
  ASSUME Typed
  PROVE  /\ load.procs \subseteq Procs /\ IsFiniteSet(load.procs)
         /\ load.enabled \subseteq Jobs /\ IsFiniteSet(load.enabled)
         /\ load.slots \subseteq Slots /\ load.until \in Times
         /\ load.fails \in Nat /\ load.crashes \in Nat
<1>1. load.procs \subseteq Procs /\ load.enabled \subseteq Jobs
      /\ load.slots \subseteq Slots /\ load.until \in Times
      /\ load.fails \in Nat /\ load.crashes \in Nat
  BY DEF Typed, Load
<1>2. IsFiniteSet(load.procs)
  BY <1>1, ProcsAssumption, FS_Subset
<1>3. IsFiniteSet(Jobs)
  <2>1. Len(Order) \in Nat
    BY OrderAssumption
  <2>2. IsFiniteSet(1..Len(Order))
    BY <2>1, FS_Interval
  <2>3. Order \in Surjection(1..Len(Order), Jobs)
    <3>1. Order = [n \in 1..Len(Order) |-> Order[n]]
      BY OrderAssumption
    <3>. HIDE DEF Jobs
    <3>2. \A n \in 1..Len(Order) : Order[n] \in Jobs
      BY DEF Jobs
    <3>3. Order \in [1..Len(Order) -> Jobs]
      BY <3>1, <3>2
    <3>4. \A j \in Jobs : \E n \in 1..Len(Order) : Order[n] = j
      BY DEF Jobs
    <3>. QED  BY <3>3, <3>4 DEF Surjection
  <2>. QED  BY <2>2, <2>3, FS_Surjection
<1>. QED  BY <1>1, <1>2, <1>3, FS_Subset

\* One of something, if there is one only.
LEMMA OnlyOne ==
  ASSUME NEW S, IsFiniteSet(S), Cardinality(S) = 1, NEW a \in S, NEW b \in S
  PROVE  a = b
BY FS_Singleton

(***************************************************************************)
(* A tick that goes on                                                     *)
(***************************************************************************)
\* Tick t of p becomes x and the operation of p becomes o.
Turn(p, t, x, o) ==
  /\ x \in Ticks /\ o \in Ops
  /\ tick' = [tick EXCEPT ![p][t] = x] /\ op' = [op EXCEPT ![p] = o]

\* The tick ends, or claims the next key.
Onward(t, x, o, now) ==
  \/ x.pc = "idle" /\ o.pc = "none"
  \/ /\ x.pc = "claiming" /\ x.now = now /\ x.i \in 1..Len(Order) /\ Order[x.i] \in load.enabled
     /\ x.skip = KeepsPlan(Order[x.i], DayOf(now))
     /\ o.pc = "lock" /\ o.tick = t

LEMMA TurnTicks ==
  ASSUME Typed, NEW p \in Procs, NEW t \in Slots, NEW x, NEW o, Turn(p, t, x, o)
  PROVE  /\ tick' \in [Procs -> [Slots -> Ticks]] /\ op' \in [Procs -> Ops]
         /\ tick'[p][t] = x /\ op'[p] = o
         /\ \A q \in Procs, u \in Slots : q # p \/ u # t => tick'[q][u] = tick[q][u]
         /\ \A q \in Procs : q # p => op'[q] = op[q]
BY DEF Typed, Turn

LEMMA Continued ==
  ASSUME Typed, NEW p \in Procs, NEW t \in Slots, NEW now \in Times, NEW i \in 1..(Len(Order) + 1),
         NEW F, NEW R \in [Keys -> Nat], Continue(p, t, now, i, F, R)
  PROVE  /\ retry' \in [Procs -> [Keys -> Nat]]
         /\ \E x, o : Turn(p, t, x, o) /\ Onward(t, x, o, now)
<1>. DEFINE free == {n \in i..Len(Order) : Due(Order[n], now) /\
                                           MayRun(F, R, <<Order[n], DayOf(now)>>, now)}
            seen(last) == {<<Order[n], DayOf(now)>> : n \in i..last}
            kept(last) == [k \in Keys |->
              IF k \in seen(last) /\ Due(k[1], now) /\ k \notin F /\ R[k] <= now
              THEN 0 ELSE R[k]]
<1>0. Len(Order) \in Nat
  BY OrderAssumption
<1>1. \A last : kept(last) \in [Keys -> Nat]
  OBVIOUS
<1>. HIDE DEF kept
<1>2. \A last : [retry EXCEPT ![p] = kept(last)] \in [Procs -> [Keys -> Nat]]
  BY <1>1 DEF Typed
<1>3. CASE /\ retry' = [retry EXCEPT ![p] = kept(Len(Order))]
           /\ tick' = [tick EXCEPT ![p][t] = Idle]
           /\ op' = [op EXCEPT ![p] = NoOp]
  <2>1. Turn(p, t, Idle, NoOp) /\ Onward(t, Idle, NoOp, now)
    BY <1>3, RestTypes DEF Turn, Onward
  <2>. QED  BY <1>2, <1>3, <2>1
<1>4. ASSUME NEW n \in free,
             retry' = [retry EXCEPT ![p] = kept(n)],
             tick' = [tick EXCEPT ![p][t] =
               [pc |-> "claiming", now |-> now, i |-> n, skip |-> KeepsPlan(Order[n], DayOf(now))]],
             op' = [op EXCEPT ![p] = [pc |-> "lock", tick |-> t, read |-> {}]]
      PROVE  /\ retry' \in [Procs -> [Keys -> Nat]]
             /\ \E x, o : Turn(p, t, x, o) /\ Onward(t, x, o, now)
  <2>1. n \in 1..Len(Order) /\ n \in 1..(Len(Order) + 1) /\ Order[n] \in load.enabled
    BY <1>0 DEF Due
  <2>2. KeepsPlan(Order[n], DayOf(now)) \in BOOLEAN
    BY DEF KeepsPlan
  <2>3. PICK x : x = [pc |-> "claiming", now |-> now, i |-> n, skip |-> KeepsPlan(Order[n], DayOf(now))]
    OBVIOUS
  <2>4. PICK o : o = [pc |-> "lock", tick |-> t, read |-> {}]
    OBVIOUS
  <2>5. x \in Ticks /\ o \in Ops
    BY <2>1, <2>2, <2>3, <2>4 DEF Ticks, Ops
  <2>6. Turn(p, t, x, o)
    BY <1>4, <2>3, <2>4, <2>5 DEF Turn
  <2>7. Onward(t, x, o, now)
    BY <2>1, <2>3, <2>4 DEF Onward
  <2>. QED  BY <1>2, <1>4, <2>6, <2>7
<1>. QED  BY <1>3, <1>4 DEF Continue, kept

(***************************************************************************)
(* What a turn keeps                                                       *)
(***************************************************************************)
\* The operation o is for tick t, which is x then, or there is none.
Fits(t, x, o) ==
  /\ x.pc \in {"claiming", "failing"} => o.pc # "none" /\ o.tick = t
  /\ o.pc # "none" => o.tick = t /\ x.pc \in {"claiming", "failing"}

\* The tick t of p is the one that p is in the middle of, or there is none.
MayTurn(p, t) == op[p].pc = "none" \/ op[p].tick = t

LEMMA TurnLinked ==
  ASSUME Typed, Linked(tick, op), NEW p \in Procs, NEW t \in Slots, NEW x, NEW o,
         Turn(p, t, x, o), MayTurn(p, t), Fits(t, x, o)
  PROVE  Linked(tick', op')
<1>1. /\ tick'[p][t] = x /\ op'[p] = o
      /\ \A q \in Procs, u \in Slots : q # p \/ u # t => tick'[q][u] = tick[q][u]
      /\ \A q \in Procs : q # p => op'[q] = op[q]
  BY TurnTicks
<1>2. \A q \in Procs : op[q] \in Ops /\ op[q].tick \in Slots
  BY DEF Typed, Ops
<1>3. \A q \in Procs, u \in Slots : tick'[q][u].pc \in {"claiming", "failing"} =>
        op'[q].pc # "none" /\ op'[q].tick = u
  BY <1>1 DEF Linked, MayTurn, Fits
<1>4. \A q \in Procs : op'[q].pc # "none" => tick'[q][op'[q].tick].pc \in {"claiming", "failing"}
  BY <1>1, <1>2 DEF Linked, Fits
<1>. QED  BY <1>3, <1>4 DEF Linked

LEMMA TurnPlaced ==
  ASSUME Typed, Placed(tick, up, clock, load), NEW p \in Procs, NEW t \in Slots, NEW x, NEW o,
         Turn(p, t, x, o), Timely(x, clock, load), up[p]
  PROVE  Placed(tick', up, clock, load)
BY TurnTicks DEF Placed

LEMMA TurnPlanned ==
  ASSUME Typed, Planned(tick, plans, accepted), NEW p \in Procs, NEW t \in Slots, NEW x, NEW o,
         Turn(p, t, x, o), NEW P, NEW A, plans \subseteq P, A \subseteq accepted, Sober(x, P, A)
  PROVE  Planned(tick', P, A)
<1>1. \A q \in Procs, u \in Slots : Sober(tick[q][u], P, A)
  BY DEF Planned, Sober, Keeps
<1>. QED  BY <1>1, TurnTicks DEF Planned

\* Where a tick that goes on is.
LEMMA OnwardFits ==
  ASSUME Typed, cycleDue \subseteq CycleDays, NEW p \in Procs, NEW t \in Slots, NEW x, NEW o, NEW now,
         Turn(p, t, x, o), Onward(t, x, o, now), now \in Nat, now <= clock,
         NEW P, NEW A, plans \subseteq P, A \subseteq accepted
  PROVE  Fits(t, x, o) /\ Timely(x, clock, load) /\ Sober(x, P, A) /\ ~Holds(x) /\ o.pc \in {"none", "lock"}
<1>1. CASE x.pc = "idle" /\ o.pc = "none"
  BY <1>1 DEF Fits, Timely, Sober, Holds
<1>2. CASE /\ x.pc = "claiming" /\ x.now = now /\ x.i \in 1..Len(Order) /\ Order[x.i] \in load.enabled
           /\ x.skip = KeepsPlan(Order[x.i], DayOf(now))
           /\ o.pc = "lock" /\ o.tick = t
  <2>1. Fits(t, x, o) /\ Timely(x, clock, load) /\ ~Holds(x) /\ o.pc \in {"none", "lock"}
    BY <1>2 DEF Fits, Timely, Holds
  <2>2. KeyAt(x) = <<Order[x.i], DayOf(now)>>
    BY <1>2 DEF KeyAt
  <2>3. x.skip => Keeps(KeyAt(x), P)
    <3>1. x.skip => KeepsPlan(Order[x.i], DayOf(now))
      BY <1>2, Zenon
    <3>2. KeepsPlan(Order[x.i], DayOf(now)) => Keeps(<<Order[x.i], DayOf(now)>>, P)
      BY DEF Keeps, KeepsPlan
    <3>. QED  BY <2>2, <3>1, <3>2
  <2>4. ~x.skip /\ Order[x.i] = "daily_plan" => DayOf(x.now) \notin A
    BY <1>2 DEF KeepsPlan, Typed
  <2>. QED  BY <1>2, <2>1, <2>3, <2>4 DEF Sober
<1>. QED  BY <1>1, <1>2 DEF Onward

(***************************************************************************)
(* What is true while a process, or a key, is alone                        *)
(***************************************************************************)
LEMMA BusyPlaces ==
  ASSUME Typed, Linked(tick, op), Placed(tick, up, clock, load), NEW p \in Procs, op[p].pc # "none"
  PROVE  LET x == tick[p][op[p].tick] IN
         /\ op[p].tick \in Slots /\ x \in Ticks /\ x.pc \in {"claiming", "failing"}
         /\ x.i \in 1..Len(Order) /\ Order[x.i] \in load.enabled /\ x.now <= clock
         /\ Key(p) = KeyAt(x) /\ Key(p) \in Keys /\ up[p] /\ p \in load.procs
<1>. DEFINE x == tick[p][op[p].tick]
<1>1. op[p].tick \in Slots
  BY DEF Typed, Ops
<1>2. x \in Ticks /\ x.pc \in {"claiming", "failing"}
  BY <1>1 DEF Typed, Linked
<1>3. x.i \in 1..Len(Order) /\ Order[x.i] \in load.enabled /\ x.now <= clock /\ up[p] /\ p \in load.procs
  BY <1>1, <1>2 DEF Placed, Timely
<1>. QED  BY <1>1, <1>2, <1>3, KeysOfTicks DEF Key

\* With one workflow and one day there is one key.
LEMMA OneKey ==
  ASSUME Typed, clock <= load.until, Cardinality(load.enabled) = 1, DayOf(load.until) = 0,
         NEW x \in Ticks, NEW y \in Ticks, x.pc # "idle", y.pc # "idle",
         Timely(x, clock, load), Timely(y, clock, load)
  PROVE  KeyAt(x) = KeyAt(y)
<1>1. Order[x.i] = Order[y.i]
  BY LoadTypes, OnlyOne DEF Timely
<1>2. x.now \in Times /\ y.now \in Times /\ load.until \in Times /\ clock \in Times
  BY LoadTypes DEF Ticks, Typed
<1>3. x.now <= load.until /\ y.now <= load.until
  BY <1>2 DEF Timely, Times
<1>4. DayOf(x.now) <= 0 /\ DayOf(y.now) <= 0 /\ DayOf(x.now) \in Days /\ DayOf(y.now) \in Days
  BY <1>2, <1>3, DaysInOrder
<1>5. DayOf(x.now) = 0 /\ DayOf(y.now) = 0
  BY <1>4 DEF Days
<1>. QED  BY <1>1, <1>5 DEF KeyAt

\* One process at most is under the lock.
LEMMA OneHolder ==
  ASSUME Typed, clock <= load.until, Linked(tick, op), Placed(tick, up, clock, load),
         calm => Locking(tick, op, locks, clock), Sole,
         NEW p \in Procs, NEW q \in Procs, op[p].pc = "held", op[q].pc = "held"
  PROVE  p = q
<1>1. /\ tick[p][op[p].tick] \in Ticks /\ tick[q][op[q].tick] \in Ticks
      /\ op[p].tick \in Slots /\ op[q].tick \in Slots
      /\ tick[p][op[p].tick].pc # "idle" /\ tick[q][op[q].tick].pc # "idle"
      /\ p \in load.procs /\ q \in load.procs
  BY BusyPlaces
<1>2. CASE One
  BY <1>1, <1>2, LoadTypes, OnlyOne DEF One
<1>3. CASE calm /\ Cardinality(load.enabled) = 1 /\ DayOf(load.until) = 0
  <2>1. KeyAt(tick[p][op[p].tick]) = KeyAt(tick[q][op[q].tick])
    BY <1>1, <1>3, OneKey DEF Placed
  <2>. QED  BY <1>3, <2>1 DEF Locking, At
<1>. QED  BY <1>2, <1>3 DEF Sole

(***************************************************************************)
(* The shape of a step                                                     *)
(***************************************************************************)
SameBounds == /\ load'.procs = load.procs /\ load'.enabled = load.enabled /\ load'.until = load.until
              /\ load' \in Load

LEMMA TurnShape ==
  ASSUME Shape, NEW p \in Procs, NEW t \in Slots, NEW x, NEW o,
         Turn(p, t, x, o), MayTurn(p, t), Fits(t, x, o), Timely(x, clock, load),
         Sober(x, plans', accepted'), up[p],
         clock' = clock, up' = up, SameBounds, cycleDue' = cycleDue,
         plans \subseteq plans', accepted' \subseteq accepted,
         file' \subseteq Keys, locks' \in [Keys -> SUBSET Times], fired' \in [Procs -> SUBSET Keys],
         retry' \in [Procs -> [Keys -> Nat]], plans' \subseteq Days, accepted' \subseteq plans',
         done' \in [Keys -> Nat], calm' \in BOOLEAN
  PROVE  Shape'
<1>. Typed /\ Linked(tick, op) /\ Placed(tick, up, clock, load) /\ Planned(tick, plans, accepted)
     /\ cycleDue \subseteq CycleDays /\ clock <= load.until
  BY DEF Shape
<1>1. Typed'
  <2>. tick' \in [Procs -> [Slots -> Ticks]] /\ op' \in [Procs -> Ops]
    BY TurnTicks
  <2>. QED  BY DEF Typed, SameBounds
<1>2. Linked(tick', op')
  BY TurnLinked
<1>3. Placed(tick', up', clock', load')
  <2>1. Placed(tick', up, clock, load)
    BY TurnPlaced
  <2>. QED  BY <2>1 DEF Placed, Timely, SameBounds
<1>4. Planned(tick', plans', accepted')
  BY TurnPlanned
<1>. QED  BY <1>1, <1>2, <1>3, <1>4 DEF Shape, SameBounds

\* An operation that goes on.
OpStep(p, o) == /\ tick' = tick /\ op' = [op EXCEPT ![p] = o] /\ o \in Ops
                /\ op[p].pc # "none" /\ o.pc # "none" /\ o.tick = op[p].tick

LEMMA OpShape ==
  ASSUME Shape, NEW p \in Procs, NEW o, OpStep(p, o),
         UNCHANGED <<clock, up, load, world, fired, retry, done, calm>>,
         file' \subseteq Keys, locks' \in [Keys -> SUBSET Times]
  PROVE  /\ Shape' /\ op'[p] = o /\ \A q \in Procs : q # p => op'[q] = op[q]
         /\ \A q \in Procs : Key(q)' = Key(q) /\ At(tick', op', q) = Key(q) /\ At(tick, op, q) = Key(q)
<1>. Typed /\ Linked(tick, op) /\ Placed(tick, up, clock, load) /\ Planned(tick, plans, accepted)
     /\ cycleDue \subseteq CycleDays /\ clock <= load.until
  BY DEF Shape
<1>1. Typed'
  BY DEF Typed, OpStep, world
<1>2. op'[p] = o /\ \A q \in Procs : q # p => op'[q] = op[q]
  BY DEF Typed, OpStep
<1>3. Linked(tick', op')
  BY <1>2 DEF Linked, OpStep
<1>4. \A q \in Procs : op'[q].tick = op[q].tick
  BY <1>2 DEF OpStep
<1>5. Placed(tick', up', clock', load') /\ Planned(tick', plans', accepted')
  BY DEF OpStep, world
<1>. QED  BY <1>1, <1>2, <1>3, <1>4, <1>5 DEF Shape, Key, At, OpStep, world

LEMMA TurnKeys ==
  ASSUME Typed, NEW p \in Procs, NEW t \in Slots, NEW x, NEW o, Turn(p, t, x, o)
  PROVE  \A q \in Procs : q # p => /\ op'[q] = op[q] /\ At(tick', op', q) = Key(q)
                                   /\ At(tick, op, q) = Key(q)
<1>1. /\ \A q \in Procs, u \in Slots : q # p \/ u # t => tick'[q][u] = tick[q][u]
      /\ \A q \in Procs : q # p => op'[q] = op[q]
  BY TurnTicks
<1>2. \A q \in Procs : op[q].tick \in Slots
  BY DEF Typed, Ops
<1>. QED  BY <1>1, <1>2 DEF At, Key

(***************************************************************************)
(* The lock in a step                                                      *)
(***************************************************************************)
LEMMA LockingTurn ==
  ASSUME Typed, NEW p \in Procs, NEW t \in Slots, NEW x, NEW o, Turn(p, t, x, o),
         Locking(tick, op, locks, clock), op[p].pc # "held", o.pc \in {"none", "lock"}
  PROVE  Locking(tick', op', locks, clock)
<1>1. op'[p] = o
  BY TurnTicks
<1>2. \A q \in Procs : q # p => op'[q] = op[q] /\ At(tick', op', q) = At(tick, op, q)
  BY TurnKeys
<1>. QED  BY <1>1, <1>2 DEF Locking

LEMMA LockingRelease ==
  ASSUME Typed, NEW p \in Procs, NEW t \in Slots, NEW x, NEW o, Turn(p, t, x, o),
         Locking(tick, op, locks, clock), op[p].pc = "held", o.pc \in {"none", "lock"}, Key(p) \in Keys
  PROVE  Locking(tick', op', [locks EXCEPT ![Key(p)] = {}], clock)
<1>. DEFINE L == [locks EXCEPT ![Key(p)] = {}]
<1>1. op'[p] = o
  BY TurnTicks
<1>2. \A q \in Procs : q # p => op'[q] = op[q] /\ At(tick', op', q) = At(tick, op, q)
  BY TurnKeys
<1>3. L[Key(p)] = {} /\ \A k \in Keys : k # Key(p) => L[k] = locks[k]
  BY DEF Typed
<1>. HIDE DEF L
<1>4. At(tick, op, p) = Key(p)
  BY DEF At, Key
<1>5. \A q \in Procs : q # p /\ op[q].pc = "held" => At(tick, op, q) # Key(p)
  BY <1>4 DEF Locking
<1>6. \A q \in Procs : op'[q].pc = "held" => L[At(tick', op', q)] # {}
  <2>. SUFFICES ASSUME NEW q \in Procs, op'[q].pc = "held" PROVE L[At(tick', op', q)] # {}
    OBVIOUS
  <2>1. q # p /\ op[q].pc = "held" /\ locks[At(tick, op, q)] # {}
    BY <1>1, <1>2 DEF Locking
  <2>2. At(tick, op, q) # Key(p)
    BY <1>5, <2>1
  <2>3. At(tick', op', q) = At(tick, op, q)
    BY <1>2, <2>1
  <2>4. L[At(tick, op, q)] = locks[At(tick, op, q)]
    BY <2>2 DEF Typed, L
  <2>. QED  BY <2>1, <2>3, <2>4
<1>7. \A k \in Keys : L[k] # {} => \E q \in Procs : op'[q].pc = "held" /\ At(tick', op', q) = k
  BY <1>2, <1>3, <1>4 DEF Locking
<1>8. \A k \in Keys : \A made \in L[k] : clock < made + StaleAfter
  BY <1>3 DEF Locking
<1>. QED  BY <1>1, <1>2, <1>6, <1>7, <1>8 DEF Locking, L

LEMMA LockingHeld ==
  ASSUME Shape, NEW p \in Procs, NEW o, OpStep(p, o), Locking(tick, op, locks, clock),
         op[p].pc # "held", o.pc = "held", Key(p) \in Keys, locks[Key(p)] = {},
         \A q \in Procs : At(tick', op', q) = Key(q) /\ At(tick, op, q) = Key(q)
  PROVE  Locking(tick', op', [locks EXCEPT ![Key(p)] = {clock}], clock)
<1>. DEFINE L == [locks EXCEPT ![Key(p)] = {clock}]
<1>0. Typed
  BY DEF Shape
<1>1. op'[p] = o /\ \A q \in Procs : q # p => op'[q] = op[q]
  BY <1>0 DEF Typed, OpStep
<1>2. L[Key(p)] = {clock} /\ \A k \in Keys : k # Key(p) => L[k] = locks[k]
  BY <1>0 DEF Typed
<1>. HIDE DEF L
<1>3. \A q \in Procs : op[q].pc = "held" => Key(q) # Key(p)
  BY DEF Locking
<1>4. clock \in Nat /\ clock < clock + StaleAfter
  BY <1>0, DelayAssumption DEF Typed, Times
<1>5. \A k \in Keys : \A made \in L[k] : clock < made + StaleAfter
  BY <1>2, <1>4 DEF Locking
<1>6. \A q \in Procs : op'[q].pc = "held" => L[At(tick', op', q)] # {}
  <2>. SUFFICES ASSUME NEW q \in Procs, op'[q].pc = "held", q # p PROVE L[Key(q)] # {}
    BY <1>2
  <2>1. op[q].pc = "held" /\ locks[Key(q)] # {}
    BY <1>1 DEF Locking
  <2>2. L[Key(q)] = locks[Key(q)]
    BY <1>0, <1>3, <2>1 DEF Typed, L
  <2>. QED  BY <2>1, <2>2
<1>7. \A k \in Keys : L[k] # {} => \E q \in Procs : op'[q].pc = "held" /\ At(tick', op', q) = k
  BY <1>1, <1>2 DEF Locking
<1>8. \A q, r \in Procs : op'[q].pc = "held" /\ op'[r].pc = "held" /\ Key(q) = Key(r) => q = r
  BY <1>1, <1>3 DEF Locking
<1>9. \A q \in Procs : op'[q].pc \in {"none", "lock", "held"}
  BY <1>1 DEF Locking
<1>. QED  BY <1>5, <1>6, <1>7, <1>8, <1>9 DEF Locking, L

(***************************************************************************)
(* The keys in a step                                                      *)
(***************************************************************************)
LEMMA OnceTurn ==
  ASSUME Typed, NEW p \in Procs, NEW t \in Slots, NEW x, NEW o, Turn(p, t, x, o),
         NEW G, file \subseteq G, Once(tick, file, done),
         Holds(x) => /\ KeyAt(x) \in G /\ done[KeyAt(x)] = 0
                     /\ \A q \in Procs, u \in Slots :
                          Holds(tick[q][u]) /\ KeyAt(tick[q][u]) = KeyAt(x) => q = p /\ u = t
  PROVE  Once(tick', G, done)
<1>1. /\ tick'[p][t] = x
      /\ \A q \in Procs, u \in Slots : q # p \/ u # t => tick'[q][u] = tick[q][u]
  BY TurnTicks
<1>2. \A k \in Keys : done[k] \in {0, 1} /\ (k \notin G => done[k] = 0)
  BY DEF Once
<1>3. \A q \in Procs, u \in Slots : Holds(tick'[q][u]) =>
        KeyAt(tick'[q][u]) \in G /\ done[KeyAt(tick'[q][u])] = 0
  BY <1>1 DEF Once
<1>4. \A q, r \in Procs, u, w \in Slots :
        Holds(tick'[q][u]) /\ Holds(tick'[r][w]) /\ KeyAt(tick'[q][u]) = KeyAt(tick'[r][w]) => q = r /\ u = w
  <2>. SUFFICES ASSUME NEW q \in Procs, NEW r \in Procs, NEW u \in Slots, NEW w \in Slots,
                       Holds(tick'[q][u]), Holds(tick'[r][w]), KeyAt(tick'[q][u]) = KeyAt(tick'[r][w])
                PROVE  q = r /\ u = w
    OBVIOUS
  <2>1. CASE q = p /\ u = t
    BY <1>1, <2>1
  <2>2. CASE r = p /\ w = t
    BY <1>1, <2>2
  <2>3. CASE (q # p \/ u # t) /\ (r # p \/ w # t)
    BY <1>1, <2>3 DEF Once
  <2>. QED  BY <2>1, <2>2, <2>3
<1>. QED  BY <1>2, <1>3, <1>4 DEF Once

\* A claim is taken back, or the run succeeds: nobody else holds the key.
LEMMA OnceEnded ==
  ASSUME Typed, NEW p \in Procs, NEW t \in Slots, NEW x, NEW o, Turn(p, t, x, o), ~Holds(x),
         Once(tick, file, done), Holds(tick[p][t]), KeyAt(tick[p][t]) \in Keys, NEW G, NEW D,
         \/ D = done /\ G = file \ {KeyAt(tick[p][t])}
         \/ D = [done EXCEPT ![KeyAt(tick[p][t])] = @ + 1] /\ G = file
  PROVE  Once(tick', G, D)
<1>. DEFINE k == KeyAt(tick[p][t])
<1>1. /\ tick'[p][t] = x
      /\ \A q \in Procs, u \in Slots : q # p \/ u # t => tick'[q][u] = tick[q][u]
  BY TurnTicks
<1>2. k \in file /\ done[k] = 0
  BY DEF Once
<1>3. \A q \in Procs, u \in Slots : Holds(tick'[q][u]) =>
        (q # p \/ u # t) /\ tick'[q][u] = tick[q][u] /\ KeyAt(tick[q][u]) # k
        /\ KeyAt(tick[q][u]) \in file /\ done[KeyAt(tick[q][u])] = 0
  BY <1>1 DEF Once
<1>4. \A j \in Keys : D[j] \in {0, 1} /\ (j \notin G => D[j] = 0)
  BY <1>2 DEF Once, Typed
<1>5. \A j \in Keys : j # k => D[j] = done[j]
  BY DEF Typed
<1>6. \A q \in Procs, u \in Slots : Holds(tick'[q][u]) =>
        KeyAt(tick'[q][u]) \in G /\ D[KeyAt(tick'[q][u])] = 0
  <2>1. file \subseteq Keys
    BY DEF Typed
  <2>. QED  BY <1>3, <1>5, <2>1
<1>. QED  BY <1>3, <1>4, <1>6 DEF Once

LEMMA MeantTurn ==
  ASSUME Typed, NEW p \in Procs, NEW t \in Slots, NEW x, NEW o, Turn(p, t, x, o),
         NEW G \in SUBSET Keys, NEW D, NEW P, plans \subseteq P, Meant(tick, file, done, plans),
         \A k \in G : k \in file \/ Keeps(k, P) \/ (Holds(x) /\ KeyAt(x) = k),
         \A k \in Keys : done[k] > 0 => D[k] > 0,
         Holds(tick[p][t]) => \/ KeyAt(tick[p][t]) \notin G
                              \/ D[KeyAt(tick[p][t])] > 0
                              \/ Holds(x) /\ KeyAt(x) = KeyAt(tick[p][t])
  PROVE  Meant(tick', G, D, P)
<1>1. /\ tick'[p][t] = x
      /\ \A q \in Procs, u \in Slots : q # p \/ u # t => tick'[q][u] = tick[q][u]
  BY TurnTicks
<1>. SUFFICES ASSUME NEW k \in G
              PROVE  \/ D[k] > 0 \/ Keeps(k, P)
                     \/ \E q \in Procs, u \in Slots : Holds(tick'[q][u]) /\ KeyAt(tick'[q][u]) = k
  BY DEF Meant
<1>2. CASE Holds(x) /\ KeyAt(x) = k
  BY <1>1, <1>2
<1>3. CASE k \in file
  <2>1. CASE done[k] > 0 \/ Keeps(k, plans)
    BY <2>1 DEF Keeps
  <2>2. ASSUME NEW q \in Procs, NEW u \in Slots, Holds(tick[q][u]), KeyAt(tick[q][u]) = k
        PROVE  \/ D[k] > 0 \/ Keeps(k, P)
               \/ \E r \in Procs, w \in Slots : Holds(tick'[r][w]) /\ KeyAt(tick'[r][w]) = k
    BY <1>1, <2>2
  <2>. QED  BY <1>3, <2>1, <2>2 DEF Meant
<1>. QED  BY <1>2, <1>3

LEMMA SoleKept ==
  ASSUME SameBounds
  PROVE  (One' <=> One) /\ (calm' = calm => (Sole' <=> Sole)) /\ (calm' = FALSE => (Sole' => One))
BY DEF SameBounds, One, Sole

(***************************************************************************)
(* The end of claimFired and unmarkFired                                   *)
(***************************************************************************)
\* The tick x of p, and its operation o, after p has left it with a claim or
\* not.
Left(p, x, o, claimed) ==
  /\ Turn(p, op[p].tick, x, o) /\ Fits(op[p].tick, x, o) /\ Timely(x, clock, load)
  /\ Sober(x, plans, accepted) /\ o.pc \in {"none", "lock"}
  /\ Holds(x) => claimed /\ KeyAt(x) = Key(p)
  /\ claimed /\ ~Holds(x) => Keeps(Key(p), plans)

LEMMA Returned ==
  ASSUME Shape, NEW p \in Procs, op[p].pc # "none", NEW F \in SUBSET Keys,
         NEW claimed \in BOOLEAN, claimed => Claiming(p), Return(p, F, claimed)
  PROVE  /\ fired' \in [Procs -> SUBSET Keys] /\ retry' \in [Procs -> [Keys -> Nat]]
         /\ \E x, o : Left(p, x, o, claimed)
<1>. Typed /\ Linked(tick, op) /\ Placed(tick, up, clock, load) /\ Planned(tick, plans, accepted)
     /\ cycleDue \subseteq CycleDays
  BY DEF Shape
<1>. DEFINE t == op[p].tick
            y == tick[p][t]
            R == IF Claiming(p) THEN retry[p] ELSE [retry[p] EXCEPT ![KeyAt(y)] = y.now + RetryDelay]
<1>1. /\ t \in Slots /\ y \in Ticks /\ y.pc \in {"claiming", "failing"} /\ y.i \in 1..Len(Order)
      /\ Order[y.i] \in load.enabled /\ y.now <= clock /\ Key(p) = KeyAt(y) /\ Key(p) \in Keys
  BY BusyPlaces
<1>2. fired' \in [Procs -> SUBSET Keys]
  BY DEF Return, Typed
<1>3. y.now \in Times /\ y.now \in Nat /\ y.skip \in BOOLEAN /\ y.i + 1 \in 1..(Len(Order) + 1)
  <2>1. Len(Order) \in Nat
    BY OrderAssumption
  <2>. QED  BY <1>1, <2>1 DEF Ticks, Times
<1>4. Sober(y, plans, accepted)
  BY <1>1 DEF Planned
<1>5. CASE claimed /\ ~y.skip
  <2>1. PICK x : x = [y EXCEPT !.pc = "running"]
    OBVIOUS
  <2>2. x \in Ticks /\ x.pc = "running" /\ x.i = y.i /\ x.now = y.now /\ x.skip = y.skip
    BY <1>1, <2>1 DEF Ticks
  <2>3. tick' = [tick EXCEPT ![p][t] = x] /\ op' = [op EXCEPT ![p] = NoOp] /\ retry' = retry
    BY <1>5, <2>1 DEF Return
  <2>4. Turn(p, t, x, NoOp)
    BY <2>2, <2>3, RestTypes DEF Turn
  <2>5. Fits(t, x, NoOp) /\ Timely(x, clock, load) /\ Holds(x)
    BY <1>1, <2>2, RestTypes DEF Fits, Timely, Holds
  <2>6. KeyAt(x) = Key(p)
    BY <1>1, <2>2 DEF KeyAt
  <2>7. Sober(x, plans, accepted)
    BY <1>1, <1>4, <1>5, <2>2 DEF Sober
  <2>8. Left(p, x, NoOp, claimed)
    BY <1>5, <2>4, <2>5, <2>6, <2>7, RestTypes DEF Left
  <2>. QED  BY <1>2, <2>3, <2>8 DEF Typed
<1>6. CASE ~(claimed /\ ~y.skip)
  <2>1. R \in [Keys -> Nat]
    BY <1>1, <1>3, DelayAssumption DEF Typed
  <2>. HIDE DEF R
  <2>2. Continue(p, t, y.now, y.i + 1, F, R)
    BY <1>6 DEF Return, R
  <2>3. retry' \in [Procs -> [Keys -> Nat]]
    BY <1>1, <1>3, <2>1, <2>2, Continued
  <2>4. PICK x, o : Turn(p, t, x, o) /\ Onward(t, x, o, y.now)
    BY <1>1, <1>3, <2>1, <2>2, Continued
  <2>5. Fits(t, x, o) /\ Timely(x, clock, load) /\ Sober(x, plans, accepted) /\ ~Holds(x) /\ o.pc \in {"none", "lock"}
    BY <1>1, <1>3, <2>4, OnwardFits
  <2>6. claimed => Keeps(Key(p), plans)
    BY <1>1, <1>4, <1>6 DEF Sober
  <2>7. Left(p, x, o, claimed)
    BY <2>4, <2>5, <2>6 DEF Left
  <2>. QED  BY <1>2, <2>3, <2>7
<1>. QED  BY <1>5, <1>6

LEMMA LeftShape ==
  ASSUME Shape, NEW p \in Procs, NEW x, NEW o, NEW claimed, Left(p, x, o, claimed), op[p].pc # "none",
         UNCHANGED <<clock, up, world, done, load, calm>>,
         fired' \in [Procs -> SUBSET Keys], retry' \in [Procs -> [Keys -> Nat]],
         file' \subseteq Keys, locks' \in [Keys -> SUBSET Times]
  PROVE  Shape'
<1>. Typed /\ Linked(tick, op) /\ Placed(tick, up, clock, load)
  BY DEF Shape
<1>1. op[p].tick \in Slots /\ up[p]
  BY BusyPlaces
<1>2. SameBounds
  BY DEF SameBounds, Typed
<1>3. plans' = plans /\ accepted' = accepted /\ cycleDue' = cycleDue
  BY DEF world
<1>. QED  BY <1>1, <1>2, <1>3, TurnShape DEF Left, MayTurn, Typed

(***************************************************************************)
(* The steps                                                               *)
(***************************************************************************)
LEMMA LockedStep ==
  ASSUME IInv, NEW p \in Procs, op[p].pc \in {"lock", "relock"}, locks[Key(p)] = {}, Locked(p),
         UNCHANGED <<clock, file, up, world, done, load, calm>>
  PROVE  IInv'
<1>. Shape /\ Typed /\ Linked(tick, op) /\ Placed(tick, up, clock, load)
  BY DEF IInv, Shape
<1>1. PICK o : o = [op[p] EXCEPT !.pc = "held", !.read = file]
  OBVIOUS
<1>2. o \in Ops /\ o.pc = "held" /\ o.read = file /\ o.tick = op[p].tick
  <2>. op[p] \in Ops /\ file \subseteq Keys
    BY DEF Typed
  <2>. QED  BY <1>1 DEF Ops
<1>3. OpStep(p, o)
  BY <1>1, <1>2 DEF Locked, OpStep
<1>4. Key(p) \in Keys
  BY BusyPlaces
<1>5. locks' = [locks EXCEPT ![Key(p)] = {clock}] /\ locks' \in [Keys -> SUBSET Times]
  BY <1>4 DEF Locked, Typed
<1>6. /\ Shape' /\ op'[p] = o /\ \A q \in Procs : q # p => op'[q] = op[q]
      /\ \A q \in Procs : Key(q)' = Key(q) /\ At(tick', op', q) = Key(q) /\ At(tick, op, q) = Key(q)
  BY <1>3, <1>5, OpShape DEF Locked, Typed
<1>7. SameBounds
  BY DEF SameBounds, Typed
<1>8. (One' <=> One) /\ (Sole' <=> Sole)
  BY <1>7, SoleKept
<1>9. calm' => Locking(tick', op', locks', clock')
  BY <1>2, <1>3, <1>4, <1>5, <1>6, LockingHeld DEF IInv
<1>10. Sole' => Reading(op', file') /\ Once(tick', file', done')
  BY <1>2, <1>3, <1>6, <1>8 DEF IInv, Reading, OpStep
<1>11. One' /\ calm' => Meant(tick', file', done', plans')
  BY <1>3, <1>8 DEF IInv, OpStep, world
<1>. QED  BY <1>6, <1>9, <1>10, <1>11 DEF IInv

\* A stale lock is reclaimed: a process has crashed.
LEMMA ReclaimStep ==
  ASSUME IInv, NEW p \in Procs, op[p].pc \in {"lock", "reclaim"}, ~calm, NEW pc \in {"reclaim", "relock"},
         op' = [op EXCEPT ![p].pc = pc], locks' \in [Keys -> SUBSET Times],
         UNCHANGED <<clock, file, up, fired, retry, tick, world, done, load, calm>>
  PROVE  IInv'
<1>. Shape /\ Typed
  BY DEF IInv, Shape
<1>1. PICK o : o = [op[p] EXCEPT !.pc = pc]
  OBVIOUS
<1>2. o \in Ops /\ o.pc = pc /\ o.tick = op[p].tick
  <2>. op[p] \in Ops
    BY DEF Typed
  <2>. QED  BY <1>1 DEF Ops
<1>3. OpStep(p, o)
  BY <1>1, <1>2 DEF OpStep
<1>4. Shape' /\ op'[p] = o /\ \A q \in Procs : q # p => op'[q] = op[q]
  BY <1>3, OpShape DEF Typed
<1>5. SameBounds
  BY DEF SameBounds, Typed
<1>6. Sole' <=> Sole
  BY <1>5, SoleKept
<1>7. Sole' => Reading(op', file') /\ Once(tick', file', done')
  BY <1>2, <1>4, <1>6 DEF IInv, Reading
<1>. QED  BY <1>4, <1>7 DEF IInv

LEMMA RefusedStep ==
  ASSUME IInv, NEW p \in Procs, op[p].pc \in {"lock", "relock"}, locks[Key(p)] # {}, Refused(p),
         UNCHANGED <<clock, file, up, world, done, load, calm>>
  PROVE  IInv'
<1>. Shape /\ Typed /\ Linked(tick, op) /\ Placed(tick, up, clock, load)
  BY DEF IInv, Shape
<1>. DEFINE F == IF Claiming(p) THEN fired[p] ELSE fired[p] \ {Key(p)}
            t == op[p].tick
<1>1. F \in SUBSET Keys
  BY DEF Typed
<1>. HIDE DEF F
<1>2. Return(p, F, FALSE) /\ locks' = locks
  BY DEF Refused, F
<1>3. /\ fired' \in [Procs -> SUBSET Keys] /\ retry' \in [Procs -> [Keys -> Nat]]
      /\ \E x, o : Left(p, x, o, FALSE)
  BY <1>1, <1>2, Returned
<1>4. PICK x, o : Left(p, x, o, FALSE)
  BY <1>3
<1>5. Turn(p, t, x, o) /\ ~Holds(x) /\ o.pc \in {"none", "lock"} /\ t \in Slots
  BY <1>4, BusyPlaces DEF Left
<1>6. Shape'
  <2>. file' \subseteq Keys /\ locks' \in [Keys -> SUBSET Times]
    BY <1>2 DEF Typed
  <2>. QED  BY <1>3, <1>4, LeftShape
<1>7. (One' <=> One) /\ (Sole' <=> Sole)
  BY SoleKept DEF SameBounds, Typed
<1>8. calm' => Locking(tick', op', locks', clock')
  BY <1>2, <1>5, LockingTurn DEF IInv
<1>9. Sole' => Reading(op', file') /\ Once(tick', file', done')
  <2>1. Sole => Reading(op', file)
    BY <1>5, TurnTicks DEF IInv, Reading
  <2>2. Sole => Once(tick', file, done)
    BY <1>5, OnceTurn DEF IInv
  <2>. QED  BY <1>7, <2>1, <2>2
<1>10. ~(One /\ calm)
  <2>. SUFFICES ASSUME One, calm PROVE FALSE
    OBVIOUS
  <2>1. Key(p) \in Keys /\ p \in load.procs
    BY BusyPlaces
  <2>2. PICK q \in Procs : op[q].pc = "held"
    BY <2>1 DEF IInv, Locking
  <2>3. q \in load.procs
    BY <2>2, BusyPlaces
  <2>. QED  BY <2>1, <2>2, <2>3, LoadTypes, OnlyOne DEF One
<1>. QED  BY <1>6, <1>7, <1>8, <1>9, <1>10 DEF IInv

LEMMA ReleaseStep == ASSUME IInv, NEW p \in Procs, Release(p) PROVE IInv'
<1>. Shape /\ Typed /\ Linked(tick, op) /\ Placed(tick, up, clock, load) /\ clock <= load.until
  BY DEF IInv, Shape
<1>. DEFINE t == op[p].tick
            y == tick[p][t]
            F == IF AlreadyFired(p) THEN op[p].read ELSE Written(p)
            claimed == Claiming(p) /\ ~AlreadyFired(p)
<1>1. /\ t \in Slots /\ y \in Ticks /\ y.pc \in {"claiming", "failing"}
      /\ Key(p) = KeyAt(y) /\ Key(p) \in Keys
  BY BusyPlaces DEF Release
<1>2. op[p].pc = "held" /\ op[p].read \subseteq Keys
  BY DEF Release, Typed, Ops
<1>3. locks' = [locks EXCEPT ![Key(p)] = {}] /\ locks' \in [Keys -> SUBSET Times]
  BY <1>1 DEF Release, Typed
<1>4. F \in SUBSET Keys /\ claimed \in BOOLEAN /\ (claimed => Claiming(p))
  BY <1>1, <1>2 DEF Written, Claiming, AlreadyFired
<1>5. Return(p, F, claimed)
  <2>1. CASE AlreadyFired(p)
    BY <2>1 DEF Release
  <2>2. CASE ~AlreadyFired(p)
    <3>1. Claiming(p) = claimed
      BY <2>2 DEF Claiming
    <3>. QED  BY <2>2, <3>1 DEF Release
  <2>. QED  BY <2>1, <2>2
<1>6. file' = IF AlreadyFired(p) THEN file ELSE Written(p)
  BY DEF Release
<1>7. UNCHANGED <<clock, up, world, done, load, calm>> /\ file' \subseteq Keys
  BY <1>4, <1>6 DEF Release, Typed
<1>. HIDE DEF F, claimed
<1>8. /\ fired' \in [Procs -> SUBSET Keys] /\ retry' \in [Procs -> [Keys -> Nat]]
      /\ \E x, o : Left(p, x, o, claimed)
  BY <1>2, <1>4, <1>5, Returned
<1>9. PICK x, o : Left(p, x, o, claimed)
  BY <1>8
<1>. USE DEF claimed
<1>10. /\ Turn(p, t, x, o) /\ o.pc \in {"none", "lock"}
       /\ Holds(x) => claimed /\ KeyAt(x) = Key(p)
       /\ claimed /\ ~Holds(x) => Keeps(Key(p), plans)
  BY <1>9 DEF Left
<1>11. Shape'
  BY <1>2, <1>3, <1>7, <1>8, <1>9, LeftShape
<1>12. (One' <=> One) /\ (Sole' <=> Sole)
  BY <1>7, SoleKept DEF SameBounds, Typed
<1>13. calm' => Locking(tick', op', locks', clock')
  BY <1>1, <1>2, <1>3, <1>7, <1>10, LockingRelease DEF IInv
<1>14. ~Claiming(p) => Holds(y)
  BY <1>1 DEF Claiming, Holds
<1>15. ASSUME Sole PROVE op[p].read = file
  BY <1>2, <1>15 DEF IInv, Reading
<1>16. Sole => Reading(op', file')
  <2>. SUFFICES ASSUME Sole, NEW q \in Procs, op'[q].pc = "held" PROVE FALSE
    BY DEF Reading
  <2>1. q # p /\ op[q].pc = "held"
    BY <1>1, <1>10, TurnTicks
  <2>. QED  BY <1>2, <2>1, OneHolder DEF IInv
<1>17. ASSUME Sole PROVE Once(tick', file', done)
  <2>0. Once(tick, file, done)
    BY <1>17 DEF IInv
  <2>1. CASE AlreadyFired(p)
    BY <1>1, <1>6, <1>10, <2>0, <2>1, OnceTurn
  <2>2. CASE claimed
    <3>1. file' = file \union {Key(p)} /\ Key(p) \notin file
      BY <1>6, <1>15, <1>17, <2>2 DEF Written, AlreadyFired
    <3>2. done[Key(p)] = 0
      BY <1>1, <2>0, <3>1 DEF Once
    <3>3. \A q \in Procs, u \in Slots : Holds(tick[q][u]) => KeyAt(tick[q][u]) # Key(p)
      BY <2>0, <3>1 DEF Once
    <3>. QED  BY <1>1, <1>10, <2>0, <3>1, <3>2, <3>3, OnceTurn
  <2>3. CASE ~Claiming(p)
    <3>1. file' = file \ {Key(p)} /\ ~Holds(x)
      BY <1>6, <1>10, <1>15, <1>17, <2>3 DEF Written, AlreadyFired
    <3>. QED  BY <1>1, <1>10, <1>14, <2>0, <2>3, <3>1, OnceEnded
  <2>. QED  BY <2>1, <2>2, <2>3
<1>18. ASSUME One, calm PROVE Meant(tick', file', done, plans)
  <2>0. Sole /\ Meant(tick, file, done, plans) /\ op[p].read = file
    BY <1>15, <1>18 DEF IInv, Sole
  <2>1. \A k \in file' : k \in file \/ Keeps(k, plans) \/ (Holds(x) /\ KeyAt(x) = k)
    BY <1>6, <1>10, <2>0 DEF Written, AlreadyFired
  <2>2. Holds(y) => KeyAt(y) \notin file'
    BY <1>1, <1>6, <2>0 DEF Written, AlreadyFired, Claiming, Holds
  <2>. QED  BY <1>1, <1>7, <1>10, <2>0, <2>1, <2>2, MeantTurn
<1>. QED  BY <1>7, <1>11, <1>12, <1>13, <1>16, <1>17, <1>18 DEF IInv, world

LEMMA BeginStep == ASSUME IInv, NEW p \in Procs, NEW t \in Slots, BeginTick(p, t) PROVE IInv'
<1>. Shape /\ Typed /\ Linked(tick, op) /\ Placed(tick, up, clock, load) /\ cycleDue \subseteq CycleDays
  BY DEF IInv, Shape
<1>. /\ UNCHANGED <<clock, file, locks, up, fired, world, done, load, calm>>
     /\ clock \in Times /\ clock \in Nat /\ up[p] /\ op[p].pc = "none" /\ tick[p][t] = Idle
  BY RestTypes DEF BeginTick, Free, Typed, Times
<1>1. retry[p] \in [Keys -> Nat] /\ 1 \in 1..(Len(Order) + 1)
  <2>. Len(Order) \in Nat
    BY OrderAssumption
  <2>. QED  BY DEF Typed
<1>2. retry' \in [Procs -> [Keys -> Nat]] /\ \E x, o : Turn(p, t, x, o) /\ Onward(t, x, o, clock)
  BY <1>1, Continued DEF BeginTick
<1>3. PICK x, o : Turn(p, t, x, o) /\ Onward(t, x, o, clock)
  BY <1>2
<1>4. Fits(t, x, o) /\ Timely(x, clock, load) /\ Sober(x, plans, accepted) /\ ~Holds(x) /\ o.pc \in {"none", "lock"}
  BY <1>3, OnwardFits
<1>5. plans' = plans /\ accepted' = accepted /\ cycleDue' = cycleDue
  BY DEF world
<1>6. SameBounds
  BY DEF SameBounds, Typed
<1>7. Shape'
  BY <1>2, <1>3, <1>4, <1>5, <1>6, TurnShape DEF MayTurn, Typed
<1>8. (One' <=> One) /\ (Sole' <=> Sole)
  BY <1>6, SoleKept
<1>9. calm' => Locking(tick', op', locks', clock')
  BY <1>3, <1>4, LockingTurn DEF IInv
<1>10. Sole => Reading(op', file) /\ Once(tick', file, done)
  <2>1. Sole => Reading(op', file)
    BY <1>3, <1>4, TurnTicks DEF IInv, Reading
  <2>. QED  BY <1>3, <1>4, <2>1, OnceTurn DEF IInv
<1>11. One /\ calm => Meant(tick', file, done, plans)
  <2>1. ~Holds(tick[p][t])
    BY RestTypes DEF Holds
  <2>2. file \in SUBSET Keys
    BY DEF Typed
  <2>. QED  BY <1>3, <2>1, <2>2, MeantTurn DEF IInv
<1>. QED  BY <1>5, <1>7, <1>8, <1>9, <1>10, <1>11 DEF IInv

\* What is known of a run that has ended.
LEMMA RunPlaces ==
  ASSUME Shape, NEW p \in Procs, NEW t \in Slots, Free(p), tick[p][t].pc = "running"
  PROVE  LET x == tick[p][t] IN
         /\ x \in Ticks /\ x.i \in 1..Len(Order) /\ Order[x.i] \in load.enabled /\ x.now <= clock
         /\ x.now \in Times /\ x.now \in Nat /\ x.i + 1 \in 1..(Len(Order) + 1)
         /\ KeyAt(x) \in Keys /\ KeyAt(x)[1] = Order[x.i] /\ KeyAt(x)[2] = DayOf(x.now)
         /\ KeyAt(x)[2] \in Days /\ Holds(x) /\ x.skip = FALSE
         /\ Order[x.i] = "daily_plan" => DayOf(x.now) \notin accepted
         /\ up[p] /\ op[p].pc = "none" /\ clock \in Nat
<1>. DEFINE x == tick[p][t]
<1>0. Typed /\ Placed(tick, up, clock, load) /\ Planned(tick, plans, accepted)
  BY DEF Shape
<1>1. x \in Ticks
  BY <1>0 DEF Typed
<1>2. x.i \in 1..Len(Order) /\ Order[x.i] \in load.enabled /\ x.now <= clock
  BY <1>0 DEF Placed, Timely
<1>3. x.now \in Times /\ x.now \in Nat /\ x.i + 1 \in 1..(Len(Order) + 1) /\ x.skip \in BOOLEAN
  <2>. Len(Order) \in Nat
    BY OrderAssumption
  <2>. QED  BY <1>1, <1>2 DEF Ticks, Times
<1>4. KeyAt(x) \in Keys /\ DayOf(x.now) \in Days
  BY <1>1, <1>2, <1>3, KeysOfTicks, DaysInOrder
<1>5. Sober(x, plans, accepted)
  BY <1>0 DEF Planned
<1>6. ~x.skip /\ (Order[x.i] = "daily_plan" => DayOf(x.now) \notin accepted)
  BY <1>5 DEF Sober
<1>7. up[p] /\ op[p].pc = "none" /\ clock \in Nat
  BY <1>0, RestTypes DEF Free, Typed, Times
<1>. QED  BY <1>1, <1>2, <1>3, <1>4, <1>6, <1>7 DEF KeyAt, Holds

\* The plan of a day that had none of the user's is made.
LEMMA PlanMade ==
  ASSUME Typed, NEW x \in Ticks, NEW k, k = KeyAt(x), k[2] \in Days,
         k[1] = "daily_plan" => k[2] \notin accepted,
         \/ plans' = plans /\ accepted' = accepted
         \/ k[1] = "daily_plan" /\ plans' = plans \union {k[2]} /\ accepted' = accepted \ {k[2]}
  PROVE  /\ plans \subseteq plans' /\ accepted' = accepted /\ plans' \subseteq Days /\ accepted' \subseteq plans'
BY DEF Typed

LEMMA SucceedStep == ASSUME IInv, NEW p \in Procs, NEW t \in Slots, Succeed(p, t) PROVE IInv'
<1>. Shape /\ Typed /\ Linked(tick, op) /\ Placed(tick, up, clock, load) /\ cycleDue \subseteq CycleDays
  BY DEF IInv, Shape
<1>. DEFINE y == tick[p][t]
            k == KeyAt(y)
            R == [retry[p] EXCEPT ![k] = 0]
<1>0. /\ Free(p) /\ y.pc = "running" /\ done' = [done EXCEPT ![k] = @ + 1]
      /\ Continue(p, t, y.now, y.i + 1, fired[p], R)
      /\ UNCHANGED <<clock, file, locks, up, fired, cycleDue, load, calm>>
      /\ \/ plans' = plans /\ accepted' = accepted
         \/ k[1] = "daily_plan" /\ plans' = plans \union {k[2]} /\ accepted' = accepted \ {k[2]}
  BY DEF Succeed
<1>1. /\ y \in Ticks /\ y.i \in 1..Len(Order) /\ Order[y.i] \in load.enabled /\ y.now <= clock
      /\ y.now \in Times /\ y.now \in Nat /\ y.i + 1 \in 1..(Len(Order) + 1)
      /\ k \in Keys /\ k[1] = Order[y.i] /\ k[2] = DayOf(y.now) /\ k[2] \in Days /\ Holds(y)
      /\ Order[y.i] = "daily_plan" => DayOf(y.now) \notin accepted
      /\ up[p] /\ op[p].pc = "none" /\ clock \in Nat
  <2>1. Free(p) /\ tick[p][t].pc = "running"
    BY <1>0
  <2>. QED  BY <2>1, RunPlaces
<1>2. plans \subseteq plans' /\ accepted' = accepted /\ plans' \subseteq Days /\ accepted' \subseteq plans'
  BY <1>0, <1>1, PlanMade
<1>3. R \in [Keys -> Nat]
  BY <1>1 DEF Typed
<1>. HIDE DEF R
<1>4. retry' \in [Procs -> [Keys -> Nat]] /\ \E x, o : Turn(p, t, x, o) /\ Onward(t, x, o, y.now)
  BY <1>0, <1>1, <1>3, Continued
<1>5. PICK x, o : Turn(p, t, x, o) /\ Onward(t, x, o, y.now)
  BY <1>4
<1>6. Fits(t, x, o) /\ Timely(x, clock, load) /\ Sober(x, plans', accepted') /\ ~Holds(x) /\ o.pc \in {"none", "lock"}
  BY <1>1, <1>2, <1>5, OnwardFits
<1>7. SameBounds
  BY <1>0 DEF SameBounds, Typed
<1>8. done' \in [Keys -> Nat] /\ \A j \in Keys : done[j] > 0 => done'[j] > 0
  BY <1>0, <1>1 DEF Typed
<1>9. Shape'
  BY <1>0, <1>1, <1>2, <1>4, <1>5, <1>6, <1>7, <1>8, TurnShape DEF MayTurn, Typed
<1>10. (One' <=> One) /\ (Sole' <=> Sole)
  BY <1>0, <1>7, SoleKept
<1>11. calm' => Locking(tick', op', locks', clock')
  BY <1>0, <1>1, <1>5, <1>6, LockingTurn DEF IInv
<1>12. Sole => Reading(op', file) /\ Once(tick', file, done')
  <2>1. Sole => Reading(op', file)
    BY <1>5, <1>6, TurnTicks DEF IInv, Reading
  <2>. QED  BY <1>0, <1>1, <1>5, <1>6, <2>1, OnceEnded DEF IInv
<1>13. One /\ calm => Meant(tick', file, done', plans')
  <2>1. file \in SUBSET Keys /\ done'[k] > 0
    BY <1>0, <1>1 DEF Typed
  <2>. QED  BY <1>2, <1>5, <1>8, <2>1, MeantTurn DEF IInv
<1>. QED  BY <1>0, <1>9, <1>10, <1>11, <1>12, <1>13 DEF IInv

LEMMA FailStep == ASSUME IInv, NEW p \in Procs, NEW t \in Slots, Fail(p, t) PROVE IInv'
<1>. Shape /\ Typed /\ Linked(tick, op) /\ Placed(tick, up, clock, load) /\ cycleDue \subseteq CycleDays
  BY DEF IInv, Shape
<1>. DEFINE y == tick[p][t]
            k == KeyAt(y)
<1>0. /\ Free(p) /\ y.pc = "running" /\ load.fails > 0 /\ load' = [load EXCEPT !.fails = @ - 1]
      /\ UNCHANGED <<clock, file, locks, up, fired, retry, cycleDue, done, calm>>
      /\ \/ plans' = plans /\ accepted' = accepted
         \/ k[1] = "daily_plan" /\ plans' = plans \union {k[2]} /\ accepted' = accepted \ {k[2]}
      /\ tick' = [tick EXCEPT ![p][t].pc = "failing"]
      /\ op' = [op EXCEPT ![p] = [pc |-> "lock", tick |-> t, read |-> {}]]
  BY DEF Fail
<1>1. /\ y \in Ticks /\ y.i \in 1..Len(Order) /\ Order[y.i] \in load.enabled /\ y.now <= clock
      /\ k \in Keys /\ k[1] = Order[y.i] /\ k[2] = DayOf(y.now) /\ k[2] \in Days /\ Holds(y) /\ y.skip = FALSE
      /\ Order[y.i] = "daily_plan" => DayOf(y.now) \notin accepted
      /\ up[p] /\ op[p].pc = "none"
  <2>1. Free(p) /\ tick[p][t].pc = "running"
    BY <1>0
  <2>. QED  BY <2>1, RunPlaces
<1>2. plans \subseteq plans' /\ accepted' = accepted /\ plans' \subseteq Days /\ accepted' \subseteq plans'
  BY <1>0, <1>1, PlanMade
<1>3. PICK x : x = [y EXCEPT !.pc = "failing"]
  OBVIOUS
<1>4. x \in Ticks /\ x.pc = "failing" /\ x.i = y.i /\ x.now = y.now /\ x.skip = y.skip
  BY <1>1, <1>3 DEF Ticks
<1>5. PICK o : o = [pc |-> "lock", tick |-> t, read |-> {}]
  OBVIOUS
<1>6. Turn(p, t, x, o) /\ o.pc = "lock" /\ o.tick = t
  <2>1. o \in Ops /\ o.pc = "lock" /\ o.tick = t
    BY <1>5 DEF Ops
  <2>. QED  BY <1>0, <1>3, <1>4, <1>5, <2>1 DEF Turn
<1>7. KeyAt(x) = k /\ Holds(x)
  BY <1>4 DEF KeyAt, Holds
<1>8. Fits(t, x, o) /\ Timely(x, clock, load)
  BY <1>1, <1>4, <1>6 DEF Fits, Timely
<1>9. Sober(x, plans', accepted')
  BY <1>1, <1>2, <1>4 DEF Sober
<1>10. SameBounds
  <2>. load \in Load
    BY DEF Typed
  <2>. QED  BY <1>0 DEF SameBounds, Load
<1>11. Shape'
  BY <1>0, <1>1, <1>2, <1>6, <1>8, <1>9, <1>10, TurnShape DEF MayTurn, Typed
<1>12. (One' <=> One) /\ (Sole' <=> Sole)
  BY <1>0, <1>10, SoleKept
<1>13. calm' => Locking(tick', op', locks', clock')
  BY <1>0, <1>1, <1>6, LockingTurn DEF IInv
<1>14. Sole => Reading(op', file) /\ Once(tick', file, done)
  <2>1. Sole => Reading(op', file)
    BY <1>6, TurnTicks DEF IInv, Reading
  <2>2. ASSUME Sole PROVE Once(tick', file, done)
    <3>1. Once(tick, file, done)
      BY <2>2 DEF IInv
    <3>2. /\ k \in file /\ done[k] = 0
          /\ \A q \in Procs, u \in Slots : Holds(tick[q][u]) /\ KeyAt(tick[q][u]) = k => q = p /\ u = t
      BY <1>1, <3>1 DEF Once
    <3>. QED  BY <1>6, <1>7, <3>1, <3>2, OnceTurn
  <2>. QED  BY <2>1, <2>2
<1>15. One /\ calm => Meant(tick', file, done, plans')
  <2>1. file \in SUBSET Keys
    BY DEF Typed
  <2>. QED  BY <1>2, <1>6, <1>7, <2>1, MeantTurn DEF IInv
<1>. QED  BY <1>0, <1>11, <1>12, <1>13, <1>14, <1>15 DEF IInv

LEMMA CrashStep == ASSUME IInv, NEW p \in Procs, Crash(p) PROVE IInv'
<1>. Shape /\ Typed /\ Linked(tick, op) /\ Placed(tick, up, clock, load) /\ Planned(tick, plans, accepted)
  BY DEF IInv, Shape
<1>. DEFINE F == Written(p)
<1>0. /\ up[p] /\ load.crashes > 0 /\ load' = [load EXCEPT !.crashes = @ - 1] /\ calm' = FALSE
      /\ up' = [up EXCEPT ![p] = FALSE]
      /\ file' = file \/ (op[p].pc = "held" /\ ~AlreadyFired(p) /\ file' = F)
      /\ fired' = [fired EXCEPT ![p] = {}] /\ retry' = [retry EXCEPT ![p] = NoRetry]
      /\ tick' = [tick EXCEPT ![p] = [t \in Slots |-> Idle]] /\ op' = [op EXCEPT ![p] = NoOp]
      /\ UNCHANGED <<clock, locks, world, done>>
  BY DEF Crash
<1>1. ASSUME op[p].pc = "held"
      PROVE  F \subseteq Keys
  <2>1. op[p].read \subseteq Keys /\ Key(p) \in Keys
    BY <1>1, BusyPlaces DEF Typed, Ops
  <2>. QED  BY <2>1 DEF Written
<1>2. file' \subseteq Keys
  BY <1>0, <1>1 DEF Typed
<1>3. SameBounds
  <2>. load \in Load
    BY DEF Typed
  <2>. QED  BY <1>0 DEF SameBounds, Load
<1>4. NoRetry \in [Keys -> Nat]
  BY DEF NoRetry
<1>. HIDE DEF F
<1>5. /\ \A t \in Slots : tick'[p][t] = Idle
      /\ \A q \in Procs : q # p => tick'[q] = tick[q] /\ op'[q] = op[q] /\ up'[q] = up[q]
      /\ op'[p] = NoOp /\ ~up'[p]
      /\ tick' \in [Procs -> [Slots -> Ticks]] /\ op' \in [Procs -> Ops] /\ up' \in [Procs -> BOOLEAN]
  BY <1>0, RestTypes DEF Typed
<1>6. Typed'
  <2>1. fired' \in [Procs -> SUBSET Keys] /\ retry' \in [Procs -> [Keys -> Nat]] /\ load' \in Load
    BY <1>0, <1>3, <1>4 DEF Typed, SameBounds
  <2>2. calm' \in BOOLEAN /\ UNCHANGED <<clock, locks, plans, accepted, cycleDue, done>>
    BY <1>0 DEF world
  <2>. QED  BY <1>2, <1>5, <2>1, <2>2 DEF Typed
<1>7. Linked(tick', op')
  BY <1>5, RestTypes DEF Linked
<1>8. Placed(tick', up', clock', load')
  BY <1>0, <1>3, <1>5, RestTypes DEF Placed, Timely, SameBounds
<1>9. Planned(tick', plans', accepted')
  BY <1>0, <1>5, RestTypes DEF Planned, Sober, world
<1>10. Shape'
  BY <1>0, <1>3, <1>6, <1>7, <1>8, <1>9 DEF Shape, SameBounds, world
<1>11. ASSUME One PROVE Reading(op', file') /\ Once(tick', file', done')
  <2>1. p \in load.procs
    BY <1>0 DEF Placed
  <2>2. \A q \in Procs : q # p => ~up[q]
    BY <1>11, <2>1, LoadTypes, OnlyOne DEF One, Placed
  <2>3. \A q \in Procs, t \in Slots : tick'[q][t].pc = "idle"
    BY <1>5, <2>2, RestTypes DEF Placed
  <2>4. \A q \in Procs : op'[q].pc = "none"
    <3>1. \A q \in Procs : op'[q].tick \in Slots
      BY <1>5 DEF Ops
    <3>. QED  BY <1>7, <2>3, <3>1 DEF Linked
  <2>5. Sole /\ Reading(op, file) /\ Once(tick, file, done)
    BY <1>11 DEF IInv, Sole
  <2>6. \A k \in Keys : k \in file /\ k \notin file' => done[k] = 0
    <3>. SUFFICES ASSUME NEW k \in Keys, k \in file, k \notin file' PROVE done[k] = 0
      OBVIOUS
    <3>1. op[p].pc = "held" /\ op[p].read = file /\ k \notin Written(p)
      BY <1>0, <2>5 DEF Reading, F
    <3>2. ~Claiming(p) /\ k = Key(p)
      BY <3>1 DEF Written
    <3>3. /\ op[p].tick \in Slots /\ tick[p][op[p].tick].pc \in {"claiming", "failing"}
          /\ Key(p) = KeyAt(tick[p][op[p].tick])
      BY <3>1, BusyPlaces
    <3>4. Holds(tick[p][op[p].tick])
      BY <3>2, <3>3 DEF Claiming, Holds
    <3>. QED  BY <2>5, <3>2, <3>3, <3>4 DEF Once
  <2>7. Once(tick', file', done')
    BY <1>0, <2>3, <2>5, <2>6 DEF Once, Holds
  <2>. QED  BY <2>4, <2>7 DEF Reading
<1>12. (Sole' => One) /\ calm' = FALSE
  BY <1>0, <1>3, SoleKept
<1>. QED  BY <1>10, <1>11, <1>12 DEF IInv

\* The steps that leave the ticks and the files alone.
LEMMA QuietStep ==
  ASSUME IInv, UNCHANGED <<file, locks, tick, op, retry, done, load, calm>>,
         clock' \in Times, clock <= clock', clock' <= load.until,
         calm => Locking(tick, op, locks, clock'),
         up' \in [Procs -> BOOLEAN], \A p \in Procs : (up'[p] => p \in load.procs) /\ (up[p] => up'[p]),
         fired' \in [Procs -> SUBSET Keys], cycleDue' \subseteq cycleDue,
         plans \subseteq plans', plans' \subseteq Days, accepted' \subseteq plans',
         Planned(tick, plans', accepted')
  PROVE  IInv'
<1>. Shape /\ Typed /\ Linked(tick, op) /\ Placed(tick, up, clock, load)
     /\ cycleDue \subseteq CycleDays
  BY DEF IInv, Shape
<1>1. Typed'
  BY DEF Typed
<1>2. Placed(tick', up', clock', load')
  <2>. SUFFICES ASSUME NEW p \in Procs, NEW t \in Slots, tick[p][t].pc # "idle"
                PROVE  Timely(tick[p][t], clock', load) /\ up'[p]
    BY DEF Placed, Timely
  <2>1. tick[p][t].now \in Nat /\ clock \in Nat /\ clock' \in Nat
    BY DEF Typed, Ticks, Times
  <2>. QED  BY <2>1 DEF Placed, Timely
<1>3. Shape'
  BY <1>1, <1>2 DEF Shape, Typed
<1>4. SameBounds
  BY DEF SameBounds, Typed
<1>5. (One' <=> One) /\ (Sole' <=> Sole)
  BY <1>4, SoleKept
<1>6. Sole' => Reading(op', file') /\ Once(tick', file', done')
  BY <1>5 DEF IInv
<1>7. One' /\ calm' => Meant(tick', file', done', plans')
  BY <1>5 DEF IInv, Meant, Keeps
<1>. QED  BY <1>3, <1>6, <1>7 DEF IInv

LEMMA TimeStep == ASSUME IInv, TimePasses PROVE IInv'
<1>. Shape /\ Typed /\ Planned(tick, plans, accepted) /\ Placed(tick, up, clock, load)
  BY DEF IInv, Shape
<1>1. /\ clock \in Nat /\ load.until \in Times /\ clock' = clock + 1 /\ clock < load.until
  BY LoadTypes DEF TimePasses, Typed, Times
<1>2. clock' \in Times /\ clock <= clock' /\ clock' <= load.until
  BY <1>1, DayAssumption DEF Times
<1>3. ASSUME calm PROVE Locking(tick, op, locks, clock')
  <2>1. Locking(tick, op, locks, clock)
    BY <1>3 DEF IInv
  <2>2. \A k \in Keys : \A made \in locks[k] : clock' < made + StaleAfter
    <3>. SUFFICES ASSUME NEW k \in Keys, NEW made \in locks[k] PROVE clock' < made + StaleAfter
      OBVIOUS
    <3>1. PICK p \in Procs : op[p].pc = "held" /\ At(tick, op, p) = k
      BY <2>1 DEF Locking
    <3>. QED  BY <1>1, <3>1 DEF TimePasses, At, Key
  <2>. QED  BY <2>1, <2>2 DEF Locking
<1>. QED  BY <1>2, <1>3, QuietStep DEF TimePasses, Typed, Placed, world

LEMMA RestartStep == ASSUME IInv, NEW p \in Procs, Restart(p) PROVE IInv'
<1>. Shape /\ Typed /\ Planned(tick, plans, accepted) /\ Placed(tick, up, clock, load) /\ clock <= load.until
  BY DEF IInv, Shape
<1>1. /\ up' \in [Procs -> BOOLEAN] /\ fired' \in [Procs -> SUBSET Keys]
      /\ \A q \in Procs : (up'[q] => q \in load.procs) /\ (up[q] => up'[q])
  BY DEF Restart, Typed, Placed
<1>2. clock' = clock /\ clock \in Times /\ clock \in Nat /\ cycleDue' = cycleDue
      /\ plans' = plans /\ accepted' = accepted /\ plans \subseteq Days /\ accepted \subseteq plans
  BY DEF Restart, Typed, Times, world
<1>3. calm => Locking(tick, op, locks, clock')
  BY <1>2 DEF IInv
<1>. QED  BY <1>1, <1>2, <1>3, QuietStep DEF Restart

LEMMA UserStep == ASSUME IInv, NEW d \in Days, UserPlans(d) \/ UserSetsCycle(d) PROVE IInv'
<1>. Shape /\ Typed /\ Planned(tick, plans, accepted) /\ Placed(tick, up, clock, load) /\ clock <= load.until
  BY DEF IInv, Shape
<1>0. UNCHANGED <<clock, file, locks, up, fired, retry, tick, op, done, load, calm>>
  BY DEF UserPlans, UserSetsCycle
<1>1. plans \subseteq plans' /\ plans' \subseteq Days /\ accepted' \subseteq plans' /\ cycleDue' \subseteq cycleDue
  BY DEF UserPlans, UserSetsCycle, Typed
<1>2. accepted' = accepted \/ (accepted' = accepted \union {d} /\ DayOf(clock) < d)
  BY DEF UserPlans, UserSetsCycle
<1>3. Planned(tick, plans', accepted')
  <2>. SUFFICES ASSUME NEW p \in Procs, NEW t \in Slots PROVE Sober(tick[p][t], plans', accepted')
    BY DEF Planned
  <2>. DEFINE x == tick[p][t]
  <2>1. Sober(x, plans, accepted) /\ x \in Ticks /\ x.now \in Times /\ clock \in Times
    BY DEF Planned, Typed, Ticks
  <2>2. x.pc # "idle" => DayOf(x.now) # d \/ DayOf(clock) >= d
    <3>1. x.pc # "idle" => x.now <= clock
      BY DEF Placed, Timely
    <3>2. DayOf(x.now) \in Nat /\ DayOf(clock) \in Nat /\ (x.now <= clock => DayOf(x.now) <= DayOf(clock))
      BY <2>1, DaysInOrder DEF Days
    <3>3. d \in Nat
      BY DEF Days
    <3>. QED  BY <3>1, <3>2, <3>3
  <2>3. x.pc # "idle" /\ DayOf(x.now) \notin accepted => DayOf(x.now) \notin accepted'
    <3>1. DayOf(clock) \in Nat /\ d \in Nat
      BY <2>1, DaysInOrder DEF Days
    <3>. QED  BY <1>2, <2>2, <3>1
  <2>. QED  BY <1>1, <2>1, <2>3 DEF Sober, Keeps
<1>4. clock \in Times /\ clock \in Nat /\ (calm => Locking(tick, op, locks, clock'))
  BY <1>0 DEF IInv, Typed, Times
<1>. QED  BY <1>0, <1>1, <1>3, <1>4, QuietStep DEF Typed, Placed

LEMMA FileStepKeeps == ASSUME IInv, NEW p \in Procs, FileStep(p) PROVE IInv'
<1>. Shape /\ Typed /\ Linked(tick, op) /\ Placed(tick, up, clock, load)
  BY DEF IInv, Shape
<1>1. ASSUME op[p].pc # "none"
      PROVE  Key(p) \in Keys /\ locks[Key(p)] \subseteq Nat /\ clock \in Nat
  <2>1. Key(p) \in Keys
    BY <1>1, BusyPlaces
  <2>. QED  BY <2>1 DEF Typed, Times
<1>2. CASE TryLock(p)
  <2>0. op[p].pc = "lock" /\ UNCHANGED <<clock, file, up, world, done, load, calm>>
    BY <1>2 DEF TryLock
  <2>1. CASE locks[Key(p)] = {} /\ Locked(p)
    BY <2>0, <2>1, LockedStep
  <2>2. CASE (\E made \in locks[Key(p)] : clock - made < StaleAfter) /\ Refused(p)
    BY <2>0, <2>2, RefusedStep
  <2>3. CASE /\ \E made \in locks[Key(p)] : clock - made >= StaleAfter
             /\ op' = [op EXCEPT ![p].pc = "reclaim"]
             /\ UNCHANGED <<locks, fired, retry, tick>>
    <3>1. ~calm
      BY <1>1, <2>0, <2>3, DelayAssumption DEF IInv, Locking
    <3>2. locks' \in [Keys -> SUBSET Times]
      BY <2>3 DEF Typed
    <3>. QED  BY <2>0, <2>3, <3>1, <3>2, ReclaimStep
  <2>. QED  BY <1>2, <2>1, <2>2, <2>3 DEF TryLock
<1>3. CASE RemoveStale(p)
  <2>1. ~calm
    BY <1>3 DEF RemoveStale, IInv, Locking
  <2>2. locks' \in [Keys -> SUBSET Times]
    BY <1>1, <1>3 DEF RemoveStale, Typed
  <2>. QED  BY <1>3, <2>1, <2>2, ReclaimStep DEF RemoveStale
<1>4. CASE Relock(p)
  BY <1>4, LockedStep, RefusedStep DEF Relock
<1>5. CASE Release(p)
  BY <1>5, ReleaseStep
<1>. QED  BY <1>2, <1>3, <1>4, <1>5 DEF FileStep

LEMMA StepKeeps == IInv /\ [Next]_vars => IInv'
<1>. SUFFICES ASSUME IInv, [Next]_vars PROVE IInv'
  OBVIOUS
<1>1. CASE TimePasses
  BY <1>1, TimeStep
<1>2. ASSUME NEW p \in Procs, FileStep(p) \/ Crash(p) \/ Restart(p) PROVE IInv'
  BY <1>2, FileStepKeeps, CrashStep, RestartStep
<1>3. ASSUME NEW p \in Procs, NEW t \in Slots, BeginTick(p, t) \/ Complete(p, t) PROVE IInv'
  BY <1>3, BeginStep, SucceedStep, FailStep DEF Complete
<1>4. ASSUME NEW d \in Days, UserPlans(d) \/ UserSetsCycle(d) PROVE IInv'
  BY <1>4, UserStep
<1>5. CASE UNCHANGED vars
  BY <1>5 DEF vars, world, IInv, Shape, Typed, Sole, One
<1>. QED  BY <1>1, <1>2, <1>3, <1>4, <1>5 DEF Next

(***************************************************************************)
(* The theorems                                                            *)
(***************************************************************************)
LEMMA InitKeeps == Init => IInv
<1>. SUFFICES ASSUME Init PROVE IInv
  OBVIOUS
<1>1. NoRetry \in [Keys -> Nat]
  BY DEF NoRetry
<1>2. load \in Load
  BY LoadAssumption DEF Init
<1>3. /\ \A p \in Procs, t \in Slots : tick[p][t] = Idle
      /\ \A p \in Procs : op[p] = NoOp
      /\ tick \in [Procs -> [Slots -> Ticks]] /\ op \in [Procs -> Ops]
  BY RestTypes DEF Init
<1>4. load.until \in Nat /\ 0 \in Times
  BY <1>2, DayAssumption DEF Load, Times
<1>5. Typed
  BY <1>1, <1>2, <1>3, <1>4, DayAssumption DEF Init, Typed
<1>6. Linked(tick, op)
  BY <1>3, RestTypes DEF Linked
<1>7. Placed(tick, up, clock, load)
  BY <1>3, RestTypes DEF Placed, Timely, Init
<1>8. Planned(tick, plans, accepted)
  BY <1>3, RestTypes DEF Planned, Sober
<1>9. Shape
  BY <1>4, <1>5, <1>6, <1>7, <1>8 DEF Shape, Init
<1>10. Locking(tick, op, locks, clock)
  BY <1>3, RestTypes DEF Locking, Init
<1>11. Reading(op, file) /\ Once(tick, file, done) /\ Meant(tick, file, done, plans)
  BY <1>3, RestTypes DEF Reading, Once, Meant, Holds, Init
<1>. QED  BY <1>9, <1>10, <1>11 DEF IInv

\* The invariant holds in every behaviour of the scheduler.
LEMMA Always == Spec => []IInv
BY InitKeeps, StepKeeps, PTL DEF Spec

\* The variables have their types, and a process is in the middle of a file
\* operation exactly for the one of its ticks that claims or takes back
\* (launchd.ts claimFired, unmarkFired run without a wait).
THEOREM TypeCorrect == Spec => []TypeOK
<1>1. IInv => TypeOK
  BY TypesNamed DEF IInv, Shape
<1>. QED  BY <1>1, Always, PTL

LEMMA OneRun == IInv => OneRunPerKey
<1>. SUFFICES ASSUME IInv,
                     One \/ (calm /\ Cardinality(load.enabled) = 1 /\ DayOf(load.until) = 0),
                     NEW k \in Keys
              PROVE  done[k] + Cardinality(Running(k)) <= 1
  BY DEF OneRunPerKey, One
<1>1. Once(tick, file, done)
  BY DEF IInv, Sole
<1>2. done[k] \in {0, 1}
  BY <1>1 DEF Once
<1>3. \A v \in Running(k), w \in Running(k) : v = w
  <2>. SUFFICES ASSUME NEW v \in Running(k), NEW w \in Running(k) PROVE v = w
    OBVIOUS
  <2>1. /\ v = <<v[1], v[2]>> /\ w = <<w[1], w[2]>>
        /\ v[1] \in Procs /\ v[2] \in Slots /\ w[1] \in Procs /\ w[2] \in Slots
        /\ Holds(tick[v[1]][v[2]]) /\ KeyAt(tick[v[1]][v[2]]) = k
        /\ Holds(tick[w[1]][w[2]]) /\ KeyAt(tick[w[1]][w[2]]) = k
    BY DEF Running, Holds
  <2>2. v[1] = w[1] /\ v[2] = w[2]
    BY <1>1, <2>1 DEF Once
  <2>. QED  BY <2>1, <2>2
<1>4. Running(k) # {} => done[k] = 0
  <2>. SUFFICES ASSUME NEW v \in Running(k) PROVE done[k] = 0
    OBVIOUS
  <2>1. v[1] \in Procs /\ v[2] \in Slots /\ Holds(tick[v[1]][v[2]]) /\ KeyAt(tick[v[1]][v[2]]) = k
    BY DEF Running, Holds
  <2>. QED  BY <1>1, <2>1 DEF Once
<1>5. CASE Running(k) = {}
  <2>1. Cardinality(Running(k)) = 0
    BY <1>5, FS_EmptySet
  <2>. QED  BY <1>2, <2>1
<1>6. ASSUME NEW v \in Running(k) PROVE done[k] + Cardinality(Running(k)) <= 1
  <2>1. Running(k) = {v}
    BY <1>3, <1>6
  <2>2. Cardinality({v}) = 1
    BY FS_Singleton
  <2>3. Cardinality(Running(k)) = 1
    BY <2>1, <2>2
  <2>. QED  BY <1>4, <1>6, <2>3
<1>. QED  BY <1>5, <1>6

LEMMA MarkedDone == IInv => MarkedMeansDone
<1>. SUFFICES ASSUME IInv, One, calm, NEW k \in file
              PROVE  \/ done[k] > 0
                     \/ k[1] = "daily_plan" /\ k[2] \in plans \union CycleDays
                     \/ \E p \in Procs, t \in Slots : tick[p][t].pc # "idle" /\ KeyAt(tick[p][t]) = k
  BY DEF MarkedMeansDone, One
<1>. QED  BY DEF IInv, Meant, Keeps, Holds

\* What the state file says of a day is what was done: no key runs to success
\* twice or is running twice, and an entry stands for a run that succeeded, that
\* is under way, or for a plan that was kept (launchd.ts).
THEOREM MarksAlwaysHonest == Spec => []MarksHonest
<1>1. IInv => MarksHonest
  BY OneRun, MarkedDone DEF MarksHonest
<1>. QED  BY <1>1, Always, PTL

\* In one process nothing but taking back its own claim removes an entry of the
\* state file, whatever ticks overlap and whenever the process dies.
THEOREM EntriesStay == Spec => EntriesPersist
<1>1. ASSUME IInv, [Next]_vars, Cardinality(load.procs) = 1, NEW k \in file \ file'
      PROVE  \E p \in Procs : op[p].pc = "held" /\ ~Claiming(p) /\ Key(p) = k
  <2>0. Sole /\ Reading(op, file)
    BY <1>1 DEF IInv, Sole, One
  <2>1. ASSUME NEW p \in Procs, op[p].pc = "held", file' = Written(p)
        PROVE  ~Claiming(p) /\ Key(p) = k
    BY <1>1, <2>0, <2>1 DEF Reading, Written
  <2>2. ASSUME NEW p \in Procs, FileStep(p) \/ Crash(p) \/ Restart(p)
        PROVE  op[p].pc = "held" /\ file' = Written(p)
    <3>1. CASE TryLock(p) \/ RemoveStale(p) \/ Relock(p) \/ Restart(p)
      BY <1>1, <3>1 DEF TryLock, RemoveStale, Relock, Restart
    <3>2. CASE Release(p)
      BY <1>1, <3>2 DEF Release
    <3>3. CASE Crash(p)
      BY <1>1, <3>3 DEF Crash
    <3>. QED  BY <2>2, <3>1, <3>2, <3>3 DEF FileStep
  <2>3. ~UNCHANGED file
    BY <1>1
  <2>4. \A p \in Procs, t \in Slots : ~(BeginTick(p, t) \/ Complete(p, t))
    BY <2>3 DEF BeginTick, Complete, Succeed, Fail
  <2>5. ~TimePasses /\ ~UNCHANGED vars /\ \A d \in Days : ~(UserPlans(d) \/ UserSetsCycle(d))
    BY <2>3 DEF TimePasses, vars, UserPlans, UserSetsCycle
  <2>6. PICK p \in Procs : FileStep(p) \/ Crash(p) \/ Restart(p)
    BY <1>1, <2>4, <2>5 DEF Next
  <2>. QED  BY <2>1, <2>2, <2>6
<1>2. IInv /\ [Next]_vars =>
        [Cardinality(load.procs) = 1 => \A k \in file \ file' : \E p \in Procs :
           op[p].pc = "held" /\ ~Claiming(p) /\ Key(p) = k]_vars
  BY <1>1
<1>. QED  BY <1>2, Always, PTL DEF Spec, EntriesPersist

\* The plan that the user made before its day is the plan of that day, even when
\* a tick of the day runs the workflow of the plan.
THEOREM AcceptedPlanStays == Spec => AcceptedPlanKept
<1>1. ASSUME IInv, [Next]_vars PROVE accepted \subseteq accepted'
  <2>. Shape /\ Typed
    BY <1>1 DEF IInv, Shape
  <2>1. ASSUME NEW p \in Procs, NEW t \in Slots, Complete(p, t) PROVE accepted \subseteq accepted'
    <3>. DEFINE k == KeyAt(tick[p][t])
    <3>1. Free(p) /\ tick[p][t].pc = "running"
      BY <2>1 DEF Complete, Succeed, Fail
    <3>. DEFINE x == tick[p][t]
    <3>2. /\ k[1] = Order[x.i] /\ k[2] = DayOf(x.now)
          /\ Order[x.i] = "daily_plan" => DayOf(x.now) \notin accepted
      BY <3>1, RunPlaces, Zenon
    <3>3. accepted' = accepted \/ (k[1] = "daily_plan" /\ accepted' = accepted \ {k[2]})
      BY <2>1 DEF Complete, Succeed, Fail
    <3>. HIDE DEF k, x
    <3>. QED  BY <3>2, <3>3
  <2>2. ASSUME NEW p \in Procs, FileStep(p) \/ Crash(p) \/ Restart(p) PROVE accepted \subseteq accepted'
    BY <2>2 DEF FileStep, TryLock, RemoveStale, Relock, Release, Crash, Restart, world
  <2>3. ASSUME NEW p \in Procs, NEW t \in Slots, BeginTick(p, t) PROVE accepted \subseteq accepted'
    BY <2>3 DEF BeginTick, world
  <2>4. ASSUME NEW d \in Days, UserPlans(d) \/ UserSetsCycle(d) PROVE accepted \subseteq accepted'
    BY <2>4 DEF UserPlans, UserSetsCycle
  <2>5. CASE TimePasses \/ UNCHANGED vars
    BY <2>5 DEF TimePasses, vars, world
  <2>. QED  BY <1>1, <2>1, <2>2, <2>3, <2>4, <2>5 DEF Next
<1>2. IInv /\ [Next]_vars => [accepted \subseteq accepted']_vars
  BY <1>1
<1>. QED  BY <1>2, Always, PTL DEF Spec, AcceptedPlanKept
=============================================================================
