--------------------------- MODULE SyncQueue_proofs ---------------------------
(***************************************************************************)
(* The queue of one machine, proved for any number of sources, calls,      *)
(* changes and failing jobs: no call is answered from what was read before *)
(* it was made, stop leaves no timer and no watcher, and what the remote   *)
(* holds of a source never goes back.                                      *)
(*                                                                         *)
(* After it the plans and the board of MC_Team (TeamBoard): what a viewer  *)
(* sees after a tick and a look is what the owner has.                     *)
(***************************************************************************)
EXTENDS MC_Team, WellFoundedInduction, TLAPS

Carried == [source : Sources, content : Nat]
Job == [key : JobKeys, waiters : SUBSET Callers, todo : SUBSET Sources, carry : SUBSET Carried,
        got : [Sources -> Nat]]
Asked == [status : {"none", "waiting", "ok", "error"}, key : JobKeys, asked : [Sources -> Nat],
          got : [Sources -> Nat]]

Types ==
  /\ version \in [Sources -> Nat] /\ sent \in [Sources -> Nat]
  /\ queue \in Seq(JobKeys) /\ waiters \in [JobKeys -> SUBSET Callers]
  /\ flight \in SUBSET Job /\ call \in [Callers -> Asked] /\ timers \subseteq JobKeys
  /\ watcher \in {"warming", "on", "off"}

\* The queue holds a key once, and whoever waits waits for a queued key.
Queued == IsInjective(queue) /\ \A k \in JobKeys : waiters[k] # {} => Contains(queue, k)

\* One job runs at a time, it reads what its key covers, one source at a time.
SingleFlight ==
  /\ running = (flight # {})
  /\ \A j \in flight : j.todo \subseteq Covers(j.key)
  /\ \A i, j \in flight : i = j
  /\ \A j \in flight : \A b, c \in j.carry : b = c

\* The calls that wait were made for that key, and what they ask for is not
\* ahead of the source.
MadeFor(r, k) == call[r].status # "none" /\ call[r].key = k
WaitersKnown ==
  /\ \A k \in JobKeys : \A r \in waiters[k] : MadeFor(r, k)
  /\ \A j \in flight : \A r \in j.waiters : MadeFor(r, j.key)
  /\ \A r \in Callers : \A s \in Sources : call[r].asked[s] <= version[s]

\* What a job has read already is not older than what its waiters ask for.
ReadsFresh ==
  \A j \in flight : \A r \in j.waiters :
    /\ \A c \in j.carry : c.content >= call[r].asked[c.source]
    /\ \A s \in Covers(j.key) \ j.todo :
         (\E c \in j.carry : c.source = s) \/ j.got[s] >= call[r].asked[s]

\* What is on its way is between what the remote holds and what the source holds.
OnItsWay ==
  /\ \A s \in Sources : sent[s] <= version[s]
  /\ \A j \in flight : \A c \in j.carry : sent[c.source] <= c.content /\ c.content <= version[c.source]

IInv == Types /\ Queued /\ SingleFlight /\ WaitersKnown /\ ReadsFresh /\ OnItsWay /\ AnswersAreFresh

LEMMA KeysCover == \A k \in JobKeys : Covers(k) \subseteq Sources
  BY DEF JobKeys, Covers

LEMMA JobType ==
  ASSUME NEW k \in JobKeys, NEW W \in SUBSET Callers
  PROVE  /\ NewJob(k, W) \in Job /\ NewJob(k, W).key = k /\ NewJob(k, W).waiters = W
         /\ NewJob(k, W).todo = Covers(k) /\ NewJob(k, W).carry = {}
  BY KeysCover DEF NewJob, Job

LEMMA InitInv == Init => IInv
<1>. SUFFICES ASSUME Init PROVE IInv
  OBVIOUS
<1>0. Tick \in JobKeys
  BY DEF JobKeys
<1>1. Types
  BY <1>0, JobType DEF Init, Types, NoCall, Asked
<1>2. Queued
  BY DEF Init, Queued, IsInjective
<1>3. SingleFlight
  <2>1. flight = {NewJob(Tick, {})} /\ running = TRUE
    BY DEF Init
  <2>2. NewJob(Tick, {}).key = Tick /\ NewJob(Tick, {}).todo = Covers(Tick) /\ NewJob(Tick, {}).carry = {}
    BY <1>0, JobType
  <2>. QED  BY <2>1, <2>2 DEF SingleFlight
<1>4. WaitersKnown /\ OnItsWay
  BY <1>0, JobType DEF Init, WaitersKnown, OnItsWay, NoCall
<1>5. ReadsFresh /\ AnswersAreFresh
  BY <1>0, JobType DEF Init, ReadsFresh, AnswersAreFresh, NoCall
<1>. QED  BY <1>1, <1>2, <1>3, <1>4, <1>5 DEF IInv

\* What taking the next job does: the queue stays one, and the job takes along
\* the calls that waited for its key.
LEMMA TakeEffect ==
  ASSUME NEW q \in Seq(JobKeys), IsInjective(q), NEW w \in [JobKeys -> SUBSET Callers],
         \A k \in JobKeys : w[k] # {} => Contains(q, k), NEW rest, Take(q, w, rest)
  PROVE  /\ queue' \in Seq(JobKeys) /\ waiters' \in [JobKeys -> SUBSET Callers] /\ Queued'
         /\ \A k \in JobKeys : waiters'[k] \subseteq w[k]
         /\ \/ flight' = rest /\ running' = FALSE
            \/ \E k \in JobKeys : flight' = rest \union {NewJob(k, w[k])} /\ running' = TRUE
<1>1. CASE q = <<>>
  BY <1>1 DEF Take, Queued
<1>2. CASE q # <<>>
  <2>1. /\ queue' = Tail(q) /\ waiters' = [w EXCEPT ![Head(q)] = {}] /\ running' = TRUE
        /\ flight' = rest \union {NewJob(Head(q), w[Head(q)])}
    BY <1>2 DEF Take
  <2>2. /\ Head(q) \in JobKeys /\ Tail(q) \in Seq(JobKeys) /\ Len(Tail(q)) = Len(q) - 1 /\ Len(q) \in Nat /\ Len(q) > 0
        /\ Head(q) = q[1] /\ \A i \in 1..Len(Tail(q)) : Tail(q)[i] = q[i + 1]
    BY <1>2
  <2>3. IsInjective(Tail(q))
    BY <2>2 DEF IsInjective
  <2>4. ASSUME NEW k \in JobKeys, waiters'[k] # {} PROVE Contains(Tail(q), k)
    <3>1. k # Head(q) /\ w[k] # {}
      BY <2>1, <2>2, <2>4
    <3>2. PICK i \in 1..Len(q) : q[i] = k
      BY <3>1 DEF Contains
    <3>3. i - 1 \in 1..Len(Tail(q)) /\ Tail(q)[i - 1] = k
      BY <2>2, <3>1, <3>2
    <3>. QED  BY <3>3 DEF Contains
  <2>. QED  BY <2>1, <2>2, <2>3, <2>4 DEF Queued
<1>. QED  BY <1>1, <1>2
\* Whatever asks for a run of key k for the calls W: no job that runs is
\* touched, and a job that is begun takes along calls that are known.
LEMMA EnqueueEffect ==
  ASSUME IInv, NEW k \in JobKeys, NEW W \in SUBSET Callers, Enqueue(k, W)
  PROVE  /\ queue' \in Seq(JobKeys) /\ waiters' \in [JobKeys -> SUBSET Callers] /\ Queued'
         /\ \A h \in JobKeys : waiters'[h] \subseteq waiters[h] \union (IF h = k THEN W ELSE {})
         /\ running' = (flight' # {})
         /\ \/ flight' = flight
            \/ /\ flight = {}
               /\ \E h \in JobKeys, V \in SUBSET Callers :
                    /\ V \subseteq waiters[h] \union (IF h = k THEN W ELSE {})
                    /\ flight' = {NewJob(h, V)}
<1>. DEFINE w == [waiters EXCEPT ![k] = @ \union W]
<1>1. /\ queue \in Seq(JobKeys) /\ waiters \in [JobKeys -> SUBSET Callers] /\ running = (flight # {})
      /\ IsInjective(queue) /\ \A h \in JobKeys : waiters[h] # {} => Contains(queue, h)
  BY DEF IInv, Types, Queued, SingleFlight
<1>2. /\ w \in [JobKeys -> SUBSET Callers] /\ w[k] = waiters[k] \union W
      /\ \A h \in JobKeys : h # k => w[h] = waiters[h]
  BY <1>1
<1>3. CASE Contains(queue, k)
  <2>1. waiters' = w /\ UNCHANGED <<queue, flight, running>>
    BY <1>3 DEF Enqueue
  <2>. QED  BY <1>1, <1>2, <1>3, <2>1 DEF Queued
<1>4. CASE ~Contains(queue, k)
  <2>. DEFINE q == Append(queue, k)
  <2>1. /\ q \in Seq(JobKeys) /\ Len(q) = Len(queue) + 1 /\ q[Len(q)] = k /\ Len(queue) \in Nat
        /\ \A i \in 1..Len(queue) : q[i] = queue[i]
    BY <1>1
  <2>2. IsInjective(q)
    <3>. SUFFICES ASSUME NEW a \in 1..Len(q), NEW b \in 1..Len(q), q[a] = q[b] PROVE a = b
      BY <2>1 DEF IsInjective
    <3>1. \A i \in 1..Len(queue) : queue[i] # k
      BY <1>4 DEF Contains
    <3>2. CASE a \in 1..Len(queue) /\ b \in 1..Len(queue)
      BY <1>1, <2>1, <3>2 DEF IsInjective
    <3>3. CASE a = Len(q) \/ b = Len(q)
      BY <2>1, <3>1, <3>3
    <3>. QED  BY <2>1, <3>2, <3>3
  <2>3. ASSUME NEW h \in JobKeys, w[h] # {} PROVE Contains(q, h)
    <3>1. CASE h = k
      BY <2>1, <3>1 DEF Contains
    <3>2. CASE h # k
      <4>1. PICK i \in 1..Len(queue) : queue[i] = h
        BY <1>1, <1>2, <2>3, <3>2 DEF Contains
      <4>2. i \in 1..Len(q) /\ q[i] = h
        BY <2>1, <4>1
      <4>. QED  BY <4>2 DEF Contains
    <3>. QED  BY <3>1, <3>2
  <2>4. CASE running
    <3>1. queue' = q /\ waiters' = w /\ UNCHANGED <<flight, running>>
      BY <1>4, <2>4 DEF Enqueue
    <3>. QED  BY <1>1, <1>2, <2>1, <2>2, <2>3, <3>1 DEF Queued
  <2>5. CASE ~running
    <3>1. Take(q, w, flight) /\ flight = {}
      BY <1>1, <1>4, <2>5 DEF Enqueue
    <3>2. /\ queue' \in Seq(JobKeys) /\ waiters' \in [JobKeys -> SUBSET Callers] /\ Queued'
          /\ \A h \in JobKeys : waiters'[h] \subseteq w[h]
          /\ \/ flight' = flight /\ running' = FALSE
             \/ \E h \in JobKeys : flight' = flight \union {NewJob(h, w[h])} /\ running' = TRUE
      <4>1. PICK a \in Seq(JobKeys), b \in [JobKeys -> SUBSET Callers] : a = q /\ b = w
        BY <1>2, <2>1
      <4>2. IsInjective(a) /\ \A h \in JobKeys : b[h] # {} => Contains(a, h)
        BY <2>2, <2>3, <4>1
      <4>3. Take(a, b, flight)
        BY <3>1, <4>1
      <4>4. /\ queue' \in Seq(JobKeys) /\ waiters' \in [JobKeys -> SUBSET Callers] /\ Queued'
            /\ \A h \in JobKeys : waiters'[h] \subseteq b[h]
            /\ \/ flight' = flight /\ running' = FALSE
               \/ \E h \in JobKeys : flight' = flight \union {NewJob(h, b[h])} /\ running' = TRUE
        BY <4>2, <4>3, TakeEffect
      <4>. QED  BY <4>1, <4>4
    <3>3. ASSUME NEW h \in JobKeys, flight' = flight \union {NewJob(h, w[h])}
          PROVE  \E x \in JobKeys, V \in SUBSET Callers :
                   /\ V \subseteq waiters[x] \union (IF x = k THEN W ELSE {})
                   /\ flight' = {NewJob(x, V)}
      <4>1. w[h] \in SUBSET Callers /\ w[h] \subseteq waiters[h] \union (IF h = k THEN W ELSE {})
        BY <1>2
      <4>2. flight' = {NewJob(h, w[h])}
        BY <3>1, <3>3
      <4>. QED  BY <4>1, <4>2
    <3>4. \A h \in JobKeys : waiters'[h] \subseteq waiters[h] \union (IF h = k THEN W ELSE {})
      BY <1>2, <3>2
    <3>5. running' = (flight' # {})
      BY <3>1, <3>2
    <3>. QED  BY <3>1, <3>2, <3>3, <3>4, <3>5
  <2>. QED  BY <2>4, <2>5
<1>. QED  BY <1>3, <1>4
\* A step that calls for a run of k makes the calls W and no others.
Calls(k, W) ==
  /\ \A r \in W : call'[r].status # "none" /\ call'[r].key = k
  /\ \A r \in Callers : \/ call'[r] = call[r]
                        \/ call[r].status = "none" /\ call'[r].status = "waiting" /\ call'[r].asked = version
  /\ call' \in [Callers -> Asked] /\ timers' \subseteq JobKeys
  /\ version' = version /\ sent' = sent /\ watcher' = watcher

\* The queue moves for calls that are known, everything else of the jobs that run
\* is as it was, and the calls are asked for at most what the sources hold.
LEMMA QueueMoves ==
  ASSUME IInv, NEW k \in JobKeys, NEW W \in SUBSET Callers, Enqueue(k, W), Calls(k, W)
  PROVE  IInv'
<1>. USE DEF Calls
<1>1. /\ queue' \in Seq(JobKeys) /\ waiters' \in [JobKeys -> SUBSET Callers] /\ Queued'
      /\ \A h \in JobKeys : waiters'[h] \subseteq waiters[h] \union (IF h = k THEN W ELSE {})
      /\ running' = (flight' # {})
      /\ \/ flight' = flight
         \/ /\ flight = {}
            /\ \E h \in JobKeys, V \in SUBSET Callers :
                 /\ V \subseteq waiters[h] \union (IF h = k THEN W ELSE {})
                 /\ flight' = {NewJob(h, V)}
  BY EnqueueEffect
<1>2. \A r \in Callers, h \in JobKeys : MadeFor(r, h) => MadeFor(r, h)' /\ call'[r] = call[r]
  BY DEF MadeFor
<1>3. \A h \in JobKeys : \A r \in waiters[h] \union (IF h = k THEN W ELSE {}) : MadeFor(r, h)'
  <2>1. \A h \in JobKeys : waiters[h] \subseteq Callers /\ \A r \in waiters[h] : MadeFor(r, h)
    BY DEF IInv, WaitersKnown, Types
  <2>2. \A r \in W : MadeFor(r, k)'
    BY DEF MadeFor
  <2>. QED  BY <1>2, <2>1, <2>2
<1>4. \A r \in Callers : \A s \in Sources : call'[r].asked[s] <= version'[s]
  <2>1. \A s \in Sources : version[s] \in Nat
    BY DEF IInv, Types
  <2>2. \A r \in Callers : \A s \in Sources : call[r].asked[s] <= version[s]
    BY DEF IInv, WaitersKnown
  <2>3. \A r \in Callers : call'[r] = call[r] \/ call'[r].asked = version
    OBVIOUS
  <2>4. version' = version
    OBVIOUS
  <2>. HIDE DEF Calls
  <2>. QED  BY <2>1, <2>2, <2>3, <2>4
<1>5. AnswersAreFresh'
  BY DEF IInv, AnswersAreFresh
<1>6. CASE flight' = flight
  <2>1. Types' /\ SingleFlight' /\ OnItsWay'
    BY <1>1, <1>6 DEF IInv, Types, SingleFlight, OnItsWay
  <2>2. WaitersKnown'
    <3>1. \A j \in flight : j.key \in JobKeys /\ j.waiters \in SUBSET Callers
      BY DEF IInv, Types, Job
    <3>. QED  BY <1>1, <1>2, <1>3, <1>4, <1>6, <3>1 DEF IInv, WaitersKnown
  <2>3. ReadsFresh'
    <3>1. \A j \in flight : \A r \in j.waiters : r \in Callers /\ call'[r] = call[r]
      BY <1>2 DEF IInv, Types, Job, WaitersKnown
    <3>. QED  BY <1>6, <3>1 DEF IInv, ReadsFresh
  <2>. QED  BY <1>1, <1>5, <2>1, <2>2, <2>3 DEF IInv
<1>7. ASSUME flight = {}, NEW h \in JobKeys, NEW V \in SUBSET Callers,
             V \subseteq waiters[h] \union (IF h = k THEN W ELSE {}), flight' = {NewJob(h, V)}
      PROVE  IInv'
  <2>1. /\ NewJob(h, V) \in Job /\ NewJob(h, V).key = h /\ NewJob(h, V).waiters = V
        /\ NewJob(h, V).todo = Covers(h) /\ NewJob(h, V).carry = {}
    BY JobType
  <2>2. Types'
    BY <1>1, <1>7, <2>1 DEF IInv, Types
  <2>3. SingleFlight' /\ ReadsFresh' /\ OnItsWay'
    BY <1>1, <1>7, <2>1 DEF IInv, SingleFlight, ReadsFresh, OnItsWay
  <2>4. WaitersKnown'
    BY <1>1, <1>3, <1>4, <1>7, <2>1 DEF WaitersKnown
  <2>. QED  BY <1>1, <1>5, <2>2, <2>3, <2>4 DEF IInv
<1>. QED  BY <1>1, <1>6, <1>7

LEMMA FireInv == ASSUME IInv, NEW k \in JobKeys, FireTimer(k) PROVE IInv'
<1>1. Enqueue(k, {}) /\ UNCHANGED <<version, sent, watcher, call>> /\ timers' \subseteq JobKeys
  BY DEF FireTimer, IInv, Types
<1>2. call \in [Callers -> Asked]
  BY DEF IInv, Types
<1>3. Calls(k, {})
  BY <1>1, <1>2 DEF Calls
<1>. QED  BY <1>1, <1>3, QueueMoves

LEMMA IntervalInv == ASSUME IInv, Interval PROVE IInv'
<1>1. Enqueue(Tick, {}) /\ UNCHANGED <<version, sent, watcher, call, timers>> /\ Tick \in JobKeys
  BY DEF Interval, JobKeys
<1>2. call \in [Callers -> Asked] /\ timers \subseteq JobKeys
  BY DEF IInv, Types
<1>3. Calls(Tick, {})
  BY <1>1, <1>2 DEF Calls
<1>. QED  BY <1>1, <1>3, QueueMoves

LEMMA RequestInv == ASSUME IInv, NEW r \in Callers, NEW k \in JobKeys, Request(r, k) PROVE IInv'
<1>1. /\ Enqueue(k, {r}) /\ UNCHANGED <<version, sent, timers, watcher>>
      /\ call[r].status = "none"
      /\ call' = [call EXCEPT ![r] = [status |-> "waiting", key |-> k, asked |-> version, got |-> NoCall.got]]
  BY DEF Request
<1>2. call \in [Callers -> Asked] /\ timers \subseteq JobKeys /\ version \in [Sources -> Nat]
  BY DEF IInv, Types
<1>3. PICK asked \in Asked : /\ call' = [call EXCEPT ![r] = asked]
                             /\ asked.status = "waiting" /\ asked.key = k /\ asked.asked = version
  <2>. DEFINE asked == [status |-> "waiting", key |-> k, asked |-> version, got |-> NoCall.got]
  <2>1. asked \in Asked
    BY <1>2 DEF Asked, NoCall
  <2>2. call' = [call EXCEPT ![r] = asked] /\ asked.status = "waiting" /\ asked.key = k /\ asked.asked = version
    BY <1>1
  <2>. QED  BY <2>1, <2>2
<1>4. call' \in [Callers -> Asked] /\ call'[r] = asked /\ \A x \in Callers \ {r} : call'[x] = call[x]
  BY <1>2, <1>3
<1>5. Calls(k, {r})
  BY <1>1, <1>2, <1>3, <1>4 DEF Calls
<1>. QED  BY <1>1, <1>5, QueueMoves

LEMMA ChangeInv == ASSUME IInv, NEW s \in Sources, Change(s) PROVE IInv'
<1>1. /\ version' = [version EXCEPT ![s] = @ + 1] /\ UNCHANGED <<sent, queue, waiters, flight, running, watcher, call>>
      /\ timers' \subseteq JobKeys
  BY DEF Change, IInv, Types, JobKeys
<1>2. version' \in [Sources -> Nat] /\ \A x \in Sources : version[x] \in Nat /\ version[x] <= version'[x]
  BY <1>1 DEF IInv, Types
<1>3. Types'
  BY <1>1, <1>2 DEF IInv, Types
<1>4. Queued' /\ SingleFlight' /\ ReadsFresh' /\ AnswersAreFresh'
  BY <1>1 DEF IInv, Queued, SingleFlight, ReadsFresh, AnswersAreFresh
<1>5. WaitersKnown'
  <2>1. \A r \in Callers : \A x \in Sources : call[r].asked[x] \in Nat
    BY DEF IInv, Types, Asked
  <2>2. \A r \in Callers : \A x \in Sources : call[r].asked[x] <= version[x]
    BY DEF IInv, WaitersKnown
  <2>3. \A r \in Callers : \A x \in Sources : call[r].asked[x] <= version'[x]
    BY <1>2, <2>1, <2>2
  <2>. QED  BY <1>1, <2>3 DEF IInv, WaitersKnown, MadeFor
<1>6. OnItsWay'
  <2>1. \A x \in Sources : sent[x] \in Nat /\ sent[x] <= version[x]
    BY DEF IInv, Types, OnItsWay
  <2>2. \A j \in flight : \A c \in j.carry :
          /\ c.source \in Sources /\ c.content \in Nat
          /\ sent[c.source] <= c.content /\ c.content <= version[c.source]
    BY DEF IInv, Types, Job, Carried, OnItsWay
  <2>3. \A x \in Sources : sent[x] <= version'[x]
    BY <1>2, <2>1
  <2>4. \A j \in flight : \A c \in j.carry : sent[c.source] <= c.content /\ c.content <= version'[c.source]
    BY <1>2, <2>2
  <2>. QED  BY <1>1, <2>3, <2>4 DEF OnItsWay
<1>. QED  BY <1>3, <1>4, <1>5, <1>6 DEF IInv

\* A job that has read a source carries what the source holds, which no call
\* that waits for the job can have asked more than.
LEMMA ReadInv == ASSUME IInv, NEW j \in flight, NEW s \in Sources, Read(j, s) PROVE IInv'
<1>. DEFINE c == [source |-> s, content |-> version[s]]
<1>1. /\ s \in j.todo /\ j.carry = {} /\ j \in Job /\ j.todo \subseteq Covers(j.key)
      /\ UNCHANGED <<version, sent, queue, waiters, running, timers, watcher, call>> /\ flight = {j}
  BY DEF Read, IInv, Types, SingleFlight
<1>2. PICK i \in Job : /\ flight' = {i} /\ i.key = j.key /\ i.waiters = j.waiters /\ i.got = j.got
                       /\ i.todo = j.todo \ {s} /\ i.carry = {c}
  <2>1. c \in Carried
    BY DEF IInv, Types, Carried
  <2>2. flight' = (flight \ {j}) \union {[j EXCEPT !.todo = @ \ {s}, !.carry = {c}]}
    BY DEF Read
  <2>3. PICK T \in SUBSET Sources, K \in SUBSET Carried : T = j.todo \ {s} /\ K = {c}
    BY <1>1, <2>1 DEF Job
  <2>4. flight' = {[j EXCEPT !.todo = T, !.carry = K]}
    BY <1>1, <2>2, <2>3
  <2>5. /\ [j EXCEPT !.todo = T, !.carry = K] \in Job
        /\ [j EXCEPT !.todo = T, !.carry = K].key = j.key
        /\ [j EXCEPT !.todo = T, !.carry = K].waiters = j.waiters
        /\ [j EXCEPT !.todo = T, !.carry = K].got = j.got
        /\ [j EXCEPT !.todo = T, !.carry = K].todo = T
        /\ [j EXCEPT !.todo = T, !.carry = K].carry = K
    BY <1>1 DEF Job
  <2>. HIDE DEF c
  <2>. QED  BY <2>3, <2>4, <2>5
<1>3. version[s] \in Nat /\ sent[s] <= version[s] /\ c.source = s /\ c.content = version[s]
  BY DEF IInv, Types, OnItsWay
<1>4. Types' /\ Queued' /\ AnswersAreFresh'
  BY <1>1, <1>2 DEF IInv, Types, Queued, AnswersAreFresh
<1>5. SingleFlight'
  <2>1. running = TRUE
    BY DEF IInv, SingleFlight
  <2>2. running' = (flight' # {}) /\ \A x, y \in flight' : x = y
    BY <1>1, <1>2, <2>1
  <2>3. \A x \in flight' : x.todo \subseteq Covers(x.key)
    BY <1>1, <1>2
  <2>4. \A x \in flight' : x.carry = {c}
    BY <1>2
  <2>. HIDE DEF c
  <2>. QED  BY <2>2, <2>3, <2>4 DEF SingleFlight
<1>6. WaitersKnown'
  BY <1>1, <1>2 DEF IInv, WaitersKnown, MadeFor
<1>7. OnItsWay'
  BY <1>1, <1>2, <1>3 DEF IInv, OnItsWay
<1>8. ReadsFresh'
  <2>. SUFFICES ASSUME NEW r \in j.waiters
                PROVE  /\ c.content >= call[r].asked[c.source]
                       /\ \A x \in Covers(j.key) \ (j.todo \ {s}) :
                            c.source = x \/ j.got[x] >= call[r].asked[x]
    BY <1>1, <1>2 DEF ReadsFresh
  <2>1. call[r].asked[s] <= version[s] /\ call[r].asked[s] \in Nat
    BY <1>1 DEF IInv, Types, Job, Asked, WaitersKnown
  <2>2. \A x \in Covers(j.key) \ j.todo : j.got[x] >= call[r].asked[x]
    BY <1>1 DEF IInv, ReadsFresh
  <2>. QED  BY <1>3, <2>1, <2>2
<1>. QED  BY <1>4, <1>5, <1>6, <1>7, <1>8 DEF IInv

\* The job, whose record of what it sent grows by what it carried.
LEMMA LandInv == ASSUME IInv, NEW j \in flight, Land(j) PROVE IInv'
<1>1. PICK c \in j.carry : /\ sent' = [sent EXCEPT ![c.source] = c.content]
                           /\ flight' = (flight \ {j}) \union {[j EXCEPT !.carry = {}, !.got[c.source] = c.content]}
                           /\ UNCHANGED <<version, queue, waiters, running, timers, watcher, call>>
  BY DEF Land
<1>2. /\ j \in Job /\ j.todo \subseteq Covers(j.key) /\ flight = {j} /\ running = TRUE
      /\ \A b \in j.carry : b = c
  <2>1. flight \subseteq Job /\ running = (flight # {})
    BY DEF IInv, Types, SingleFlight
  <2>2. j.todo \subseteq Covers(j.key) /\ (\A x \in flight : x = j) /\ \A b \in j.carry : b = c
    BY <1>1 DEF IInv, SingleFlight
  <2>. QED  BY <2>1, <2>2
<1>3. /\ c.source \in Sources /\ c.content \in Nat /\ sent[c.source] <= c.content
      /\ c.content <= version[c.source]
  BY <1>1, <1>2 DEF IInv, OnItsWay, Job, Carried
<1>4. PICK i \in Job : /\ flight' = {i} /\ i.key = j.key /\ i.waiters = j.waiters /\ i.todo = j.todo
                       /\ i.carry = {} /\ i.got[c.source] = c.content
                       /\ \A x \in Sources \ {c.source} : i.got[x] = j.got[x]
  <2>1. PICK s \in Sources, v \in Nat : s = c.source /\ v = c.content
    BY <1>3
  <2>2. flight' = {[j EXCEPT !.carry = {}, !.got[s] = v]}
    BY <1>1, <1>2, <2>1
  <2>3. /\ [j EXCEPT !.carry = {}, !.got[s] = v] \in Job
        /\ [j EXCEPT !.carry = {}, !.got[s] = v].key = j.key
        /\ [j EXCEPT !.carry = {}, !.got[s] = v].waiters = j.waiters
        /\ [j EXCEPT !.carry = {}, !.got[s] = v].todo = j.todo
        /\ [j EXCEPT !.carry = {}, !.got[s] = v].carry = {}
        /\ [j EXCEPT !.carry = {}, !.got[s] = v].got[s] = v
        /\ \A x \in Sources \ {s} : [j EXCEPT !.carry = {}, !.got[s] = v].got[x] = j.got[x]
    BY <1>2 DEF Job
  <2>. QED  BY <2>1, <2>2, <2>3
<1>5. /\ sent' \in [Sources -> Nat] /\ sent'[c.source] = c.content
      /\ \A x \in Sources \ {c.source} : sent'[x] = sent[x]
  BY <1>1, <1>3 DEF IInv, Types
<1>6. Types' /\ Queued' /\ AnswersAreFresh'
  BY <1>1, <1>4, <1>5 DEF IInv, Types, Queued, AnswersAreFresh
<1>7. SingleFlight'
  BY <1>1, <1>2, <1>4 DEF SingleFlight
<1>8. WaitersKnown'
  BY <1>1, <1>2, <1>4 DEF IInv, WaitersKnown, MadeFor
<1>9. OnItsWay'
  BY <1>1, <1>3, <1>4, <1>5 DEF IInv, OnItsWay
<1>10. ReadsFresh'
  <2>. SUFFICES ASSUME NEW r \in j.waiters, NEW x \in Covers(j.key) \ j.todo
                PROVE  i.got[x] >= call[r].asked[x]
    BY <1>1, <1>4 DEF ReadsFresh
  <2>1. c.content >= call[r].asked[c.source] /\ (c.source = x \/ j.got[x] >= call[r].asked[x])
    BY <1>1, <1>2 DEF IInv, ReadsFresh
  <2>2. x \in Sources
    BY <1>2, KeysCover DEF Job
  <2>. QED  BY <1>4, <2>1, <2>2
<1>. QED  BY <1>6, <1>7, <1>8, <1>9, <1>10 DEF IInv

\* A job that is over hands its record to the calls that waited for it; if it
\* ended well it had read all that its key covers.
LEMMA FinishInv ==
  ASSUME IInv, NEW j \in flight, NEW status \in {"ok", "error"}, Finish(j, status),
         status = "ok" => j.todo = {} /\ j.carry = {}
  PROVE  IInv'
<1>1. /\ \A r \in Callers : call'[r] = IF r \in j.waiters THEN [call[r] EXCEPT !.status = status, !.got = j.got]
                                       ELSE call[r]
      /\ DOMAIN call' = Callers
      /\ Take(queue, waiters, flight \ {j}) /\ UNCHANGED <<version, sent, timers, watcher>>
      /\ call' = [r \in Callers |-> call'[r]]
  BY DEF Finish
<1>2. /\ j \in Job /\ flight \ {j} = {} /\ \A r \in j.waiters : MadeFor(r, j.key)
  BY DEF IInv, Types, SingleFlight, WaitersKnown
<1>3. \A r \in Callers : call[r] \in Asked
  BY DEF IInv, Types
<1>4. \A r \in Callers :
        /\ call'[r] \in Asked /\ call'[r].key = call[r].key /\ call'[r].asked = call[r].asked
        /\ call'[r].status = IF r \in j.waiters THEN status ELSE call[r].status
        /\ call'[r].got = IF r \in j.waiters THEN j.got ELSE call[r].got
  <2>1. ASSUME NEW r \in Callers, r \in j.waiters
        PROVE  /\ call'[r] \in Asked /\ call'[r].key = call[r].key /\ call'[r].asked = call[r].asked
               /\ call'[r].status = status /\ call'[r].got = j.got
    <3>1. PICK a \in Asked, g \in [Sources -> Nat] : a = call[r] /\ g = j.got
      BY <1>2, <1>3 DEF Job
    <3>2. /\ [a EXCEPT !.status = status, !.got = g] \in Asked
          /\ [a EXCEPT !.status = status, !.got = g].key = a.key
          /\ [a EXCEPT !.status = status, !.got = g].asked = a.asked
          /\ [a EXCEPT !.status = status, !.got = g].status = status
          /\ [a EXCEPT !.status = status, !.got = g].got = g
      BY DEF Asked
    <3>3. call'[r] = [a EXCEPT !.status = status, !.got = g]
      BY <1>1, <2>1, <3>1
    <3>. QED  BY <3>1, <3>2, <3>3
  <2>3. ASSUME NEW r \in Callers, r \notin j.waiters PROVE call'[r] = call[r]
    BY <1>1, <2>3
  <2>. QED  BY <1>3, <2>1, <2>3
<1>5. call' \in [Callers -> Asked]
  BY <1>1, <1>4
<1>6. /\ queue' \in Seq(JobKeys) /\ waiters' \in [JobKeys -> SUBSET Callers] /\ Queued'
      /\ \A k \in JobKeys : waiters'[k] \subseteq waiters[k]
      /\ \/ flight' = {} /\ running' = FALSE
         \/ \E k \in JobKeys : flight' = {NewJob(k, waiters[k])} /\ running' = TRUE
  <2>1. /\ queue \in Seq(JobKeys) /\ IsInjective(queue) /\ waiters \in [JobKeys -> SUBSET Callers]
        /\ \A k \in JobKeys : waiters[k] # {} => Contains(queue, k)
    BY DEF IInv, Types, Queued
  <2>2. PICK a \in Seq(JobKeys), b \in [JobKeys -> SUBSET Callers] : a = queue /\ b = waiters
    BY <2>1
  <2>3. Take(a, b, {}) /\ IsInjective(a) /\ \A k \in JobKeys : b[k] # {} => Contains(a, k)
    BY <1>1, <1>2, <2>1, <2>2
  <2>4. /\ queue' \in Seq(JobKeys) /\ waiters' \in [JobKeys -> SUBSET Callers] /\ Queued'
        /\ \A k \in JobKeys : waiters'[k] \subseteq b[k]
        /\ \/ flight' = {} /\ running' = FALSE
           \/ \E k \in JobKeys : flight' = {} \union {NewJob(k, b[k])} /\ running' = TRUE
    BY <2>3, TakeEffect
  <2>. QED  BY <2>2, <2>4
<1>7. \A r \in Callers, k \in JobKeys : MadeFor(r, k) => MadeFor(r, k)'
  BY <1>4 DEF MadeFor
<1>8. \A k \in JobKeys : waiters[k] \subseteq Callers /\ \A r \in waiters[k] : MadeFor(r, k)'
  BY <1>7 DEF IInv, Types, WaitersKnown
<1>9. \A r \in Callers : \A s \in Sources : call'[r].asked[s] <= version'[s]
  BY <1>1, <1>4 DEF IInv, WaitersKnown
<1>10. AnswersAreFresh'
  <2>. SUFFICES ASSUME NEW r \in Callers, call'[r].status = "ok", NEW s \in Covers(call'[r].key)
                PROVE  call'[r].got[s] >= call'[r].asked[s]
    BY DEF AnswersAreFresh
  <2>1. CASE r \in j.waiters
    <3>1. j.todo = {} /\ j.carry = {} /\ call'[r].key = j.key /\ call'[r].got = j.got
          /\ call'[r].asked = call[r].asked
      BY <1>2, <1>4, <2>1 DEF MadeFor
    <3>2. j.got[s] >= call[r].asked[s]
      BY <2>1, <3>1 DEF IInv, ReadsFresh
    <3>. QED  BY <3>1, <3>2
  <2>2. CASE r \notin j.waiters
    <3>1. call'[r] = call[r]
      BY <1>1, <2>2
    <3>. QED  BY <3>1 DEF IInv, AnswersAreFresh
  <2>. QED  BY <2>1, <2>2
<1>11. CASE flight' = {} /\ running' = FALSE
  <2>1. Types'
    BY <1>1, <1>5, <1>6, <1>11 DEF IInv, Types
  <2>2. SingleFlight' /\ ReadsFresh' /\ OnItsWay'
    BY <1>1, <1>11 DEF IInv, SingleFlight, ReadsFresh, OnItsWay
  <2>3. WaitersKnown'
    BY <1>6, <1>8, <1>9, <1>11 DEF WaitersKnown
  <2>. QED  BY <1>6, <1>10, <2>1, <2>2, <2>3 DEF IInv
<1>12. ASSUME NEW k \in JobKeys, flight' = {NewJob(k, waiters[k])}, running' = TRUE PROVE IInv'
  <2>1. /\ NewJob(k, waiters[k]) \in Job /\ NewJob(k, waiters[k]).key = k
        /\ NewJob(k, waiters[k]).waiters = waiters[k]
        /\ NewJob(k, waiters[k]).todo = Covers(k) /\ NewJob(k, waiters[k]).carry = {}
    <3>1. PICK V \in SUBSET Callers : V = waiters[k]
      BY <1>8
    <3>2. /\ NewJob(k, V) \in Job /\ NewJob(k, V).key = k /\ NewJob(k, V).waiters = V
          /\ NewJob(k, V).todo = Covers(k) /\ NewJob(k, V).carry = {}
      BY JobType
    <3>. QED  BY <3>1, <3>2
  <2>2. PICK i \in Job : flight' = {i} /\ i.key = k /\ i.waiters = waiters[k] /\ i.todo = Covers(k) /\ i.carry = {}
    BY <1>12, <2>1
  <2>3. Types'
    BY <1>1, <1>5, <1>6, <2>2 DEF IInv, Types
  <2>4. SingleFlight' /\ ReadsFresh' /\ OnItsWay'
    <3>1. running' = (flight' # {}) /\ \A x, y \in flight' : x = y
      BY <1>12
    <3>2. \A x \in flight' : x.todo = Covers(x.key) /\ x.carry = {}
      BY <2>2
    <3>3. SingleFlight' /\ ReadsFresh'
      BY <3>1, <3>2 DEF SingleFlight, ReadsFresh
    <3>. QED  BY <1>1, <3>2, <3>3 DEF IInv, OnItsWay
  <2>5. WaitersKnown'
    BY <1>6, <1>8, <1>9, <2>2 DEF WaitersKnown
  <2>. QED  BY <1>6, <1>10, <2>3, <2>4, <2>5 DEF IInv
<1>. QED  BY <1>6, <1>11, <1>12

LEMMA WatcherInv == ASSUME IInv, WatcherReady \/ Stop \/ UNCHANGED vars PROVE IInv'
<1>1. /\ UNCHANGED <<version, sent, queue, waiters, flight, running, call>>
      /\ timers' \subseteq JobKeys /\ watcher' \in {"warming", "on", "off"}
  BY DEF WatcherReady, Warmed, Stop, vars, IInv, Types
<1>. QED  BY <1>1 DEF IInv, Types, Queued, SingleFlight, WaitersKnown, ReadsFresh, OnItsWay, AnswersAreFresh, MadeFor

LEMMA Inductive == IInv /\ [Next]_vars => IInv'
<1>. SUFFICES ASSUME IInv, [Next]_vars PROVE IInv'
  OBVIOUS
<1>0. Tick \in JobKeys
  BY DEF JobKeys
<1>1. ASSUME NEW s \in Sources, Change(s) PROVE IInv'
  BY <1>1, ChangeInv
<1>2. ASSUME NEW k \in JobKeys, FireTimer(k) PROVE IInv'
  BY <1>2, FireInv
<1>3. ASSUME NEW k \in JobKeys, NEW r \in Callers, Request(r, k) PROVE IInv'
  BY <1>3, RequestInv
<1>4. CASE Interval
  BY <1>4, IntervalInv
<1>5. ASSUME NEW j \in flight, NEW s \in Sources, Read(j, s) PROVE IInv'
  BY <1>5, ReadInv
<1>6. ASSUME NEW j \in flight, Land(j) PROVE IInv'
  BY <1>6, LandInv
<1>7. ASSUME NEW j \in flight, Succeed(j) PROVE IInv'
  BY <1>7, FinishInv DEF Succeed
<1>8. ASSUME NEW j \in flight, FailJob(j) PROVE IInv'
  BY <1>8, FinishInv DEF FailJob
<1>9. CASE WatcherReady \/ Stop \/ UNCHANGED vars
  BY <1>9, WatcherInv
<1>. QED  BY <1>1, <1>2, <1>3, <1>4, <1>5, <1>6, <1>7, <1>8, <1>9 DEF Next, JobStep

LEMMA Invariant == Spec => []IInv
<1>. QED  BY InitInv, Inductive, PTL DEF Spec

\* Every variable has its type, the queue holds a key at most once, whoever waits
\* waits for a queued key, and a drain is under way exactly while a job runs: the
\* queue of startTeamSync never loses or doubles a job.
THEOREM TypeCorrect == Spec => []TypeOK
<1>1. IInv => TypeOK
  BY DEF IInv, Types, Queued, SingleFlight, TypeOK, Job
<1>. QED  BY Invariant, <1>1, PTL

\* After stop() no timer is armed and no watcher opens, even when its warm-up ends
\* only then.
LEMMA StaysQuiet == Spec => []QuietAfterStop
<1>1. Init => QuietAfterStop
  BY DEF Init, QuietAfterStop
<1>2. QuietAfterStop /\ [Next]_vars => QuietAfterStop'
  <2>. SUFFICES ASSUME QuietAfterStop, [Next]_vars PROVE QuietAfterStop'
    OBVIOUS
  <2>. USE DEF QuietAfterStop
  <2>1. ASSUME NEW s \in Sources, Change(s) PROVE QuietAfterStop'
    BY <2>1 DEF Change
  <2>2. ASSUME NEW k \in JobKeys, FireTimer(k) PROVE QuietAfterStop'
    BY <2>2 DEF FireTimer
  <2>3. ASSUME NEW k \in JobKeys, NEW r \in Callers, Request(r, k) PROVE QuietAfterStop'
    BY <2>3 DEF Request
  <2>4. ASSUME NEW j \in flight, NEW s \in Sources, Read(j, s) \/ Land(j) \/ Succeed(j) \/ FailJob(j)
        PROVE  QuietAfterStop'
    BY <2>4 DEF Read, Land, Succeed, FailJob, Finish
  <2>5. ASSUME NEW j \in flight, Land(j) \/ Succeed(j) \/ FailJob(j) PROVE QuietAfterStop'
    BY <2>5 DEF Land, Succeed, FailJob, Finish
  <2>6. CASE Interval \/ WatcherReady \/ Stop \/ UNCHANGED vars
    BY <2>6 DEF Interval, WatcherReady, Warmed, Stop, vars
  <2>. QED  BY <2>1, <2>2, <2>3, <2>4, <2>5, <2>6 DEF Next, JobStep
<1>. QED  BY <1>1, <1>2, PTL DEF Spec

\* A call answered without an error was served by a run that read every source it
\* covers as it was when the call was made, or later; and after stop() nothing
\* watches and no timer is armed.
THEOREM QueueAlwaysHonest == Spec => []QueueHonest
<1>1. IInv => AnswersAreFresh
  BY DEF IInv
<1>2. AnswersAreFresh /\ QuietAfterStop => QueueHonest
  BY DEF QueueHonest
<1>. QED  BY Invariant, StaysQuiet, <1>1, <1>2, PTL

\* What the remote holds of a source is never replaced by something older: jobs
\* run one after the other and a job lands what it read before it reads again.
THEOREM NeverSentBack == Spec => SentNeverBack
<1>1. IInv /\ [Next]_vars => [\A s \in Sources : sent'[s] >= sent[s]]_vars
  <2>. SUFFICES ASSUME IInv, Next PROVE \A s \in Sources : sent'[s] >= sent[s]
    OBVIOUS
  <2>0. \A s \in Sources : sent[s] \in Nat
    BY DEF IInv, Types
  <2>1. CASE UNCHANGED sent
    BY <2>0, <2>1
  <2>2. ASSUME NEW j \in flight, Land(j) PROVE \A s \in Sources : sent'[s] >= sent[s]
    <3>1. PICK c \in j.carry : sent' = [sent EXCEPT ![c.source] = c.content]
      BY <2>2 DEF Land
    <3>2. c.source \in Sources /\ c.content \in Nat /\ sent[c.source] <= c.content
      BY <3>1 DEF IInv, Types, Job, Carried, OnItsWay
    <3>. QED  BY <2>0, <3>1, <3>2 DEF IInv, Types
  <2>3. ASSUME NEW j \in flight, NEW s \in Sources, Read(j, s) PROVE UNCHANGED sent
    BY <2>3 DEF Read
  <2>4. ASSUME NEW j \in flight, Succeed(j) \/ FailJob(j) PROVE UNCHANGED sent
    BY <2>4 DEF Succeed, FailJob, Finish
  <2>5. ASSUME NEW k \in JobKeys, FireTimer(k) \/ \E r \in Callers : Request(r, k) PROVE UNCHANGED sent
    BY <2>5 DEF FireTimer, Request
  <2>6. ASSUME NEW s \in Sources, Change(s) PROVE UNCHANGED sent
    BY <2>6 DEF Change
  <2>7. CASE Interval \/ WatcherReady \/ Stop
    BY <2>0, <2>7 DEF Interval, WatcherReady, Warmed, Stop
  <2>. QED  BY <2>1, <2>2, <2>3, <2>4, <2>5, <2>6, <2>7 DEF Next, JobStep
<1>. QED  BY Invariant, <1>1, PTL DEF Spec, SentNeverBack

(***************************************************************************)
(* The plans and boards that are shared (TeamBoard)                        *)
(***************************************************************************)
TickSteps == {"idle", "plans", "purge", "board", "save"}
Hashes == [Board!Days -> Board!Maybe]
Ticks == [step : TickSteps, day : Board!Days, pushed : Hashes, keep : Hashes, purged : Nat,
          hash : Board!Maybe, ok : BOOLEAN]
Looks == [step : {"idle", "fetch", "boards", "save"}, mark : Nat, seen : Nat, ok : BOOLEAN]
Flags == [sent : BOOLEAN, sending : BOOLEAN, seen : BOOLEAN, seeing : BOOLEAN]
AnyRow == [c : Board!Maybe, at : Nat]

BoardTypes ==
  /\ today \in Board!Days /\ plan \in Hashes /\ board \in Contents /\ sharing \in BOOLEAN
  /\ saved \in [pushed : Hashes, purged : Nat, hash : Board!Maybe]
  /\ tick \in Ticks /\ look \in Looks /\ clean \in Flags /\ hit \in BOOLEAN
  /\ planRow \in [Board!Days -> AnyRow] /\ planFile \in [Board!Days -> AnyRow]
  /\ boardRow \in AnyRow /\ boardFile \in AnyRow /\ clock \in Nat /\ mark \in Nat

\* Nothing is of a later time or a later day than now.
NotAhead ==
  /\ mark <= clock /\ look.mark <= clock /\ look.seen <= clock
  /\ boardRow.at <= clock /\ boardFile.at <= clock
  /\ \A d \in Board!Days : planRow[d].at <= clock /\ planFile[d].at <= clock
  /\ \A e \in Board!Days : planRow[e].at # 0 \/ planFile[e].at # 0 => e <= today
  /\ tick.day <= today /\ tick.purged <= today /\ saved.purged <= today

\* A copy is not newer than a row that is there, and as new only when it is the same.
CopyOf(row, file) == row.at # 0 => file.at <= row.at /\ (file.at = row.at => file = row)
CopiesOlder ==
  /\ \A d \in Board!Days : CopyOf(planRow[d], planFile[d])
  /\ CopyOf(boardRow, boardFile)
  /\ boardRow.at = 0 => boardRow = Board!NoRow

\* What the owner remembers of a day is what the row has, as long as rows are kept.
Remote(d, c) == d + RetentionDays >= today /\ c # NoContent => planRow[d].c = c /\ planRow[d].at # 0
Running == tick.step # "idle"
PlansDone == tick.step \in {"purge", "board", "save"}
NotPushed(d) == tick.keep[d] \in {NoContent, saved.pushed[d]}
Remembers ==
  /\ tick.step = "plans" => tick.pushed = saved.pushed
  /\ ~hit => /\ \A d \in Board!Days : ~Running \/ NotPushed(d) => Remote(d, saved.pushed[d])
             /\ Running => \A e \in Board!Days : Remote(e, tick.keep[e])
             /\ PlansDone => \A f \in Board!Days : Remote(f, tick.pushed[f])
             /\ boardRow.c = IF Running THEN tick.hash ELSE saved.hash

\* Once sent, what is remembered is what the owner has.
Target == IF sharing THEN board ELSE NoContent
Agreed(m) == \A d \in Board!Since(PushDays) : d <= today /\ plan[d] # NoContent => m[d] = plan[d]
Sent ==
  /\ clean.sending /\ Running => tick.day = today
  /\ clean.sending /\ PlansDone /\ tick.ok => Agreed(tick.pushed)
  /\ clean.sending /\ tick.step = "save" /\ tick.ok => tick.hash = Target
  /\ clean.sent => Agreed(saved.pushed) /\ saved.hash = Target
  /\ clean.sent /\ Running => /\ clean.sending /\ Agreed(tick.keep) /\ Agreed(tick.pushed)
                              /\ tick.hash = Target

\* The mark of the viewer is that of the rows it has copied.
CopiedUpTo(n) == \A d \in Board!Since(HistoryDays) :
                   planRow[d].at # 0 /\ planRow[d].at <= n => planFile[d] = planRow[d]
PlansCopied == \A d \in Board!Since(PushDays) : planRow[d].at # 0 => planFile[d] = planRow[d]
Viewed ==
  /\ CopiedUpTo(mark) /\ CopiedUpTo(look.mark)
  /\ clean.seeing => clean.sent
  /\ clean.seeing /\ look.ok /\ look.step \in {"boards", "save"} => PlansCopied
  /\ clean.seeing /\ look.ok /\ look.step = "save" => boardFile = boardRow
  /\ clean.seen => clean.sent /\ PlansCopied /\ boardFile = boardRow

BoardInv == BoardTypes /\ NotAhead /\ CopiesOlder /\ Remembers /\ Sent /\ Viewed

LEMMA Least ==
  ASSUME NEW S \in SUBSET Nat, S # {}
  PROVE  \E x \in S : \A y \in S : x <= y
<1>. DEFINE R == {ss \in Nat \X Nat : ss[1] < ss[2]}
<1>0. IsWellFoundedOn(R, Nat)
  BY NatLessThanWellFounded DEF OpToRel
<1>1. PICK x \in S : \A y \in S : ~(<<y, x>> \in R)
  BY <1>0, WFMin
<1>2. \A y \in S : ~(y < x)
  BY <1>1
<1>. QED  BY <1>2

\* The probe finds the newest row.
LEMMA Probed ==
  ASSUME BoardTypes, NotAhead
  PROVE  /\ Board!Latest \in Nat /\ Board!Latest <= clock
         /\ \A d \in Board!Days : planRow[d].at <= Board!Latest
<1>. DEFINE T == {clock - planRow[d].at : d \in Board!Days}
           A == {planRow[d].at : d \in Board!Days}
<1>1. \A d \in Board!Days : planRow[d].at \in Nat /\ planRow[d].at <= clock
  BY DEF BoardTypes, NotAhead, AnyRow
<1>2. T \in SUBSET Nat /\ T # {} /\ A \in SUBSET Nat
  BY <1>1 DEF BoardTypes
<1>3. PICK x \in T : \A y \in T : x <= y
  BY <1>2, Least
<1>4. PICK e \in Board!Days : x = clock - planRow[e].at
  BY <1>3
<1>5. \A d \in Board!Days : planRow[d].at <= planRow[e].at
  <2>. TAKE d \in Board!Days
  <2>1. clock - planRow[e].at <= clock - planRow[d].at
    BY <1>3, <1>4
  <2>. QED  BY <2>1, <1>1 DEF BoardTypes
<1>6. \E n \in A : \A d \in Board!Days : planRow[d].at <= n
  BY <1>5
<1>7. Board!Latest \in A /\ \A d \in Board!Days : planRow[d].at <= Board!Latest
  BY <1>6 DEF Board!Latest
<1>. QED  BY <1>1, <1>7

LEMMA SinceDays == \A n : Board!Since(n) \subseteq Board!Days
  BY DEF Board!Since

LEMMA Typed ==
  ASSUME BoardTypes
  PROVE  /\ today \in Nat /\ today >= 1 /\ clock \in Nat /\ mark \in Nat /\ RetentionDays \in Nat /\ PushDays \in Nat /\ HistoryDays \in Nat
         /\ \A d \in Board!Days : d \in Nat /\ planRow[d].at \in Nat /\ planFile[d].at \in Nat
         /\ boardRow.at \in Nat /\ boardFile.at \in Nat
         /\ look.mark \in Nat /\ look.seen \in Nat
         /\ tick.day \in Nat /\ tick.day \in Board!Days /\ tick.purged \in Nat /\ saved.purged \in Nat
BY BoardAssumption DEF BoardTypes, Board!Days, AnyRow, Looks, Ticks

LEMMA RowsAre ==
  ASSUME NEW c \in Board!Maybe, clock \in Nat
  PROVE  /\ Board!Stamped(c) \in AnyRow /\ Board!Stamped(c).c = c /\ Board!Stamped(c).at = clock + 1
         /\ Board!NoRow \in AnyRow /\ Board!NoRow.c = NoContent /\ Board!NoRow.at = 0
BY DEF AnyRow, Board!Stamped, Board!NoRow, Board!Maybe

LEMMA Idle ==
  /\ Board!NoTick \in Ticks /\ Board!NoTick.step = "idle" /\ Board!NoTick.day = 1 /\ Board!NoTick.purged = 0
  /\ Board!NoTick.keep = [d \in Board!Days |-> NoContent]
  /\ Board!NoLook \in Looks /\ Board!NoLook.step = "idle" /\ Board!NoLook.mark = 0 /\ Board!NoLook.seen = 0
  /\ Board!NoRow \in AnyRow /\ Board!NoRow.c = NoContent /\ Board!NoRow.at = 0
<1>1. NoContent \in Board!Maybe /\ 1 \in Board!Days
  BY BoardAssumption DEF Board!Maybe, Board!Days
<1>. QED  BY <1>1 DEF Board!NoTick, Board!NoLook, Ticks, Looks, Hashes, TickSteps, Board!NoRow, AnyRow

LEMMA Unset ==
  /\ Board!Unsettled \in Flags /\ ~Board!Unsettled.sent /\ ~Board!Unsettled.sending
  /\ ~Board!Unsettled.seen /\ ~Board!Unsettled.seeing
BY DEF Board!Unsettled, Flags

LEMMA BoardInit == Board!Init => BoardInv
<1>. SUFFICES ASSUME Board!Init PROVE BoardInv
  OBVIOUS
<1>1. today = 1 /\ 1 \in Board!Days /\ NoContent \in Board!Maybe /\ Contents \subseteq Board!Maybe
  BY BoardAssumption DEF Board!Init, Board!Maybe, Board!Days
<1>2. BoardTypes
  BY <1>1, Idle, Unset DEF Board!Init, BoardTypes, Hashes
<1>3. NotAhead /\ CopiesOlder
  BY <1>1, Idle DEF Board!Init, NotAhead, CopiesOlder, CopyOf
<1>4. Remembers
  BY <1>1, Idle DEF Board!Init, Remembers, Remote, Running, PlansDone
<1>5. Sent
  BY <1>1, Idle, Unset DEF Board!Init, Sent, Running, PlansDone
<1>6. Viewed
  BY <1>1, Idle, Unset, SinceDays DEF Board!Init, Viewed, CopiedUpTo
<1>. QED  BY <1>2, <1>3, <1>4, <1>5, <1>6 DEF BoardInv

LEMMA EditPlanKeeps ==
  ASSUME NEW d \in Board!Days, NEW c \in Contents, BoardInv, Board!EditPlan(d, c)
  PROVE  BoardInv'
<1>0. BoardTypes /\ NotAhead /\ CopiesOlder /\ Remembers /\ Sent /\ Viewed
  BY DEF BoardInv
<1>1. UNCHANGED <<today, board, sharing, saved, tick, planRow, boardRow, clock, mark, look, planFile, boardFile, hit>>
  BY DEF Board!EditPlan, Board!Spend, Board!Step, Board!owner, Board!remote, Board!viewer
<1>2. plan' \in Hashes
  BY <1>0 DEF Board!EditPlan, Board!Spend, Board!Step, Board!owner, Board!remote, Board!viewer, BoardTypes, Hashes, Board!Maybe
<1>3. /\ clean' = Board!Unsettled
      /\ clean' \in Flags
      /\ ~clean'.sent /\ ~clean'.sending /\ ~clean'.seen /\ ~clean'.seeing
  BY Unset DEF Board!EditPlan, Board!Spend, Board!Step, Board!owner, Board!remote, Board!viewer
<1>4. \A e \in Board!Days : e # d => plan'[e] = plan[e]
  BY <1>0, Typed DEF Board!EditPlan, Board!Spend, Board!Step, Board!owner, Board!remote, Board!viewer, Board!Due, Target, Board!BoardDue
<1>5. BoardTypes'
  BY <1>0, <1>1, <1>2, <1>3, <1>4, Idle DEF BoardTypes
<1>6. NotAhead'
  BY <1>0, <1>1, <1>2, <1>3, <1>4, Typed, Idle DEF NotAhead
<1>7. CopiesOlder'
  BY <1>0, <1>1, <1>2, <1>3, <1>4, Typed, Idle DEF CopiesOlder, CopyOf, NotAhead
<1>8. Remembers'
  BY <1>0, <1>1, <1>2, <1>3, <1>4, Typed, Idle DEF Remembers, Remote, Running, PlansDone, NotPushed
<1>9. Sent'
  BY <1>0, <1>1, <1>2, <1>3, <1>4, Typed, Idle DEF Sent, Target, Agreed, Running, PlansDone, Board!Since
<1>10. Viewed'
  BY <1>0, <1>1, <1>2, <1>3, <1>4, Typed, Idle DEF Viewed, CopiedUpTo, PlansCopied, Board!Since
<1>. QED  BY <1>5, <1>6, <1>7, <1>8, <1>9, <1>10 DEF BoardInv

LEMMA EditBoardKeeps ==
  ASSUME NEW c \in Contents, BoardInv, Board!EditBoard(c)
  PROVE  BoardInv'
<1>0. BoardTypes /\ NotAhead /\ CopiesOlder /\ Remembers /\ Sent /\ Viewed
  BY DEF BoardInv
<1>1. UNCHANGED <<today, plan, sharing, saved, tick, planRow, boardRow, clock, mark, look, planFile, boardFile, hit>>
  BY DEF Board!EditBoard, Board!Spend, Board!Step, Board!owner, Board!remote, Board!viewer
<1>2. board' \in Contents
  BY <1>0 DEF Board!EditBoard, Board!Spend, Board!Step, Board!owner, Board!remote, Board!viewer, BoardTypes
<1>3. /\ clean' = Board!Unsettled
      /\ clean' \in Flags
      /\ ~clean'.sent /\ ~clean'.sending /\ ~clean'.seen /\ ~clean'.seeing
  BY Unset DEF Board!EditBoard, Board!Spend, Board!Step, Board!owner, Board!remote, Board!viewer
<1>4. BoardTypes'
  BY <1>0, <1>1, <1>2, <1>3, Idle DEF BoardTypes
<1>5. NotAhead'
  BY <1>0, <1>1, <1>2, <1>3, Typed, Idle DEF NotAhead
<1>6. CopiesOlder'
  BY <1>0, <1>1, <1>2, <1>3, Typed, Idle DEF CopiesOlder, CopyOf, NotAhead
<1>7. Remembers'
  BY <1>0, <1>1, <1>2, <1>3, Typed, Idle DEF Remembers, Remote, Running, PlansDone, NotPushed
<1>8. Sent'
  BY <1>0, <1>1, <1>2, <1>3, Typed, Idle DEF Sent, Target, Agreed, Running, PlansDone, Board!Since
<1>9. Viewed'
  BY <1>0, <1>1, <1>2, <1>3, Typed, Idle DEF Viewed, CopiedUpTo, PlansCopied, Board!Since
<1>. QED  BY <1>4, <1>5, <1>6, <1>7, <1>8, <1>9 DEF BoardInv

LEMMA ShareKeeps ==
  ASSUME NEW on \in BOOLEAN, BoardInv, Board!Share(on)
  PROVE  BoardInv'
<1>0. BoardTypes /\ NotAhead /\ CopiesOlder /\ Remembers /\ Sent /\ Viewed
  BY DEF BoardInv
<1>1. UNCHANGED <<today, plan, board, saved, tick, planRow, boardRow, clock, mark, look, planFile, boardFile, hit>>
  BY DEF Board!Share, Board!Spend, Board!Step, Board!owner, Board!remote, Board!viewer
<1>2. sharing' \in BOOLEAN
  BY <1>0 DEF Board!Share, Board!Spend, Board!Step, Board!owner, Board!remote, Board!viewer, BoardTypes
<1>3. /\ clean' = Board!Unsettled
      /\ clean' \in Flags
      /\ ~clean'.sent /\ ~clean'.sending /\ ~clean'.seen /\ ~clean'.seeing
  BY Unset DEF Board!Share, Board!Spend, Board!Step, Board!owner, Board!remote, Board!viewer
<1>4. BoardTypes'
  BY <1>0, <1>1, <1>2, <1>3, Idle DEF BoardTypes
<1>5. NotAhead'
  BY <1>0, <1>1, <1>2, <1>3, Typed, Idle DEF NotAhead
<1>6. CopiesOlder'
  BY <1>0, <1>1, <1>2, <1>3, Typed, Idle DEF CopiesOlder, CopyOf, NotAhead
<1>7. Remembers'
  BY <1>0, <1>1, <1>2, <1>3, Typed, Idle DEF Remembers, Remote, Running, PlansDone, NotPushed
<1>8. Sent'
  BY <1>0, <1>1, <1>2, <1>3, Typed, Idle DEF Sent, Target, Agreed, Running, PlansDone, Board!Since
<1>9. Viewed'
  BY <1>0, <1>1, <1>2, <1>3, Typed, Idle DEF Viewed, CopiedUpTo, PlansCopied, Board!Since
<1>. QED  BY <1>4, <1>5, <1>6, <1>7, <1>8, <1>9 DEF BoardInv

LEMMA NextDayKeeps ==
  ASSUME BoardInv, Board!NextDay
  PROVE  BoardInv'
<1>0. BoardTypes /\ NotAhead /\ CopiesOlder /\ Remembers /\ Sent /\ Viewed
  BY DEF BoardInv
<1>1. UNCHANGED <<plan, board, sharing, saved, tick, planRow, boardRow, clock, mark, look, planFile, boardFile, hit>>
  BY DEF Board!NextDay, Board!Spend, Board!Step, Board!owner, Board!remote, Board!viewer
<1>2. /\ today' \in Board!Days
      /\ today' = today + 1
  BY <1>0, Typed, BoardAssumption DEF Board!NextDay, Board!Spend, Board!Step, Board!owner, Board!remote, Board!viewer, BoardTypes, Board!Days
<1>3. /\ clean' = Board!Unsettled
      /\ clean' \in Flags
      /\ ~clean'.sent /\ ~clean'.sending /\ ~clean'.seen /\ ~clean'.seeing
  BY Unset DEF Board!NextDay, Board!Spend, Board!Step, Board!owner, Board!remote, Board!viewer
<1>4. BoardTypes'
  BY <1>0, <1>1, <1>2, <1>3, Idle DEF BoardTypes
<1>5. NotAhead'
  BY <1>0, <1>1, <1>2, <1>3, Typed, Idle DEF NotAhead
<1>6. CopiesOlder'
  BY <1>0, <1>1, <1>2, <1>3, Typed, Idle DEF CopiesOlder, CopyOf, NotAhead
<1>7. Remembers'
  BY <1>0, <1>1, <1>2, <1>3, Typed, Idle DEF Remembers, Remote, Running, PlansDone, NotPushed
<1>8. Sent'
  BY <1>0, <1>1, <1>2, <1>3, Typed, Idle DEF Sent, Target, Agreed, Running, PlansDone, Board!Since
<1>9. Viewed'
  BY <1>0, <1>1, <1>2, <1>3, Typed, Idle DEF Viewed, CopiedUpTo, PlansCopied, Board!Since
<1>. QED  BY <1>4, <1>5, <1>6, <1>7, <1>8, <1>9 DEF BoardInv

LEMMA TickStartsKeeps ==
  ASSUME BoardInv, Board!TickStarts
  PROVE  BoardInv'
<1>0. BoardTypes /\ NotAhead /\ CopiesOlder /\ Remembers /\ Sent /\ Viewed
  BY DEF BoardInv
<1>1. UNCHANGED <<today, plan, board, sharing, saved, planRow, boardRow, clock, mark, look, planFile, boardFile, hit>>
  BY DEF Board!TickStarts, Board!Spend, Board!Step, Board!owner, Board!remote, Board!viewer
<1>2. /\ tick' \in Ticks
      /\ tick'.step = "plans"
      /\ tick'.day = today
      /\ tick'.pushed = saved.pushed
      /\ tick'.purged = saved.purged
      /\ tick'.hash = saved.hash
      /\ tick'.ok
  BY <1>0, Typed DEF Board!TickStarts, Board!Spend, Board!Step, Board!owner, Board!remote, Board!viewer, BoardTypes, Ticks, TickSteps, Hashes, Board!Maybe
<1>3. /\ clean' \in Flags
      /\ clean'.sent = clean.sent
      /\ clean'.sending
      /\ clean'.seen = clean.seen
      /\ clean'.seeing = clean.seeing
  BY <1>0 DEF Board!TickStarts, Board!Spend, Board!Step, Board!owner, Board!remote, Board!viewer, BoardTypes, Flags
<1>4. /\ tick.step = "idle"
      /\ \A e \in Board!Days : tick'.keep[e] = IF e \in Board!Since(PushDays) THEN saved.pushed[e] ELSE NoContent
  BY <1>0, Typed DEF Board!TickStarts, Board!Spend, Board!Step, Board!owner, Board!remote, Board!viewer, Board!Due, Target, Board!BoardDue
<1>5. BoardTypes'
  BY <1>0, <1>1, <1>2, <1>3, <1>4, Idle DEF BoardTypes
<1>6. NotAhead'
  BY <1>0, <1>1, <1>2, <1>3, <1>4, Typed, Idle DEF NotAhead
<1>7. CopiesOlder'
  BY <1>0, <1>1, <1>2, <1>3, <1>4, Typed, Idle DEF CopiesOlder, CopyOf, NotAhead
<1>8. Remembers'
  BY <1>0, <1>1, <1>2, <1>3, <1>4, Typed, Idle DEF Remembers, Remote, Running, PlansDone, NotPushed
<1>9. Sent'
  BY <1>0, <1>1, <1>2, <1>3, <1>4, Typed, Idle DEF Sent, Target, Agreed, Running, PlansDone, Board!Since
<1>10. Viewed'
  BY <1>0, <1>1, <1>2, <1>3, <1>4, Typed, Idle DEF Viewed, CopiedUpTo, PlansCopied, Board!Since
<1>. QED  BY <1>5, <1>6, <1>7, <1>8, <1>9, <1>10 DEF BoardInv

LEMMA PushPlanKeeps ==
  ASSUME NEW d \in Board!Days, BoardInv, Board!PushPlan(d)
  PROVE  BoardInv'
<1>0. BoardTypes /\ NotAhead /\ CopiesOlder /\ Remembers /\ Sent /\ Viewed
  BY DEF BoardInv
<1>1. UNCHANGED <<today, plan, board, sharing, saved, boardRow, mark, look, planFile, boardFile, clean, hit>>
  BY DEF Board!PushPlan, Board!Spend, Board!Step, Board!owner, Board!remote, Board!viewer
<1>2. /\ planRow' \in [Board!Days -> AnyRow]
      /\ planRow'[d].c = plan[d]
      /\ planRow'[d].at = clock + 1
      /\ \A e \in Board!Days : e # d => planRow'[e] = planRow[e]
  BY <1>0, Typed, RowsAre DEF Board!PushPlan, Board!Spend, Board!Step, Board!owner, Board!remote, Board!viewer, BoardTypes, Hashes
<1>3. clock' = clock + 1
  BY <1>0 DEF Board!PushPlan, Board!Spend, Board!Step, Board!owner, Board!remote, Board!viewer, BoardTypes
<1>4. /\ tick' \in Ticks
      /\ tick'.step = tick.step
      /\ tick'.day = tick.day
      /\ tick'.pushed = tick.pushed
      /\ tick'.purged = tick.purged
      /\ tick'.hash = tick.hash
      /\ tick'.ok = tick.ok
  BY <1>0 DEF Board!PushPlan, Board!Spend, Board!Step, Board!owner, Board!remote, Board!viewer, BoardTypes, Ticks, Hashes
<1>5. /\ tick.step = "plans"
      /\ d <= tick.day
      /\ d + PushDays >= tick.day
      /\ plan[d] # NoContent
      /\ plan[d] # tick.keep[d]
  BY <1>0 DEF Board!PushPlan, Board!Spend, Board!Step, Board!owner, Board!remote, Board!viewer, Board!Due
<1>6. /\ tick'.keep[d] = plan[d]
      /\ \A e \in Board!Days : e # d => tick'.keep[e] = tick.keep[e]
  BY <1>0 DEF Board!PushPlan, Board!Spend, Board!Step, Board!owner, Board!remote, Board!viewer, BoardTypes, Ticks, Hashes
<1>7. ~clean.sent
  BY <1>0, <1>1, <1>2, <1>3, <1>4, <1>5, <1>6, Typed DEF Sent, Running, Agreed, Board!Since
<1>8. BoardTypes'
  BY <1>0, <1>1, <1>2, <1>3, <1>4, <1>5, <1>6, <1>7, Idle DEF BoardTypes
<1>9. NotAhead'
  BY <1>0, <1>1, <1>2, <1>3, <1>4, <1>5, <1>6, <1>7, Typed, Idle DEF NotAhead
<1>10. CopiesOlder'
  BY <1>0, <1>1, <1>2, <1>3, <1>4, <1>5, <1>6, <1>7, Typed, Idle DEF CopiesOlder, CopyOf, NotAhead
<1>11. Remembers'
  BY <1>0, <1>1, <1>2, <1>3, <1>4, <1>5, <1>6, <1>7, Typed, Idle DEF Remembers, Remote, Running, PlansDone, NotPushed
<1>12. Sent'
  BY <1>0, <1>1, <1>2, <1>3, <1>4, <1>5, <1>6, <1>7, Typed, Idle DEF Sent, Target, Agreed, Running, PlansDone, Board!Since
<1>13. Viewed'
  BY <1>0, <1>1, <1>2, <1>3, <1>4, <1>5, <1>6, <1>7, Typed, Idle DEF Viewed, NotAhead, CopiedUpTo, PlansCopied, Board!Since
<1>. QED  BY <1>8, <1>9, <1>10, <1>11, <1>12, <1>13 DEF BoardInv

LEMMA PushPlanFailsKeeps ==
  ASSUME NEW d \in Board!Days, BoardInv, Board!PushPlanFails(d)
  PROVE  BoardInv'
<1>0. BoardTypes /\ NotAhead /\ CopiesOlder /\ Remembers /\ Sent /\ Viewed
  BY DEF BoardInv
<1>1. UNCHANGED <<today, plan, board, sharing, saved, boardRow, mark, look, planFile, boardFile, clean>>
  BY DEF Board!PushPlanFails, Board!Spend, Board!Step, Board!owner, Board!remote, Board!viewer
<1>2. /\ planRow' \in [Board!Days -> AnyRow]
      /\ \/ planRow' = planRow /\ clock' = clock /\ hit' = (hit \/ Board!Unsaved)
         \/ clock' = clock + 1 /\ planRow'[d].c = plan[d] /\ planRow'[d].at = clock + 1 /\ hit'
      /\ \A e \in Board!Days : e # d => planRow'[e] = planRow[e]
  BY <1>0, Typed, RowsAre DEF Board!PushPlanFails, Board!Spend, Board!Step, Board!owner, Board!remote, Board!viewer, BoardTypes, Hashes
<1>3. hit' \in BOOLEAN
  BY <1>0 DEF Board!PushPlanFails, Board!Spend, Board!Step, Board!owner, Board!remote, Board!viewer, BoardTypes
<1>4. /\ tick' \in Ticks
      /\ tick'.step = "board"
      /\ tick'.day = tick.day
      /\ tick'.pushed = tick.pushed
      /\ tick'.keep = tick.keep
      /\ tick'.purged = tick.purged
      /\ tick'.hash = tick.hash
      /\ ~tick'.ok
  BY <1>0 DEF Board!PushPlanFails, Board!Spend, Board!Step, Board!owner, Board!remote, Board!viewer, BoardTypes, Ticks, TickSteps
<1>5. /\ tick.step = "plans"
      /\ d <= tick.day
      /\ d + PushDays >= tick.day
      /\ plan[d] # NoContent
      /\ plan[d] # tick.keep[d]
  BY <1>0 DEF Board!PushPlanFails, Board!Spend, Board!Step, Board!owner, Board!remote, Board!viewer, Board!Due
<1>6. hit' \/ \A e \in Board!Days : tick.keep[e] \in {NoContent, saved.pushed[e]}
  BY <1>0, <1>1, <1>2, <1>3, <1>4, <1>5 DEF Board!Unsaved
<1>7. ~clean.sent
  BY <1>0, <1>1, <1>2, <1>3, <1>4, <1>5, <1>6, Typed DEF Sent, Running, Agreed, Board!Since
<1>8. BoardTypes'
  BY <1>0, <1>1, <1>2, <1>3, <1>4, <1>5, <1>6, <1>7, Idle DEF BoardTypes
<1>9. NotAhead'
  BY <1>0, <1>1, <1>2, <1>3, <1>4, <1>5, <1>6, <1>7, Typed, Idle DEF NotAhead
<1>10. CopiesOlder'
  BY <1>0, <1>1, <1>2, <1>3, <1>4, <1>5, <1>6, <1>7, Typed, Idle DEF CopiesOlder, CopyOf, NotAhead
<1>11. Remembers'
  BY <1>0, <1>1, <1>2, <1>3, <1>4, <1>5, <1>6, <1>7, Typed, Idle DEF Remembers, Remote, Running, PlansDone, NotPushed
<1>12. Sent'
  BY <1>0, <1>1, <1>2, <1>3, <1>4, <1>5, <1>6, <1>7, Typed, Idle DEF Sent, Target, Agreed, Running, PlansDone, Board!Since
<1>13. Viewed'
  BY <1>0, <1>1, <1>2, <1>3, <1>4, <1>5, <1>6, <1>7, Typed, Idle DEF Viewed, NotAhead, CopiedUpTo, PlansCopied, Board!Since
<1>. QED  BY <1>8, <1>9, <1>10, <1>11, <1>12, <1>13 DEF BoardInv

LEMMA PlansPushedKeeps ==
  ASSUME BoardInv, Board!PlansPushed
  PROVE  BoardInv'
<1>0. BoardTypes /\ NotAhead /\ CopiesOlder /\ Remembers /\ Sent /\ Viewed
  BY DEF BoardInv
<1>1. UNCHANGED <<today, plan, board, sharing, saved, planRow, boardRow, clock, mark, look, planFile, boardFile, clean, hit>>
  BY DEF Board!PlansPushed, Board!Spend, Board!Step, Board!owner, Board!remote, Board!viewer
<1>2. /\ tick' \in Ticks
      /\ tick'.day = tick.day
      /\ tick'.pushed = tick.keep
      /\ tick'.keep = tick.keep
      /\ tick'.purged = today
      /\ tick'.hash = tick.hash
      /\ tick'.ok = tick.ok
  BY <1>0, Typed DEF Board!PlansPushed, Board!Spend, Board!Step, Board!owner, Board!remote, Board!viewer, BoardTypes, Ticks, TickSteps
<1>3. /\ tick'.step \in {"purge", "board"}
      /\ tick.step = "plans"
      /\ Board!Due = {}
  BY <1>0, Typed DEF Board!PlansPushed, Board!Spend, Board!Step, Board!owner, Board!remote, Board!viewer, Board!Due, Target, Board!BoardDue
<1>4. \A e \in Board!Days : e <= tick.day /\ e + PushDays >= tick.day /\ plan[e] # NoContent => plan[e] = tick.keep[e]
  BY <1>0, <1>1, <1>2, <1>3 DEF Board!Due
<1>5. BoardTypes'
  BY <1>0, <1>1, <1>2, <1>3, <1>4, Idle DEF BoardTypes
<1>6. NotAhead'
  BY <1>0, <1>1, <1>2, <1>3, <1>4, Typed, Idle DEF NotAhead
<1>7. CopiesOlder'
  BY <1>0, <1>1, <1>2, <1>3, <1>4, Typed, Idle DEF CopiesOlder, CopyOf, NotAhead
<1>8. Remembers'
  BY <1>0, <1>1, <1>2, <1>3, <1>4, Typed, Idle DEF Remembers, Remote, Running, PlansDone, NotPushed
<1>9. Sent'
  BY <1>0, <1>1, <1>2, <1>3, <1>4, Typed, Idle DEF Sent, Target, Agreed, Running, PlansDone, Board!Since
<1>10. Viewed'
  BY <1>0, <1>1, <1>2, <1>3, <1>4, Typed, Idle DEF Viewed, CopiedUpTo, PlansCopied, Board!Since
<1>. QED  BY <1>5, <1>6, <1>7, <1>8, <1>9, <1>10 DEF BoardInv

LEMMA PurgeKeeps ==
  ASSUME BoardInv, Board!Purge
  PROVE  BoardInv'
<1>0. BoardTypes /\ NotAhead /\ CopiesOlder /\ Remembers /\ Sent /\ Viewed
  BY DEF BoardInv
<1>1. UNCHANGED <<today, plan, board, sharing, saved, boardRow, clock, mark, look, planFile, boardFile, clean, hit>>
  BY DEF Board!Purge, Board!Spend, Board!Step, Board!owner, Board!remote, Board!viewer
<1>2. /\ tick' \in Ticks
      /\ tick'.step = "board"
      /\ tick'.day = tick.day
      /\ tick'.pushed = tick.pushed
      /\ tick'.keep = tick.keep
      /\ tick'.purged = tick.purged
      /\ tick'.hash = tick.hash
      /\ tick'.ok = tick.ok
  BY <1>0 DEF Board!Purge, Board!Spend, Board!Step, Board!owner, Board!remote, Board!viewer, BoardTypes, Ticks, TickSteps
<1>3. /\ planRow' \in [Board!Days -> AnyRow]
      /\ \A e \in Board!Days : planRow'[e] = IF e + RetentionDays < tick.purged THEN Board!NoRow ELSE planRow[e]
  BY <1>0, Idle DEF Board!Purge, Board!Spend, Board!Step, Board!owner, Board!remote, Board!viewer, BoardTypes, Board!Old
<1>4. tick.step = "purge"
  BY <1>0, Typed DEF Board!Purge, Board!Spend, Board!Step, Board!owner, Board!remote, Board!viewer, Board!Due, Target, Board!BoardDue
<1>5. BoardTypes'
  BY <1>0, <1>1, <1>2, <1>3, <1>4, Idle DEF BoardTypes
<1>6. NotAhead'
  BY <1>0, <1>1, <1>2, <1>3, <1>4, Typed, Idle DEF NotAhead
<1>7. CopiesOlder'
  BY <1>0, <1>1, <1>2, <1>3, <1>4, Typed, Idle DEF CopiesOlder, CopyOf, NotAhead
<1>8. Remembers'
  BY <1>0, <1>1, <1>2, <1>3, <1>4, Typed, Idle DEF Remembers, NotAhead, Remote, Running, PlansDone, NotPushed
<1>9. Sent'
  BY <1>0, <1>1, <1>2, <1>3, <1>4, Typed, Idle DEF Sent, Target, Agreed, Running, PlansDone, Board!Since
<1>10. Viewed'
  BY <1>0, <1>1, <1>2, <1>3, <1>4, Typed, Idle DEF Viewed, CopiedUpTo, PlansCopied, Board!Since
<1>. QED  BY <1>5, <1>6, <1>7, <1>8, <1>9, <1>10 DEF BoardInv

LEMMA PurgeFailsKeeps ==
  ASSUME BoardInv, Board!PurgeFails
  PROVE  BoardInv'
<1>0. BoardTypes /\ NotAhead /\ CopiesOlder /\ Remembers /\ Sent /\ Viewed
  BY DEF BoardInv
<1>1. UNCHANGED <<today, plan, board, sharing, saved, planRow, boardRow, clock, mark, look, planFile, boardFile, clean, hit>>
  BY DEF Board!PurgeFails, Board!Spend, Board!Step, Board!owner, Board!remote, Board!viewer
<1>2. /\ tick' \in Ticks
      /\ tick'.step = "board"
      /\ tick'.day = tick.day
      /\ tick'.pushed = tick.pushed
      /\ tick'.keep = tick.keep
      /\ tick'.purged = tick.purged
      /\ tick'.hash = tick.hash
      /\ ~tick'.ok
  BY <1>0 DEF Board!PurgeFails, Board!Spend, Board!Step, Board!owner, Board!remote, Board!viewer, BoardTypes, Ticks, TickSteps
<1>3. tick.step = "purge"
  BY <1>0, Typed DEF Board!PurgeFails, Board!Spend, Board!Step, Board!owner, Board!remote, Board!viewer, Board!Due, Target, Board!BoardDue
<1>4. BoardTypes'
  BY <1>0, <1>1, <1>2, <1>3, Idle DEF BoardTypes
<1>5. NotAhead'
  BY <1>0, <1>1, <1>2, <1>3, Typed, Idle DEF NotAhead
<1>6. CopiesOlder'
  BY <1>0, <1>1, <1>2, <1>3, Typed, Idle DEF CopiesOlder, CopyOf, NotAhead
<1>7. Remembers'
  BY <1>0, <1>1, <1>2, <1>3, Typed, Idle DEF Remembers, Remote, Running, PlansDone, NotPushed
<1>8. Sent'
  BY <1>0, <1>1, <1>2, <1>3, Typed, Idle DEF Sent, Target, Agreed, Running, PlansDone, Board!Since
<1>9. Viewed'
  BY <1>0, <1>1, <1>2, <1>3, Typed, Idle DEF Viewed, CopiedUpTo, PlansCopied, Board!Since
<1>. QED  BY <1>4, <1>5, <1>6, <1>7, <1>8, <1>9 DEF BoardInv

LEMMA PushBoardKeeps ==
  ASSUME BoardInv, Board!PushBoard
  PROVE  BoardInv'
<1>0. BoardTypes /\ NotAhead /\ CopiesOlder /\ Remembers /\ Sent /\ Viewed
  BY DEF BoardInv
<1>1. UNCHANGED <<today, plan, board, sharing, saved, planRow, mark, look, planFile, boardFile, clean, hit>>
  BY DEF Board!PushBoard, Board!Spend, Board!Step, Board!owner, Board!remote, Board!viewer
<1>2. /\ tick' \in Ticks
      /\ tick'.step = "save"
      /\ tick'.day = tick.day
      /\ tick'.pushed = tick.pushed
      /\ tick'.keep = tick.keep
      /\ tick'.purged = tick.purged
      /\ tick'.hash = Target
      /\ tick'.ok = tick.ok
  BY <1>0 DEF Board!PushBoard, Board!Spend, Board!Step, Board!owner, Board!remote, Board!viewer, BoardTypes, Ticks, TickSteps, Target, Board!Maybe
<1>3. /\ boardRow' \in AnyRow
      /\ \/ sharing /\ boardRow'.c = board /\ boardRow'.at = clock + 1 /\ clock' = clock + 1
         \/ ~sharing /\ boardRow' = Board!NoRow /\ clock' = clock
  BY <1>0, Typed, RowsAre, Idle DEF Board!PushBoard, Board!Spend, Board!Step, Board!owner, Board!remote, Board!viewer, BoardTypes, Board!Maybe
<1>4. /\ tick.step = "board"
      /\ tick.hash # Target
  BY <1>0, Typed DEF Board!PushBoard, Board!Spend, Board!Step, Board!owner, Board!remote, Board!viewer, Board!Due, Target, Board!BoardDue
<1>5. ~clean.sent
  BY <1>0, <1>1, <1>2, <1>3, <1>4 DEF Sent, Running
<1>6. boardRow'.c = Target
  BY <1>1, <1>2, <1>3, <1>4, <1>5, Idle DEF Target
<1>7. BoardTypes'
  BY <1>0, <1>1, <1>2, <1>3, <1>4, <1>5, <1>6, Idle DEF BoardTypes
<1>8. NotAhead'
  BY <1>0, <1>1, <1>2, <1>3, <1>4, <1>5, <1>6, Typed, Idle DEF NotAhead
<1>9. CopiesOlder'
  BY <1>0, <1>1, <1>2, <1>3, <1>4, <1>5, <1>6, Typed, Idle DEF CopiesOlder, CopyOf, NotAhead
<1>10. Remembers'
  BY <1>0, <1>1, <1>2, <1>3, <1>4, <1>5, <1>6 DEF Remembers, Remote, Running, PlansDone, NotPushed
<1>11. Sent'
  BY <1>0, <1>1, <1>2, <1>3, <1>4, <1>5, <1>6, Typed, Idle DEF Sent, Target, Agreed, Running, PlansDone, Board!Since
<1>12. Viewed'
  BY <1>0, <1>1, <1>2, <1>3, <1>4, <1>5, <1>6, Typed, Idle DEF Viewed, CopiedUpTo, PlansCopied, Board!Since
<1>. QED  BY <1>7, <1>8, <1>9, <1>10, <1>11, <1>12 DEF BoardInv

LEMMA PushBoardFailsKeeps ==
  ASSUME BoardInv, Board!PushBoardFails
  PROVE  BoardInv'
<1>0. BoardTypes /\ NotAhead /\ CopiesOlder /\ Remembers /\ Sent /\ Viewed
  BY DEF BoardInv
<1>1. UNCHANGED <<today, plan, board, sharing, saved, planRow, mark, look, planFile, boardFile, clean>>
  BY DEF Board!PushBoardFails, Board!Spend, Board!Step, Board!owner, Board!remote, Board!viewer
<1>2. /\ tick' \in Ticks
      /\ tick'.step = "save"
      /\ tick'.day = tick.day
      /\ tick'.pushed = tick.pushed
      /\ tick'.keep = tick.keep
      /\ tick'.purged = tick.purged
      /\ tick'.hash = tick.hash
      /\ ~tick'.ok
  BY <1>0 DEF Board!PushBoardFails, Board!Spend, Board!Step, Board!owner, Board!remote, Board!viewer, BoardTypes, Ticks, TickSteps
<1>3. /\ boardRow' \in AnyRow
      /\ \/ boardRow' = boardRow /\ clock' = clock /\ hit' = hit
         \/ hit' /\ boardRow'.at = clock + 1 /\ clock' = clock + 1
         \/ hit' /\ boardRow' = Board!NoRow /\ clock' = clock
  BY <1>0, Typed, RowsAre, Idle DEF Board!PushBoardFails, Board!Spend, Board!Step, Board!owner, Board!remote, Board!viewer, BoardTypes, Board!Maybe
<1>4. hit' \in BOOLEAN
  BY <1>0 DEF Board!PushBoardFails, Board!Spend, Board!Step, Board!owner, Board!remote, Board!viewer, BoardTypes
<1>5. /\ tick.step = "board"
      /\ tick.hash # Target
  BY <1>0, Typed DEF Board!PushBoardFails, Board!Spend, Board!Step, Board!owner, Board!remote, Board!viewer, Board!Due, Target, Board!BoardDue
<1>6. ~clean.sent
  BY <1>0, <1>1, <1>2, <1>3, <1>4, <1>5 DEF Sent, Running
<1>7. BoardTypes'
  BY <1>0, <1>1, <1>2, <1>3, <1>4, <1>5, <1>6, Idle DEF BoardTypes
<1>8. NotAhead'
  BY <1>0, <1>1, <1>2, <1>3, <1>4, <1>5, <1>6, Typed, Idle DEF NotAhead
<1>9. CopiesOlder'
  BY <1>0, <1>1, <1>2, <1>3, <1>4, <1>5, <1>6, Typed, Idle DEF CopiesOlder, CopyOf, NotAhead
<1>10. Remembers'
  BY <1>0, <1>1, <1>2, <1>3, <1>4, <1>5, <1>6, Typed, Idle DEF Remembers, Remote, Running, PlansDone, NotPushed
<1>11. Sent'
  BY <1>0, <1>1, <1>2, <1>3, <1>4, <1>5, <1>6, Typed, Idle DEF Sent, Target, Agreed, Running, PlansDone, Board!Since
<1>12. Viewed'
  BY <1>0, <1>1, <1>2, <1>3, <1>4, <1>5, <1>6, Typed, Idle DEF Viewed, CopiedUpTo, PlansCopied, Board!Since
<1>. QED  BY <1>7, <1>8, <1>9, <1>10, <1>11, <1>12 DEF BoardInv

LEMMA BoardInOrderKeeps ==
  ASSUME BoardInv, Board!BoardInOrder
  PROVE  BoardInv'
<1>0. BoardTypes /\ NotAhead /\ CopiesOlder /\ Remembers /\ Sent /\ Viewed
  BY DEF BoardInv
<1>1. UNCHANGED <<today, plan, board, sharing, saved, planRow, boardRow, clock, mark, look, planFile, boardFile, clean, hit>>
  BY DEF Board!BoardInOrder, Board!Spend, Board!Step, Board!owner, Board!remote, Board!viewer
<1>2. /\ tick' \in Ticks
      /\ tick'.step = "save"
      /\ tick'.day = tick.day
      /\ tick'.pushed = tick.pushed
      /\ tick'.keep = tick.keep
      /\ tick'.purged = tick.purged
      /\ tick'.hash = tick.hash
      /\ tick'.ok = tick.ok
  BY <1>0 DEF Board!BoardInOrder, Board!Spend, Board!Step, Board!owner, Board!remote, Board!viewer, BoardTypes, Ticks, TickSteps
<1>3. /\ tick.step = "board"
      /\ tick.hash = Target
  BY <1>0, Typed DEF Board!BoardInOrder, Board!Spend, Board!Step, Board!owner, Board!remote, Board!viewer, Board!Due, Target, Board!BoardDue
<1>4. BoardTypes'
  BY <1>0, <1>1, <1>2, <1>3, Idle DEF BoardTypes
<1>5. NotAhead'
  BY <1>0, <1>1, <1>2, <1>3, Typed, Idle DEF NotAhead
<1>6. CopiesOlder'
  BY <1>0, <1>1, <1>2, <1>3, Typed, Idle DEF CopiesOlder, CopyOf, NotAhead
<1>7. Remembers'
  BY <1>0, <1>1, <1>2, <1>3, Typed, Idle DEF Remembers, Remote, Running, PlansDone, NotPushed
<1>8. Sent'
  BY <1>0, <1>1, <1>2, <1>3, Typed, Idle DEF Sent, Target, Agreed, Running, PlansDone, Board!Since
<1>9. Viewed'
  BY <1>0, <1>1, <1>2, <1>3, Typed, Idle DEF Viewed, CopiedUpTo, PlansCopied, Board!Since
<1>. QED  BY <1>4, <1>5, <1>6, <1>7, <1>8, <1>9 DEF BoardInv

LEMMA TickEndsKeeps ==
  ASSUME BoardInv, Board!TickEnds
  PROVE  BoardInv'
<1>0. BoardTypes /\ NotAhead /\ CopiesOlder /\ Remembers /\ Sent /\ Viewed
  BY DEF BoardInv
<1>1. UNCHANGED <<today, plan, board, sharing, planRow, boardRow, clock, mark, look, planFile, boardFile, hit>>
  BY DEF Board!TickEnds, Board!Spend, Board!Step, Board!owner, Board!remote, Board!viewer
<1>2. tick' = Board!NoTick
  BY <1>0 DEF Board!TickEnds, Board!Spend, Board!Step, Board!owner, Board!remote, Board!viewer, BoardTypes
<1>3. /\ saved' \in [pushed : Hashes, purged : Nat, hash : Board!Maybe]
      /\ saved'.pushed = tick.pushed
      /\ saved'.purged = tick.purged
      /\ saved'.hash = tick.hash
  BY <1>0 DEF Board!TickEnds, Board!Spend, Board!Step, Board!owner, Board!remote, Board!viewer, BoardTypes, Ticks
<1>4. /\ clean' \in Flags
      /\ clean'.sending = clean.sending
      /\ clean'.seen = clean.seen
      /\ clean'.seeing = clean.seeing
  BY <1>0 DEF Board!TickEnds, Board!Spend, Board!Step, Board!owner, Board!remote, Board!viewer, BoardTypes, Flags
<1>5. /\ clean.sent => clean'.sent
      /\ clean'.sent => clean.sent \/ (tick.ok /\ clean.sending)
      /\ tick.step = "save"
  BY <1>0 DEF Board!TickEnds, Board!Spend, Board!Step, Board!owner, Board!remote, Board!viewer, BoardTypes, Flags
<1>6. BoardTypes'
  BY <1>0, <1>1, <1>2, <1>3, <1>4, <1>5, Idle DEF BoardTypes
<1>7. NotAhead'
  BY <1>0, <1>1, <1>2, <1>3, <1>4, <1>5, Typed, Idle DEF NotAhead
<1>8. CopiesOlder'
  BY <1>0, <1>1, <1>2, <1>3, <1>4, <1>5, Typed, Idle DEF CopiesOlder, CopyOf, NotAhead
<1>9. Remembers'
  BY <1>0, <1>1, <1>2, <1>3, <1>4, <1>5, Typed, Idle DEF Remembers, Remote, Running, PlansDone, NotPushed
<1>10. Sent'
  BY <1>0, <1>1, <1>2, <1>3, <1>4, <1>5, Typed, Idle DEF Sent, Target, Agreed, Running, PlansDone, Board!Since
<1>11. Viewed'
  BY <1>0, <1>1, <1>2, <1>3, <1>4, <1>5, Typed, Idle DEF Viewed, CopiedUpTo, PlansCopied, Board!Since
<1>. QED  BY <1>6, <1>7, <1>8, <1>9, <1>10, <1>11 DEF BoardInv

LEMMA TickCutOffKeeps ==
  ASSUME BoardInv, Board!TickCutOff
  PROVE  BoardInv'
<1>0. BoardTypes /\ NotAhead /\ CopiesOlder /\ Remembers /\ Sent /\ Viewed
  BY DEF BoardInv
<1>1. UNCHANGED <<today, plan, board, sharing, saved, planRow, boardRow, clock, mark, look, planFile, boardFile>>
  BY DEF Board!TickCutOff, Board!Spend, Board!Step, Board!owner, Board!remote, Board!viewer
<1>2. tick' = Board!NoTick
  BY <1>0 DEF Board!TickCutOff, Board!Spend, Board!Step, Board!owner, Board!remote, Board!viewer, BoardTypes
<1>3. /\ hit' \in BOOLEAN
      /\ hit' = (hit \/ Board!Unsaved \/ tick.hash # saved.hash)
  BY <1>0 DEF Board!TickCutOff, Board!Spend, Board!Step, Board!owner, Board!remote, Board!viewer, BoardTypes
<1>4. /\ clean' \in Flags
      /\ clean'.sent = clean.sent
      /\ ~clean'.sending
      /\ clean'.seen = clean.seen
      /\ clean'.seeing = clean.seeing
  BY <1>0 DEF Board!TickCutOff, Board!Spend, Board!Step, Board!owner, Board!remote, Board!viewer, BoardTypes, Flags
<1>5. tick.step # "idle"
  BY <1>0, Typed DEF Board!TickCutOff, Board!Spend, Board!Step, Board!owner, Board!remote, Board!viewer, Board!Due, Target, Board!BoardDue
<1>6. hit' \/ ((\A e \in Board!Days : tick.keep[e] \in {NoContent, saved.pushed[e]}) /\ tick.hash = saved.hash /\ ~hit)
  BY <1>0, <1>1, <1>2, <1>3, <1>4, <1>5 DEF Board!Unsaved, BoardTypes
<1>7. BoardTypes'
  BY <1>0, <1>1, <1>2, <1>3, <1>4, <1>5, <1>6, Idle DEF BoardTypes
<1>8. NotAhead'
  BY <1>0, <1>1, <1>2, <1>3, <1>4, <1>5, <1>6, Typed, Idle DEF NotAhead
<1>9. CopiesOlder'
  BY <1>0, <1>1, <1>2, <1>3, <1>4, <1>5, <1>6, Typed, Idle DEF CopiesOlder, CopyOf, NotAhead
<1>10. Remembers'
  BY <1>0, <1>1, <1>2, <1>3, <1>4, <1>5, <1>6, Typed, Idle DEF Remembers, Remote, Running, PlansDone, NotPushed
<1>11. Sent'
  BY <1>0, <1>1, <1>2, <1>3, <1>4, <1>5, <1>6, Typed, Idle DEF Sent, Target, Agreed, Running, PlansDone, Board!Since
<1>12. Viewed'
  BY <1>0, <1>1, <1>2, <1>3, <1>4, <1>5, <1>6, Typed, Idle DEF Viewed, CopiedUpTo, PlansCopied, Board!Since
<1>. QED  BY <1>7, <1>8, <1>9, <1>10, <1>11, <1>12 DEF BoardInv

LEMMA LookStartsKeeps ==
  ASSUME BoardInv, Board!LookStarts
  PROVE  BoardInv'
<1>0. BoardTypes /\ NotAhead /\ CopiesOlder /\ Remembers /\ Sent /\ Viewed
  BY DEF BoardInv
<1>1. UNCHANGED <<today, plan, board, sharing, saved, tick, planRow, boardRow, clock, mark, planFile, boardFile, hit>>
  BY DEF Board!LookStarts, Board!Spend, Board!Step, Board!owner, Board!remote, Board!viewer
<1>2. /\ look' \in Looks
      /\ look'.mark = mark
      /\ look'.seen = Board!Latest
      /\ look'.ok
  BY <1>0, Probed, Typed DEF Board!LookStarts, Board!Spend, Board!Step, Board!owner, Board!remote, Board!viewer, BoardTypes, Looks
<1>3. /\ clean' \in Flags
      /\ clean'.sent = clean.sent
      /\ clean'.sending = clean.sending
      /\ clean'.seen = clean.seen
      /\ clean'.seeing = clean.sent
  BY <1>0 DEF Board!LookStarts, Board!Spend, Board!Step, Board!owner, Board!remote, Board!viewer, BoardTypes, Flags
<1>4. /\ look'.step \in {"fetch", "boards"}
      /\ look'.step = "boards" => Board!Latest = mark
  BY <1>0, Typed DEF Board!LookStarts, Board!Spend, Board!Step, Board!owner, Board!remote, Board!viewer, Board!Due, Target, Board!BoardDue
<1>5. /\ Board!Latest <= clock
      /\ \A e \in Board!Days : planRow[e].at <= Board!Latest
  BY <1>0, Probed
<1>6. BoardTypes'
  BY <1>0, <1>1, <1>2, <1>3, <1>4, <1>5, Idle DEF BoardTypes
<1>7. NotAhead'
  BY <1>0, <1>1, <1>2, <1>3, <1>4, <1>5, Typed, Idle DEF NotAhead
<1>8. CopiesOlder'
  BY <1>0, <1>1, <1>2, <1>3, <1>4, <1>5, Typed, Idle DEF CopiesOlder, CopyOf, NotAhead
<1>9. Remembers'
  BY <1>0, <1>1, <1>2, <1>3, <1>4, <1>5, Typed, Idle DEF Remembers, Remote, Running, PlansDone, NotPushed
<1>10. Sent'
  BY <1>0, <1>1, <1>2, <1>3, <1>4, <1>5, Typed, Idle DEF Sent, Target, Agreed, Running, PlansDone, Board!Since
<1>11. Viewed'
  BY <1>0, <1>1, <1>2, <1>3, <1>4, <1>5, Typed, Idle, BoardAssumption DEF Viewed, CopiedUpTo, PlansCopied, Board!Since
<1>. QED  BY <1>6, <1>7, <1>8, <1>9, <1>10, <1>11 DEF BoardInv

LEMMA FetchPlansKeeps ==
  ASSUME BoardInv, Board!FetchPlans
  PROVE  BoardInv'
<1>0. BoardTypes /\ NotAhead /\ CopiesOlder /\ Remembers /\ Sent /\ Viewed
  BY DEF BoardInv
<1>1. UNCHANGED <<today, plan, board, sharing, saved, tick, planRow, boardRow, clock, mark, boardFile, clean, hit>>
  BY DEF Board!FetchPlans, Board!Spend, Board!Step, Board!owner, Board!remote, Board!viewer
<1>2. /\ look' \in Looks
      /\ look'.step = "boards"
      /\ look'.mark = look.seen
      /\ look'.seen = look.seen
      /\ look'.ok = look.ok
  BY <1>0 DEF Board!FetchPlans, Board!Spend, Board!Step, Board!owner, Board!remote, Board!viewer, BoardTypes, Looks
<1>3. /\ planFile' \in [Board!Days -> AnyRow]
      /\ \A e \in Board!Days : planFile'[e] \in {planRow[e], planFile[e], Board!NoRow}
      /\ \A e \in Board!Since(HistoryDays) : planFile'[e] = IF planRow[e].at > planFile[e].at THEN planRow[e] ELSE planFile[e]
      /\ \A e \in Board!Days : planFile'[e] = planRow[e] => planRow[e].at > planFile[e].at \/ planRow[e] \in {planFile[e], Board!NoRow}
  BY <1>0, Idle DEF Board!FetchPlans, Board!Spend, Board!Step, Board!owner, Board!remote, Board!viewer, BoardTypes, Board!Kept, Board!Newer, Board!Since
<1>4. look.step = "fetch"
  BY <1>0, Typed DEF Board!FetchPlans, Board!Spend, Board!Step, Board!owner, Board!remote, Board!viewer, Board!Due, Target, Board!BoardDue
<1>5. \A e \in Board!Since(HistoryDays) : planRow[e].at # 0 => planFile'[e] = planRow[e]
  BY <1>0, <1>1, <1>2, <1>3, <1>4, Typed, SinceDays DEF CopiesOlder, CopyOf
<1>6. Board!Since(PushDays) \subseteq Board!Since(HistoryDays)
  BY <1>0, Typed, BoardAssumption DEF Board!Since, Board!Days
<1>7. BoardTypes'
  BY <1>0, <1>1, <1>2, <1>3, <1>4, <1>5, <1>6, Idle DEF BoardTypes
<1>8. NotAhead'
  BY <1>0, <1>1, <1>2, <1>3, <1>4, <1>5, <1>6, Typed, Idle DEF NotAhead
<1>9. CopiesOlder'
  BY <1>0, <1>1, <1>2, <1>3, <1>4, <1>5, <1>6, Typed, Idle DEF CopiesOlder, CopyOf, NotAhead
<1>10. Remembers'
  BY <1>0, <1>1, <1>2, <1>3, <1>4, <1>5, <1>6, Typed, Idle DEF Remembers, Remote, Running, PlansDone, NotPushed
<1>11. Sent'
  BY <1>0, <1>1, <1>2, <1>3, <1>4, <1>5, <1>6, Typed, Idle DEF Sent, Target, Agreed, Running, PlansDone, Board!Since
<1>12. Viewed'
  <2>1. CopiedUpTo(mark)' /\ CopiedUpTo(look.mark)' /\ PlansCopied'
    BY <1>1, <1>2, <1>3, <1>4, <1>5, <1>6 DEF CopiedUpTo, PlansCopied, Board!Since
  <2>. QED  BY <1>0, <1>1, <1>2, <1>3, <1>4, <1>5, <1>6, <2>1 DEF Viewed
<1>. QED  BY <1>7, <1>8, <1>9, <1>10, <1>11, <1>12 DEF BoardInv

LEMMA LookFailsKeeps ==
  ASSUME BoardInv, Board!LookFails
  PROVE  BoardInv'
<1>0. BoardTypes /\ NotAhead /\ CopiesOlder /\ Remembers /\ Sent /\ Viewed
  BY DEF BoardInv
<1>1. UNCHANGED <<today, plan, board, sharing, saved, tick, planRow, boardRow, clock, mark, planFile, boardFile, clean, hit>>
  BY DEF Board!LookFails, Board!Spend, Board!Step, Board!owner, Board!remote, Board!viewer
<1>2. /\ look' \in Looks
      /\ look'.mark = look.mark
      /\ look'.seen = look.seen
      /\ ~look'.ok
  BY <1>0 DEF Board!LookFails, Board!Spend, Board!Step, Board!owner, Board!remote, Board!viewer, BoardTypes, Looks
<1>3. /\ look.step \in {"fetch", "boards"}
      /\ look'.step = IF look.step = "fetch" THEN "boards" ELSE "save"
  BY <1>0, Typed DEF Board!LookFails, Board!Spend, Board!Step, Board!owner, Board!remote, Board!viewer, Board!Due, Target, Board!BoardDue
<1>4. BoardTypes'
  BY <1>0, <1>1, <1>2, <1>3, Idle DEF BoardTypes
<1>5. NotAhead'
  BY <1>0, <1>1, <1>2, <1>3, Typed, Idle DEF NotAhead
<1>6. CopiesOlder'
  BY <1>0, <1>1, <1>2, <1>3, Typed, Idle DEF CopiesOlder, CopyOf, NotAhead
<1>7. Remembers'
  BY <1>0, <1>1, <1>2, <1>3, Typed, Idle DEF Remembers, Remote, Running, PlansDone, NotPushed
<1>8. Sent'
  BY <1>0, <1>1, <1>2, <1>3, Typed, Idle DEF Sent, Target, Agreed, Running, PlansDone, Board!Since
<1>9. Viewed'
  BY <1>0, <1>1, <1>2, <1>3, Typed, Idle DEF Viewed, CopiedUpTo, PlansCopied, Board!Since
<1>. QED  BY <1>4, <1>5, <1>6, <1>7, <1>8, <1>9 DEF BoardInv

LEMMA FetchBoardsKeeps ==
  ASSUME BoardInv, Board!FetchBoards
  PROVE  BoardInv'
<1>0. BoardTypes /\ NotAhead /\ CopiesOlder /\ Remembers /\ Sent /\ Viewed
  BY DEF BoardInv
<1>1. UNCHANGED <<today, plan, board, sharing, saved, tick, planRow, boardRow, clock, mark, planFile, clean, hit>>
  BY DEF Board!FetchBoards, Board!Spend, Board!Step, Board!owner, Board!remote, Board!viewer
<1>2. /\ look' \in Looks
      /\ look'.step = "save"
      /\ look'.mark = look.mark
      /\ look'.seen = look.seen
      /\ look'.ok = look.ok
  BY <1>0 DEF Board!FetchBoards, Board!Spend, Board!Step, Board!owner, Board!remote, Board!viewer, BoardTypes, Looks
<1>3. boardFile' = IF boardRow.at = 0 THEN Board!NoRow ELSE IF boardRow.at > boardFile.at THEN boardRow ELSE boardFile
  BY <1>0, Typed DEF Board!FetchBoards, Board!Spend, Board!Step, Board!owner, Board!remote, Board!viewer
<1>4. look.step = "boards"
  BY <1>0, Typed DEF Board!FetchBoards, Board!Spend, Board!Step, Board!owner, Board!remote, Board!viewer, Board!Due, Target, Board!BoardDue
<1>5. BoardTypes'
  BY <1>0, <1>1, <1>2, <1>3, <1>4, Idle DEF BoardTypes
<1>6. NotAhead'
  BY <1>0, <1>1, <1>2, <1>3, <1>4, Typed, Idle DEF NotAhead
<1>7. CopiesOlder'
  BY <1>0, <1>1, <1>2, <1>3, <1>4, Typed, Idle DEF CopiesOlder, CopyOf, NotAhead
<1>8. Remembers'
  BY <1>0, <1>1, <1>2, <1>3, <1>4, Typed, Idle DEF Remembers, Remote, Running, PlansDone, NotPushed
<1>9. Sent'
  BY <1>0, <1>1, <1>2, <1>3, <1>4, Typed, Idle DEF Sent, Target, Agreed, Running, PlansDone, Board!Since
<1>10. Viewed'
  BY <1>0, <1>1, <1>2, <1>3, <1>4, Typed, Idle DEF Viewed, CopiesOlder, CopyOf, CopiedUpTo, PlansCopied, Board!Since
<1>. QED  BY <1>5, <1>6, <1>7, <1>8, <1>9, <1>10 DEF BoardInv

LEMMA LookEndsKeeps ==
  ASSUME BoardInv, Board!LookEnds
  PROVE  BoardInv'
<1>0. BoardTypes /\ NotAhead /\ CopiesOlder /\ Remembers /\ Sent /\ Viewed
  BY DEF BoardInv
<1>1. UNCHANGED <<today, plan, board, sharing, saved, tick, planRow, boardRow, clock, planFile, boardFile, hit>>
  BY DEF Board!LookEnds, Board!Spend, Board!Step, Board!owner, Board!remote, Board!viewer
<1>2. look' = Board!NoLook
  BY <1>0 DEF Board!LookEnds, Board!Spend, Board!Step, Board!owner, Board!remote, Board!viewer, BoardTypes
<1>3. mark' = look.mark
  BY <1>0 DEF Board!LookEnds, Board!Spend, Board!Step, Board!owner, Board!remote, Board!viewer, BoardTypes
<1>4. /\ clean' \in Flags
      /\ clean'.sent = clean.sent
      /\ clean'.sending = clean.sending
      /\ clean'.seeing = clean.seeing
  BY <1>0 DEF Board!LookEnds, Board!Spend, Board!Step, Board!owner, Board!remote, Board!viewer, BoardTypes, Flags
<1>5. /\ clean'.seen => clean.seen \/ (look.ok /\ clean.seeing)
      /\ look.step = "save"
  BY <1>0 DEF Board!LookEnds, Board!Spend, Board!Step, Board!owner, Board!remote, Board!viewer, BoardTypes, Flags
<1>6. BoardTypes'
  BY <1>0, <1>1, <1>2, <1>3, <1>4, <1>5, Idle, Typed DEF BoardTypes
<1>7. NotAhead'
  BY <1>0, <1>1, <1>2, <1>3, <1>4, <1>5, Typed, Idle DEF NotAhead
<1>8. CopiesOlder'
  BY <1>0, <1>1, <1>2, <1>3, <1>4, <1>5, Typed, Idle DEF CopiesOlder, CopyOf, NotAhead
<1>9. Remembers'
  BY <1>0, <1>1, <1>2, <1>3, <1>4, <1>5, Typed, Idle DEF Remembers, Remote, Running, PlansDone, NotPushed
<1>10. Sent'
  BY <1>0, <1>1, <1>2, <1>3, <1>4, <1>5, Typed, Idle DEF Sent, Target, Agreed, Running, PlansDone, Board!Since
<1>11. Viewed'
  BY <1>0, <1>1, <1>2, <1>3, <1>4, <1>5, Typed, Idle DEF Viewed, CopiedUpTo, PlansCopied, Board!Since
<1>. QED  BY <1>6, <1>7, <1>8, <1>9, <1>10, <1>11 DEF BoardInv

LEMMA LookCutOffKeeps ==
  ASSUME BoardInv, Board!LookCutOff
  PROVE  BoardInv'
<1>0. BoardTypes /\ NotAhead /\ CopiesOlder /\ Remembers /\ Sent /\ Viewed
  BY DEF BoardInv
<1>1. UNCHANGED <<today, plan, board, sharing, saved, tick, planRow, boardRow, clock, mark, planFile, boardFile, hit>>
  BY DEF Board!LookCutOff, Board!Spend, Board!Step, Board!owner, Board!remote, Board!viewer
<1>2. look' = Board!NoLook
  BY <1>0 DEF Board!LookCutOff, Board!Spend, Board!Step, Board!owner, Board!remote, Board!viewer, BoardTypes
<1>3. /\ clean' \in Flags
      /\ clean'.sent = clean.sent
      /\ clean'.sending = clean.sending
      /\ clean'.seen = clean.seen
      /\ ~clean'.seeing
  BY <1>0 DEF Board!LookCutOff, Board!Spend, Board!Step, Board!owner, Board!remote, Board!viewer, BoardTypes, Flags
<1>4. BoardTypes'
  BY <1>0, <1>1, <1>2, <1>3, Idle DEF BoardTypes
<1>5. NotAhead'
  BY <1>0, <1>1, <1>2, <1>3, Typed, Idle DEF NotAhead
<1>6. CopiesOlder'
  BY <1>0, <1>1, <1>2, <1>3, Typed, Idle DEF CopiesOlder, CopyOf, NotAhead
<1>7. Remembers'
  BY <1>0, <1>1, <1>2, <1>3, Typed, Idle DEF Remembers, Remote, Running, PlansDone, NotPushed
<1>8. Sent'
  BY <1>0, <1>1, <1>2, <1>3, Typed, Idle DEF Sent, Target, Agreed, Running, PlansDone, Board!Since
<1>9. Viewed'
  BY <1>0, <1>1, <1>2, <1>3, Typed, Idle DEF Viewed, CopiedUpTo, PlansCopied, Board!Since
<1>. QED  BY <1>4, <1>5, <1>6, <1>7, <1>8, <1>9 DEF BoardInv

LEMMA BoardNext == BoardInv /\ [Board!Next]_Board!vars => BoardInv'
<1>. SUFFICES ASSUME BoardInv, [Board!Next]_Board!vars PROVE BoardInv'
  OBVIOUS
<1>1. CASE UNCHANGED Board!vars
  <2>1. UNCHANGED <<today, plan, board, sharing, saved, tick, planRow, boardRow, clock, mark, look, planFile, boardFile, clean, hit>>
    BY <1>1 DEF Board!vars, Board!owner, Board!remote, Board!viewer
  <2>2. BoardTypes' /\ NotAhead' /\ CopiesOlder' /\ Remembers' /\ Sent' /\ Viewed'
    BY <2>1 DEF BoardInv, BoardTypes, NotAhead, CopiesOlder, CopyOf, Remembers, Remote, Running, PlansDone, NotPushed,
                Sent, Target, Agreed, Viewed, CopiedUpTo, PlansCopied, Board!Since
  <2>. QED  BY <2>2 DEF BoardInv
<1>2. CASE \E d \in Board!Days, c \in Contents : Board!EditPlan(d, c)
  BY <1>2, EditPlanKeeps
<1>3. CASE \E c \in Contents : Board!EditBoard(c)
  BY <1>3, EditBoardKeeps
<1>4. CASE \E on \in BOOLEAN : Board!Share(on)
  BY <1>4, ShareKeeps
<1>5. CASE Board!NextDay
  BY <1>5, NextDayKeeps
<1>6. CASE Board!TickStarts
  BY <1>6, TickStartsKeeps
<1>7. CASE \E d \in Board!Days : Board!PushPlan(d)
  BY <1>7, PushPlanKeeps
<1>8. CASE \E d \in Board!Days : Board!PushPlanFails(d)
  BY <1>8, PushPlanFailsKeeps
<1>9. CASE Board!PlansPushed
  BY <1>9, PlansPushedKeeps
<1>10. CASE Board!Purge
  BY <1>10, PurgeKeeps
<1>11. CASE Board!PurgeFails
  BY <1>11, PurgeFailsKeeps
<1>12. CASE Board!PushBoard
  BY <1>12, PushBoardKeeps
<1>13. CASE Board!PushBoardFails
  BY <1>13, PushBoardFailsKeeps
<1>14. CASE Board!BoardInOrder
  BY <1>14, BoardInOrderKeeps
<1>15. CASE Board!TickEnds
  BY <1>15, TickEndsKeeps
<1>16. CASE Board!TickCutOff
  BY <1>16, TickCutOffKeeps
<1>17. CASE Board!LookStarts
  BY <1>17, LookStartsKeeps
<1>18. CASE Board!FetchPlans
  BY <1>18, FetchPlansKeeps
<1>19. CASE Board!LookFails
  BY <1>19, LookFailsKeeps
<1>20. CASE Board!FetchBoards
  BY <1>20, FetchBoardsKeeps
<1>21. CASE Board!LookEnds
  BY <1>21, LookEndsKeeps
<1>22. CASE Board!LookCutOff
  BY <1>22, LookCutOffKeeps
<1>. QED  BY <1>1, <1>2, <1>3, <1>4, <1>5, <1>6, <1>7, <1>8, <1>9, <1>10, <1>11, <1>12, <1>13, <1>14, <1>15,
             <1>16, <1>17, <1>18, <1>19, <1>20, <1>21, <1>22 DEF Board!Next

\* What is copied is what was sent, and what was sent is what is remembered.
LEMMA BoardHolds == BoardInv => Board!PlansShown /\ Board!BoardShown
<1>. SUFFICES ASSUME BoardInv, clean.seen PROVE Board!PlansShown /\ Board!BoardShown
  BY DEF Board!PlansShown, Board!BoardShown
<1>0. BoardTypes /\ NotAhead /\ Remembers /\ Sent /\ Viewed
  BY DEF BoardInv
<1>1. clean.sent /\ PlansCopied /\ boardFile = boardRow /\ saved.hash = Target /\ Agreed(saved.pushed)
  BY <1>0 DEF Sent, Viewed
<1>2. Board!BoardShown
  <2>1. ~hit => boardRow.c = Target
    BY <1>0, <1>1 DEF Remembers, Sent, Running
  <2>. QED  BY <1>1, <2>1 DEF Board!BoardShown, Board!ShownBoard, Target
<1>3. ASSUME ~hit, NEW d \in Board!Since(PushDays), d <= today, plan[d] # NoContent
      PROVE  planRow[d].at # 0 /\ planFile[d] = planRow[d] /\ planRow[d].c = plan[d]
  <2>1. d \in Board!Days /\ saved.pushed[d] = plan[d] /\ (Running => tick.keep[d] = plan[d])
    BY <1>0, <1>1, <1>3, SinceDays DEF Agreed, Sent
  <2>2. d + RetentionDays >= today
    BY <1>0, <1>3, <2>1, Typed, BoardAssumption DEF Board!Since
  <2>3. Remote(d, saved.pushed[d])
    BY <1>0, <1>3, <2>1 DEF Remembers, NotPushed
  <2>4. planRow[d].c = plan[d] /\ planRow[d].at # 0
    BY <1>3, <2>1, <2>2, <2>3 DEF Remote
  <2>. QED  BY <1>1, <1>3, <2>4 DEF PlansCopied
<1>4. ASSUME ~hit, plan[today] # NoContent
      PROVE  Board!ShownToday = [c |-> plan[today], stale |-> FALSE]
  <2>1. today \in Board!Since(PushDays) /\ today <= today /\ today \in Board!Days
    BY <1>0, Typed, BoardAssumption DEF Board!Since, BoardTypes
  <2>2. today \in Board!Copied /\ planFile[today].c = plan[today]
    BY <1>3, <1>4, <2>1 DEF Board!Copied
  <2>3. \A e \in Board!Copied : e <= today /\ e \in Nat
    BY <1>0, Typed DEF Board!Copied, NotAhead
  <2>4. \A e \in Board!Copied : (\A f \in Board!Copied : f <= e) => e = today
    BY <2>2, <2>3, <1>0, Typed
  <2>5. (CHOOSE e \in Board!Copied : \A f \in Board!Copied : f <= e) = today
    BY <2>2, <2>3, <2>4
  <2>. QED  BY <2>2, <2>5 DEF Board!ShownToday
<1>. QED
  <2>1. \A d \in Board!Since(PushDays) : planRow[d].at # 0 => planFile[d] = planRow[d]
    BY <1>1 DEF PlansCopied
  <2>2. ASSUME ~hit, NEW d \in Board!Since(PushDays), d <= today, plan[d] # NoContent
        PROVE  Board!ShownOn(d).c = plan[d] /\ d \in Board!ShownOn(d).dates
    <3>1. planFile[d].c = plan[d] /\ planFile[d].at # 0 /\ d \in Board!Days
      BY <1>3, <2>2, SinceDays
    <3>. QED  BY <3>1 DEF Board!ShownOn, Board!Copied
  <2>. QED  BY <1>2, <1>4, <2>1, <2>2 DEF Board!PlansShown

\* After a tick of the owner and a look of the viewer without an error the
\* viewer has the rows of the owner, and unless the owner forgot something it
\* sent they are what the owner has, through any lost answers, jobs cut off,
\* purges and turns of the day (team/sync.ts).
THEOREM BoardAlwaysShown == Board!Spec => [](Board!PlansShown /\ Board!BoardShown)
<1>. QED  BY BoardInit, BoardNext, BoardHolds, PTL DEF Board!Spec

\* The same of the sum of the parts, of which one runs at a time.
THEOREM TeammateAlwaysSees == PartsSpec => []TeammateSees
<1>. DEFINE Inv == part = "board" => BoardInv
<1>1. Parts => Inv
  BY BoardInit DEF Parts
<1>2. Inv /\ [Step]_<<part, queueVars, boardVars, memberVars>> => Inv'
  <2>. SUFFICES ASSUME Inv, [Step]_<<part, queueVars, boardVars, memberVars>>, part' = "board"
                PROVE  BoardInv'
    OBVIOUS
  <2>1. part = "board" /\ [Board!Next]_Board!vars
    BY DEF Step, boardVars, Board!vars, Board!owner, Board!remote, Board!viewer
  <2>. QED  BY <2>1, BoardNext
<1>3. Inv => TeammateSees
  BY BoardHolds DEF TeammateSees
<1>. QED  BY <1>1, <1>2, <1>3, PTL DEF PartsSpec

=============================================================================
