------------------------- MODULE Conversation_proofs -------------------------
(***************************************************************************)
(* What the agents of one conversation promise, proved for any number of   *)
(* messages and configurations: never two at work at once, as long as      *)
(* cards can be sent and the service lives, and each resumes the thread    *)
(* that is current, and none made under another policy, whatever fails.    *)
(*                                                                         *)
(* After it three parts of the sum of MC_Interaction: the rules and the    *)
(* chats they are worked out in (PolicyRules), what the review of a day    *)
(* asks of progress that is not synced (SyncDrift), and what runs and days *)
(* spend (TokenMeter).                                                     *)
(***************************************************************************)
EXTENDS MC_Interaction, FiniteSetTheorems, TLAPS

Agent == [child : {"unborn", "running", "exited", "closed"},
          good : BOOLEAN, stopped : BOOLEAN, term : BOOLEAN,
          orphan : BOOLEAN, resumes : Runs \union {0},
          thread : Runs \union {0}, policy : Policies]
Work == [pc : {"none", "reply", "apology", "stopping", "starting", "sending", "working", "closing"},
         msgs : SUBSET Msgs, policy : Policies, thread : Runs \union {0}, run : Runs \union {0}]
Sessions == [policy : Policies \union {"none"}, thread : Runs \union {0}]

Typed ==
  /\ kind \in [Msgs -> Kinds \union {"click", "unsent"}] /\ batch \subseteq Msgs
  /\ work \in Work /\ active \in Runs \union {0} /\ agent \in [Runs -> Agent]
  /\ status \in [Runs -> {"none", "running", "stopping", "success", "stopped", "failed"}]
  /\ op \in [Msgs -> [pc : {"none", "marking", "waiting"}, run : Runs \union {0}]]
  /\ session \in Sessions /\ policy \in Policies /\ over \subseteq Msgs
  /\ mishaps \subseteq {"card", "death"} /\ left \in Load
  /\ blocked = (work.pc # "none") /\ timer = (batch # {} /\ ~blocked)

Born(r) == agent[r].child # "unborn"
Threaded(r) == agent[r].thread # 0 /\ status[r] \in {"success", "stopped"}

\* The messages that were sent are the first ones; what was not sent is nowhere.
SentInOrder ==
  /\ \E c \in 0..MaxMsgs : {n \in Msgs : kind[n] # "unsent"} = 1..c
  /\ \A m \in Msgs : kind[m] = "unsent" => m \notin batch \union work.msgs /\ op[m] = NoOp

\* A stop that is under way is in no batch, but the one that it is alone.
StopsApart ==
  \A m \in Msgs : op[m].pc # "none" =>
    /\ m \notin batch /\ op[m].run \in Runs
    /\ m \in work.msgs => work.pc = "stopping" /\ work.msgs = {m}

\* Agents are started in their order; one whose thread was kept is over.
AgentsInLine ==
  \A r \in Runs :
    /\ Born(r) => \A q \in Runs : q < r => Born(q)
    /\ ~Born(r) => agent[r].resumes = 0
    /\ agent[r].thread \in {0, r}
    /\ status[r] \in {"success", "stopped"} => agent[r].child = "closed"

\* The batch that is handled: the session was made for its policy, and its
\* agent is the latest one.
WithAgent == work.pc \in {"sending", "working", "closing"}
WorkInLine ==
  /\ work.pc = "starting" => work.thread = session.thread
  /\ work.pc \in {"starting", "sending", "working"} => session.policy = work.policy
  /\ WithAgent =>
       /\ work.run \in Runs /\ Born(work.run) /\ \A r \in Runs : Born(r) => r <= work.run
       /\ agent[work.run].policy = work.policy
       /\ work.pc = "closing" => agent[work.run].child = "closed"

\* The session's thread was made under its policy, by an agent after which none
\* worked under another one, and none had its thread kept.
SessionInLine ==
  session.thread # 0 =>
    /\ session.thread \in Runs /\ Born(session.thread)
    /\ \A r \in Runs : Born(r) /\ r >= session.thread => agent[r].policy = session.policy
    /\ \A r \in Runs : Born(r) /\ r > session.thread => ~Threaded(r)

\* As long as nothing goes wrong, the only agent at work is that of the batch.
OneAtATime ==
  mishaps = {} =>
    /\ active # 0 <=> WithAgent
    /\ active # 0 => work.run = active
    /\ \A r \in Runs : agent[r].child \in {"running", "exited"} => r = active

IInv ==
  /\ Typed /\ SentInOrder /\ StopsApart /\ AgentsInLine /\ WorkInLine /\ SessionInLine
  /\ ResumesLatest /\ OneAtATime

LEMMA InitInv == ASSUME Init PROVE IInv
<1>1. policy \in Policies /\ left \in Load
  BY PoliciesAssumption, LoadAssumption DEF Init
<1>2. NoAgent(policy) \in Agent /\ Idle(policy) \in Work
  BY <1>1 DEF NoAgent, Idle, Agent, Work
<1>3. NoOp \in [pc : {"none", "marking", "waiting"}, run : Runs \union {0}] /\ NoSession \in Sessions
  BY DEF NoOp, NoSession, Sessions
<1>4. work.pc = "none" /\ work.msgs = {} /\ session.thread = 0
  BY DEF Init, Idle, NoSession
<1>5. agent \in [Runs -> Agent] /\ work \in Work /\ session \in Sessions
  BY <1>2, <1>3 DEF Init
<1>6. Typed
  BY <1>1, <1>3, <1>4, <1>5 DEF Init, Typed
<1>7. \A r \in Runs : agent[r].child = "unborn" /\ agent[r].resumes = 0 /\ agent[r].thread = 0
  BY DEF Init, NoAgent
<1>8. {n \in Msgs : kind[n] # "unsent"} = 1..0
  BY DEF Init
<1>9. SentInOrder
  BY <1>4, <1>8, MsgsAssumption DEF Init, SentInOrder
<1>10. StopsApart
  BY DEF Init, StopsApart, NoOp
<1>11. AgentsInLine
  BY <1>7 DEF Init, AgentsInLine, Born
<1>12. ResumesLatest
  BY <1>7 DEF ResumesLatest
<1>. QED  BY <1>4, <1>6, <1>7, <1>9, <1>10, <1>11, <1>12
          DEF IInv, WorkInLine, SessionInLine, OneAtATime, WithAgent, Init

LEMMA Types == ASSUME IInv PROVE Typed
BY DEF IInv

LEMMA InvFollows == ASSUME IInv PROVE TypeOK /\ AgentsKept
<1>. DEFINE A == {r \in Runs : agent[r].child \in {"running", "exited"}}
<1>1. ASSUME mishaps = {} PROVE Cardinality(A) <= 1
  <2>1. A \subseteq {active}
    BY <1>1 DEF IInv, OneAtATime
  <2>2. IsFiniteSet({active}) /\ Cardinality({active}) = 1
    BY FS_Singleton
  <2>3. Cardinality(A) <= Cardinality({active})
    BY <2>1, <2>2, FS_Subset
  <2>. QED  BY <2>2, <2>3
<1>2. TypeOK
  BY Types DEF Typed, TypeOK, Agent, Work, Sessions
<1>. QED  BY <1>1, <1>2 DEF IInv, AgentsKept, OneAgentPerScope

(***************************************************************************)
(* What most steps leave alone                                             *)
(***************************************************************************)
\* b is what the agent a may have become: it goes on to its end, and once it
\* has ended nothing is learned of it any more.
Later(a, b) ==
  /\ b.policy = a.policy /\ b.resumes = a.resumes
  /\ a.child = "unborn" <=> b.child = "unborn"
  /\ a.child = "closed" => b.child = "closed" /\ b.thread = a.thread
  /\ b.child \in {"running", "exited"} => a.child \in {"running", "exited"}

AgentsLater == \A r \in Runs : Later(agent[r], agent'[r]) /\ agent'[r].thread \in {0, r}

\* No card comes to show the end of its agent.
NoneEnds == \A r \in Runs : status'[r] \in {"success", "stopped"} => status'[r] = status[r]

LEMMA SameAgents == ASSUME IInv, agent' = agent PROVE AgentsLater
BY DEF IInv, AgentsInLine, AgentsLater, Later

LEMMA SameCards == ASSUME status' = status PROVE NoneEnds
BY DEF NoneEnds

LEMMA ThreadedStays == 
  ASSUME IInv, AgentsLater, NoneEnds, NEW r \in Runs, ~Threaded(r) PROVE ~Threaded(r)'
BY DEF IInv, AgentsInLine, AgentsLater, Later, NoneEnds, Threaded

LEMMA LineKeeps ==
  ASSUME IInv, AgentsLater, NoneEnds PROVE AgentsInLine' /\ ResumesLatest'
<1>1. AgentsInLine'
  BY DEF IInv, AgentsInLine, AgentsLater, Later, NoneEnds, Born
<1>2. ResumesLatest'
  <2>. SUFFICES ASSUME NEW r \in Runs, agent'[r].resumes # 0
       PROVE  LET t == agent'[r].resumes IN
              /\ t < r
              /\ \A u \in t..(r - 1) : agent'[u].policy = agent'[r].policy
              /\ \A u \in (t + 1)..(r - 1) :
                   agent'[u].thread # 0 => status'[u] \notin {"success", "stopped"}
    BY DEF ResumesLatest
  <2>. DEFINE t == agent[r].resumes
  <2>1. agent'[r].resumes = t /\ t # 0 /\ t \in Runs
    BY Types DEF AgentsLater, Later, Typed, Agent
  <2>2. /\ t < r /\ \A u \in t..(r - 1) : agent[u].policy = agent[r].policy
        /\ \A u \in (t + 1)..(r - 1) : ~Threaded(u)
    BY <2>1 DEF IInv, ResumesLatest, Threaded
  <2>3. (\A u \in t..(r - 1) : u \in Runs) /\ (\A u \in (t + 1)..(r - 1) : u \in t..(r - 1))
    <3>. HIDE DEF t
    <3>. QED  BY <2>1, MsgsAssumption DEF Runs
  <2>4. \A u \in t..(r - 1) : agent'[u].policy = agent'[r].policy
    BY <2>2, <2>3 DEF AgentsLater, Later
  <2>5. \A u \in (t + 1)..(r - 1) : u \in Runs /\ ~Threaded(u)
    BY <2>2, <2>3
  <2>6. \A u \in (t + 1)..(r - 1) : ~(agent'[u].thread # 0 /\ status'[u] \in {"success", "stopped"})
    BY <2>5, ThreadedStays DEF Threaded
  <2>. QED  BY <2>1, <2>2, <2>4, <2>6
<1>. QED  BY <1>1, <1>2

LEMMA SessionKeeps ==
  ASSUME IInv, AgentsLater, NoneEnds, session' = session \/ session'.thread = 0
  PROVE  SessionInLine'
<1>1. CASE session'.thread = 0
  BY <1>1 DEF SessionInLine
<1>2. CASE session' = session
  <2>1. \A r \in Runs : Born(r)' = Born(r) /\ agent'[r].policy = agent[r].policy
                        /\ (~Threaded(r) => ~Threaded(r)')
    BY ThreadedStays DEF AgentsLater, Later, Born
  <2>. QED  BY <1>2, <2>1 DEF IInv, SessionInLine
<1>. QED  BY <1>1, <1>2

LEMMA WorkKeeps ==
  ASSUME IInv, AgentsLater, work' = work, session' = session PROVE WorkInLine'
BY DEF IInv, WorkInLine, WithAgent, AgentsLater, Later, Born

LEMMA OneKeeps ==
  ASSUME IInv, AgentsLater, work' = work, active' = active, mishaps' = mishaps PROVE OneAtATime'
BY DEF IInv, OneAtATime, WithAgent, AgentsLater, Later

LEMMA MessagesKeep ==
  ASSUME IInv, kind' = kind, batch' \subseteq batch, work'.msgs = {} \/ work'.msgs = work.msgs,
         \A m \in Msgs : op'[m] = op[m] \/ op'[m] = NoOp,
         work'.msgs # {} => (work.pc = "stopping" => work'.pc = "stopping")
  PROVE  SentInOrder' /\ StopsApart'
BY DEF IInv, SentInOrder, StopsApart, NoOp

LEMMA LessLeft ==
  ASSUME IInv
  PROVE  /\ left.msgs > 0 => [left EXCEPT !.msgs = @ - 1] \in Load
         /\ left.changes > 0 => [left EXCEPT !.changes = @ - 1] \in Load
         /\ left.faults > 0 => [left EXCEPT !.faults = @ - 1] \in Load
<1>. left \in Load
  BY Types DEF Typed
<1>1. left.msgs > 0 => [left EXCEPT !.msgs = @ - 1] \in Load
  BY MsgsAssumption DEF Load
<1>2. left.changes > 0 => [left EXCEPT !.changes = @ - 1] \in Load
  BY DEF Load
<1>3. left.faults > 0 => [left EXCEPT !.faults = @ - 1] \in Load
  BY DEF Load
<1>. QED  BY <1>1, <1>2, <1>3

\* A stop begins: it is for the agent that is listed, whose card comes to say so.
LEMMA StopBegins ==
  ASSUME IInv, NEW m \in Msgs, active # 0, BeginStop(m)
  PROVE  /\ op' \in [Msgs -> [pc : {"none", "marking", "waiting"}, run : Runs \union {0}]]
         /\ status' \in [Runs -> {"none", "running", "stopping", "success", "stopped", "failed"}]
         /\ NoneEnds /\ op'[m].run \in Runs
         /\ \A n \in Msgs : n # m => op'[n] = op[n]
<1>1. active \in Runs
  BY Types DEF Typed
<1>2. PICK o : o = [pc |-> "marking", run |-> active]
  OBVIOUS
<1>3. o \in [pc : {"none", "marking", "waiting"}, run : Runs \union {0}] /\ o.run = active
  BY <1>1, <1>2
<1>4. op' = [op EXCEPT ![m] = o]
  BY <1>2 DEF BeginStop, CardTells
<1>5. status' = [status EXCEPT ![active] = "stopping"]
  BY DEF BeginStop, CardTells
<1>6. NoneEnds
  BY <1>1, <1>5, Types DEF NoneEnds, Typed
<1>. QED  BY <1>1, <1>3, <1>4, <1>5, <1>6, Types DEF Typed

\* A message is the next one, of which nothing was known.
LEMMA Says ==
  ASSUME IInv, NEW m \in Msgs, NEW k \in Kinds \union {"click"}, Say(m, k)
  PROVE  /\ m \notin batch \union work.msgs /\ op[m] = NoOp /\ op[m].pc = "none" /\ left' \in Load
         /\ kind' \in [Msgs -> Kinds \union {"click", "unsent"}] /\ kind'[m] = k
         /\ \A n \in Msgs : n # m => kind'[n] = kind[n]
         /\ \E c \in 0..MaxMsgs : {n \in Msgs : kind'[n] # "unsent"} = 1..c
<1>1. PICK c \in 0..MaxMsgs : {n \in Msgs : kind[n] # "unsent"} = 1..c
  BY DEF IInv, SentInOrder
<1>2. c \in Nat /\ Cardinality(1..c) = c
  BY <1>1, MsgsAssumption, FS_Interval
<1>3. m = c + 1
  <2>1. PICK S : S = {n \in Msgs : kind[n] # "unsent"}
    OBVIOUS
  <2>2. Cardinality(S) = c
    BY <1>1, <1>2, <2>1
  <2>3. m = 1 + Cardinality(S)
    BY <2>1 DEF Say
  <2>. QED  BY <1>2, <2>2, <2>3
<1>4. kind[m] = "unsent"
  BY <1>1, <1>2, <1>3
<1>5. kind' = [kind EXCEPT ![m] = k] /\ k # "unsent"
  BY DEF Say, Kinds
<1>6. {n \in Msgs : kind'[n] # "unsent"} = 1..(c + 1)
  <2>1. \A n \in Msgs : kind'[n] # "unsent" <=> n \in 1..c \/ n = m
    BY <1>1, <1>5, Types DEF Typed
  <2>2. \A n \in 1..(c + 1) : n \in Msgs
    BY <1>2, <1>3, MsgsAssumption DEF Msgs
  <2>3. \A n \in Msgs : n \in 1..(c + 1) <=> n \in 1..c \/ n = c + 1
    BY <1>2 DEF Msgs
  <2>. QED  BY <1>3, <2>1, <2>2, <2>3
<1>7. c + 1 \in 0..MaxMsgs
  BY <1>2, <1>3, MsgsAssumption DEF Msgs
<1>8. m \notin batch \union work.msgs /\ op[m] = NoOp /\ op[m].pc = "none"
  BY <1>4 DEF IInv, SentInOrder, NoOp
<1>9. left' \in Load
  BY LessLeft DEF Say
<1>. QED  BY <1>5, <1>6, <1>7, <1>8, <1>9, Types DEF Typed

\* What a message leaves alone: the batch that is handled, and its agents.
LEMMA SayKeeps ==
  ASSUME IInv, NEW m \in Msgs, NEW k, Say(m, k), NoneEnds
  PROVE  AgentsInLine' /\ ResumesLatest' /\ SessionInLine' /\ WorkInLine' /\ OneAtATime'
BY SameAgents, LineKeeps, SessionKeeps, WorkKeeps, OneKeeps DEF Say

\* The new message is pushed, or is a stop for the agent that is listed.
LEMMA NextKeeps ==
  ASSUME IInv, NEW m \in Msgs, NEW k \in Kinds \union {"click"}, Say(m, k),
         \A n \in Msgs : n # m => op'[n] = op[n],
         \/ batch' = batch \union {m} /\ op'[m].pc = "none"
         \/ batch' = batch /\ (op'[m].pc # "none" => op'[m].run \in Runs)
  PROVE  SentInOrder' /\ StopsApart'
<1>1. m \notin batch \union work.msgs /\ kind'[m] # "unsent" /\ \A n \in Msgs : n # m => kind'[n] = kind[n]
  BY Says DEF Kinds
<1>2. \E c \in 0..MaxMsgs : {n \in Msgs : kind'[n] # "unsent"} = 1..c
  BY Says
<1>3. work' = work
  BY DEF Say
<1>4. SentInOrder'
  BY <1>1, <1>2, <1>3 DEF IInv, SentInOrder
<1>5. StopsApart'
  BY <1>1, <1>3 DEF IInv, StopsApart
<1>. QED  BY <1>4, <1>5

LEMMA SendStep ==
  ASSUME IInv, NEW m \in Msgs, NEW k \in Kinds, Send(m, k) PROVE IInv'
<1>0. Say(m, k)
  BY DEF Send
<1>1. CASE k = "stop" /\ active # 0
  <2>1. BeginStop(m) /\ UNCHANGED queue
    BY <1>1 DEF Send
  <2>2. /\ op' \in [Msgs -> [pc : {"none", "marking", "waiting"}, run : Runs \union {0}]]
        /\ status' \in [Runs -> {"none", "running", "stopping", "success", "stopped", "failed"}]
        /\ NoneEnds /\ op'[m].run \in Runs /\ \A n \in Msgs : n # m => op'[n] = op[n]
    BY <1>1, <2>1, StopBegins
  <2>3. SentInOrder' /\ StopsApart'
    BY <1>0, <2>1, <2>2, NextKeeps DEF Kinds, Say, queue
  <2>4. Typed'
    <3>1. UNCHANGED <<work, active, agent, session, policy, mishaps, batch, timer, blocked, over>>
      BY <1>0, <2>1 DEF Send, Say, queue
    <3>2. kind' \in [Msgs -> Kinds \union {"click", "unsent"}] /\ left' \in Load
      BY <1>0, Says
    <3>. QED  BY <2>2, <3>1, <3>2, Types DEF Typed
  <2>. QED  BY <1>0, <2>2, <2>3, <2>4, SayKeeps DEF IInv
<1>2. CASE ~(k = "stop" /\ active # 0)
  <2>1. Push(m) /\ op' = op /\ status' = status
    BY <1>2 DEF Send
  <2>2. NoneEnds
    BY <2>1, SameCards
  <2>3. SentInOrder' /\ StopsApart'
    <3>1. op'[m].pc = "none"
      BY <1>0, <2>1, Says
    <3>. QED  BY <1>0, <2>1, <3>1, NextKeeps DEF Kinds, Push
  <2>4. Typed'
    BY <1>0, <2>1, Says, Types DEF Typed, Send, Say, Push, Kinds
  <2>. QED  BY <1>0, <2>2, <2>3, <2>4, SayKeeps DEF IInv
<1>. QED  BY <1>1, <1>2

LEMMA PressStep ==
  ASSUME IInv, NEW m \in Msgs, Press(m) PROVE IInv'
<1>0. Say(m, "click") /\ UNCHANGED queue
  BY DEF Press
<1>1. CASE active # 0
  <2>1. BeginStop(m) /\ UNCHANGED over
    BY <1>1 DEF Press
  <2>2. /\ op' \in [Msgs -> [pc : {"none", "marking", "waiting"}, run : Runs \union {0}]]
        /\ status' \in [Runs -> {"none", "running", "stopping", "success", "stopped", "failed"}]
        /\ NoneEnds /\ op'[m].run \in Runs /\ \A n \in Msgs : n # m => op'[n] = op[n]
    BY <1>1, <2>1, StopBegins
  <2>3. SentInOrder' /\ StopsApart'
    BY <1>0, <2>2, NextKeeps DEF queue
  <2>4. Typed'
    BY <1>0, <2>1, <2>2, Says, Types DEF Typed, Say, queue
  <2>. QED  BY <1>0, <2>2, <2>3, <2>4, SayKeeps DEF IInv
<1>2. CASE active = 0
  <2>1. op' = op /\ status' = status /\ over' = over \union {m}
    BY <1>2 DEF Press
  <2>2. NoneEnds
    BY <2>1, SameCards
  <2>3. SentInOrder' /\ StopsApart'
    <3>1. op'[m].pc = "none"
      BY <1>0, <2>1, Says
    <3>. QED  BY <1>0, <2>1, <3>1, NextKeeps DEF queue
  <2>4. Typed'
    BY <1>0, <2>1, Says, Types DEF Typed, Say, queue
  <2>. QED  BY <1>0, <2>2, <2>3, <2>4, SayKeeps DEF IInv
<1>. QED  BY <1>1, <1>2

(***************************************************************************)
(* The batch                                                               *)
(***************************************************************************)
\* The session is made for the policy; its thread is kept under the same one.
LEMMA EnsuredIs ==
  ASSUME NEW s \in Sessions, NEW p \in Policies, NEW t \in Runs \union {0}, NEW f, f = Ensured(s, p, t)
  PROVE  /\ f \in Sessions /\ f.policy = p
         /\ t # 0 => f.thread = t
         /\ t = 0 => f = s \/ f.thread = 0
<1>1. CASE s.policy = p
  <2>1. f = [s EXCEPT !.thread = IF t = 0 THEN @ ELSE t]
    BY <1>1 DEF Ensured
  <2>. QED  BY <1>1, <2>1 DEF Sessions
<1>2. CASE s.policy # p
  <2>1. f = [policy |-> p, thread |-> t]
    BY <1>2 DEF Ensured
  <2>. QED  BY <2>1 DEF Sessions
<1>. QED  BY <1>1, <1>2

LEMMA FlushStep == ASSUME IInv, Flush PROVE IInv'
<1>1. PICK f : f = Ensured(session, policy, 0)
  OBVIOUS
<1>2. f \in Sessions /\ f.policy = policy /\ (f = session \/ f.thread = 0)
  BY <1>1, EnsuredIs, Types DEF Typed
<1>. DEFINE taken(pc) == [pc |-> pc, msgs |-> batch, policy |-> policy, thread |-> f.thread, run |-> 0]
<1>3. /\ timer /\ ~blocked /\ timer' = FALSE /\ blocked' = TRUE /\ batch' = {}
      /\ UNCHANGED <<kind, active, agent, policy, over, mishaps, left>>
  BY DEF Flush
<1>4. work.pc = "none"
  BY <1>3, Types DEF Typed
<1>5. AgentsLater
  BY <1>3, SameAgents
<1>6. ASSUME NEW pc \in {"reply", "stopping", "starting"}, work' = taken(pc),
             session' = NoSession \/ session' = f, pc = "starting" => session' = f,
             NoneEnds,
             status' \in [Runs -> {"none", "running", "stopping", "success", "stopped", "failed"}],
             op' \in [Msgs -> [pc : {"none", "marking", "waiting"}, run : Runs \union {0}]],
             \A m \in Msgs : op'[m] = op[m] \/ (batch = {m} /\ op'[m].run \in Runs /\ pc = "stopping")
      PROVE  IInv'
  <2>1. work' \in Work /\ work'.pc = pc /\ work'.msgs = batch /\ work'.policy = policy /\ work'.thread = f.thread
    <3>1. f.thread \in Runs \union {0}
      BY <1>2 DEF Sessions
    <3>. QED  BY <1>6, <3>1, Types DEF Typed, Work
  <2>2. session' \in Sessions /\ (session' = session \/ session'.thread = 0)
    BY <1>2, <1>6 DEF NoSession, Sessions
  <2>3. Typed'
    BY <1>3, <1>6, <2>1, <2>2, Types DEF Typed
  <2>4. SentInOrder'
    <3>1. \A m \in Msgs : kind[m] = "unsent" => m \notin batch /\ op[m] = NoOp
      BY DEF IInv, SentInOrder
    <3>2. kind' = kind /\ batch' = {} /\ work'.msgs = batch
      BY <1>3, <2>1
    <3>3. \A m \in Msgs : kind'[m] = "unsent" => m \notin batch' \union work'.msgs /\ op'[m] = NoOp
      BY <1>6, <3>1, <3>2
    <3>4. \E c \in 0..MaxMsgs : {n \in Msgs : kind'[n] # "unsent"} = 1..c
      BY <3>2 DEF IInv, SentInOrder
    <3>. QED  BY <3>3, <3>4 DEF SentInOrder
  <2>5. StopsApart'
    BY <1>3, <1>6, <2>1 DEF IInv, StopsApart
  <2>6. AgentsInLine' /\ ResumesLatest' /\ SessionInLine'
    BY <1>5, <1>6, <2>2, LineKeeps, SessionKeeps
  <2>7. WorkInLine'
    BY <1>2, <1>6, <2>1 DEF WorkInLine, WithAgent
  <2>8. OneAtATime'
    BY <1>3, <1>4, <2>1 DEF IInv, OneAtATime, WithAgent
  <2>. QED  BY <2>3, <2>4, <2>5, <2>6, <2>7, <2>8 DEF IInv
<1>7. ASSUME op' = op, status' = status
      PROVE  /\ NoneEnds
             /\ status' \in [Runs -> {"none", "running", "stopping", "success", "stopped", "failed"}]
             /\ op' \in [Msgs -> [pc : {"none", "marking", "waiting"}, run : Runs \union {0}]]
             /\ \A m \in Msgs : op'[m] = op[m]
  BY <1>7, SameCards, Types DEF Typed
<1>8. CASE session' = NoSession /\ work' = taken("reply") /\ op' = op /\ status' = status
  BY <1>6, <1>7, <1>8
<1>9. CASE session' = f /\ work' = taken("reply") /\ op' = op /\ status' = status
  BY <1>6, <1>7, <1>9
<1>10. CASE session' = f /\ work' = taken("starting") /\ op' = op /\ status' = status
  BY <1>6, <1>7, <1>10
<1>11. CASE IsCommand("stop") /\ active # 0 /\ session' = f /\ work' = taken("stopping") /\ \E m \in batch : BeginStop(m)
  <2>1. PICK m \in batch : BeginStop(m)
    BY <1>11
  <2>2. m \in Msgs /\ batch = {m}
    BY <1>11, <2>1, Types DEF Typed, IsCommand
  <2>3. /\ op' \in [Msgs -> [pc : {"none", "marking", "waiting"}, run : Runs \union {0}]]
        /\ status' \in [Runs -> {"none", "running", "stopping", "success", "stopped", "failed"}]
        /\ NoneEnds /\ op'[m].run \in Runs /\ \A n \in Msgs : n # m => op'[n] = op[n]
    BY <1>11, <2>1, <2>2, StopBegins
  <2>4. \A n \in Msgs : op'[n] = op[n] \/ (batch = {n} /\ op'[n].run \in Runs)
    BY <2>2, <2>3
  <2>. QED  BY <1>6, <1>11, <2>3, <2>4
<1>. QED  BY <1>1, <1>8, <1>9, <1>10, <1>11 DEF Flush

\* What a batch that ends leaves.
LEMMA IdleIs == ASSUME IInv PROVE Idle(policy) \in Work /\ Idle(policy).pc = "none" /\ Idle(policy).msgs = {}
BY Types DEF Typed, Idle, Work

LEMMA EndKeeps ==
  ASSUME IInv, End, UNCHANGED <<kind, op, session, policy, mishaps>>, NoneEnds, AgentsLater,
         left' \in Load, active' = active \/ active' = 0, agent' \in [Runs -> Agent],
         status' \in [Runs -> {"none", "running", "stopping", "success", "stopped", "failed"}],
         mishaps = {} => active' = 0 /\ \A r \in Runs : agent'[r].child \notin {"running", "exited"}
  PROVE  IInv'
<1>1. work' \in Work /\ work'.pc = "none" /\ work'.msgs = {} /\ batch' = batch
      /\ blocked' = FALSE /\ timer' = (batch # {}) /\ over' \subseteq Msgs
  <2>1. work.msgs \subseteq Msgs
    BY Types DEF Typed, Work
  <2>. QED  BY <2>1, IdleIs, Types DEF End, Typed
<1>2. Typed'
  BY <1>1, Types DEF Typed
<1>3. SentInOrder' /\ StopsApart'
  BY <1>1, MessagesKeep
<1>4. AgentsInLine' /\ ResumesLatest' /\ SessionInLine'
  BY LineKeeps, SessionKeeps
<1>5. WorkInLine' /\ OneAtATime'
  BY <1>1 DEF WorkInLine, OneAtATime, WithAgent
<1>. QED  BY <1>2, <1>3, <1>4, <1>5 DEF IInv

\* What the end of the service leaves.
LEMMA DieKeeps ==
  ASSUME IInv, Die, UNCHANGED <<kind, status, session, policy>>, over' \subseteq Msgs, AgentsLater,
         left' \in Load, agent' \in [Runs -> Agent]
  PROVE  IInv'
<1>1. work' \in Work /\ work'.pc = "none" /\ work'.msgs = {} /\ batch' = {} /\ timer' = FALSE
      /\ blocked' = FALSE /\ active' = 0 /\ "death" \in mishaps'
  BY IdleIs DEF Die
<1>2. op' = [m \in Msgs |-> NoOp] /\ NoOp \in [pc : {"none", "marking", "waiting"}, run : Runs \union {0}]
  BY DEF Die, NoOp
<1>3. Typed'
  <2>1. op' \in [Msgs -> [pc : {"none", "marking", "waiting"}, run : Runs \union {0}]]
    BY <1>2
  <2>2. mishaps' \subseteq {"card", "death"}
    BY Types DEF Typed, Die
  <2>. QED  BY <1>1, <2>1, <2>2, Types DEF Typed
<1>4. SentInOrder' /\ StopsApart'
  <2>1. \A m \in Msgs : op'[m] = NoOp
    BY <1>2
  <2>. QED  BY <1>1, <2>1, MessagesKeep
<1>5. AgentsInLine' /\ ResumesLatest' /\ SessionInLine'
  BY SameCards, LineKeeps, SessionKeeps
<1>6. WorkInLine' /\ OneAtATime'
  BY <1>1 DEF WorkInLine, OneAtATime, WithAgent
<1>. QED  BY <1>3, <1>4, <1>5, <1>6 DEF IInv

\* An agent that the service leaves behind.
LEMMA Orphaned ==
  ASSUME NEW a \in Agent, NEW b, b = [a EXCEPT !.orphan = a.child # "unborn"]
  PROVE  b \in Agent /\ Later(a, b) /\ b.thread = a.thread
<1>1. PICK o : o = (a.child # "unborn")
  OBVIOUS
<1>2. o \in BOOLEAN
  BY <1>1
<1>3. b = [a EXCEPT !.orphan = o]
  BY <1>1
<1>. QED  BY <1>2, <1>3 DEF Agent, Later

LEMMA ReplyStep == ASSUME IInv, Reply PROVE IInv'
<1>1. work.pc \in {"reply", "apology"} /\ UNCHANGED <<kind, status, session, policy>> /\ NoneEnds
  BY SameCards DEF Reply
<1>2. CASE End /\ UNCHANGED <<active, op, agent, mishaps, left>>
  <2>1. mishaps = {} => active = 0 /\ \A r \in Runs : agent[r].child \notin {"running", "exited"}
    BY <1>1, Types DEF IInv, OneAtATime, WithAgent, Runs
  <2>. QED  BY <1>1, <1>2, <2>1, EndKeeps, SameAgents, Types DEF Typed
<1>3. CASE /\ work.pc = "reply" /\ Fault /\ work' = [work EXCEPT !.pc = "apology"]
           /\ UNCHANGED <<queue, active, op, agent, over, mishaps>>
  <2>1. work' \in Work /\ work'.pc = "apology" /\ work'.msgs = work.msgs
    BY <1>3, Types DEF Typed, Work
  <2>2. left' \in Load /\ UNCHANGED <<batch, timer, blocked, active, op, agent, over, mishaps>>
    BY <1>3, LessLeft DEF Fault, queue
  <2>3. Typed'
    BY <1>1, <2>1, <2>2, Types DEF Typed
  <2>4. SentInOrder' /\ StopsApart'
    BY <1>1, <1>3, <2>1, <2>2, MessagesKeep
  <2>5. AgentsInLine' /\ ResumesLatest' /\ SessionInLine'
    BY <1>1, <2>2, SameAgents, LineKeeps, SessionKeeps
  <2>6. WorkInLine' /\ OneAtATime'
    BY <1>1, <2>1, <2>2 DEF IInv, WorkInLine, OneAtATime, WithAgent
  <2>. QED  BY <2>3, <2>4, <2>5, <2>6 DEF IInv
<1>4. CASE /\ Fault /\ Die /\ UNCHANGED over
           /\ agent' = [r \in Runs |-> [agent[r] EXCEPT !.orphan = agent[r].child # "unborn"]]
  <2>1. ASSUME NEW r \in Runs
        PROVE  agent'[r] \in Agent /\ Later(agent[r], agent'[r]) /\ agent'[r].thread = agent[r].thread
    <3>1. agent[r] \in Agent
      BY Types DEF Typed
    <3>2. PICK e : e = [agent[r] EXCEPT !.orphan = agent[r].child # "unborn"]
      OBVIOUS
    <3>3. agent'[r] = e
      BY <1>4, <3>2
    <3>. QED  BY <3>1, <3>2, <3>3, Orphaned
  <2>2. agent' \in [Runs -> Agent] /\ AgentsLater
    BY <1>4, <2>1 DEF AgentsLater, IInv, AgentsInLine
  <2>3. left' \in Load /\ over' \subseteq Msgs
    BY <1>4, LessLeft, Types DEF Fault, Typed
  <2>. QED  BY <1>1, <1>4, <2>2, <2>3, DieKeeps
<1>. QED  BY <1>2, <1>3, <1>4 DEF Reply

\* A batch that goes on.
LEMMA GoesOn ==
  ASSUME IInv, NEW pc \in {"apology", "sending", "working", "closing"}, work.pc # "none",
         work.pc # "stopping", NEW r \in Runs \union {0}, work' = [work EXCEPT !.pc = pc, !.run = r],
         UNCHANGED <<kind, batch, timer, blocked, op, policy, over>>
  PROVE  /\ work' \in Work /\ work'.pc = pc /\ work'.msgs = work.msgs /\ work'.run = r
         /\ work'.policy = work.policy /\ SentInOrder' /\ StopsApart'
<1>1. work' \in Work /\ work'.pc = pc /\ work'.msgs = work.msgs /\ work'.run = r /\ work'.policy = work.policy
  BY Types DEF Typed, Work
<1>2. SentInOrder' /\ StopsApart'
  BY <1>1, MessagesKeep
<1>. QED  BY <1>1, <1>2

\* The next agent resumes the thread of the session, or none.
LEMMA StartStep == ASSUME IInv, Start PROVE IInv'
<1>1. /\ work.pc = "starting" /\ UNCHANGED <<kind, batch, timer, blocked, op, session, policy, over, mishaps>>
      /\ work \in Work /\ work.thread = session.thread /\ session.policy = work.policy
  BY Types DEF Start, Spawned, CardTells, queue, Typed, IInv, WorkInLine
<1>2. CASE Fault /\ work' = [work EXCEPT !.pc = "apology"] /\ UNCHANGED <<agent, active, status>>
  <2>1. work' = [work EXCEPT !.pc = "apology", !.run = work.run] /\ work.run \in Runs \union {0}
    BY <1>1, <1>2 DEF Work
  <2>2. work' \in Work /\ work'.pc = "apology" /\ SentInOrder' /\ StopsApart'
    BY <1>1, <2>1, GoesOn
  <2>3. Typed'
    BY <1>1, <1>2, <2>2, LessLeft, Types DEF Typed, Fault
  <2>4. AgentsInLine' /\ ResumesLatest' /\ SessionInLine'
    BY <1>1, <1>2, SameAgents, SameCards, LineKeeps, SessionKeeps
  <2>5. WorkInLine' /\ OneAtATime'
    BY <1>1, <1>2, <2>2 DEF IInv, WorkInLine, OneAtATime, WithAgent
  <2>. QED  BY <2>2, <2>3, <2>4, <2>5 DEF IInv
<1>3. ASSUME NEW r \in Runs, agent[r].child = "unborn",
             \A q \in Runs : q < r => agent[q].child # "unborn",
             agent' = [agent EXCEPT ![r].child = "running", ![r].resumes = work.thread,
                                    ![r].policy = work.policy],
             active' = r, status' = [status EXCEPT ![r] = "running"],
             work' = [work EXCEPT !.pc = "sending", !.run = r], left' = left
      PROVE  IInv'
  <2>1. work' \in Work /\ work'.pc = "sending" /\ work'.run = r /\ work'.policy = work.policy
        /\ SentInOrder' /\ StopsApart'
    BY <1>1, <1>3, GoesOn
  <2>2. PICK e : e = [agent[r] EXCEPT !.child = "running", !.resumes = work.thread, !.policy = work.policy]
    OBVIOUS
  <2>3. e \in Agent /\ e.child = "running" /\ e.resumes = session.thread /\ e.policy = session.policy
        /\ e.thread = agent[r].thread
    <3>1. agent[r] \in Agent
      BY Types DEF Typed
    <3>2. work.thread \in Runs \union {0} /\ work.policy \in Policies
      BY <1>1 DEF Work
    <3>. QED  BY <1>1, <2>2, <3>1, <3>2 DEF Agent
  <2>4. agent' = [agent EXCEPT ![r] = e]
    BY <1>3, <2>2, Types DEF Typed
  <2>5. agent' \in [Runs -> Agent] /\ agent'[r] = e /\ \A q \in Runs : q # r => agent'[q] = agent[q]
    BY <2>3, <2>4, Types DEF Typed
  <2>6. \A q \in Runs : q # r => status'[q] = status[q]
    BY <1>3, Types DEF Typed
  <2>7. status'[r] = "running"
    BY <1>3, Types DEF Typed
  <2>8. \A q \in Runs : Born(q) <=> q < r
    <3>1. \A q \in Runs : q < r \/ q = r \/ r < q
      BY MsgsAssumption DEF Runs
    <3>. QED  BY <1>3, <3>1, MsgsAssumption DEF IInv, AgentsInLine, Born, Runs
  <2>9. \A q \in Runs : Born(q)' <=> q <= r
    BY <2>3, <2>5, <2>8, MsgsAssumption DEF Born, Runs
  <2>10. Typed'
    <3>1. status' \in [Runs -> {"none", "running", "stopping", "success", "stopped", "failed"}]
      BY <1>3, Types DEF Typed
    <3>. QED  BY <1>1, <1>3, <2>1, <2>5, <3>1, Types DEF Typed
  <2>11. AgentsInLine'
    <3>. SUFFICES ASSUME NEW q \in Runs
         PROVE  /\ q <= r => \A p \in Runs : p < q => p <= r
                /\ ~(q <= r) => agent'[q].resumes = 0
                /\ agent'[q].thread \in {0, q}
                /\ status'[q] \in {"success", "stopped"} => agent'[q].child = "closed"
      BY <2>9 DEF AgentsInLine
    <3>1. q <= r => \A p \in Runs : p < q => p <= r
      BY MsgsAssumption DEF Runs
    <3>2. ~(q <= r) => q # r /\ ~Born(q)
      BY <2>8, MsgsAssumption DEF Runs
    <3>. QED  BY <2>3, <2>5, <2>6, <2>7, <3>1, <3>2 DEF IInv, AgentsInLine
  <2>12. \A q \in Runs : q < r => Threaded(q)' = Threaded(q) /\ agent'[q].policy = agent[q].policy
    BY <2>5, <2>6, MsgsAssumption DEF Threaded, Runs
  <2>13. ~Threaded(r)'
    BY <2>7 DEF Threaded
  <2>14. ResumesLatest'
    <3>. SUFFICES ASSUME NEW q \in Runs, agent'[q].resumes # 0
         PROVE  LET t == agent'[q].resumes IN
                /\ t < q
                /\ \A u \in t..(q - 1) : agent'[u].policy = agent'[q].policy
                /\ \A u \in (t + 1)..(q - 1) :
                     agent'[u].thread # 0 => status'[u] \notin {"success", "stopped"}
      BY DEF ResumesLatest
    <3>1. PICK t : t = agent'[q].resumes
      OBVIOUS
    <3>2. t \in Runs /\ t # 0
      BY <2>5, <3>1 DEF Agent
    <3>3. CASE q = r
      <4>1. t = session.thread /\ t < r
        BY <2>3, <2>5, <2>8, <3>1, <3>2, <3>3 DEF IInv, SessionInLine
      <4>2. \A u \in t..(r - 1) : u \in Runs /\ u < r /\ u >= t
        BY <3>2, MsgsAssumption DEF Runs
      <4>3. \A u \in t..(r - 1) : agent[u].policy = session.policy
        BY <2>8, <3>2, <4>1, <4>2 DEF IInv, SessionInLine
      <4>4. \A u \in (t + 1)..(r - 1) : u \in Runs /\ u < r /\ u > t
        BY <3>2, MsgsAssumption DEF Runs
      <4>5. \A u \in (t + 1)..(r - 1) : ~Threaded(u)
        BY <2>8, <3>2, <4>1, <4>4 DEF IInv, SessionInLine
      <4>6. \A u \in t..(r - 1) : agent'[u].policy = session.policy
        BY <2>12, <4>2, <4>3
      <4>7. \A u \in (t + 1)..(r - 1) : ~Threaded(u)'
        BY <2>12, <4>4, <4>5
      <4>. QED  BY <2>3, <2>5, <3>1, <3>3, <4>1, <4>6, <4>7 DEF Threaded
    <3>4. CASE q # r
      <4>1. agent'[q] = agent[q] /\ Born(q) /\ q < r
        BY <2>5, <2>8, <3>4, <3>1, <3>2 DEF IInv, AgentsInLine
      <4>2. /\ t < q /\ \A u \in t..(q - 1) : agent[u].policy = agent[q].policy
            /\ \A u \in (t + 1)..(q - 1) : ~Threaded(u)
        BY <3>1, <3>2, <4>1 DEF IInv, ResumesLatest, Threaded
      <4>3. \A u \in t..(q - 1) : u \in Runs /\ u < r
        BY <3>2, <4>1, MsgsAssumption DEF Runs
      <4>4. \A u \in (t + 1)..(q - 1) : u \in Runs /\ u < r
        BY <3>2, <4>1, MsgsAssumption DEF Runs
      <4>5. \A u \in t..(q - 1) : agent'[u].policy = agent[q].policy
        BY <2>12, <4>2, <4>3
      <4>6. \A u \in (t + 1)..(q - 1) : ~Threaded(u)'
        BY <2>12, <4>2, <4>4
      <4>. QED  BY <3>1, <4>1, <4>2, <4>5, <4>6 DEF Threaded
    <3>. QED  BY <3>3, <3>4
  <2>15. SessionInLine'
    <3>. SUFFICES ASSUME session.thread # 0
         PROVE  /\ session.thread \in Runs /\ session.thread <= r
                /\ \A q \in Runs : q <= r /\ q >= session.thread => agent'[q].policy = session.policy
                /\ \A q \in Runs : q <= r /\ q > session.thread => ~Threaded(q)'
      BY <1>1, <2>9 DEF SessionInLine
    <3>1. session.thread \in Runs /\ session.thread < r
      BY <2>8 DEF IInv, SessionInLine
    <3>2. ASSUME NEW q \in Runs, q < r
          PROVE  (q >= session.thread => agent'[q].policy = session.policy) /\ (q > session.thread => ~Threaded(q)')
      BY <2>8, <2>12, <3>2 DEF IInv, SessionInLine
    <3>3. \A q \in Runs : q <= r => q < r \/ q = r
      BY MsgsAssumption DEF Runs
    <3>4. session.thread <= r
      BY <3>1, MsgsAssumption DEF Runs
    <3>. QED  BY <2>3, <2>5, <2>13, <3>1, <3>2, <3>3, <3>4
  <2>16. WorkInLine'
    BY <1>1, <2>1, <2>3, <2>5, <2>9, MsgsAssumption DEF WorkInLine, WithAgent, Runs
  <2>17. OneAtATime'
    <3>1. mishaps = {} => \A q \in Runs : agent[q].child \notin {"running", "exited"}
      BY <1>1 DEF IInv, OneAtATime, WithAgent, Runs
    <3>. QED  BY <1>1, <1>3, <2>1, <2>5, <3>1, MsgsAssumption DEF OneAtATime, WithAgent, Runs
  <2>. QED  BY <2>1, <2>10, <2>11, <2>14, <2>15, <2>16, <2>17 DEF IInv
<1>. QED  BY <1>2, <1>3 DEF Start, Spawned, CardTells

LEMMA SendCardStep == ASSUME IInv, SendCard PROVE IInv'
<1>1. /\ work.pc = "sending" /\ work \in Work /\ work.run \in Runs \union {0}
      /\ UNCHANGED <<kind, batch, timer, blocked, active, agent, status, op, session, policy, over>>
  BY Types DEF SendCard, queue, Typed, Work
<1>2. AgentsInLine' /\ ResumesLatest' /\ SessionInLine'
  BY <1>1, SameAgents, SameCards, LineKeeps, SessionKeeps
<1>3. CASE work' = [work EXCEPT !.pc = "working"] /\ UNCHANGED <<mishaps, left>>
  <2>1. work' = [work EXCEPT !.pc = "working", !.run = work.run]
    BY <1>1, <1>3 DEF Work
  <2>2. /\ work' \in Work /\ work'.pc = "working" /\ work'.run = work.run /\ work'.policy = work.policy
        /\ SentInOrder' /\ StopsApart'
    BY <1>1, <2>1, GoesOn
  <2>3. Typed'
    BY <1>1, <1>3, <2>2, Types DEF Typed
  <2>4. WorkInLine' /\ OneAtATime'
    BY <1>1, <1>3, <2>2 DEF IInv, WorkInLine, OneAtATime, WithAgent, Born
  <2>. QED  BY <1>2, <2>2, <2>3, <2>4 DEF IInv
<1>4. CASE Fault /\ work' = [work EXCEPT !.pc = "apology"] /\ mishaps' = mishaps \union {"card"}
  <2>1. work' = [work EXCEPT !.pc = "apology", !.run = work.run]
    BY <1>1, <1>4 DEF Work
  <2>2. work' \in Work /\ work'.pc = "apology" /\ SentInOrder' /\ StopsApart'
    BY <1>1, <2>1, GoesOn
  <2>3. Typed'
    BY <1>1, <1>4, <2>2, LessLeft, Types DEF Typed, Fault
  <2>4. WorkInLine' /\ OneAtATime'
    BY <1>4, <2>2 DEF WorkInLine, OneAtATime, WithAgent
  <2>. QED  BY <1>2, <2>2, <2>3, <2>4 DEF IInv
<1>. QED  BY <1>3, <1>4 DEF SendCard

\* The thread that is kept is that of the latest agent; one that is not kept
\* leaves the session's thread the latest one.
LEMMA FinishStep == ASSUME IInv, Finish PROVE IInv'
<1>1. PICK r : r = work.run
  OBVIOUS
<1>2. /\ work.pc = "working" /\ agent[r].child = "closed"
      /\ UNCHANGED <<kind, batch, timer, blocked, active, agent, op, policy, over, mishaps, left>>
      /\ work \in Work /\ work.policy \in Policies
  BY <1>1, Types DEF Finish, CardTells, queue, Typed, Work
<1>3. r \in Runs /\ Born(r) /\ (\A q \in Runs : Born(q) => q <= r) /\ agent[r].policy = work.policy
      /\ session.policy = work.policy /\ agent[r].thread \in {0, r} /\ r # 0
  BY <1>1, <1>2 DEF IInv, WorkInLine, WithAgent, AgentsInLine, Runs
<1>4. work' = [work EXCEPT !.pc = "closing", !.run = r]
  BY <1>1, <1>2 DEF Finish, CardTells, Work
<1>5. work' \in Work /\ work'.pc = "closing" /\ work'.run = r /\ work'.policy = work.policy
      /\ SentInOrder' /\ StopsApart'
  BY <1>2, <1>3, <1>4, GoesOn
<1>6. PICK s \in {"failed", "stopped", "success"} :
        status' = [status EXCEPT ![r] = s] /\ (Rejected(r) => s = "failed")
  BY <1>1 DEF Finish, CardTells
<1>7. status'[r] = s /\ \A q \in Runs : q # r => status'[q] = status[q]
  BY <1>3, <1>6, Types DEF Typed
<1>8. PICK f : f = Ensured(session, work.policy, agent[r].thread)
  OBVIOUS
<1>9. f \in Sessions /\ f.policy = work.policy /\ (agent[r].thread # 0 => f.thread = agent[r].thread)
  <2>1. session \in Sessions /\ agent[r].thread \in Runs \union {0}
    BY <1>3, Types DEF Typed
  <2>. QED  BY <1>2, <1>8, <2>1, EnsuredIs
<1>10. \/ session' = session /\ (Rejected(r) \/ agent[r].thread = 0)
       \/ session' = f /\ agent[r].thread # 0
  BY <1>1, <1>8 DEF Finish, CardTells
<1>11. Typed'
  <2>1. status' \in [Runs -> {"none", "running", "stopping", "success", "stopped", "failed"}]
    BY <1>6, Types DEF Typed
  <2>. QED  BY <1>2, <1>5, <1>9, <1>10, <2>1, Types DEF Typed
<1>12. AgentsInLine'
  BY <1>2, <1>3, <1>7 DEF IInv, AgentsInLine, Born
<1>13. ResumesLatest'
  <2>. SUFFICES ASSUME NEW q \in Runs, agent[q].resumes # 0
       PROVE  LET t == agent[q].resumes IN
              /\ t < q
              /\ \A u \in t..(q - 1) : agent[u].policy = agent[q].policy
              /\ \A u \in (t + 1)..(q - 1) :
                   agent[u].thread # 0 => status'[u] \notin {"success", "stopped"}
    BY <1>2 DEF ResumesLatest
  <2>1. PICK t : t = agent[q].resumes
    OBVIOUS
  <2>2. t \in Runs /\ Born(q) /\ q <= r
    BY <1>3, <2>1, Types DEF Typed, Agent, IInv, AgentsInLine
  <2>3. /\ t < q /\ \A u \in t..(q - 1) : agent[u].policy = agent[q].policy
        /\ \A u \in (t + 1)..(q - 1) : agent[u].thread # 0 => status[u] \notin {"success", "stopped"}
    BY <2>1 DEF IInv, ResumesLatest
  <2>4. \A u \in (t + 1)..(q - 1) : u \in Runs /\ u # r
    BY <1>3, <2>2, MsgsAssumption DEF Runs
  <2>5. \A u \in (t + 1)..(q - 1) : agent[u].thread # 0 => status'[u] \notin {"success", "stopped"}
    BY <1>7, <2>3, <2>4
  <2>. QED  BY <2>1, <2>3, <2>5
<1>14. SessionInLine'
  <2>1. CASE session' = session /\ (Rejected(r) \/ agent[r].thread = 0)
    <3>1. ~Threaded(r)'
      BY <1>2, <1>6, <1>7, <2>1 DEF Threaded
    <3>2. \A q \in Runs : q # r => Threaded(q)' = Threaded(q)
      BY <1>2, <1>7 DEF Threaded
    <3>. QED  BY <1>2, <2>1, <3>1, <3>2 DEF IInv, SessionInLine, Born
  <2>2. CASE session' = f /\ agent[r].thread # 0
    <3>1. session'.thread = r /\ session'.policy = work.policy
      BY <1>3, <1>9, <2>2
    <3>2. \A q \in Runs : Born(q) /\ q >= r => q = r
      BY <1>3, MsgsAssumption DEF Runs
    <3>3. \A q \in Runs : q > r => q >= r /\ q # r
      BY <1>3, MsgsAssumption DEF Runs
    <3>. QED  BY <1>2, <1>3, <3>1, <3>2, <3>3 DEF SessionInLine, Born
  <2>. QED  BY <1>10, <2>1, <2>2
<1>15. WorkInLine' /\ OneAtATime'
  BY <1>1, <1>2, <1>3, <1>5 DEF IInv, WorkInLine, OneAtATime, WithAgent, Born
<1>. QED  BY <1>5, <1>11, <1>12, <1>13, <1>14, <1>15 DEF IInv

LEMMA FinalizedStep == ASSUME IInv, Finalized PROVE IInv'
<1>1. /\ work.pc = "closing" /\ active' = 0 /\ End
      /\ UNCHANGED <<kind, agent, status, op, session, policy, mishaps, left>>
  BY DEF Finalized
<1>2. mishaps = {} => \A r \in Runs : agent[r].child \notin {"running", "exited"}
  BY <1>1 DEF IInv, OneAtATime, WorkInLine, WithAgent
<1>. QED  BY <1>1, <1>2, EndKeeps, SameAgents, SameCards, Types DEF Typed

(***************************************************************************)
(* The agent                                                               *)
(***************************************************************************)
LEMMA AgentBecomes ==
  ASSUME IInv, NEW r \in Runs, NEW e \in Agent, agent' = [agent EXCEPT ![r] = e],
         Later(agent[r], e), e.thread \in {0, r}
  PROVE  agent' \in [Runs -> Agent] /\ AgentsLater
<1>1. agent' \in [Runs -> Agent] /\ agent'[r] = e /\ \A q \in Runs : q # r => agent'[q] = agent[q]
  BY Types DEF Typed
<1>2. \A q \in Runs : Later(agent[q], agent[q]) /\ agent[q].thread \in {0, q}
  BY DEF IInv, AgentsInLine, Later
<1>. QED  BY <1>1, <1>2 DEF AgentsLater

\* When only the agents go on.
LEMMA AgentsGoOn ==
  ASSUME IInv, AgentsLater, agent' \in [Runs -> Agent],
         UNCHANGED <<kind, queue, work, active, status, op, session, policy, over, mishaps, left>>
  PROVE  IInv'
<1>1. UNCHANGED <<batch, timer, blocked>>
  BY DEF queue
<1>2. Typed'
  BY <1>1, Types DEF Typed
<1>3. SentInOrder' /\ StopsApart'
  BY <1>1, MessagesKeep
<1>. QED  BY <1>2, <1>3, SameCards, LineKeeps, SessionKeeps, WorkKeeps, OneKeeps DEF IInv

LEMMA ExitStep == ASSUME IInv, NEW r \in Runs, Exit(r) PROVE IInv'
<1>1. PICK good \in BOOLEAN, t \in {0, r} :
        agent' = [agent EXCEPT ![r].child = "exited", ![r].good = good, ![r].thread = t]
  BY DEF Exit
<1>2. agent[r] \in Agent /\ agent[r].child = "running"
  BY Types DEF Typed, Exit
<1>3. PICK e : e = [agent[r] EXCEPT !.child = "exited", !.good = good, !.thread = t]
  OBVIOUS
<1>4. e \in Agent /\ Later(agent[r], e) /\ e.thread \in {0, r}
  BY <1>2, <1>3 DEF Agent, Later
<1>5. agent' = [agent EXCEPT ![r] = e]
  BY <1>1, <1>3, Types DEF Typed
<1>. QED  BY <1>4, <1>5, AgentBecomes, AgentsGoOn DEF Exit

LEMMA KillStep == ASSUME IInv, NEW r \in Runs, Kill(r) PROVE IInv'
<1>1. PICK t \in {0, r} : agent' = [agent EXCEPT ![r].child = "exited", ![r].thread = t]
  BY DEF Kill
<1>2. agent[r] \in Agent /\ agent[r].child = "running"
  BY Types DEF Typed, Kill
<1>3. PICK e : e = [agent[r] EXCEPT !.child = "exited", !.thread = t]
  OBVIOUS
<1>4. e \in Agent /\ Later(agent[r], e) /\ e.thread \in {0, r}
  BY <1>2, <1>3 DEF Agent, Later
<1>5. agent' = [agent EXCEPT ![r] = e]
  BY <1>1, <1>3, Types DEF Typed
<1>. QED  BY <1>4, <1>5, AgentBecomes, AgentsGoOn DEF Kill

LEMMA TerminatedLater ==
  ASSUME IInv, NEW r \in Runs, agent' = Terminated(r) PROVE agent' \in [Runs -> Agent] /\ AgentsLater
<1>1. agent[r] \in Agent /\ agent[r].thread \in {0, r}
  BY Types DEF Typed, IInv, AgentsInLine
<1>2. PICK b : b = (agent[r].term \/ agent[r].child = "running")
  OBVIOUS
<1>3. PICK e : e = [agent[r] EXCEPT !.stopped = TRUE, !.term = b]
  OBVIOUS
<1>4. b \in BOOLEAN
  BY <1>2
<1>5. e \in Agent /\ Later(agent[r], e) /\ e.thread \in {0, r}
  BY <1>1, <1>3, <1>4 DEF Agent, Later
<1>6. agent' = [agent EXCEPT ![r] = e]
  BY <1>2, <1>3, Types DEF Typed, Terminated
<1>. QED  BY <1>5, <1>6, AgentBecomes

LEMMA TimeoutStep == ASSUME IInv, NEW r \in Runs, Timeout(r) PROVE IInv'
BY TerminatedLater, AgentsGoOn DEF Timeout

LEMMA CloseStep == ASSUME IInv, NEW r \in Runs, Close(r) PROVE IInv'
<1>1. PICK closed : closed = [agent EXCEPT ![r].child = "closed"]
  OBVIOUS
<1>2. agent[r] \in Agent /\ agent[r].child = "exited" /\ agent[r].thread \in {0, r}
  BY Types DEF Typed, Close, IInv, AgentsInLine
<1>3. PICK e : e = [agent[r] EXCEPT !.child = "closed"]
  OBVIOUS
<1>4. e \in Agent /\ Later(agent[r], e) /\ e.thread \in {0, r}
  BY <1>2, <1>3 DEF Agent, Later
<1>5. closed = [agent EXCEPT ![r] = e]
  BY <1>1, <1>3, Types DEF Typed
<1>6. CASE agent' = closed /\ UNCHANGED <<queue, work, active, op, mishaps>>
  BY <1>4, <1>5, <1>6, AgentBecomes, AgentsGoOn DEF Close
<1>7. CASE Die /\ agent' = [q \in Runs |-> [closed[q] EXCEPT !.orphan = closed[q].child # "unborn"]]
  <2>1. closed[r] = e /\ \A q \in Runs : q # r => closed[q] = agent[q]
    BY <1>5, Types DEF Typed
  <2>2. ASSUME NEW q \in Runs
        PROVE  agent'[q] \in Agent /\ Later(agent[q], agent'[q]) /\ agent'[q].thread \in {0, q}
    <3>1. closed[q] \in Agent /\ Later(agent[q], closed[q]) /\ closed[q].thread \in {0, q}
      <4>1. agent[q] \in Agent /\ Later(agent[q], agent[q]) /\ agent[q].thread \in {0, q}
        BY Types DEF Typed, IInv, AgentsInLine, Later
      <4>. QED  BY <1>4, <2>1, <4>1
    <3>2. PICK o : o = [closed[q] EXCEPT !.orphan = closed[q].child # "unborn"]
      OBVIOUS
    <3>3. agent'[q] = o
      BY <1>7, <3>2
    <3>4. o \in Agent /\ Later(closed[q], o) /\ o.thread = closed[q].thread
      BY <3>1, <3>2, Orphaned
    <3>. QED  BY <3>1, <3>3, <3>4 DEF Later
  <2>3. agent' \in [Runs -> Agent] /\ AgentsLater
    BY <1>7, <2>2 DEF AgentsLater
  <2>4. UNCHANGED <<kind, status, session, policy>> /\ over' \subseteq Msgs /\ left' \in Load
    BY Types DEF Close, Typed
  <2>. QED  BY <1>7, <2>3, <2>4, DieKeeps
<1>. QED  BY <1>1, <1>6, <1>7 DEF Close

(***************************************************************************)
(* The stops, and the configuration                                        *)
(***************************************************************************)
LEMMA MarkedStep == ASSUME IInv, NEW m \in Msgs, Marked(m) PROVE IInv'
<1>1. op[m].pc = "marking" /\ op' = [op EXCEPT ![m].pc = "waiting"]
      /\ UNCHANGED <<kind, batch, timer, blocked, work, active, status, session, policy, over, mishaps, left>>
  BY DEF Marked, queue
<1>2. op[m] \in [pc : {"none", "marking", "waiting"}, run : Runs \union {0}] /\ op[m].run \in Runs
  BY <1>1, Types DEF Typed, IInv, StopsApart
<1>3. PICK o : o = [op[m] EXCEPT !.pc = "waiting"]
  OBVIOUS
<1>4. o \in [pc : {"none", "marking", "waiting"}, run : Runs \union {0}] /\ o.pc = "waiting" /\ o.run = op[m].run
  BY <1>2, <1>3
<1>5. op' = [op EXCEPT ![m] = o]
  BY <1>1, <1>3, Types DEF Typed
<1>6. /\ op' \in [Msgs -> [pc : {"none", "marking", "waiting"}, run : Runs \union {0}]]
      /\ op'[m] = o /\ \A n \in Msgs : n # m => op'[n] = op[n]
  BY <1>4, <1>5, Types DEF Typed
<1>7. agent' \in [Runs -> Agent] /\ AgentsLater
  BY <1>2, TerminatedLater, SameAgents, Types DEF Marked, Typed
<1>8. Typed'
  BY <1>1, <1>6, <1>7, Types DEF Typed
<1>9. SentInOrder' /\ StopsApart'
  BY <1>1, <1>2, <1>4, <1>6 DEF IInv, SentInOrder, StopsApart, NoOp
<1>. QED  BY <1>1, <1>7, <1>8, <1>9, SameCards, LineKeeps, SessionKeeps, WorkKeeps, OneKeeps DEF IInv

LEMMA StoppedStep == ASSUME IInv, NEW m \in Msgs, Stopped(m) PROVE IInv'
<1>1. op[m].pc = "waiting" /\ op' = [op EXCEPT ![m] = NoOp]
      /\ UNCHANGED <<kind, batch, timer, blocked, active, agent, status, session, policy, mishaps, left>>
  BY DEF Stopped, queue
<1>2. op' \in [Msgs -> [pc : {"none", "marking", "waiting"}, run : Runs \union {0}]]
      /\ \A n \in Msgs : op'[n] = op[n] \/ op'[n] = NoOp
  BY <1>1, Types DEF Typed, NoOp
<1>3. AgentsInLine' /\ ResumesLatest' /\ SessionInLine'
  BY <1>1, SameAgents, SameCards, LineKeeps, SessionKeeps
<1>4. CASE m \in work.msgs /\ work' = [work EXCEPT !.pc = "reply"] /\ UNCHANGED over
  <2>1. work.pc = "stopping"
    BY <1>1, <1>4 DEF IInv, StopsApart
  <2>2. work' \in Work /\ work'.pc = "reply" /\ work'.msgs = work.msgs
    BY <1>4, Types DEF Typed, Work
  <2>3. Typed'
    BY <1>1, <1>2, <1>4, <2>1, <2>2, Types DEF Typed
  <2>4. SentInOrder'
    BY <1>1, <1>2, <2>2 DEF IInv, SentInOrder
  <2>5. StopsApart'
    <3>1. op'[m] = NoOp
      BY <1>1, Types DEF Typed
    <3>. QED  BY <1>1, <1>2, <1>4, <2>2, <3>1 DEF IInv, StopsApart, NoOp
  <2>6. WorkInLine' /\ OneAtATime'
    BY <1>1, <2>1, <2>2 DEF IInv, WorkInLine, OneAtATime, WithAgent
  <2>. QED  BY <1>3, <2>3, <2>4, <2>5, <2>6 DEF IInv
<1>5. CASE over' = over \union {m} /\ UNCHANGED work
  <2>1. Typed'
    BY <1>1, <1>2, <1>5, Types DEF Typed
  <2>2. SentInOrder' /\ StopsApart'
    BY <1>1, <1>2, <1>5, MessagesKeep
  <2>. QED  BY <1>1, <1>3, <1>5, <2>1, <2>2, SameAgents, WorkKeeps, OneKeeps DEF IInv
<1>. QED  BY <1>4, <1>5 DEF Stopped

LEMMA PolicyStep == ASSUME IInv, ChangePolicy PROVE IInv'
<1>1. policy' \in Policies /\ left' \in Load
      /\ UNCHANGED <<kind, batch, timer, blocked, work, active, agent, status, op, session, over, mishaps>>
  BY LessLeft DEF ChangePolicy, queue
<1>2. Typed'
  BY <1>1, Types DEF Typed
<1>3. SentInOrder' /\ StopsApart'
  BY <1>1, MessagesKeep
<1>. QED  BY <1>1, <1>2, <1>3, SameAgents, SameCards, LineKeeps, SessionKeeps, WorkKeeps, OneKeeps DEF IInv

(***************************************************************************)
(* What is promised                                                        *)
(***************************************************************************)
LEMMA Inductive == ASSUME IInv, [Next]_vars PROVE IInv'
<1>1. ASSUME NEW m \in Msgs, StopStep(m) \/ Press(m) \/ \E k \in Kinds : Send(m, k) PROVE IInv'
  BY <1>1, MarkedStep, StoppedStep, PressStep, SendStep DEF StopStep
<1>2. CASE BatchStep
  BY <1>2, FlushStep, ReplyStep, StartStep, SendCardStep, FinishStep, FinalizedStep DEF BatchStep
<1>3. ASSUME NEW r \in Runs, Exit(r) \/ Close(r) \/ Timeout(r) \/ Kill(r) PROVE IInv'
  BY <1>3, ExitStep, CloseStep, TimeoutStep, KillStep
<1>4. CASE UNCHANGED vars
  <2>1. UNCHANGED <<kind, batch, timer, blocked, work, active, agent, status, op, session, policy,
                    over, mishaps, left>>
    BY <1>4 DEF vars
  <2>2. AgentsLater
    BY <2>1, SameAgents
  <2>3. agent' \in [Runs -> Agent]
    BY <2>1, Types DEF Typed
  <2>. QED  BY <2>1, <2>2, <2>3, AgentsGoOn DEF queue
<1>. QED  BY <1>1, <1>2, <1>3, <1>4, PolicyStep DEF Next

LEMMA IInvHolds == Spec => []IInv
BY InitInv, Inductive, PTL DEF Spec

(* The queue, the batch, the agents and the session have their types, and  *)
(* a scope is blocked exactly while a batch is handled, whatever the user  *)
(* sends and whatever fails (pending-queue.ts, feishu-interaction.ts).     *)
THEOREM TypeCorrect == Spec => []TypeOK
BY IInvHolds, InvFollows, PTL

(* However messages, stops, changed configurations, failures and crashes   *)
(* interleave: two agents never work in one conversation at once as long   *)
(* as cards can be sent and the service lives, and each resumes the latest *)
(* thread, made under its own policy (agent-mode.ts, session-catalog.ts).  *)
THEOREM AgentsAlwaysKept == Spec => []AgentsKept
BY IInvHolds, InvFollows, PTL

(***************************************************************************)
(* The rules and the chat they are worked out in (PolicyRules)             *)
(***************************************************************************)
Statuses == {"pending", "confirmed", "rejected"}

Candidates == [id : Nat, rule : Rules, status : Statuses]

\* The candidates, the newest first, are numbered as they were created.
Numbered(s) ==
  /\ s \in Seq(Candidates)
  /\ \A j \in DOMAIN s : s[j].id + j = Len(s) + 1

\* The candidate of a store that has an id.
OfId(s, i) == CHOOSE c \in {s[j] : j \in DOMAIN s} : c.id = i

\* The words of a rule are those of a candidate that was confirmed for it.
FromConfirmed(s, r, i) == \E j \in DOMAIN s : s[j].id = i /\ s[j].status = "confirmed" /\ s[j].rule = r
CandidateInv ==
  /\ Numbered(store) /\ rules \in [Rules -> Nat]
  /\ \A r \in Rules : rules[r] # 0 => FromConfirmed(store, r, rules[r])

LEMMA EntryIs ==
  ASSUME NEW s, Numbered(s), NEW j \in DOMAIN s
  PROVE  /\ Len(s) \in Nat /\ DOMAIN s = 1..Len(s) /\ j \in Nat /\ s[j] \in Candidates
         /\ s[j].id \in Nat /\ s[j].id + j = Len(s) + 1
<1>1. Len(s) \in Nat /\ DOMAIN s = 1..Len(s) /\ j \in Nat /\ s[j] \in Candidates
  BY DEF Numbered
<1>2. s[j].id \in Nat
  BY <1>1 DEF Candidates
<1>. QED  BY <1>1, <1>2 DEF Numbered

LEMMA OfIdIs ==
  ASSUME NEW s, Numbered(s), NEW j \in DOMAIN s
  PROVE  OfId(s, s[j].id) = s[j]
<1>. DEFINE S == {s[k] : k \in DOMAIN s}
<1>1. ASSUME NEW k \in DOMAIN s, s[k].id = s[j].id PROVE k = j
  BY <1>1, EntryIs
<1>2. ASSUME NEW c \in S, c.id = s[j].id PROVE c = s[j]
  BY <1>1, <1>2
<1>3. s[j] \in S
  OBVIOUS
<1>. QED  BY <1>2, <1>3 DEF OfId

\* A candidate gets another status, and everything else stays.
LEMMA MarkedIs ==
  ASSUME CandidateInv, NEW j \in DOMAIN store, NEW st \in Statuses, store' = Rule!Marked(store[j].id, st)
  PROVE  /\ Numbered(store') /\ DOMAIN store' = DOMAIN store
         /\ store'[j] = [store[j] EXCEPT !.status = st]
         /\ \A k \in DOMAIN store : k # j => store'[k] = store[k]
<1>1. ASSUME NEW k \in DOMAIN store PROVE store[k].id = store[j].id <=> k = j
  BY EntryIs DEF CandidateInv
<1>2. store' = [k \in DOMAIN store |-> IF k = j THEN [store[k] EXCEPT !.status = st] ELSE store[k]]
  BY <1>1 DEF Rule!Marked
<1>3. store \in Seq(Candidates) /\ DOMAIN store = 1..Len(store)
  BY DEF CandidateInv, Numbered
<1>4. store' \in Seq(Candidates) /\ Len(store') = Len(store)
  <2>1. ASSUME NEW k \in 1..Len(store) PROVE store'[k] \in Candidates
    <3>1. store[k] \in Candidates
      BY <1>3
    <3>2. [store[k] EXCEPT !.status = st] \in Candidates
      BY <3>1 DEF Candidates
    <3>. QED  BY <1>2, <1>3, <3>1, <3>2
  <2>. QED  BY <1>2, <1>3, <2>1
<1>5. ASSUME NEW k \in DOMAIN store PROVE store'[k].id = store[k].id
  <2>1. store[k] \in Candidates
    BY <1>3
  <2>. QED  BY <1>2, <2>1 DEF Candidates
<1>. QED  BY <1>2, <1>3, <1>4, <1>5 DEF CandidateInv, Numbered

\* What a rule rests on is still there.
LEMMA ConfirmedStays ==
  ASSUME CandidateInv, NEW j \in DOMAIN store, NEW st \in Statuses, store' = Rule!Marked(store[j].id, st),
         store[j].status = "confirmed" => st = "confirmed", NEW r, NEW i, FromConfirmed(store, r, i)
  PROVE  FromConfirmed(store', r, i)
<1>1. PICK k \in DOMAIN store : store[k].id = i /\ store[k].status = "confirmed" /\ store[k].rule = r
  BY DEF FromConfirmed
<1>2. k \in DOMAIN store'
  BY MarkedIs
<1>3. store'[k].id = i /\ store'[k].status = "confirmed" /\ store'[k].rule = r
  <2>1. CASE k = j
    <3>1. store'[k] = [store[k] EXCEPT !.status = st] /\ st = "confirmed"
      BY <1>1, <2>1, MarkedIs
    <3>2. store[k] \in Candidates
      BY EntryIs DEF CandidateInv
    <3>. QED  BY <1>1, <3>1, <3>2 DEF Candidates
  <2>2. CASE k # j
    BY <1>1, <2>2, MarkedIs
  <2>. QED  BY <2>1, <2>2
<1>. QED  BY <1>2, <1>3 DEF FromConfirmed

LEMMA SavesKeeps ==
  ASSUME CandidateInv, NEW j \in DOMAIN store, Rule!Saves(store[j].id)
  PROVE  CandidateInv' /\ Rule!KeepsRules
<1>. DEFINE i == store[j].id
            c == store[j].rule
<1>0. /\ store[j] \in Candidates
      /\ OfId(store, i) = store[j]
  BY OfIdIs, EntryIs DEF CandidateInv
<1>1. /\ store[j].status = "pending" /\ store' = Rule!Marked(i, "confirmed")
      /\ rules' = IF readable THEN [rules EXCEPT ![c] = i] ELSE rules
  BY <1>0 DEF Rule!Saves, Rule!Candidate, OfId
<1>2. Numbered(store') /\ rules' \in [Rules -> Nat]
  BY <1>0, <1>1, MarkedIs DEF CandidateInv, Statuses, Candidates
<1>3. FromConfirmed(store', c, i)
  <2>1. j \in DOMAIN store' /\ store'[j] = [store[j] EXCEPT !.status = "confirmed"]
    BY <1>1, MarkedIs DEF Statuses
  <2>. QED  BY <1>0, <2>1 DEF FromConfirmed, Candidates
<1>4. ASSUME NEW r \in Rules, rules'[r] # 0 PROVE FromConfirmed(store', r, rules'[r])
  <2>1. CASE rules'[r] = rules[r]
    <3>1. FromConfirmed(store, r, rules[r])
      BY <1>4, <2>1 DEF CandidateInv
    <3>. QED  BY <1>1, <2>1, <3>1, ConfirmedStays DEF Statuses
  <2>2. CASE rules'[r] # rules[r]
    <3>1. r = c /\ rules'[r] = i
      BY <1>1, <2>2 DEF CandidateInv
    <3>. QED  BY <1>3, <3>1
  <2>. QED  BY <2>1, <2>2
<1>5. Rule!KeepsRules
  <2>1. ASSUME NEW r \in Rules, rules'[r] # rules[r] PROVE rules'[r] = i
    BY <1>1, <2>1 DEF CandidateInv
  <2>2. Rule!Candidate(i) = store[j]
    BY <1>0 DEF Rule!Candidate, OfId
  <2>. QED  BY <1>1, <2>1, <2>2 DEF Rule!KeepsRules
<1>. QED  BY <1>2, <1>4, <1>5 DEF CandidateInv

LEMMA CandidateStep ==
  ASSUME CandidateInv, [Rule!Next]_Rule!vars
  PROVE  CandidateInv' /\ Rule!KeepsRules
<1>. DEFINE Rest == UNCHANGED <<store, rules>>
<1>0. Rest => CandidateInv' /\ Rule!KeepsRules
  BY DEF CandidateInv, Rule!KeepsRules
<1>1. ASSUME NEW s, NEW r \in Rules, Rule!ModelProposes(s, r) PROVE CandidateInv' /\ Rule!KeepsRules
  <2>. DEFINE new == [id |-> Len(store) + 1, rule |-> r, status |-> "pending"]
  <2>0. store \in Seq(Candidates) /\ new \in Candidates
    BY DEF CandidateInv, Numbered, Statuses, Candidates
  <2>1. store' = <<new>> \o store /\ rules' = rules
    BY <1>1 DEF Rule!ModelProposes, Rule!Newest
  <2>. HIDE DEF new
  <2>2. /\ store' \in Seq(Candidates) /\ Len(store') = Len(store) + 1
        /\ store'[1] = new /\ \A k \in 1..Len(store) : store'[k + 1] = store[k]
    BY <2>0, <2>1
  <2>3. Numbered(store')
    <3>1. ASSUME NEW k \in 1..Len(store') PROVE store'[k].id + k = Len(store') + 1
      <4>1. CASE k = 1
        BY <2>0, <2>2, <4>1 DEF new
      <4>2. CASE k # 1
        <5>1. PICK y \in 1..Len(store) : k = y + 1
          <6>1. k - 1 \in 1..Len(store) /\ k = (k - 1) + 1
            BY <2>0, <2>2, <4>2
          <6>. QED  BY <6>1, Zenon
        <5>2. store'[k] = store[y]
          BY <2>2, <5>1
        <5>3. store[y].id + y = Len(store) + 1 /\ store[y].id \in Nat /\ y \in Nat /\ Len(store) \in Nat
          BY <2>0, EntryIs DEF CandidateInv
        <5>4. \A i, n, x \in Nat : i + x = n + 1 => i + (x + 1) = (n + 1) + 1
          OBVIOUS
        <5>5. store[y].id + (y + 1) = (Len(store) + 1) + 1
          BY <5>3, <5>4
        <5>. QED  BY <2>2, <5>1, <5>2, <5>5, Zenon
      <4>. QED  BY <4>1, <4>2
    <3>. QED  BY <2>2, <3>1 DEF Numbered
  <2>4. ASSUME NEW q \in Rules, NEW i, FromConfirmed(store, q, i) PROVE FromConfirmed(store', q, i)
    <3>1. PICK k \in DOMAIN store : store[k].id = i /\ store[k].status = "confirmed" /\ store[k].rule = q
      BY <2>4 DEF FromConfirmed
    <3>2. k + 1 \in DOMAIN store' /\ store'[k + 1] = store[k]
      BY <2>0, <2>2
    <3>. QED  BY <3>1, <3>2 DEF FromConfirmed
  <2>. QED  BY <2>1, <2>3, <2>4 DEF CandidateInv, Rule!KeepsRules
<1>2. ASSUME NEW i, Rule!Confirm(i) PROVE CandidateInv' /\ Rule!KeepsRules
  BY <1>2, SavesKeeps DEF Rule!Confirm, Rule!Known
<1>3. CASE Rule!ConfirmBare
  BY <1>3, SavesKeeps DEF Rule!ConfirmBare, Rule!Pending
<1>4. ASSUME NEW i, Rule!Reject(i) PROVE CandidateInv' /\ Rule!KeepsRules
  <2>1. PICK j \in DOMAIN store : store[j].id = i
    BY <1>4 DEF Rule!Reject, Rule!Known
  <2>2. store[j].status # "confirmed" /\ store' = Rule!Marked(store[j].id, "rejected") /\ rules' = rules
    <3>1. OfId(store, i) = store[j]
      BY <2>1, OfIdIs, Zenon DEF CandidateInv
    <3>2. Rule!Candidate(i) = store[j]
      BY <3>1, Zenon DEF Rule!Candidate, OfId
    <3>. QED  BY <1>4, <2>1, <3>2 DEF Rule!Reject
  <2>3. Numbered(store') /\ \A r \in Rules : \A k : FromConfirmed(store, r, k) => FromConfirmed(store', r, k)
    BY <2>2, MarkedIs, ConfirmedStays DEF Statuses
  <2>. QED  BY <2>2, <2>3 DEF CandidateInv, Rule!KeepsRules
<1>5. ASSUME NEW r \in Rules, Rule!EditPolicy(r) PROVE CandidateInv' /\ Rule!KeepsRules
  <2>1. rules' = [rules EXCEPT ![r] = 0] /\ store' = store
    BY <1>5 DEF Rule!EditPolicy
  <2>. QED  BY <2>1 DEF CandidateInv, Rule!KeepsRules
<1>6. ASSUME NEW s, Rule!AskModel(s) \/ Rule!ModelEnds(s) PROVE Rest
  BY <1>6 DEF Rule!AskModel, Rule!ModelEnds
<1>7. ASSUME NEW i, Rule!ReplyArrives(i) PROVE Rest
  BY <1>7 DEF Rule!ReplyArrives
<1>8. CASE Rule!DayPasses
  BY <1>0, <1>8 DEF Rule!DayPasses, Rule!rules
<1>9. ASSUME NEW p, \/ Rule!Start(p) \/ Rule!Made(p) \/ Rule!Claim(p) \/ Rule!Steals(p)
                    \/ Rule!Greet(p) \/ Rule!Greeted(p) \/ Rule!StartFails(p) \/ Rule!Restart(p)
      PROVE Rest
  BY <1>9 DEF Rule!Start, Rule!Made, Rule!Claim, Rule!Steals, Rule!Greet, Rule!Greeted, Rule!StartFails,
              Rule!Restart, Rule!rules
<1>10. CASE UNCHANGED Rule!vars
  BY <1>0, <1>10 DEF Rule!vars, Rule!rules
<1>. HIDE DEF Rest
<1>. QED  BY <1>0, <1>1, <1>2, <1>3, <1>4, <1>5, <1>6, <1>7, <1>8, <1>9, <1>10 DEF Rule!Next

\* The stages of a set-up.
Doing == {"idle", "making", "claiming", "greeting", "greeted"}
Setup == [step : Doing, chat : Nat, force : BOOLEAN]
SetupTypes ==
  /\ chats \in Rule!Chats \union {0} /\ file.chat \in 0..chats /\ file \in [chat : Nat, greeted : BOOLEAN]
  /\ env \in [Processes -> 0..chats] /\ dotenv \in 0..chats /\ lock \in Processes \union {"none"}
  /\ job \in [Processes -> Setup] /\ greeted \in [Rule!Chats -> Nat] /\ task \in Rule!Task
  /\ \A p \in Processes : job[p].step \in {"claiming", "greeting", "greeted"} => job[p].chat \in 1..chats

\* Who greets has the lock; a chat that was greeted is filed as such or about to
\* be, and one that was made for being greeted has not been.
Locked(p) == job[p].step \in {"greeting", "greeted"}
Fresh(p) == job[p].step = "greeting" /\ job[p].force
GreetInv ==
  /\ SetupTypes
  /\ \A c \in Rule!Chats : c > chats => greeted[c] = 0
  /\ ~task.hit =>
       /\ \A p \in Processes : Locked(p) => lock = p
       /\ \A c \in Rule!Chats : greeted[c] <= 1
       /\ \A c \in Rule!Chats : greeted[c] # 0 => file.greeted \/ \E q \in Processes : job[q].step = "greeted"
       /\ \A p \in Processes : Fresh(p) => greeted[job[p].chat] = 0

LEMMA RuleSpends ==
  ASSUME task \in Rule!Task, NEW what \in {"edits", "asks", "commands", "starts", "late", "restarts"}, Rule!Spend(what)
  PROVE  task' \in Rule!Task /\ task'.hit = task.hit
BY DEF Rule!Task, Rule!Spend

LEMMA OneLessIs ==
  ASSUME task \in Rule!Task, NEW what \in {"edits", "asks", "commands", "starts", "late", "restarts"}, task[what] > 0
  PROVE  [task EXCEPT ![what] = @ - 1] \in Rule!Task
BY DEF Rule!Task

LEMMA HitIsSet == ASSUME NEW t \in Rule!Task, NEW h \in BOOLEAN PROVE [t EXCEPT !.hit = h] \in Rule!Task
BY DEF Rule!Task

\* A rare event that may upset the set-ups is spent.
LEMMA RareSpends ==
  ASSUME task \in Rule!Task, NEW what \in {"late", "restarts"}, task[what] > 0, NEW upset \in BOOLEAN,
         task' = [task EXCEPT ![what] = @ - 1, !.hit = @ \/ upset]
  PROVE  task' \in Rule!Task /\ task'.hit \in BOOLEAN /\ (~task'.hit => ~task.hit /\ ~upset)
<1>1. task.hit \in BOOLEAN
  BY DEF Rule!Task
<1>2. task'.hit = (task.hit \/ upset)
  BY DEF Rule!Task
<1>3. task'.hit \in BOOLEAN /\ (~task'.hit => ~task.hit /\ ~upset)
  BY <1>1, <1>2, Zenon
<1>4. task' \in Rule!Task
  <2>1. CASE what = "late"
    <3>1. task' = [task EXCEPT !.late = @ - 1, !.hit = task'.hit] /\ task.late > 0
      BY <1>2, <2>1
    <3>2. [task EXCEPT !.late = @ - 1] \in Rule!Task
      BY <3>1, OneLessIs
    <3>3. task' = [[task EXCEPT !.late = @ - 1] EXCEPT !.hit = task'.hit]
      BY <3>1 DEF Rule!Task
    <3>. QED  BY <1>3, <3>2, <3>3, HitIsSet, Zenon
  <2>2. CASE what = "restarts"
    <3>1. task' = [task EXCEPT !.restarts = @ - 1, !.hit = task'.hit] /\ task.restarts > 0
      BY <1>2, <2>2
    <3>2. [task EXCEPT !.restarts = @ - 1] \in Rule!Task
      BY <3>1, OneLessIs
    <3>3. task' = [[task EXCEPT !.restarts = @ - 1] EXCEPT !.hit = task'.hit]
      BY <3>1 DEF Rule!Task
    <3>. QED  BY <1>3, <3>2, <3>3, HitIsSet, Zenon
  <2>. QED  BY <2>1, <2>2
<1>. QED  BY <1>3, <1>4

LEMMA MaxIsNat == MaxChats \in Nat
BY TaskAssumption

\* A process goes on with its set-up.
Moves(p, next) == job' = [job EXCEPT ![p] = next]

\* One process goes on with its set-up, nobody is greeted meanwhile.
LEMMA GoesOnAlone ==
  ASSUME GreetInv, SetupTypes', NEW p \in Processes, NEW next \in Setup, Moves(p, next),
         greeted' = greeted, file'.greeted = file.greeted, chats' >= chats, task'.hit \in BOOLEAN,
         ~task'.hit => /\ ~task.hit /\ job[p].step # "greeted" /\ next.step # "greeted"
                       /\ next.step = "greeting" => lock' = p /\ \A q \in Processes : q # p => ~Locked(q)
                       /\ next.step = "greeting" /\ next.force => greeted[next.chat] = 0
                       /\ next.step # "greeting" => \A q \in Processes : q # p /\ Locked(q) => lock' = lock
  PROVE  GreetInv'
<1>1. \A q \in Processes : job'[q] = IF q = p THEN next ELSE job[q]
  BY DEF GreetInv, SetupTypes, Moves
<1>2. \A c \in Rule!Chats : c > chats' => greeted'[c] = 0
  BY MaxIsNat DEF GreetInv, SetupTypes, Rule!Chats
<1>3. ASSUME ~task'.hit
      PROVE  /\ \A q \in Processes : Locked(q)' => lock' = q
             /\ \A c \in Rule!Chats : greeted'[c] <= 1
             /\ \A c \in Rule!Chats : greeted'[c] # 0 => file'.greeted \/ \E q \in Processes : job'[q].step = "greeted"
             /\ \A q \in Processes : Fresh(q)' => greeted'[job'[q].chat] = 0
  <2>1. ASSUME NEW q \in Processes, Locked(q)' PROVE lock' = q
    BY <1>1, <1>3, <2>1 DEF GreetInv, Locked
  <2>2. ASSUME NEW c \in Rule!Chats, greeted'[c] # 0 PROVE file'.greeted \/ \E q \in Processes : job'[q].step = "greeted"
    BY <1>1, <1>3, <2>2 DEF GreetInv
  <2>3. ASSUME NEW q \in Processes, Fresh(q)' PROVE greeted'[job'[q].chat] = 0
    BY <1>1, <1>3, <2>3 DEF GreetInv, Fresh
  <2>. QED  BY <1>3, <2>1, <2>2, <2>3 DEF GreetInv
<1>. QED  BY <1>2, <1>3 DEF GreetInv

LEMMA GreetInit == Rule!Init => GreetInv
<1>. SUFFICES ASSUME Rule!Init PROVE GreetInv
  OBVIOUS
<1>1. task \in Rule!Task
  BY TaskAssumption DEF Rule!Init
<1>2. SetupTypes
  BY <1>1, MaxIsNat DEF Rule!Init, SetupTypes, Setup, Doing, Rule!NoJob, Rule!Chats
<1>. QED  BY <1>2 DEF Rule!Init, GreetInv, Locked, Fresh, Rule!NoJob, Rule!Chats

LEMMA WorksOn ==
  ASSUME GreetInv, NEW p \in Processes, NEW step \in Doing, NEW c \in Nat, NEW force \in BOOLEAN,
         Rule!Works(p, step, c, force)
  PROVE  /\ Moves(p, [step |-> step, chat |-> c, force |-> force])
         /\ [step |-> step, chat |-> c, force |-> force] \in Setup
BY DEF Rule!Works, Setup, Moves

LEMMA RestsIs ==
  ASSUME NEW p, Rule!Rests(p)
  PROVE  Moves(p, Rule!NoJob) /\ Rule!NoJob \in Setup /\ Rule!NoJob.step = "idle"
BY DEF Rule!Rests, Rule!NoJob, Setup, Doing, Moves

\* A process that becomes somewhere else than at greeting.
LEMMA Leaves ==
  ASSUME GreetInv, SetupTypes', NEW p \in Processes, NEW next \in Setup, Moves(p, next),
         next.step \notin {"greeting", "greeted"}, greeted' = greeted, file'.greeted = file.greeted,
         chats' >= chats, task'.hit \in BOOLEAN,
         ~task'.hit => /\ ~task.hit /\ job[p].step # "greeted"
                       /\ \A q \in Processes : q # p /\ Locked(q) => lock' = lock
  PROVE  GreetInv'
BY GoesOnAlone

LEMMA StartKeeps == ASSUME GreetInv, NEW p \in Processes, Rule!Start(p) PROVE GreetInv'
<1>1. /\ task' \in Rule!Task /\ task'.hit = task.hit
      /\ chats' = chats /\ file' = file /\ greeted' = greeted /\ lock' = lock /\ job[p].step = "idle"
  <2>1. Rule!Spend("starts") /\ task \in Rule!Task
    BY DEF GreetInv, SetupTypes, Rule!Start
  <2>2. task' \in Rule!Task /\ task'.hit = task.hit
    BY <2>1, RuleSpends
  <2>3. chats' = chats /\ file' = file /\ greeted' = greeted
    BY DEF Rule!Start
  <2>4. lock' = lock
    BY DEF Rule!Start
  <2>5. job[p].step = "idle"
    BY DEF Rule!Start, Rule!NoJob
  <2>. QED  BY <2>2, <2>3, <2>4, <2>5
<1>2. Rule!ChatOf(p) \in 0..chats
  BY DEF GreetInv, SetupTypes, Rule!ChatOf
<1>3. PICK next \in Setup : /\ Moves(p, next)
                            /\ next.step \notin {"greeting", "greeted"}
                            /\ next.step = "claiming" => next.chat \in 1..chats
  <2>1. CASE Rule!ChatOf(p) = 0
    <3>1. Rule!Works(p, "making", 0, FALSE) /\ "making" \in Doing /\ 0 \in Nat /\ FALSE \in BOOLEAN
      BY <2>1 DEF Rule!Start, Doing
    <3>2. /\ Moves(p, [step |-> "making", chat |-> 0, force |-> FALSE])
          /\ [step |-> "making", chat |-> 0, force |-> FALSE] \in Setup
      BY <3>1, WorksOn
    <3>. QED  BY <3>2
  <2>2. CASE Rule!ChatOf(p) # 0 /\ Rule!Due(FALSE)
    <3>1. Rule!ChatOf(p) \in 1..chats /\ chats \in Nat
      BY <1>2, <2>2, MaxIsNat DEF GreetInv, SetupTypes, Rule!Chats
    <3>2. /\ Rule!Works(p, "claiming", Rule!ChatOf(p), FALSE) /\ "claiming" \in Doing
          /\ Rule!ChatOf(p) \in Nat /\ FALSE \in BOOLEAN
      <4>1. Rule!Works(p, "claiming", Rule!ChatOf(p), FALSE)
        BY <2>2 DEF Rule!Start
      <4>2. Rule!ChatOf(p) \in Nat
        BY <3>1
      <4>. QED  BY <4>1, <4>2, Zenon DEF Doing
    <3>3. /\ Moves(p, [step |-> "claiming", chat |-> Rule!ChatOf(p), force |-> FALSE])
          /\ [step |-> "claiming", chat |-> Rule!ChatOf(p), force |-> FALSE] \in Setup
      BY <3>2, WorksOn
    <3>. QED  BY <3>1, <3>3
  <2>3. CASE Rule!ChatOf(p) # 0 /\ ~Rule!Due(FALSE)
    BY <2>3, RestsIs DEF Rule!Start
  <2>. QED  BY <2>1, <2>2, <2>3
<1>4. env' \in [Processes -> 0..chats] /\ dotenv' \in 0..chats
  BY <1>2 DEF Rule!Start, GreetInv, SetupTypes
<1>5. SetupTypes'
  BY <1>1, <1>3, <1>4 DEF GreetInv, SetupTypes, Moves
<1>6. chats \in Nat /\ task'.hit \in BOOLEAN
  BY <1>1, MaxIsNat DEF GreetInv, SetupTypes, Rule!Chats, Rule!Task
<1>. QED  BY <1>1, <1>3, <1>5, <1>6, Leaves

\* A claim: the lock is free and taken, or the set-up rests.
LEMMA ClaimKeeps ==
  ASSUME GreetInv, NEW p \in Processes, NEW c \in 1..chats', NEW force \in BOOLEAN, Rule!Claims(p, c, force),
         chats' \in Rule!Chats, chats' >= chats, file'.chat \in 0..chats', file' \in [chat : Nat, greeted : BOOLEAN],
         env' \in [Processes -> 0..chats'], dotenv' \in 0..chats', greeted' = greeted, task' = task,
         file'.greeted = file.greeted, force => greeted[c] = 0, job[p].step # "greeted"
  PROVE  GreetInv'
<1>0. c \in Nat /\ chats \in Nat /\ chats' \in Nat /\ task.hit \in BOOLEAN
  BY MaxIsNat DEF GreetInv, SetupTypes, Rule!Chats, Rule!Task
<1>1. CASE lock = "none"
  <2>. DEFINE next == [step |-> "greeting", chat |-> c, force |-> force]
  <2>1. lock' = p /\ Moves(p, next) /\ next \in Setup
    BY <1>0, <1>1, WorksOn DEF Rule!Claims, Doing
  <2>2. SetupTypes'
    BY <1>0, <2>1 DEF GreetInv, SetupTypes, Moves
  <2>3. ~task.hit => \A q \in Processes : ~Locked(q)
    BY <1>1, TaskAssumption DEF GreetInv
  <2>4. next.step = "greeting" /\ next.chat = c /\ next.force = force
    OBVIOUS
  <2>. HIDE DEF next
  <2>. QED  BY <1>0, <2>1, <2>2, <2>3, <2>4, GoesOnAlone
<1>2. CASE lock # "none"
  <2>1. lock' = lock /\ Moves(p, Rule!NoJob) /\ Rule!NoJob \in Setup /\ Rule!NoJob.step = "idle"
    BY <1>2, RestsIs DEF Rule!Claims
  <2>2. SetupTypes'
    BY <1>0, <2>1 DEF GreetInv, SetupTypes, Moves
  <2>. QED  BY <1>0, <2>1, <2>2, Leaves
<1>. QED  BY <1>1, <1>2

LEMMA MadeKeeps == ASSUME GreetInv, NEW p \in Processes, Rule!Made(p) PROVE GreetInv'
<1>1. /\ chats < MaxChats /\ chats' = chats + 1 /\ env' = [env EXCEPT ![p] = chats + 1]
      /\ file' = [file EXCEPT !.chat = chats + 1]
      /\ dotenv' \in {dotenv, chats + 1} /\ Rule!Claims(p, chats + 1, TRUE)
      /\ greeted' = greeted /\ task' = task /\ job[p].step = "making"
  BY DEF Rule!Made
<1>2. chats \in Nat /\ chats + 1 \in Rule!Chats
  BY <1>1, MaxIsNat DEF GreetInv, SetupTypes, Rule!Chats
<1>3. greeted[chats + 1] = 0
  BY <1>2 DEF GreetInv
<1>4. /\ env' \in [Processes -> 0..chats'] /\ dotenv' \in 0..chats' /\ file' \in [chat : Nat, greeted : BOOLEAN]
      /\ file'.chat \in 0..chats' /\ file'.greeted = file.greeted /\ chats + 1 \in 1..chats'
  BY <1>1, <1>2 DEF GreetInv, SetupTypes
<1>5. /\ chats' \in Rule!Chats /\ chats' >= chats /\ TRUE \in BOOLEAN /\ job[p].step # "greeted"
      /\ TRUE => greeted[chats + 1] = 0
  BY <1>1, <1>2, <1>3
<1>6. Rule!Claims(p, chats + 1, TRUE) /\ greeted' = greeted /\ task' = task
  BY <1>1
<1>. QED  BY <1>4, <1>5, <1>6, ClaimKeeps, Zenon

LEMMA StealsKeeps == ASSUME GreetInv, NEW p \in Processes, Rule!Steals(p) PROVE GreetInv'
<1>. DEFINE next == [step |-> "greeting", chat |-> job[p].chat, force |-> FALSE]
<1>1. /\ job[p].step = "claiming" /\ lock # "none" /\ lock' = p
      /\ task' = [task EXCEPT !.late = @ - 1, !.hit = @ \/ job[lock] # Rule!NoJob] /\ task.late > 0
      /\ UNCHANGED <<chats, file, env, dotenv, greeted>>
  BY DEF Rule!Steals
<1>2. job[p].chat \in 1..chats /\ chats \in Nat
  BY <1>1, MaxIsNat DEF GreetInv, SetupTypes, Rule!Chats
<1>3. Moves(p, next) /\ next \in Setup
  <2>1. Rule!Works(p, "greeting", job[p].chat, FALSE) /\ "greeting" \in Doing /\ job[p].chat \in Nat /\ FALSE \in BOOLEAN
    <3>1. Rule!Works(p, "greeting", job[p].chat, FALSE)
      BY DEF Rule!Steals
    <3>2. job[p].chat \in Nat
      BY <1>2
    <3>. QED  BY <3>1, <3>2, Zenon DEF Doing
  <2>. QED  BY <2>1, WorksOn
<1>4. task' \in Rule!Task /\ (~task'.hit => ~task.hit /\ job[lock] = Rule!NoJob) /\ task'.hit \in BOOLEAN
  <2>. DEFINE upset == job[lock] # Rule!NoJob
  <2>1. task' = [task EXCEPT !["late"] = @ - 1, !.hit = @ \/ upset] /\ task["late"] > 0 /\ upset \in BOOLEAN
    BY <1>1
  <2>2. task \in Rule!Task
    BY DEF GreetInv, SetupTypes
  <2>. HIDE DEF upset
  <2>3. task' \in Rule!Task /\ task'.hit \in BOOLEAN /\ (~task'.hit => ~task.hit /\ ~upset)
    BY <2>1, <2>2, RareSpends
  <2>. QED  BY <2>3 DEF upset
<1>5. ~task'.hit => \A q \in Processes : ~Locked(q)
  BY <1>4 DEF GreetInv, Locked, Rule!NoJob
<1>6. next.step = "greeting" /\ next.force = FALSE /\ next.chat = job[p].chat
  OBVIOUS
<1>. HIDE DEF next
<1>7. SetupTypes'
  BY <1>1, <1>2, <1>3, <1>4, <1>6 DEF GreetInv, SetupTypes, Moves
<1>8. file'.greeted = file.greeted /\ chats' >= chats
  BY <1>1, <1>2
<1>. QED  BY <1>1, <1>3, <1>4, <1>5, <1>6, <1>7, <1>8, GoesOnAlone

LEMMA GreetKeeps == ASSUME GreetInv, NEW p \in Processes, Rule!Greet(p) PROVE GreetInv'
<1>. DEFINE c == job[p].chat
<1>1. job[p].step = "greeting" /\ UNCHANGED <<chats, file, env, dotenv, task>>
  BY DEF Rule!Greet
<1>2. c \in 1..chats /\ chats \in Nat /\ c \in Rule!Chats /\ task.hit \in BOOLEAN /\ job[p].force \in BOOLEAN
  BY <1>1, MaxIsNat DEF GreetInv, SetupTypes, Rule!Chats, Rule!Task, Setup
<1>3. ~task.hit => lock = p /\ \A q \in Processes : q # p => ~Locked(q)
  BY <1>1 DEF GreetInv, Locked
<1>4. CASE Rule!Due(job[p].force)
  <2>. DEFINE next == [step |-> "greeted", chat |-> c, force |-> job[p].force]
  <2>1. greeted' = [greeted EXCEPT ![c] = @ + 1] /\ lock' = lock
    BY <1>4 DEF Rule!Greet
  <2>2. Moves(p, next) /\ next \in Setup
    BY <1>2, <1>4, WorksOn DEF Rule!Greet, Doing
  <2>3. next.step = "greeted" /\ next.chat = c
    OBVIOUS
  <2>. HIDE DEF next
  <2>4. SetupTypes'
    BY <1>1, <1>2, <2>1, <2>2, <2>3 DEF GreetInv, SetupTypes, Moves
  <2>5. \A x \in Rule!Chats : x > chats' => greeted'[x] = 0
    BY <1>1, <1>2, <2>1 DEF GreetInv, SetupTypes
  <2>6. job'[p].step = "greeted" /\ \A q \in Processes : q # p => job'[q] = job[q]
    BY <2>2, <2>3 DEF GreetInv, SetupTypes, Moves
  <2>7. ASSUME ~task.hit PROVE greeted[c] = 0 /\ \A x \in Rule!Chats : greeted[x] <= 1
    <3>1. CASE job[p].force
      BY <1>1, <2>7, <3>1 DEF GreetInv, Fresh
    <3>2. CASE ~file.greeted
      <4>1. \A q \in Processes : job[q].step # "greeted"
        BY <1>1, <1>3, <2>7 DEF Locked
      <4>. QED  BY <1>2, <2>7, <3>2, <4>1 DEF GreetInv
    <3>. QED  BY <1>4, <3>1, <3>2 DEF Rule!Due
  <2>8. ASSUME ~task'.hit
        PROVE  /\ \A q \in Processes : Locked(q)' => lock' = q
               /\ \A x \in Rule!Chats : greeted'[x] <= 1
               /\ \A x \in Rule!Chats : greeted'[x] # 0 => file'.greeted \/ \E q \in Processes : job'[q].step = "greeted"
               /\ \A q \in Processes : Fresh(q)' => greeted'[job'[q].chat] = 0
    <3>1. \A q \in Processes : Locked(q)' => lock' = q
      BY <1>1, <1>3, <2>1, <2>6, <2>8 DEF Locked
    <3>2. \A x \in Rule!Chats : greeted'[x] <= 1
      BY <1>1, <1>2, <2>1, <2>7, <2>8 DEF GreetInv, SetupTypes
    <3>3. \A q \in Processes : ~Fresh(q)'
      BY <1>1, <1>3, <2>6, <2>8 DEF Locked, Fresh
    <3>. QED  BY <2>6, <3>1, <3>2, <3>3
  <2>. QED  BY <2>4, <2>5, <2>8 DEF GreetInv
<1>5. CASE ~Rule!Due(job[p].force)
  <2>1. /\ lock' = "none" /\ greeted' = greeted
        /\ Moves(p, Rule!NoJob) /\ Rule!NoJob \in Setup /\ Rule!NoJob.step = "idle"
    BY <1>5, RestsIs DEF Rule!Greet
  <2>2. SetupTypes'
    BY <1>1, <2>1 DEF GreetInv, SetupTypes, Moves
  <2>. QED  BY <1>1, <1>2, <1>3, <2>1, <2>2, Leaves
<1>. QED  BY <1>4, <1>5

LEMMA GreetedKeeps == ASSUME GreetInv, NEW p \in Processes, Rule!Greeted(p) PROVE GreetInv'
<1>1. /\ job[p].step = "greeted" /\ file' = [chat |-> job[p].chat, greeted |-> TRUE] /\ lock' = "none"
      /\ UNCHANGED <<chats, env, dotenv, greeted, task>>
      /\ Moves(p, Rule!NoJob) /\ Rule!NoJob \in Setup /\ Rule!NoJob.step = "idle"
  BY RestsIs DEF Rule!Greeted
<1>2. job[p].chat \in 1..chats /\ chats \in Nat
  BY <1>1, MaxIsNat DEF GreetInv, SetupTypes, Rule!Chats
<1>3. SetupTypes'
  BY <1>1, <1>2 DEF GreetInv, SetupTypes, Moves
<1>4. job'[p].step = "idle" /\ \A q \in Processes : q # p => job'[q] = job[q]
  BY <1>1 DEF GreetInv, SetupTypes, Moves
<1>5. ~task.hit => \A q \in Processes : ~Locked(q)'
  BY <1>1, <1>4 DEF GreetInv, Locked
<1>. QED  BY <1>1, <1>3, <1>5 DEF GreetInv, Locked, Fresh

LEMMA StartFailsKeeps == ASSUME GreetInv, NEW p \in Processes, Rule!StartFails(p) PROVE GreetInv'
<1>1. /\ task' \in Rule!Task /\ task'.hit = task.hit /\ job[p].step \in {"making", "greeting"}
      /\ lock' = IF job[p].step = "greeting" THEN "none" ELSE lock
      /\ UNCHANGED <<chats, file, env, dotenv, greeted>>
      /\ Moves(p, Rule!NoJob) /\ Rule!NoJob \in Setup /\ Rule!NoJob.step = "idle"
  BY RestsIs, RuleSpends DEF Rule!StartFails, GreetInv, SetupTypes
<1>2. SetupTypes'
  BY <1>1 DEF GreetInv, SetupTypes, Moves
<1>3. ~task.hit => \A q \in Processes : q # p /\ Locked(q) => lock' = lock
  BY <1>1 DEF GreetInv, Locked
<1>4. chats \in Nat /\ task'.hit \in BOOLEAN
  BY <1>1, MaxIsNat DEF GreetInv, SetupTypes, Rule!Chats, Rule!Task
<1>. QED  BY <1>1, <1>2, <1>3, <1>4, Leaves

LEMMA RestartKeeps == ASSUME GreetInv, NEW p \in Processes, Rule!Restart(p) PROVE GreetInv'
<1>1. /\ task' = [task EXCEPT !.restarts = @ - 1, !.hit = @ \/ job[p].step = "greeted"] /\ task.restarts > 0
      /\ env' = [env EXCEPT ![p] = dotenv] /\ UNCHANGED <<chats, file, dotenv, lock, greeted>>
      /\ Moves(p, Rule!NoJob) /\ Rule!NoJob \in Setup /\ Rule!NoJob.step = "idle"
  BY RestsIs DEF Rule!Restart
<1>2. /\ task' \in Rule!Task /\ task'.hit \in BOOLEAN
      /\ ~task'.hit => ~task.hit /\ job[p].step # "greeted"
  <2>. DEFINE upset == job[p].step = "greeted"
  <2>1. task' = [task EXCEPT !["restarts"] = @ - 1, !.hit = @ \/ upset] /\ task["restarts"] > 0 /\ upset \in BOOLEAN
    BY <1>1
  <2>2. task \in Rule!Task
    BY DEF GreetInv, SetupTypes
  <2>. HIDE DEF upset
  <2>3. task' \in Rule!Task /\ task'.hit \in BOOLEAN /\ (~task'.hit => ~task.hit /\ ~upset)
    BY <2>1, <2>2, RareSpends
  <2>. QED  BY <2>3 DEF upset
<1>3. SetupTypes'
  BY <1>1, <1>2 DEF GreetInv, SetupTypes, Moves
<1>4. chats \in Nat
  BY MaxIsNat DEF GreetInv, SetupTypes, Rule!Chats
<1>. QED  BY <1>1, <1>2, <1>3, <1>4, Leaves

LEMMA GreetStep == ASSUME GreetInv, [Rule!Next]_Rule!vars PROVE GreetInv'
<1>. DEFINE Rest == UNCHANGED <<chats, file, env, dotenv, lock, job, greeted>>
                    /\ task' \in Rule!Task /\ task'.hit = task.hit
<1>0. Rest => GreetInv'
  BY DEF GreetInv, SetupTypes, Locked, Fresh
<1>1. ASSUME NEW s, \/ Rule!AskModel(s) \/ Rule!ModelEnds(s) \/ \E r \in Rules : Rule!ModelProposes(s, r) PROVE Rest
  BY <1>1, RuleSpends DEF Rule!AskModel, Rule!ModelEnds, Rule!ModelProposes, Rule!setup, GreetInv, SetupTypes
<1>2. ASSUME NEW i, Rule!ReplyArrives(i) \/ Rule!Confirm(i) \/ Rule!Reject(i) PROVE Rest
  BY <1>2, RuleSpends DEF Rule!ReplyArrives, Rule!Confirm, Rule!Reject, Rule!setup, GreetInv, SetupTypes
<1>3. CASE Rule!ConfirmBare
  <2>1. Rest
    BY <1>3, RuleSpends DEF Rule!ConfirmBare, Rule!setup, GreetInv, SetupTypes
  <2>. QED  BY <1>0, <2>1
<1>4. CASE Rule!DayPasses
  <2>1. /\ task' \in Rule!Task /\ task'.hit = task.hit
    BY <1>4, RuleSpends DEF Rule!DayPasses, GreetInv, SetupTypes
  <2>2. SetupTypes'
    BY <1>4, <2>1 DEF Rule!DayPasses, GreetInv, SetupTypes
  <2>3. \A p \in Processes : job[p].step \in {"claiming", "greeting", "greeted"} => job[p].chat \in Rule!Chats
    BY MaxIsNat DEF GreetInv, SetupTypes, Rule!Chats
  <2>. QED  BY <1>4, <2>1, <2>2, <2>3 DEF Rule!DayPasses, GreetInv, Locked, Fresh
<1>5. ASSUME NEW r, Rule!EditPolicy(r) PROVE Rest
  BY <1>5, RuleSpends DEF Rule!EditPolicy, Rule!setup, GreetInv, SetupTypes
<1>6. ASSUME NEW p \in Processes, Rule!Claim(p) PROVE GreetInv'
  <2>1. job[p].chat \in 1..chats /\ chats \in Rule!Chats /\ chats \in Nat
    BY <1>6, MaxIsNat DEF Rule!Claim, GreetInv, SetupTypes, Rule!Chats
  <2>2. /\ file'.chat \in 0..chats' /\ file' \in [chat : Nat, greeted : BOOLEAN] /\ env' \in [Processes -> 0..chats']
        /\ dotenv' \in 0..chats' /\ chats' = chats /\ greeted' = greeted /\ task' = task /\ file' = file
    BY <1>6 DEF Rule!Claim, GreetInv, SetupTypes
  <2>3. Rule!Claims(p, job[p].chat, FALSE) /\ job[p].step # "greeted"
    BY <1>6 DEF Rule!Claim
  <2>4. /\ chats' \in Rule!Chats /\ chats' >= chats /\ FALSE \in BOOLEAN /\ file'.greeted = file.greeted
        /\ job[p].chat \in 1..chats' /\ (FALSE => greeted[job[p].chat] = 0)
    BY <2>1, <2>2
  <2>. QED  BY <2>2, <2>3, <2>4, ClaimKeeps, Zenon
<1>7. CASE UNCHANGED Rule!vars
  BY <1>0, <1>7 DEF Rule!vars, Rule!setup, GreetInv, SetupTypes
<1>. HIDE DEF Rest
<1>. QED  BY <1>0, <1>1, <1>2, <1>3, <1>4, <1>5, <1>6, <1>7, StartKeeps, MadeKeeps, StealsKeeps, GreetKeeps,
             GreetedKeeps, StartFailsKeeps, RestartKeeps DEF Rule!Next

LEMMA CandidateInit == Rule!Init => CandidateInv
BY DEF Rule!Init, CandidateInv, Numbered

LEMMA RulesHold == CandidateInv /\ GreetInv => Rule!RulesAreConfirmed /\ Rule!GreetedOnce
<1>1. ASSUME CandidateInv, NEW r \in Rules, rules[r] # 0
      PROVE  Rule!Candidate(rules[r]).status = "confirmed" /\ Rule!Candidate(rules[r]).rule = r
  <2>1. PICK j \in DOMAIN store : store[j].id = rules[r] /\ store[j].status = "confirmed" /\ store[j].rule = r
    BY <1>1 DEF CandidateInv, FromConfirmed
  <2>2. Rule!Candidate(rules[r]) = store[j]
    BY <1>1, <2>1, OfIdIs DEF CandidateInv, Rule!Candidate, OfId
  <2>. QED  BY <2>1, <2>2
<1>. QED  BY <1>1 DEF Rule!RulesAreConfirmed, Rule!GreetedOnce, GreetInv

\* A rule stands in the policy as long as it was confirmed, in the words that were
\* confirmed, and a chat is greeted once in a day by however many processes
\* (decision/candidates.ts, decision/onboarding.ts).
THEOREM ConfirmedStay == Rule!Spec => [](Rule!RulesAreConfirmed /\ Rule!GreetedOnce) /\ Rule!RulesStay
<1>1. CandidateInv /\ GreetInv /\ [Rule!Next]_Rule!vars => [Rule!KeepsRules]_Rule!vars
  BY CandidateStep
<1>. QED  BY CandidateInit, GreetInit, CandidateStep, GreetStep, RulesHold, <1>1, PTL DEF Rule!Spec, Rule!RulesStay

\* The same of the sum of the parts, of which one runs at a time.
THEOREM RulesAlwaysKept == PartsSpec => RulesKept
<1>. DEFINE Inv == part = "rules" => CandidateInv /\ GreetInv
            all == <<part, chatVars, ruleVars, driftVars, webVars, meterVars, deskVars>>
<1>1. Parts => Inv
  BY CandidateInit, GreetInit DEF Parts
<1>2. ASSUME Inv, [Step]_all PROVE Inv' /\ [part = "rules" => Rule!KeepsRules]_ruleVars
  <2>1. CASE part = "rules"
    <3>1. part' = part /\ [Rule!Next]_Rule!vars
      BY <1>2, <2>1 DEF Step, ruleVars, Rule!vars, Rule!rules, Rule!setup
    <3>. QED  BY <1>2, <2>1, <3>1, CandidateStep, GreetStep
  <2>2. CASE part # "rules"
    <3>1. part' = part
      BY <1>2, <2>2 DEF Step
    <3>. QED  BY <2>2, <3>1
  <2>. QED  BY <2>1, <2>2
<1>3. Inv => (part = "rules" => Rule!RulesAreConfirmed /\ Rule!GreetedOnce)
  BY RulesHold
<1>. QED  BY <1>1, <1>2, <1>3, PTL DEF PartsSpec, RulesKept

(***************************************************************************)
(* The progress that is not synced (SyncDrift)                             *)
(***************************************************************************)
\* What a card or a draft asks for its evidence shows, and none of it was decided before.
CardOk(c) ==
  /\ c.found \subseteq Drift!Findings(c.of)
  /\ \A k \in Drift!Keys(c.found) : <<k, c.of.day>> \notin c.before

\* What a card on its way leaves out was decided, when P is what was pressed.
LeavesDecided(it, P) ==
  \A k \in Drift!Keys(Drift!Findings(it.of)) : k \in Drift!Keys(it.found) \/ <<k, it.of.day>> \in P

\* What was asked on a day or decided, by the cards C and by P.
AskedBy(d, k, P, C) ==
  <<k, d>> \in P \/ \E c \in C : c.kind = "review" /\ c.of.day = d /\ k \in Drift!Keys(c.found)
AllAsked(P, C, e) == \A k \in Drift!Owed(e) : AskedBy(e.day, k, P, C)

\* The ledger has what was pressed, and no more.
DriftInv ==
  /\ decided = pressed /\ review = [r \in Reviews |-> review[r]]
  /\ \A c \in cards : CardOk(c)
  /\ \A r \in Reviews : review[r].pc = "sending" =>
       CardOk(review[r]) /\ (review[r].kind = "review" => LeavesDecided(review[r], pressed))
  /\ \A x \in ended : x.failed \/ AllAsked(pressed, cards, x.of)

LEMMA DriftInit == Drift!Init => DriftInv
BY DEF Drift!Init, Drift!Idle, DriftInv

\* A finding stays, or one of its key does.
LEMMA DedupKeeps ==
  ASSUME NEW F, NEW f \in F
  PROVE  f.key \in Drift!Keys(Drift!Deduped(F))
<1>1. CASE f \in Drift!Deduped(F)
  BY <1>1 DEF Drift!Keys
<1>2. CASE f \notin Drift!Deduped(F)
  <2>1. PICK g \in F : g.key = f.key /\ g.sure
    BY <1>2 DEF Drift!Deduped
  <2>2. g \in Drift!Deduped(F)
    BY <2>1 DEF Drift!Deduped
  <2>. QED  BY <2>1, <2>2 DEF Drift!Keys
<1>. QED  BY <1>1, <1>2

\* All that a review owes is among its findings.
LEMMA OwedIsFound ==
  ASSUME NEW e PROVE Drift!Owed(e) \subseteq Drift!Keys(Drift!Findings(e))
<1>. DEFINE F == UNION {Drift!Exact(e, s) \union Drift!Fuzzy(e, s) : s \in e.signals}
<1>1. SUFFICES ASSUME NEW k \in Drift!Owed(e) PROVE \E f \in F : f.key = k
  BY DedupKeeps DEF Drift!Findings
<1>2. PICK s \in e.signals :
        k \in {<<Drift!Stale(i), i>> : i \in {j \in s.names : Drift!Behind(e, j)} \union Drift!Alluded(e, s)}
             \union {<<"no-tracker", i>> : i \in {j \in s.names : Drift!Unknown(e, j)}}
  BY DEF Drift!Owed
<1>3. Drift!Exact(e, s) \subseteq F /\ Drift!Fuzzy(e, s) \subseteq F
  OBVIOUS
<1>. HIDE DEF F
<1>4. CASE \E i \in s.names : Drift!Behind(e, i) /\ k = <<Drift!Stale(i), i>>
  <2>1. PICK i \in s.names : Drift!Behind(e, i) /\ k = <<Drift!Stale(i), i>>
    BY <1>4
  <2>2. Drift!Finding(Drift!Stale(i), i, TRUE) \in Drift!Exact(e, s)
    BY <2>1 DEF Drift!Exact
  <2>. QED  BY <1>3, <2>1, <2>2 DEF Drift!Finding
<1>5. CASE \E i \in Drift!Alluded(e, s) : k = <<Drift!Stale(i), i>>
  <2>1. PICK i \in Drift!Alluded(e, s) : k = <<Drift!Stale(i), i>>
    BY <1>5
  <2>2. Drift!Finding(Drift!Stale(i), i, FALSE) \in Drift!Fuzzy(e, s)
    BY <2>1 DEF Drift!Fuzzy
  <2>. QED  BY <1>3, <2>1, <2>2 DEF Drift!Finding
<1>6. CASE \E i \in s.names : Drift!Unknown(e, i) /\ k = <<"no-tracker", i>>
  <2>1. PICK i \in s.names : Drift!Unknown(e, i) /\ k = <<"no-tracker", i>>
    BY <1>6
  <2>2. Drift!Finding("no-tracker", i, TRUE) \in Drift!Exact(e, s)
    BY <2>1 DEF Drift!Exact
  <2>. QED  BY <1>3, <2>1, <2>2 DEF Drift!Finding
<1>. QED  BY <1>2, <1>4, <1>5, <1>6

\* A guess gives way to a reference that would find the same.
LEMMA SureFirst ==
  ASSUME NEW e, NEW f \in Drift!Findings(e), NEW s \in e.signals,
         f.key[2] \in s.names, Drift!Behind(e, f.key[2])
  PROVE  f.sure
<1>. DEFINE F == UNION {Drift!Exact(e, x) \union Drift!Fuzzy(e, x) : x \in e.signals}
            i == f.key[2]
            g == Drift!Finding(Drift!Stale(i), i, TRUE)
<1>1. SUFFICES ASSUME ~f.sure PROVE FALSE
  OBVIOUS
<1>2. f \in F /\ \A h \in F : h.key = f.key => ~h.sure
  BY <1>1 DEF Drift!Findings, Drift!Deduped
<1>3. PICK x \in e.signals : f \in Drift!Exact(e, x) \/ f \in Drift!Fuzzy(e, x)
  BY <1>2
<1>4. f \notin Drift!Exact(e, x)
  BY <1>1 DEF Drift!Exact, Drift!Finding
<1>5. PICK j \in Drift!Alluded(e, x) : f = Drift!Finding(Drift!Stale(j), j, FALSE)
  BY <1>3, <1>4 DEF Drift!Fuzzy
<1>6. i = j /\ f.key = <<Drift!Stale(i), i>>
  BY <1>5 DEF Drift!Finding
<1>7. g \in Drift!Exact(e, s)
  BY DEF Drift!Exact
<1>8. g \in F
  BY <1>7
<1>9. g.key = f.key /\ g.sure
  BY <1>6 DEF Drift!Finding
<1>. HIDE DEF F, g
<1>. QED  BY <1>2, <1>8, <1>9

\* What is undecided of the findings, and what is left out.
LEMMA AskKeeps ==
  ASSUME NEW e, decided = pressed
  PROVE  /\ Drift!Undecided(e) \subseteq Drift!Findings(e)
         /\ \A k \in Drift!Keys(Drift!Undecided(e)) : <<k, e.day>> \notin pressed
         /\ \A k \in Drift!Keys(Drift!Findings(e)) :
              k \in Drift!Keys(Drift!Undecided(e)) \/ <<k, e.day>> \in pressed
BY Zenon DEF Drift!Undecided, Drift!Keys

\* What was asked or decided stays so.
LEMMA AskedStays ==
  ASSUME cards \subseteq cards', pressed \subseteq pressed', NEW e, AllAsked(pressed, cards, e)
  PROVE  AllAsked(pressed', cards', e)
BY DEF AllAsked, AskedBy

LEMMA LeftDecidedStays ==
  ASSUME NEW it, LeavesDecided(it, pressed), pressed \subseteq pressed'
  PROVE  LeavesDecided(it, pressed')
BY DEF LeavesDecided

\* Whatever a step does to reviews, cards and the ledger, if what it adds is in order.
LEMMA DriftKeeps ==
  ASSUME DriftInv, decided' = pressed', cards \subseteq cards', pressed \subseteq pressed',
         \A c \in cards' : c \in cards \/ CardOk(c),
         \/ review' = review
         \/ \E q \in Reviews : \E v : /\ review' = [review EXCEPT ![q] = v]
                                      /\ v.pc = "sending" => CardOk(v) /\ (v.kind = "review" => LeavesDecided(v, pressed')),
         \A x \in ended' : x \in ended \/ x.failed \/ AllAsked(pressed', cards', x.of)
  PROVE  DriftInv'
<1>1. review' = [r \in Reviews |-> review'[r]]
  BY DEF DriftInv
<1>2. \A c \in cards' : CardOk(c)
  BY DEF DriftInv
<1>3. ASSUME NEW r \in Reviews, review'[r].pc = "sending"
      PROVE  CardOk(review'[r]) /\ (review'[r].kind = "review" => LeavesDecided(review'[r], pressed'))
  <2>1. CASE review'[r] = review[r]
    <3>1. CardOk(review[r]) /\ (review[r].kind = "review" => LeavesDecided(review[r], pressed))
      BY <1>3, <2>1 DEF DriftInv
    <3>. QED  BY <2>1, <3>1, LeftDecidedStays
  <2>2. CASE review'[r] # review[r]
    <3>1. PICK v : review'[r] = v /\ (v.pc = "sending" => CardOk(v) /\ (v.kind = "review" => LeavesDecided(v, pressed')))
      BY <2>2 DEF DriftInv
    <3>. QED  BY <1>3, <3>1
  <2>. QED  BY <2>1, <2>2
<1>4. \A x \in ended' : x.failed \/ AllAsked(pressed', cards', x.of)
  BY AskedStays DEF DriftInv
<1>. QED  BY <1>1, <1>2, <1>3, <1>4 DEF DriftInv

\* A review that is over without a failure asked, or had nothing left to ask.
LEMMA OverAsked ==
  ASSUME DriftInv, NEW r \in Reviews, review[r].pc = "sending", review[r].kind = "review",
         cards' = cards \union {Drift!Shown(r)}, pressed' = pressed
  PROVE  AllAsked(pressed', cards', review[r].of)
<1>. DEFINE it == review[r]
<1>1. SUFFICES ASSUME NEW k \in Drift!Owed(it.of) PROVE AskedBy(it.of.day, k, pressed', cards')
  BY DEF AllAsked
<1>2. k \in Drift!Keys(Drift!Findings(it.of))
  BY OwedIsFound
<1>3. LeavesDecided(it, pressed)
  BY DEF DriftInv
<1>4. k \in Drift!Keys(it.found) \/ <<k, it.of.day>> \in pressed
  BY <1>2, <1>3 DEF LeavesDecided
<1>5. /\ Drift!Shown(r).kind = "review" /\ Drift!Shown(r).of = it.of /\ Drift!Shown(r).found = it.found
      /\ Drift!Shown(r) \in cards'
  BY DEF Drift!Shown
<1>. HIDE DEF it
<1>. QED  BY <1>4, <1>5 DEF AskedBy

LEMMA ShownOk ==
  ASSUME DriftInv, NEW r \in Reviews, review[r].pc = "sending"
  PROVE  CardOk(Drift!Shown(r))
<1>1. CardOk(review[r])
  BY DEF DriftInv
<1>. QED  BY <1>1 DEF CardOk, Drift!Shown

LEMMA OverIs ==
  ASSUME NEW r, NEW failed, NEW x \in Drift!Over(r, failed)
  PROVE  x \in ended \/ (review[r].kind = "review" /\ x.of = review[r].of /\ x.failed = failed)
BY DEF Drift!Over

LEMMA DriftStep ==
  ASSUME DriftInv, [Drift!Next]_Drift!vars
  PROVE  DriftInv'
<1>1. ASSUME NEW r \in Reviews, NEW what, NEW e, review' = [review EXCEPT ![r] = Drift!Collected(what, e)],
             UNCHANGED <<cards, ended, decided, pressed>>
      PROVE  DriftInv'
  <2>1. Drift!Collected(what, e).pc # "sending"
    BY DEF Drift!Collected
  <2>2. decided' = pressed'
    BY <1>1 DEF DriftInv
  <2>. QED  BY <1>1, <2>1, <2>2, DriftKeeps
<1>2. ASSUME NEW r \in Reviews, Drift!GiveUp(r) PROVE DriftInv'
  <2>1. /\ review' = [review EXCEPT ![r] = Drift!Idle] /\ Drift!Idle.pc # "sending"
        /\ UNCHANGED <<cards, ended, decided, pressed>> /\ decided' = pressed'
    BY <1>2 DEF Drift!GiveUp, Drift!Idle, DriftInv
  <2>. QED  BY <2>1, DriftKeeps
<1>3. ASSUME NEW r \in Reviews, Drift!Ask(r) PROVE DriftInv'
  <2>. DEFINE e == review[r].of
              v == [review[r] EXCEPT !.pc = "sending", !.found = Drift!Undecided(e), !.before = pressed]
  <2>1. UNCHANGED <<cards, decided, pressed>> /\ decided = pressed /\ decided' = pressed'
    BY <1>3 DEF Drift!Ask, DriftInv
  <2>2. CASE review' = [review EXCEPT ![r] = v] /\ ended' = ended
    <3>1. Drift!Undecided(e) \subseteq Drift!Findings(e)
      BY <2>1, AskKeeps
    <3>2. \A k \in Drift!Keys(Drift!Undecided(e)) : <<k, e.day>> \notin pressed
      BY <2>1, AskKeeps
    <3>3. \A k \in Drift!Keys(Drift!Findings(e)) : k \in Drift!Keys(Drift!Undecided(e)) \/ <<k, e.day>> \in pressed
      BY <2>1, AskKeeps
    <3>4. v.of = e /\ v.found = Drift!Undecided(e) /\ v.before = pressed
      BY <1>3 DEF Drift!Ask
    <3>. HIDE DEF v, e
    <3>5. CardOk(v)
      BY <3>1, <3>2, <3>4 DEF CardOk
    <3>6. LeavesDecided(v, pressed')
      BY <2>1, <3>3, <3>4 DEF LeavesDecided
    <3>. QED  BY <2>1, <2>2, <3>5, <3>6, DriftKeeps
  <2>3. CASE /\ review[r].kind = "review" /\ Drift!Undecided(e) = {}
             /\ review' = [review EXCEPT ![r] = Drift!Idle] /\ ended' = Drift!Over(r, FALSE)
    <3>1. ASSUME NEW x \in ended' PROVE x \in ended \/ AllAsked(pressed', cards', x.of)
      <4>1. CASE x \in ended
        BY <4>1
      <4>2. CASE x.of = e
        <5>1. ASSUME NEW k \in Drift!Owed(e) PROVE AskedBy(e.day, k, pressed', cards')
          <6>1. k \in Drift!Keys(Drift!Findings(e))
            BY OwedIsFound
          <6>2. Drift!Keys(Drift!Undecided(e)) = {}
            BY <2>3 DEF Drift!Keys
          <6>3. <<k, e.day>> \in pressed
            BY <2>1, <6>1, <6>2, AskKeeps
          <6>. QED  BY <2>1, <6>3 DEF AskedBy
        <5>2. AllAsked(pressed', cards', e)
          BY <5>1 DEF AllAsked
        <5>. QED  BY <4>2, <5>2
      <4>. QED  BY <2>3, <4>1, <4>2, OverIs
    <3>2. Drift!Idle.pc # "sending"
      BY DEF Drift!Idle
    <3>. QED  BY <2>1, <2>3, <3>1, <3>2, DriftKeeps
  <2>. QED  BY <1>3, <2>2, <2>3 DEF Drift!Ask
<1>4. ASSUME NEW r \in Reviews, Drift!SendCard(r) PROVE DriftInv'
  <2>1. /\ review[r].pc = "sending" /\ review' = [review EXCEPT ![r] = Drift!Idle] /\ Drift!Idle.pc # "sending"
        /\ cards' = cards \union {Drift!Shown(r)} /\ ended' = Drift!Over(r, FALSE)
        /\ pressed' = pressed /\ decided' = pressed'
    BY <1>4 DEF Drift!SendCard, Drift!Idle, DriftInv
  <2>2. CardOk(Drift!Shown(r))
    BY <2>1, ShownOk
  <2>3. ASSUME NEW x \in ended' PROVE x \in ended \/ AllAsked(pressed', cards', x.of)
    <3>1. CASE x \in ended
      BY <3>1
    <3>2. CASE review[r].kind = "review" /\ x.of = review[r].of
      <4>1. AllAsked(pressed', cards', review[r].of)
        BY <2>1, <3>2, OverAsked
      <4>. QED  BY <3>2, <4>1
    <3>. QED  BY <2>1, <3>1, <3>2, OverIs
  <2>. QED  BY <2>1, <2>2, <2>3, DriftKeeps
<1>5. ASSUME NEW r \in Reviews, Drift!SendFails(r) PROVE DriftInv'
  <2>1. /\ review[r].pc = "sending" /\ review' = [review EXCEPT ![r] = Drift!Idle] /\ Drift!Idle.pc # "sending"
        /\ cards' \in {cards, cards \union {Drift!Shown(r)}} /\ ended' = Drift!Over(r, TRUE)
        /\ pressed' = pressed /\ decided' = pressed'
    BY <1>5 DEF Drift!SendFails, Drift!Idle, DriftInv
  <2>2. CardOk(Drift!Shown(r))
    BY <2>1, ShownOk
  <2>3. ASSUME NEW x \in ended' PROVE x \in ended \/ x.failed
    BY <2>1, OverIs
  <2>. QED  BY <2>1, <2>2, <2>3, DriftKeeps
<1>6. ASSUME NEW c, Drift!Press(c) PROVE DriftInv'
  <2>1. UNCHANGED <<review, cards, ended>> /\ decided' = pressed' /\ pressed \subseteq pressed'
    BY <1>6 DEF Drift!Press, Drift!Recorded, DriftInv
  <2>. QED  BY <2>1, DriftKeeps
<1>7. ASSUME UNCHANGED <<review, cards, ended, decided, pressed>> PROVE DriftInv'
  <2>1. decided' = pressed'
    BY <1>7 DEF DriftInv
  <2>. QED  BY <1>7, <2>1, DriftKeeps
<1>8. CASE \E r \in Reviews, down \in Downs : Drift!Collect(r, down)
  BY <1>1, <1>8 DEF Drift!Collect
<1>9. CASE \E r \in Reviews, c \in cards : Drift!PressDraft(r, c)
  BY <1>1, <1>9 DEF Drift!PressDraft
<1>10. CASE \E s \in Sayings : Drift!Say(s)
  BY <1>7, <1>10 DEF Drift!Say
<1>11. CASE \E i \in Drift!Issues : Drift!Update(i)
  BY <1>7, <1>11 DEF Drift!Update
<1>12. CASE Drift!UtcTurns \/ Drift!NextDay
  BY <1>7, <1>12 DEF Drift!UtcTurns, Drift!NextDay
<1>13. CASE UNCHANGED Drift!vars
  BY <1>7, <1>13 DEF Drift!vars
<1>. QED  BY <1>2, <1>3, <1>4, <1>5, <1>6, <1>8, <1>9, <1>10, <1>11, <1>12, <1>13 DEF Drift!Next

LEMMA DriftHolds == DriftInv => Drift!DriftAsked
<1>1. DriftInv => Drift!AskedOrDecided /\ Drift!NotAskedAgain
  BY DEF DriftInv, CardOk, AllAsked, AskedBy, Drift!AskedOrDecided, Drift!AskedOn, Drift!NotAskedAgain
<1>2. ASSUME DriftInv PROVE Drift!ReferenceWins
  <2>1. \A c \in cards : c.found \subseteq Drift!Findings(c.of)
    BY <1>2 DEF DriftInv, CardOk
  <2>. QED  BY <2>1, SureFirst DEF Drift!ReferenceWins
<1>. QED  BY <1>1, <1>2 DEF Drift!DriftAsked

\* When a review is over without a failing card, all that its evidence shows is on a card of
\* its date or decided for that date; nothing is asked that was decided before; and a finding
\* that a reference makes sure is shown as sure (progress/sync-drift.ts).
THEOREM CardsAsk == Drift!Spec => []Drift!DriftAsked
<1>1. DriftInv /\ [Drift!Next]_Drift!vars => DriftInv'
  BY DriftStep
<1>. QED  BY DriftInit, DriftHolds, <1>1, PTL DEF Drift!Spec

\* The same of the sum of the parts, of which one runs at a time.
THEOREM DriftAlwaysAsked == PartsSpec => []DriftAsked
<1>. DEFINE Inv == part = "drift" => DriftInv
            all == <<part, chatVars, ruleVars, driftVars, webVars, meterVars, deskVars>>
<1>1. Parts => Inv
  BY DriftInit DEF Parts
<1>2. Inv /\ [Step]_all => Inv'
  <2>. SUFFICES ASSUME Inv, [Step]_all PROVE Inv'
    OBVIOUS
  <2>1. CASE part = "drift"
    <3>1. part' = part /\ [Drift!Next]_Drift!vars
      BY <2>1 DEF Step, driftVars, Drift!vars
    <3>. QED  BY <2>1, <3>1, DriftStep
  <2>2. CASE part # "drift"
    <3>1. part' = part
      BY <2>2 DEF Step
    <3>. QED  BY <2>2, <3>1
  <2>. QED  BY <2>1, <2>2
<1>3. Inv => DriftAsked
  BY DriftHolds DEF DriftAsked
<1>. QED  BY <1>1, <1>2, <1>3, PTL DEF PartsSpec

(***************************************************************************)
(* The budget of the calls (TokenMeter)                                    *)
(***************************************************************************)
\* What calls cost together, and the calls by where they are, when f is where each is.
Bill(f, S) == Cardinality({u \in S \X (1 .. Dearest) : u[2] <= f[u[1]].cost})
BusyIn(f) == {c \in Calls : f[c].pc \in {"called", "writing"}}
DoneIn(f) == {c \in Calls : f[c].pc = "done"}
DoneFor(f, r) == {c \in DoneIn(f) : f[c].run = r}
DoneOn(f, d) == {c \in DoneIn(f) : f[c].day = d}

\* The calls that may still be booked on a day, when t is today.
DueOn(f, t, d) ==
  {c \in Calls : (f[c].pc = "called" /\ d = t) \/ (f[c].pc = "writing" /\ f[c].day = d)}

CallRecord == [pc : {"none", "called", "refused", "failed", "writing", "done"}, run : Payers, by : Callers,
               day : 0 .. LastBill, cost : 0 .. Dearest]
MeterTypes ==
  /\ spendDay \in 1 .. LastBill /\ ledger \subseteq Calls
  /\ copy \in [Callers -> SUBSET Calls] /\ call \in [Calls -> CallRecord]

\* A run has one call at a time.
OnePerRun(f) == \A a, b \in BusyIn(f) : f[a].run = f[b].run => a = b

\* A run that calls was under its limit; a day was, before those began that are due on it.
RunBound(f, r) ==
  /\ Bill(f, DoneFor(f, r)) < TaskLimit + Dearest
  /\ (\E c \in BusyIn(f) : f[c].run = r) => Bill(f, DoneFor(f, r)) < TaskLimit
DayBound(f, t, d) ==
  Bill(f, DoneOn(f, d)) + Dearest * Cardinality(DueOn(f, t, d)) < DayLimit + Dearest * Cardinality(Payers)

MeterInv ==
  /\ MeterTypes /\ OnePerRun(call)
  /\ \A c \in Calls : call[c].pc \in {"writing", "done"} => call[c].day \in 1 .. spendDay
  /\ \A a, b \in Calls : call[a].pc = "writing" /\ call[b].pc = "writing" /\ call[a].by = call[b].by => a = b
  /\ Cardinality(Callers) = 1 =>
       /\ ledger = DoneIn(call)
       /\ \A c \in Calls : call[c].pc = "writing" => copy[call[c].by] = ledger
       /\ TaskLimit > 0 => \A r \in Payers : RunBound(call, r)
       /\ DayLimit > 0 => \A d \in 1 .. LastBill : DayBound(call, spendDay, d)

LEMMA BillIsNat == ASSUME NEW f, NEW S \in SUBSET Calls PROVE Bill(f, S) \in Nat
<1>. DEFINE U == {u \in S \X (1 .. Dearest) : u[2] <= f[u[1]].cost}
<1>1. IsFiniteSet(S) /\ IsFiniteSet(1 .. Dearest)
  BY MeterAssumption, FS_Subset, FS_Interval
<1>2. IsFiniteSet(S \X (1 .. Dearest))
  BY <1>1, FS_Product
<1>3. IsFiniteSet(U)
  BY <1>2, FS_Subset
<1>. QED  BY <1>3, FS_CardinalityType DEF Bill

LEMMA BillOfNone == ASSUME NEW f PROVE Bill(f, {}) = 0
<1>1. {u \in {} \X (1 .. Dearest) : u[2] <= f[u[1]].cost} = {}
  OBVIOUS
<1>. QED  BY <1>1, FS_EmptySet DEF Bill

LEMMA BillSame ==
  ASSUME NEW f, NEW g, NEW S, \A c \in S : f[c].cost = g[c].cost
  PROVE  Bill(f, S) = Bill(g, S)
<1>1. {u \in S \X (1 .. Dearest) : u[2] <= f[u[1]].cost} = {u \in S \X (1 .. Dearest) : u[2] <= g[u[1]].cost}
  OBVIOUS
<1>. QED  BY <1>1 DEF Bill

LEMMA BillOneMore ==
  ASSUME NEW f, NEW S \in SUBSET Calls, NEW c \in Calls, c \notin S, f[c].cost \in 0 .. Dearest
  PROVE  Bill(f, S \union {c}) = Bill(f, S) + f[c].cost
<1>. DEFINE n == f[c].cost
            U == {u \in S \X (1 .. Dearest) : u[2] <= f[u[1]].cost}
            V == {c} \X (1 .. n)
            W == {u \in (S \union {c}) \X (1 .. Dearest) : u[2] <= f[u[1]].cost}
<1>1. Dearest \in Nat /\ n \in Nat /\ n <= Dearest
  BY MeterAssumption
<1>2. W = U \union V
  BY <1>1
<1>3. U \cap V = {}
  OBVIOUS
<1>4. /\ IsFiniteSet(S) /\ IsFiniteSet(1 .. Dearest)
      /\ IsFiniteSet({c}) /\ Cardinality({c}) = 1
  <2>1. IsFiniteSet(S)
    BY MeterAssumption, FS_Subset
  <2>2. IsFiniteSet(1 .. Dearest)
    BY <1>1, FS_Interval
  <2>3. IsFiniteSet({c}) /\ Cardinality({c}) = 1
    BY FS_Singleton, Zenon
  <2>. QED  BY <2>1, <2>2, <2>3
<1>5. IsFiniteSet(S \X (1 .. Dearest))
  BY <1>4, FS_Product
<1>6. IsFiniteSet(U) /\ Cardinality(U) \in Nat
  BY <1>5, FS_Subset, FS_CardinalityType
<1>7. IsFiniteSet(1 .. n) /\ Cardinality(1 .. n) = n
  <2>. HIDE DEF n
  <2>1. n \in Int /\ 1 \in Int
    BY <1>1
  <2>2. IsFiniteSet(1 .. n) /\ Cardinality(1 .. n) = IF 1 > n THEN 0 ELSE n - 1 + 1
    BY <2>1, FS_Interval
  <2>. QED  BY <1>1, <2>2
<1>8. IsFiniteSet(V) /\ Cardinality(V) = 1 * n
  BY <1>4, <1>7, FS_Product
<1>. HIDE DEF U, V, W
<1>9. Cardinality(U \union V) = Cardinality(U) + Cardinality(V) - Cardinality(U \cap V)
  BY <1>6, <1>8, FS_Union
<1>10. Cardinality(U \cap V) = 0
  BY <1>3, FS_EmptySet
<1>11. Cardinality(W) = Cardinality(U) + n
  BY <1>1, <1>2, <1>6, <1>8, <1>9, <1>10
<1>. QED  BY <1>11 DEF Bill, U, W

\* No more calls are due on a day than there are runs.
LEMMA DueBounded ==
  ASSUME NEW f \in [Calls -> CallRecord], OnePerRun(f), NEW t, NEW d
  PROVE  /\ IsFiniteSet(DueOn(f, t, d)) /\ Cardinality(DueOn(f, t, d)) \in Nat
         /\ Cardinality(Payers) \in Nat /\ Cardinality(DueOn(f, t, d)) <= Cardinality(Payers)
<1>. DEFINE D == DueOn(f, t, d)
            run == [c \in D |-> f[c].run]
<1>1. D \subseteq BusyIn(f) /\ D \subseteq Calls
  BY DEF DueOn, BusyIn
<1>2. run \in [D -> Payers] /\ \A a, b \in D : run[a] = run[b] => a = b
  BY <1>1 DEF OnePerRun, CallRecord
<1>3. run \in Injection(D, Payers)
  BY <1>2 DEF Injection, IsInjective
<1>4. IsFiniteSet(D) /\ Cardinality(D) <= Cardinality(Payers)
  BY <1>3, MeterAssumption, FS_Injection
<1>. QED  BY <1>4, MeterAssumption, FS_CardinalityType

\* On a day on which nothing is booked by a step and nothing more falls due, the bound stays.
LEMMA DayStays ==
  ASSUME NEW f \in [Calls -> CallRecord], NEW g \in [Calls -> CallRecord], OnePerRun(f), NEW t, NEW u, NEW d,
         Bill(g, DoneOn(g, d)) = Bill(f, DoneOn(f, d)), DueOn(g, u, d) \subseteq DueOn(f, t, d), DayBound(f, t, d)
  PROVE  DayBound(g, u, d)
<1>. DEFINE k == Cardinality(DueOn(f, t, d))
            l == Cardinality(DueOn(g, u, d))
<1>1. k \in Nat /\ l \in Nat /\ l <= k /\ Cardinality(Payers) \in Nat
  BY DueBounded, FS_Subset, FS_CardinalityType
<1>2. Bill(f, DoneOn(f, d)) \in Nat
  BY BillIsNat DEF DoneOn, DoneIn
<1>3. Dearest \in Nat /\ DayLimit \in Nat
  BY MeterAssumption
<1>4. Dearest * l <= Dearest * k
  <2>. HIDE DEF k, l
  <2>. QED  BY <1>1, <1>3
<1>5. Dearest * l \in Nat /\ Dearest * k \in Nat /\ Dearest * Cardinality(Payers) \in Nat
  <2>. HIDE DEF k, l
  <2>. QED  BY <1>1, <1>3
<1>. HIDE DEF k, l
<1>6. Bill(f, DoneOn(f, d)) + Dearest * k < DayLimit + Dearest * Cardinality(Payers)
  BY DEF DayBound, k
<1>7. Bill(g, DoneOn(g, d)) + Dearest * l < DayLimit + Dearest * Cardinality(Payers)
  BY <1>2, <1>3, <1>4, <1>5, <1>6
<1>. QED  BY <1>7 DEF DayBound, l

LEMMA MeterInit == Meter!Init => MeterInv
<1>. SUFFICES ASSUME Meter!Init PROVE MeterInv
  OBVIOUS
<1>1. MeterTypes /\ \A c \in Calls : call[c].pc = "none"
  BY MeterAssumption DEF Meter!Init, Meter!Unmade, MeterTypes, CallRecord
<1>2. BusyIn(call) = {} /\ DoneIn(call) = {}
  BY <1>1 DEF BusyIn, DoneIn
<1>3. \A r : DoneFor(call, r) = {}
  BY <1>2 DEF DoneFor
<1>4. \A d : DoneOn(call, d) = {} /\ DueOn(call, spendDay, d) = {}
  BY <1>1, <1>2 DEF DoneOn, DueOn
<1>5. TaskLimit > 0 => \A r \in Payers : RunBound(call, r)
  BY <1>2, <1>3, BillOfNone, MeterAssumption DEF RunBound
<1>6. ASSUME DayLimit > 0, NEW d \in 1 .. LastBill PROVE DayBound(call, spendDay, d)
  <2>1. Bill(call, DoneOn(call, d)) = 0 /\ Cardinality(DueOn(call, spendDay, d)) = 0
    BY <1>4, BillOfNone, FS_EmptySet
  <2>2. Cardinality(Payers) \in Nat /\ Dearest \in Nat /\ DayLimit \in Nat
    BY MeterAssumption, FS_CardinalityType
  <2>3. Dearest * Cardinality(Payers) \in Nat /\ Dearest * 0 = 0
    BY <2>2
  <2>. QED  BY <1>6, <2>1, <2>2, <2>3 DEF DayBound
<1>7. ledger = {}
  BY DEF Meter!Init
<1>. QED  BY <1>1, <1>2, <1>5, <1>6, <1>7 DEF MeterInv, OnePerRun

\* A call that leaves for where nothing of it is booked.
LEMMA FailKeeps == ASSUME MeterInv, NEW c \in Calls, Meter!Fail(c) PROVE MeterInv'
<1>1. /\ call[c].pc = "called" /\ call' = [call EXCEPT ![c].pc = "failed"]
      /\ spendDay' = spendDay /\ ledger' = ledger /\ copy' = copy
  BY DEF Meter!Fail
<1>2. call' \in [Calls -> CallRecord] /\ \A b \in Calls : b # c => call'[b] = call[b]
  BY <1>1 DEF MeterInv, MeterTypes, CallRecord
<1>3. call'[c].pc = "failed"
  BY <1>1 DEF MeterInv, MeterTypes, CallRecord
<1>4. DoneIn(call') = DoneIn(call) /\ BusyIn(call') = BusyIn(call) \ {c}
  BY <1>1, <1>2, <1>3 DEF DoneIn, BusyIn
<1>5. \A b \in DoneIn(call) : call'[b] = call[b]
  BY <1>1, <1>2 DEF DoneIn
<1>6. ASSUME NEW S \in SUBSET DoneIn(call) PROVE Bill(call', S) = Bill(call, S)
  BY <1>5, BillSame
<1>7. ASSUME NEW r \in Payers, RunBound(call, r) PROVE RunBound(call', r)
  <2>1. DoneFor(call', r) = DoneFor(call, r) /\ DoneFor(call, r) \subseteq DoneIn(call)
    BY <1>4, <1>5 DEF DoneFor
  <2>. QED  BY <1>2, <1>4, <1>6, <1>7, <2>1 DEF RunBound, BusyIn
<1>8. ASSUME NEW d \in 1 .. LastBill, DayBound(call, spendDay, d) PROVE DayBound(call', spendDay', d)
  <2>1. DoneOn(call', d) = DoneOn(call, d) /\ DoneOn(call, d) \subseteq DoneIn(call)
    BY <1>4, <1>5 DEF DoneOn
  <2>2. DueOn(call', spendDay', d) \subseteq DueOn(call, spendDay, d)
    BY <1>1, <1>2, <1>3 DEF DueOn
  <2>. QED  BY <1>2, <1>6, <1>8, <2>1, <2>2, DayStays DEF MeterInv, MeterTypes
<1>9. OnePerRun(call')
  BY <1>2, <1>4 DEF MeterInv, OnePerRun, BusyIn
<1>10. MeterTypes'
  BY <1>1, <1>2 DEF MeterInv, MeterTypes
<1>. QED  BY <1>1, <1>2, <1>3, <1>4, <1>7, <1>8, <1>9, <1>10 DEF MeterInv

LEMMA ReadKeeps == ASSUME MeterInv, NEW c \in Calls, Meter!Read(c) PROVE MeterInv'
<1>1. PICK cost \in Costs : call' = [call EXCEPT ![c].pc = "writing", ![c].day = spendDay, ![c].cost = cost]
  BY DEF Meter!Read
<1>2. /\ call[c].pc = "called" /\ copy' = [copy EXCEPT ![call[c].by] = ledger]
      /\ spendDay' = spendDay /\ ledger' = ledger
      /\ \A b \in Calls : call[b].pc = "writing" => call[b].by # call[c].by
  BY DEF Meter!Read, Meter!Free, Meter!Is
<1>3. cost \in 0 .. Dearest /\ spendDay \in 0 .. LastBill
  BY MeterAssumption DEF MeterInv, MeterTypes
<1>4. /\ call' \in [Calls -> CallRecord] /\ \A b \in Calls : b # c => call'[b] = call[b]
      /\ call'[c].pc = "writing" /\ call'[c].day = spendDay /\ call'[c].run = call[c].run /\ call'[c].by = call[c].by
  BY <1>1, <1>3 DEF MeterInv, MeterTypes, CallRecord
<1>5. DoneIn(call') = DoneIn(call) /\ BusyIn(call') = BusyIn(call)
  BY <1>2, <1>4 DEF DoneIn, BusyIn
<1>6. \A b \in DoneIn(call) : call'[b] = call[b]
  BY <1>2, <1>4 DEF DoneIn
<1>7. ASSUME NEW S \in SUBSET DoneIn(call) PROVE Bill(call', S) = Bill(call, S)
  BY <1>6, BillSame
<1>8. ASSUME NEW r \in Payers, RunBound(call, r) PROVE RunBound(call', r)
  <2>1. DoneFor(call', r) = DoneFor(call, r) /\ DoneFor(call, r) \subseteq DoneIn(call)
    BY <1>5, <1>6 DEF DoneFor
  <2>2. (\E b \in BusyIn(call') : call'[b].run = r) => \E b \in BusyIn(call) : call[b].run = r
    BY <1>4, <1>5 DEF BusyIn
  <2>. QED  BY <1>7, <1>8, <2>1, <2>2 DEF RunBound
<1>9. ASSUME NEW d \in 1 .. LastBill, DayBound(call, spendDay, d) PROVE DayBound(call', spendDay', d)
  <2>1. DoneOn(call', d) = DoneOn(call, d) /\ DoneOn(call, d) \subseteq DoneIn(call)
    BY <1>5, <1>6 DEF DoneOn
  <2>2. DueOn(call', spendDay', d) \subseteq DueOn(call, spendDay, d)
    BY <1>2, <1>4 DEF DueOn
  <2>. QED  BY <1>4, <1>7, <1>9, <2>1, <2>2, DayStays DEF MeterInv, MeterTypes
<1>10. OnePerRun(call')
  <2>1. \A b \in Calls : call'[b].run = call[b].run
    BY <1>4
  <2>. QED  BY <1>5, <2>1 DEF MeterInv, OnePerRun, BusyIn
<1>11. call[c].by \in Callers
  BY DEF MeterInv, MeterTypes, CallRecord
<1>12. MeterTypes'
  BY <1>2, <1>4, <1>11 DEF MeterInv, MeterTypes
<1>13. \A b \in Calls : call'[b].pc \in {"writing", "done"} => call'[b].day \in 1 .. spendDay'
  BY <1>2, <1>4 DEF MeterInv, MeterTypes
<1>14. \A a, b \in Calls : call'[a].pc = "writing" /\ call'[b].pc = "writing" /\ call'[a].by = call'[b].by => a = b
  BY <1>2, <1>4 DEF MeterInv
<1>15. ASSUME Cardinality(Callers) = 1, NEW b \in Calls, call'[b].pc = "writing" PROVE copy'[call'[b].by] = ledger'
  BY <1>2, <1>4, <1>11, <1>15 DEF MeterInv, MeterTypes, CallRecord
<1>. QED  BY <1>2, <1>5, <1>8, <1>9, <1>10, <1>12, <1>13, <1>14, <1>15 DEF MeterInv

\* One process alone.
LEMMA OnlyCaller ==
  ASSUME Cardinality(Callers) = 1, NEW p \in Callers, NEW q \in Callers
  PROVE  p = q
<1>1. \E x : Callers = {x}
  BY MeterAssumption, FS_Singleton, Zenon
<1>. QED  BY <1>1

LEMMA WriteKeeps == ASSUME MeterInv, NEW c \in Calls, Meter!Write(c) PROVE MeterInv'
<1>1. /\ call[c].pc = "writing" /\ ledger' = copy[call[c].by] \union {c} /\ copy' = [copy EXCEPT ![call[c].by] = {}]
      /\ call' = [call EXCEPT ![c].pc = "done"] /\ spendDay' = spendDay
  BY DEF Meter!Write
<1>2. /\ call' \in [Calls -> CallRecord] /\ \A b \in Calls : b # c => call'[b] = call[b]
      /\ call'[c].pc = "done" /\ call'[c].day = call[c].day /\ call'[c].run = call[c].run
      /\ call'[c].by = call[c].by /\ call'[c].cost = call[c].cost
  BY <1>1 DEF MeterInv, MeterTypes, CallRecord
<1>3. /\ DoneIn(call') = DoneIn(call) \union {c} /\ c \notin DoneIn(call)
      /\ BusyIn(call') = BusyIn(call) \ {c} /\ c \in BusyIn(call)
  BY <1>1, <1>2 DEF DoneIn, BusyIn
<1>4. /\ call[c].by \in Callers /\ call[c].run \in Payers /\ call[c].cost \in 0 .. Dearest /\ call[c].day \in 1 .. spendDay
  BY <1>1 DEF MeterInv, MeterTypes, CallRecord
<1>5. ASSUME NEW S \in SUBSET Calls PROVE Bill(call', S) = Bill(call, S)
  <2>1. \A b \in S : call'[b].cost = call[b].cost
    BY <1>2
  <2>. QED  BY <2>1, BillSame
<1>6. ASSUME NEW S \in SUBSET DoneIn(call)
      PROVE  Bill(call', S \union {c}) = Bill(call, S) + call[c].cost /\ Bill(call, S) \in Nat
  <2>1. S \in SUBSET Calls /\ c \notin S
    BY <1>3 DEF DoneIn
  <2>2. Bill(call', S \union {c}) = Bill(call', S) + call'[c].cost
    BY <1>2, <1>4, <2>1, BillOneMore
  <2>. QED  BY <1>2, <1>5, <2>1, <2>2, BillIsNat
<1>7. MeterTypes'
  BY <1>1, <1>2, <1>4 DEF MeterInv, MeterTypes
<1>8. OnePerRun(call')
  BY <1>2, <1>3 DEF MeterInv, OnePerRun, BusyIn
<1>9. \A b \in Calls : call'[b].pc \in {"writing", "done"} => call'[b].day \in 1 .. spendDay'
  BY <1>1, <1>2 DEF MeterInv
<1>10. \A a, b \in Calls : call'[a].pc = "writing" /\ call'[b].pc = "writing" /\ call'[a].by = call'[b].by => a = b
  BY <1>2 DEF MeterInv
<1>11. ASSUME Cardinality(Callers) = 1
       PROVE  /\ ledger' = DoneIn(call') /\ \A b \in Calls : call'[b].pc # "writing"
  <2>1. ledger' = ledger \union {c} /\ ledger = DoneIn(call)
    BY <1>1, <1>11 DEF MeterInv
  <2>2. ASSUME NEW b \in Calls, call'[b].pc = "writing" PROVE FALSE
    <3>1. b # c /\ call[b].pc = "writing" /\ call[b].by \in Callers
      BY <1>2, <2>2 DEF MeterInv, MeterTypes, CallRecord
    <3>2. call[b].by = call[c].by
      BY <1>4, <1>11, <3>1, OnlyCaller
    <3>. QED  BY <1>1, <3>1, <3>2 DEF MeterInv
  <2>. QED  BY <1>3, <2>1, <2>2
<1>12. ASSUME NEW r \in Payers, RunBound(call, r), TaskLimit > 0 PROVE RunBound(call', r)
  <2>1. DoneFor(call, r) \subseteq DoneIn(call) /\ TaskLimit \in Nat /\ Dearest \in Nat
    BY MeterAssumption DEF DoneFor
  <2>2. CASE call[c].run = r
    <3>1. DoneFor(call', r) = DoneFor(call, r) \union {c}
      BY <1>2, <1>3, <2>2 DEF DoneFor, DoneIn
    <3>2. Bill(call, DoneFor(call, r)) < TaskLimit
      BY <1>3, <1>12, <2>2 DEF RunBound
    <3>3. Bill(call', DoneFor(call', r)) < TaskLimit + Dearest
      BY <1>4, <1>6, <2>1, <3>1, <3>2
    <3>4. \A b \in BusyIn(call') : call'[b].run # r
      BY <1>2, <1>3, <2>2 DEF MeterInv, OnePerRun, BusyIn
    <3>. QED  BY <3>3, <3>4 DEF RunBound
  <2>3. CASE call[c].run # r
    <3>1. DoneFor(call', r) = DoneFor(call, r)
      BY <1>2, <1>3, <2>3 DEF DoneFor, DoneIn
    <3>2. Bill(call', DoneFor(call', r)) = Bill(call, DoneFor(call, r))
      BY <1>5, <2>1, <3>1 DEF DoneIn
    <3>3. (\E b \in BusyIn(call') : call'[b].run = r) => \E b \in BusyIn(call) : call[b].run = r
      BY <1>2, <1>3 DEF BusyIn
    <3>. QED  BY <1>12, <3>2, <3>3 DEF RunBound
  <2>. QED  BY <2>2, <2>3
<1>13. ASSUME NEW d \in 1 .. LastBill, DayBound(call, spendDay, d) PROVE DayBound(call', spendDay', d)
  <2>1. DoneOn(call, d) \subseteq DoneIn(call)
    BY DEF DoneOn
  <2>2. CASE call[c].day = d
    <3>. DEFINE k == Cardinality(DueOn(call, spendDay, d))
                l == Cardinality(DueOn(call', spendDay', d))
    <3>1. DoneOn(call', d) = DoneOn(call, d) \union {c}
      BY <1>2, <1>3, <2>2 DEF DoneOn, DoneIn
    <3>2. DueOn(call', spendDay', d) = DueOn(call, spendDay, d) \ {c} /\ c \in DueOn(call, spendDay, d)
      BY <1>1, <1>2, <2>2 DEF DueOn
    <3>3. /\ IsFiniteSet(DueOn(call, spendDay, d)) /\ k \in Nat /\ Cardinality(Payers) \in Nat
      BY DueBounded DEF MeterInv, MeterTypes
    <3>4. l = k - 1 /\ l \in Nat
      BY <3>2, <3>3, FS_RemoveElement, FS_CardinalityType
    <3>5. Bill(call', DoneOn(call', d)) = Bill(call, DoneOn(call, d)) + call[c].cost /\ Bill(call, DoneOn(call, d)) \in Nat
      BY <1>6, <2>1, <3>1
    <3>6. Bill(call, DoneOn(call, d)) + Dearest * k < DayLimit + Dearest * Cardinality(Payers)
      BY <1>13 DEF DayBound
    <3>. HIDE DEF k, l
    <3>7. Dearest \in Nat /\ DayLimit \in Nat
      BY MeterAssumption
    <3>8. Dearest * k = Dearest * l + Dearest /\ Dearest * l \in Nat /\ Dearest * Cardinality(Payers) \in Nat
      BY <3>3, <3>4, <3>7
    <3>9. Bill(call', DoneOn(call', d)) + Dearest * l < DayLimit + Dearest * Cardinality(Payers)
      BY <1>4, <3>5, <3>6, <3>7, <3>8
    <3>. QED  BY <3>9 DEF DayBound, l
  <2>3. CASE call[c].day # d
    <3>1. DoneOn(call', d) = DoneOn(call, d)
      BY <1>2, <1>3, <2>3 DEF DoneOn, DoneIn
    <3>2. Bill(call', DoneOn(call', d)) = Bill(call, DoneOn(call, d))
      BY <1>5, <2>1, <3>1 DEF DoneIn
    <3>3. DueOn(call', spendDay', d) \subseteq DueOn(call, spendDay, d)
      BY <1>1, <1>2, <2>3 DEF DueOn
    <3>. QED  BY <1>2, <1>13, <3>2, <3>3, DayStays DEF MeterInv, MeterTypes
  <2>. QED  BY <2>2, <2>3
<1>. QED  BY <1>7, <1>8, <1>9, <1>10, <1>11, <1>12, <1>13 DEF MeterInv

LEMMA BeginKeeps ==
  ASSUME MeterInv, NEW c \in Calls, NEW r \in Payers, NEW p \in Callers, Meter!Begin(c, r, p)
  PROVE  MeterInv'
<1>. DEFINE next == [pc |-> IF Meter!Checked(r) THEN "called" ELSE "refused", run |-> r, by |-> p, day |-> 0, cost |-> 0]
<1>1. /\ call[c].pc = "none" /\ call' = [call EXCEPT ![c] = next]
      /\ spendDay' = spendDay /\ ledger' = ledger /\ copy' = copy
      /\ \A b \in BusyIn(call) : call[b].run # r
  BY DEF Meter!Begin, Meter!OfRun, Meter!UnderWay, Meter!Is, BusyIn
<1>2. next \in CallRecord
  BY MeterAssumption DEF CallRecord
<1>3. next.run = r /\ next.pc \in {"called", "refused"} /\ (next.pc = "called" => Meter!Checked(r))
  OBVIOUS
<1>. HIDE DEF next
<1>4. call' \in [Calls -> CallRecord] /\ call'[c] = next /\ \A b \in Calls : b # c => call'[b] = call[b]
  BY <1>1, <1>2 DEF MeterInv, MeterTypes
<1>5. DoneIn(call') = DoneIn(call) /\ c \notin BusyIn(call)
  BY <1>1, <1>3, <1>4 DEF DoneIn, BusyIn
<1>6. BusyIn(call') = IF next.pc = "called" THEN BusyIn(call) \union {c} ELSE BusyIn(call)
  BY <1>1, <1>3, <1>4 DEF BusyIn
<1>7. \A b \in DoneIn(call) : call'[b] = call[b]
  BY <1>1, <1>4 DEF DoneIn
<1>8. ASSUME NEW S \in SUBSET DoneIn(call) PROVE Bill(call', S) = Bill(call, S)
  BY <1>7, BillSame
<1>9. \A b \in BusyIn(call) : call'[b] = call[b] /\ b \in Calls
  BY <1>4, <1>5 DEF BusyIn
<1>10. OnePerRun(call')
  BY <1>1, <1>3, <1>4, <1>6, <1>9 DEF MeterInv, OnePerRun
<1>11. MeterTypes'
  BY <1>1, <1>4 DEF MeterInv, MeterTypes
<1>12. /\ \A b \in Calls : call'[b].pc \in {"writing", "done"} => b # c
       /\ \A b \in Calls : call'[b].pc \in {"writing", "done"} => call'[b].day \in 1 .. spendDay'
  BY <1>1, <1>3, <1>4 DEF MeterInv
<1>13. \A a, b \in Calls : call'[a].pc = "writing" /\ call'[b].pc = "writing" /\ call'[a].by = call'[b].by => a = b
  BY <1>4, <1>12 DEF MeterInv
<1>14. ASSUME Cardinality(Callers) = 1
       PROVE  ledger' = DoneIn(call') /\ \A b \in Calls : call'[b].pc = "writing" => copy'[call'[b].by] = ledger'
  BY <1>1, <1>4, <1>5, <1>12, <1>14 DEF MeterInv
<1>15. ASSUME Cardinality(Callers) = 1, next.pc = "called"
       PROVE  /\ TaskLimit > 0 => Bill(call, DoneFor(call, r)) < TaskLimit
              /\ DayLimit > 0 => Bill(call, DoneOn(call, spendDay)) < DayLimit
  <2>1. ledger = DoneIn(call)
    BY <1>15 DEF MeterInv
  <2>2. /\ Meter!Sum(DoneFor(call, r)) = Bill(call, DoneFor(call, r))
        /\ Meter!Sum(DoneOn(call, spendDay)) = Bill(call, DoneOn(call, spendDay))
    BY Zenon DEF Meter!Sum, Meter!Units, Bill, Meter!Cardinality, Cardinality, Meter!IsFiniteSet, IsFiniteSet
  <2>3. Meter!OfRun(ledger, r) = DoneFor(call, r) /\ Meter!OfDay(ledger, spendDay) = DoneOn(call, spendDay)
    BY <2>1 DEF Meter!OfRun, Meter!OfDay, DoneFor, DoneOn
  <2>4. /\ Meter!Under(Meter!Sum(DoneFor(call, r)), TaskLimit)
        /\ Meter!Under(Meter!Sum(DoneOn(call, spendDay)), DayLimit)
    BY <1>3, <1>15, <2>3 DEF Meter!Checked
  <2>. QED  BY <2>2, <2>4, MeterAssumption DEF Meter!Under
<1>16. ASSUME Cardinality(Callers) = 1, TaskLimit > 0, NEW q \in Payers, RunBound(call, q) PROVE RunBound(call', q)
  <2>1. DoneFor(call', q) = DoneFor(call, q) /\ DoneFor(call, q) \subseteq DoneIn(call)
    BY <1>5, <1>7 DEF DoneFor
  <2>2. Bill(call', DoneFor(call', q)) = Bill(call, DoneFor(call, q))
    BY <1>8, <2>1
  <2>3. CASE next.pc = "called" /\ q = r
    BY <1>15, <1>16, <2>2, <2>3 DEF RunBound
  <2>4. CASE ~(next.pc = "called" /\ q = r)
    <3>1. (\E b \in BusyIn(call') : call'[b].run = q) => \E b \in BusyIn(call) : call[b].run = q
      BY <1>3, <1>4, <1>6, <1>9, <2>4
    <3>. QED  BY <1>16, <2>2, <3>1 DEF RunBound
  <2>. QED  BY <2>3, <2>4
<1>17. ASSUME Cardinality(Callers) = 1, DayLimit > 0, NEW d \in 1 .. LastBill, DayBound(call, spendDay, d)
       PROVE  DayBound(call', spendDay', d)
  <2>1. DoneOn(call', d) = DoneOn(call, d) /\ DoneOn(call, d) \subseteq DoneIn(call)
    BY <1>5, <1>7 DEF DoneOn
  <2>2. Bill(call', DoneOn(call', d)) = Bill(call, DoneOn(call, d))
    BY <1>8, <2>1
  <2>3. CASE next.pc = "called" /\ d = spendDay
    <3>. DEFINE l == Cardinality(DueOn(call', spendDay', d))
    <3>1. l \in Nat /\ Cardinality(Payers) \in Nat /\ l <= Cardinality(Payers)
      BY <1>4, <1>10, DueBounded
    <3>. HIDE DEF l
    <3>2. Dearest \in Nat /\ DayLimit \in Nat
      BY MeterAssumption
    <3>3. Dearest * l <= Dearest * Cardinality(Payers) /\ Dearest * l \in Nat /\ Dearest * Cardinality(Payers) \in Nat
      BY <3>1, <3>2
    <3>4. Bill(call, DoneOn(call, d)) < DayLimit /\ Bill(call, DoneOn(call, d)) \in Nat
      BY <1>15, <1>17, <2>3, BillIsNat DEF DoneOn, DoneIn
    <3>5. Bill(call', DoneOn(call', d)) + Dearest * l < DayLimit + Dearest * Cardinality(Payers)
      BY <2>2, <3>2, <3>3, <3>4
    <3>. QED  BY <3>5 DEF DayBound, l
  <2>4. CASE ~(next.pc = "called" /\ d = spendDay)
    <3>1. DueOn(call', spendDay', d) \subseteq DueOn(call, spendDay, d)
      BY <1>1, <1>3, <1>4, <2>4 DEF DueOn
    <3>. QED  BY <1>4, <1>17, <2>2, <3>1, DayStays DEF MeterInv, MeterTypes
  <2>. QED  BY <2>3, <2>4
<1>. QED  BY <1>10, <1>11, <1>12, <1>13, <1>14, <1>16, <1>17 DEF MeterInv

LEMMA DayTurnsKeeps == ASSUME MeterInv, Meter!DayTurns PROVE MeterInv'
<1>1. spendDay < LastBill /\ spendDay' = spendDay + 1 /\ ledger' = ledger /\ call' = call /\ copy' = copy
  BY DEF Meter!DayTurns
<1>2. MeterTypes' /\ \A c \in Calls : call'[c].pc \in {"writing", "done"} => call'[c].day \in 1 .. spendDay'
  BY <1>1, MeterAssumption DEF MeterInv, MeterTypes
<1>3. ASSUME Cardinality(Callers) = 1, DayLimit > 0, NEW d \in 1 .. LastBill, DayBound(call, spendDay, d)
      PROVE  DayBound(call', spendDay', d)
  <2>1. CASE d = spendDay'
    <3>. DEFINE l == Cardinality(DueOn(call, spendDay', d))
    <3>1. DoneOn(call, d) = {}
      BY <1>1, <2>1 DEF MeterInv, MeterTypes, DoneOn, DoneIn
    <3>2. Bill(call, DoneOn(call, d)) = 0
      BY <3>1, BillOfNone
    <3>3. l \in Nat /\ Cardinality(Payers) \in Nat /\ l <= Cardinality(Payers)
      BY DueBounded DEF MeterInv, MeterTypes
    <3>. HIDE DEF l
    <3>4. Dearest \in Nat /\ DayLimit \in Nat
      BY MeterAssumption
    <3>5. Dearest * l <= Dearest * Cardinality(Payers) /\ Dearest * l \in Nat /\ Dearest * Cardinality(Payers) \in Nat
      BY <3>3, <3>4
    <3>6. Bill(call, DoneOn(call, d)) + Dearest * l < DayLimit + Dearest * Cardinality(Payers)
      BY <1>3, <3>2, <3>4, <3>5
    <3>. QED  BY <1>1, <3>6 DEF DayBound, l
  <2>2. CASE d # spendDay'
    <3>1. DueOn(call', spendDay', d) \subseteq DueOn(call, spendDay, d)
      BY <1>1, <2>2 DEF DueOn
    <3>. QED  BY <1>1, <1>3, <3>1, DayStays DEF MeterInv, MeterTypes
  <2>. QED  BY <2>1, <2>2
<1>. QED  BY <1>1, <1>2, <1>3 DEF MeterInv

LEMMA MeterStep == MeterInv /\ [Meter!Next]_Meter!vars => MeterInv'
<1>. SUFFICES ASSUME MeterInv, [Meter!Next]_Meter!vars PROVE MeterInv'
  OBVIOUS
<1>1. CASE Meter!Next
  BY <1>1, BeginKeeps, FailKeeps, ReadKeeps, WriteKeeps, DayTurnsKeeps DEF Meter!Next
<1>2. CASE UNCHANGED Meter!vars
  BY <1>2 DEF Meter!vars, MeterInv, MeterTypes
<1>. QED  BY <1>1, <1>2

LEMMA MeterHolds == MeterInv => Meter!SpendBounded
<1>. SUFFICES ASSUME MeterInv, Cardinality(Callers) = 1 PROVE Meter!SpendBounded
  <2>1. Meter!Alone <=> Cardinality(Callers) = 1
    BY Zenon DEF Meter!Alone, Meter!Cardinality, Cardinality, Meter!IsFiniteSet, IsFiniteSet
  <2>. QED  BY <2>1 DEF Meter!SpendBounded, Meter!Recorded, Meter!RunBounded, Meter!DayBounded
<1>1. Meter!Is("done") = DoneIn(call) /\ ledger = DoneIn(call)
  BY DEF MeterInv, Meter!Is, DoneIn
<1>2. ASSUME NEW S PROVE Meter!Sum(S) = Bill(call, S)
  BY Zenon DEF Meter!Sum, Meter!Units, Bill, Meter!Cardinality, Cardinality, Meter!IsFiniteSet, IsFiniteSet
<1>3. ASSUME NEW r \in Payers, TaskLimit > 0 PROVE Meter!Sum(Meter!OfRun(Meter!Is("done"), r)) < TaskLimit + Dearest
  <2>1. Meter!OfRun(Meter!Is("done"), r) = DoneFor(call, r)
    BY <1>1 DEF Meter!OfRun, DoneFor
  <2>. QED  BY <1>2, <1>3, <2>1 DEF MeterInv, RunBound
<1>4. ASSUME NEW d \in 1 .. LastBill, DayLimit > 0
      PROVE  Meter!Sum(Meter!OfDay(Meter!Is("done"), d)) < DayLimit + Dearest * Meter!Cardinality(Payers)
  <2>. DEFINE k == Cardinality(DueOn(call, spendDay, d))
  <2>1. Meter!OfDay(Meter!Is("done"), d) = DoneOn(call, d)
    BY <1>1 DEF Meter!OfDay, DoneOn
  <2>2. Meter!Cardinality(Payers) = Cardinality(Payers)
    BY Zenon DEF Meter!Cardinality, Cardinality, Meter!IsFiniteSet, IsFiniteSet
  <2>3. k \in Nat /\ Dearest \in Nat /\ Cardinality(Payers) \in Nat /\ DayLimit \in Nat
    BY DueBounded, MeterAssumption DEF MeterInv, MeterTypes
  <2>4. Bill(call, DoneOn(call, d)) \in Nat
    BY BillIsNat DEF DoneOn, DoneIn
  <2>5. Bill(call, DoneOn(call, d)) + Dearest * k < DayLimit + Dearest * Cardinality(Payers)
    BY <1>4 DEF MeterInv, DayBound
  <2>. HIDE DEF k
  <2>6. Dearest * k \in Nat /\ Dearest * Cardinality(Payers) \in Nat
    BY <2>3
  <2>7. Bill(call, DoneOn(call, d)) < DayLimit + Dearest * Cardinality(Payers)
    BY <2>3, <2>4, <2>5, <2>6
  <2>. QED  BY <1>2, <2>1, <2>2, <2>7
<1>. QED  BY <1>1, <1>3, <1>4 DEF Meter!SpendBounded, Meter!Recorded, Meter!RunBounded, Meter!DayBounded

\* Every answer of one process is in the ledger, a run spends less than its limit and
\* one call more, and a day less than its limit and a call of each run more
\* (agent/token-meter.ts).
THEOREM SpendStaysBounded == Meter!Spec => []Meter!SpendBounded
BY MeterInit, MeterStep, MeterHolds, PTL DEF Meter!Spec

\* The same of the sum of the parts, of which one runs at a time.
THEOREM SpendAlwaysBounded == PartsSpec => []SpendBounded
<1>. DEFINE Inv == part = "meter" => MeterInv
            all == <<part, chatVars, ruleVars, driftVars, webVars, meterVars, deskVars>>
<1>1. Parts => Inv
  BY MeterInit DEF Parts
<1>2. ASSUME Inv, [Step]_all PROVE Inv'
  <2>1. CASE part = "meter"
    <3>1. part' = part /\ [Meter!Next]_Meter!vars
      BY <1>2, <2>1 DEF Step, meterVars, Meter!vars
    <3>. QED  BY <1>2, <2>1, <3>1, MeterStep
  <2>2. CASE part # "meter"
    <3>1. part' = part
      BY <1>2, <2>2 DEF Step
    <3>. QED  BY <2>2, <3>1
  <2>. QED  BY <2>1, <2>2
<1>3. Inv => SpendBounded
  BY MeterHolds DEF SpendBounded
<1>. QED  BY <1>1, <1>2, <1>3, PTL DEF PartsSpec
=============================================================================
