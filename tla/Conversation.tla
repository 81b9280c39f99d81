---------------------------- MODULE Conversation ----------------------------
(***************************************************************************)
(* One Feishu conversation (a scope): the messages that wait for the       *)
(* debounce timer (interaction/pending-queue.ts), the batch that is being  *)
(* handled (feishu-interaction.ts), the agent that answers it as a child   *)
(* process (agent-mode.ts), the card that shows its state (run-card.ts),   *)
(* and the session whose thread the next agent resumes                     *)
(* (session-catalog.ts).                                                   *)
(*                                                                         *)
(* The texts of a batch are joined, so that a command is one only if it is *)
(* alone in its batch.  The other commands, the access checks and the      *)
(* progress lines of the card are left out; how long anything takes is     *)
(* not modelled, so that a timer may go off whenever it is set.            *)
(***************************************************************************)
EXTENDS Naturals, FiniteSets

CONSTANTS
  MaxMsgs,   \* bound: the messages and button presses of the user
  Policies,  \* the signatures the configuration may have (policySignature)
  Loads      \* bounds: the loads a behaviour may have

Msgs == 1..MaxMsgs
Runs == 1..MaxMsgs

(* A load: how many messages there are, how often the configuration is     *)
(* changed, and how often Feishu or the start of an agent fails.           *)
Load == [msgs : 0..MaxMsgs, changes : Nat, faults : Nat]

ASSUME MsgsAssumption == MaxMsgs \in Nat
ASSUME PoliciesAssumption == Policies # {} /\ "none" \notin Policies
ASSUME LoadAssumption == Loads \subseteq Load

Kinds == {"chat", "new", "stop"}

VARIABLES
  kind,     \* kind[m]: what m says, "unsent" before
  batch,    \* the messages that wait
  timer,    \* the debounce timer is set
  blocked,  \* a batch is being handled
  work,     \* that batch
  active,   \* the run listed in activeAgentRuns, or 0
  agent,    \* agent[r]: the r-th agent
  status,   \* status[r]: what its card is to show
  op,       \* op[m]: the stop that m asked for
  session,  \* the active record of the scope in the catalog
  policy,   \* the signature of the configuration
  over,     \* the messages that are dealt with
  mishaps,  \* "card": a card could not be sent; "death": the service died
  left      \* what is left of the load

vars == <<kind, batch, timer, blocked, work, active, agent, status, op, session,
          policy, over, mishaps, left>>
queue == <<batch, timer, blocked>>

NoSession == [policy |-> "none", thread |-> 0]
NoAgent(p) == [child |-> "unborn", good |-> FALSE, stopped |-> FALSE, term |-> FALSE,
               orphan |-> FALSE, resumes |-> 0, thread |-> 0, policy |-> p]
NoOp == [pc |-> "none", run |-> 0]
Idle(p) == [pc |-> "none", msgs |-> {}, policy |-> p, thread |-> 0, run |-> 0]

Init ==
  /\ kind = [m \in Msgs |-> "unsent"]
  /\ batch = {} /\ timer = FALSE /\ blocked = FALSE
  /\ policy = CHOOSE p \in Policies : TRUE
  /\ work = Idle(policy) /\ active = 0
  /\ agent = [r \in Runs |-> NoAgent(policy)]
  /\ status = [r \in Runs |-> "none"]
  /\ op = [m \in Msgs |-> NoOp]
  /\ session = NoSession
  /\ over = {} /\ mishaps = {}
  /\ left \in Loads

Fault == left.faults > 0 /\ left' = [left EXCEPT !.faults = @ - 1]

(***************************************************************************)
(* Messages                                                                *)
(***************************************************************************)
(* PendingQueue.push: while a batch is being handled the timer is not set. *)
Push(m) ==
  /\ batch' = batch \union {m}
  /\ timer' = (timer \/ ~blocked) /\ UNCHANGED blocked

(* AgentRunCardController: the card of a run has one status at a time, and *)
(* whoever speaks last sets it; that a card cannot be updated is logged.   *)
CardTells(r, s) == status' = [status EXCEPT ![r] = s]

(* stopAgentRun up to its first await: the card is told.                   *)
BeginStop(m) ==
  op' = [op EXCEPT ![m] = [pc |-> "marking", run |-> active]] /\ CardTells(active, "stopping")

(* The user's next message, m, of kind k.                                  *)
Say(m, k) ==
  /\ left.msgs > 0 /\ left' = [left EXCEPT !.msgs = @ - 1]
  /\ m = 1 + Cardinality({n \in Msgs : kind[n] # "unsent"})
  /\ kind' = [kind EXCEPT ![m] = k]
  /\ UNCHANGED <<work, active, agent, session, policy, mishaps>>

(* A written stop is for the run that is listed, and waits like any        *)
(* message when there is none.                                             *)
Send(m, k) ==
  /\ Say(m, k) /\ UNCHANGED over
  /\ IF k = "stop" /\ active # 0 THEN BeginStop(m) /\ UNCHANGED queue
     ELSE Push(m) /\ UNCHANGED <<op, status>>

(* A pressed stop, too, whichever card it was pressed on, and is answered  *)
(* at once when there is no run.                                           *)
Press(m) ==
  /\ Say(m, "click") /\ UNCHANGED queue
  /\ IF active # 0 THEN BeginStop(m) /\ UNCHANGED over
     ELSE over' = over \union {m} /\ UNCHANGED <<op, status>>

(***************************************************************************)
(* The batch                                                               *)
(***************************************************************************)
(* Mutant of Ensured: the signatures are not compared.                     *)
EnsuredAny(s, p, t) ==
  IF s.policy = "none" THEN [policy |-> p, thread |-> t]
  ELSE [s EXCEPT !.thread = IF t = 0 THEN @ ELSE t]

(* ensureFeishuSession: a record made under another policy is archived.    *)
Ensured(s, p, t) ==
  IF s.policy = p THEN [s EXCEPT !.thread = IF t = 0 THEN @ ELSE t]
  ELSE [policy |-> p, thread |-> t]

IsCommand(k) == \E m \in batch : batch = {m} /\ kind[m] = k

(* The timer goes off: the batch is taken, the scope blocked, and runBatch *)
(* runs up to its first await with the configuration of this moment.       *)
Flush ==
  LET found == Ensured(session, policy, 0)
      taken(pc) == [pc |-> pc, msgs |-> batch, policy |-> policy,
                    thread |-> found.thread, run |-> 0]
  IN
  /\ timer /\ ~blocked
  /\ timer' = FALSE /\ blocked' = TRUE /\ batch' = {}
  /\ \/ /\ IsCommand("new")
        /\ session' = NoSession /\ work' = taken("reply") /\ UNCHANGED <<op, status>>
     \/ /\ IsCommand("stop") /\ active = 0
        /\ session' = found /\ work' = taken("reply") /\ UNCHANGED <<op, status>>
     \/ /\ IsCommand("stop") /\ active # 0
        /\ session' = found /\ work' = taken("stopping")
        /\ \E m \in batch : BeginStop(m)
     \/ /\ ~IsCommand("new") /\ ~IsCommand("stop")
        /\ session' = found /\ work' = taken("starting") /\ UNCHANGED <<op, status>>
  /\ UNCHANGED <<kind, active, agent, policy, over, mishaps, left>>

(* Mutant of End: what came in meanwhile is not looked at.                 *)
EndQuietly ==
  /\ work' = Idle(policy) /\ over' = over \union work.msgs
  /\ blocked' = FALSE /\ timer' = FALSE /\ UNCHANGED batch

(* The batch is dealt with, and the scope is unblocked.                    *)
End ==
  /\ work' = Idle(policy) /\ over' = over \union work.msgs
  /\ blocked' = FALSE /\ timer' = (batch # {}) /\ UNCHANGED batch

(* A promise is rejected that nobody waits for: the process ends and is    *)
(* started again; a child that is still at work goes on by itself.         *)
Die ==
  /\ batch' = {} /\ timer' = FALSE /\ blocked' = FALSE
  /\ work' = Idle(policy) /\ active' = 0 /\ op' = [m \in Msgs |-> NoOp]
  /\ mishaps' = mishaps \union {"death"}

(* A command, or the apology for a failure, is answered; when not even the *)
(* apology can be sent its rejection is nobody's.                          *)
Reply ==
  /\ work.pc \in {"reply", "apology"}
  /\ \/ End /\ UNCHANGED <<active, op, agent, mishaps, left>>
     \/ /\ work.pc = "reply" /\ Fault
        /\ work' = [work EXCEPT !.pc = "apology"]
        /\ UNCHANGED <<queue, active, op, agent, over, mishaps>>
     \/ /\ work.pc = "apology" /\ Fault /\ Die
        /\ agent' = [r \in Runs |-> [agent[r] EXCEPT !.orphan = agent[r].child # "unborn"]]
        /\ UNCHANGED over
  /\ UNCHANGED <<kind, status, session, policy>>

(* claudeAgentArgs: the agent is told which thread it resumes, and runs    *)
(* under the configuration of the batch.                                   *)
Spawned(r) ==
  [agent EXCEPT ![r].child = "running", ![r].resumes = work.thread, ![r].policy = work.policy]

(* startFeishuAgentModeRun: the prompt is put together and the child       *)
(* spawned, or that fails.                                                 *)
Start ==
  /\ work.pc = "starting"
  /\ \/ \E r \in Runs :
          /\ agent[r].child = "unborn" /\ \A q \in Runs : q < r => agent[q].child # "unborn"
          /\ agent' = Spawned(r) /\ active' = r /\ CardTells(r, "running")
          /\ work' = [work EXCEPT !.pc = "sending", !.run = r]
          /\ UNCHANGED left
     \/ /\ Fault /\ work' = [work EXCEPT !.pc = "apology"]
        /\ UNCHANGED <<agent, active, status>>
  /\ UNCHANGED <<kind, queue, op, session, policy, over, mishaps>>

(* Mutant of SendCard: the agent is not waited for.                        *)
SendCardOnly ==
  /\ work.pc = "sending" /\ End
  /\ UNCHANGED <<kind, active, agent, status, op, session, policy, mishaps, left>>

(* The card is sent, outside of the try: when it fails the batch is given  *)
(* up while the agent works, and stays listed.                             *)
SendCard ==
  /\ work.pc = "sending"
  /\ \/ work' = [work EXCEPT !.pc = "working"] /\ UNCHANGED <<mishaps, left>>
     \/ /\ Fault /\ work' = [work EXCEPT !.pc = "apology"]
        /\ mishaps' = mishaps \union {"card"}
  /\ UNCHANGED <<kind, queue, active, agent, status, op, session, policy, over>>

Rejected(r) == ~agent[r].stopped /\ ~agent[r].good

(* The agent is over: its thread is kept under the configuration of the    *)
(* batch, and the card is given its last status.                           *)
Finish ==
  LET r == work.run  a == agent[r] IN
  /\ work.pc = "working" /\ a.child = "closed"
  /\ session' = IF Rejected(r) \/ a.thread = 0 THEN session
                ELSE Ensured(session, work.policy, a.thread)
  /\ CardTells(r, IF Rejected(r) THEN "failed" ELSE IF a.stopped THEN "stopped" ELSE "success")
  /\ work' = [work EXCEPT !.pc = "closing"]
  /\ UNCHANGED <<kind, queue, active, agent, op, policy, over, mishaps, left>>

(* The card was updated, or not, which is only logged.                     *)
Finalized ==
  /\ work.pc = "closing" /\ active' = 0 /\ End
  /\ UNCHANGED <<kind, agent, status, op, session, policy, mishaps, left>>

(***************************************************************************)
(* The agent                                                               *)
(***************************************************************************)
(* The child ends, well or not, and may have named its thread before.      *)
Exit(r) ==
  /\ agent[r].child = "running"
  /\ \E good \in BOOLEAN, t \in {0, r} :
       agent' = [agent EXCEPT ![r].child = "exited", ![r].good = good, ![r].thread = t]
  /\ UNCHANGED <<kind, queue, work, active, status, op, session, policy, over,
                 mishaps, left>>

Awaited(r) == work.pc = "working" /\ work.run = r

(* Its pipes close, and the result is there.  The rejection of a result    *)
(* that nobody awaits yet, or any more, ends the service.                  *)
Close(r) ==
  LET closed == [agent EXCEPT ![r].child = "closed"] IN
  /\ agent[r].child = "exited"
  /\ IF Rejected(r) /\ ~Awaited(r) /\ ~agent[r].orphan
     THEN /\ Die
          /\ agent' = [q \in Runs |-> [closed[q] EXCEPT !.orphan = closed[q].child # "unborn"]]
     ELSE /\ agent' = closed
          /\ UNCHANGED <<queue, work, active, op, mishaps>>
  /\ UNCHANGED <<kind, status, session, policy, over, left>>

(* stopChild, on whose behalf ever: SIGTERM to a child that has not exited. *)
Terminated(r) == [agent EXCEPT ![r].stopped = TRUE,
                               ![r].term = @ \/ agent[r].child = "running"]

Timeout(r) ==
  /\ agent[r].child \in {"running", "exited"} /\ ~agent[r].stopped /\ ~agent[r].orphan
  /\ agent' = Terminated(r)
  /\ UNCHANGED <<kind, queue, work, active, status, op, session, policy, over,
                 mishaps, left>>

(* Mutant of Kill: there is no second signal.                              *)
KillNever(r) == FALSE /\ UNCHANGED vars

(* A child that is still there five seconds after SIGTERM gets SIGKILL.    *)
Kill(r) ==
  /\ agent[r].child = "running" /\ agent[r].term /\ ~agent[r].orphan
  /\ \E t \in {0, r} :
       agent' = [agent EXCEPT ![r].child = "exited", ![r].thread = t]
  /\ UNCHANGED <<kind, queue, work, active, status, op, session, policy, over,
                 mishaps, left>>

(* The rest of stopAgentRun: the card was updated and the run is stopped,  *)
(* which waits for the child unless it is over.                            *)
Marked(m) ==
  LET r == op[m].run IN
  /\ op[m].pc = "marking" /\ op' = [op EXCEPT ![m].pc = "waiting"]
  /\ agent' = IF agent[r].child = "closed" THEN agent ELSE Terminated(r)
  /\ UNCHANGED <<kind, queue, work, active, status, session, policy, over, mishaps, left>>

Stopped(m) ==
  /\ op[m].pc = "waiting" /\ agent[op[m].run].child # "running"
  /\ op' = [op EXCEPT ![m] = NoOp]
  /\ IF m \in work.msgs
     THEN work' = [work EXCEPT !.pc = "reply"] /\ UNCHANGED over
     ELSE over' = over \union {m} /\ UNCHANGED work
  /\ UNCHANGED <<kind, queue, active, agent, status, session, policy, mishaps, left>>

ChangePolicy ==
  /\ left.changes > 0 /\ left' = [left EXCEPT !.changes = @ - 1]
  /\ policy' \in Policies \ {policy}
  /\ UNCHANGED <<kind, queue, work, active, agent, status, op, session, over, mishaps>>

BatchStep == Flush \/ Reply \/ Start \/ SendCard \/ Finish \/ Finalized
StopStep(m) == Marked(m) \/ Stopped(m)

Next ==
  \/ \E m \in Msgs : StopStep(m) \/ Press(m) \/ \E k \in Kinds : Send(m, k)
  \/ BatchStep \/ ChangePolicy
  \/ \E r \in Runs : Exit(r) \/ Close(r) \/ Timeout(r) \/ Kill(r)

Spec == Init /\ [][Next]_vars

(* Timers go off and what is awaited is answered one way or the other; an  *)
(* agent need not end by itself.                                           *)
Fairness ==
  /\ WF_vars(BatchStep)
  /\ \A m \in Msgs : WF_vars(StopStep(m))
  /\ \A r \in Runs : WF_vars(Close(r)) /\ WF_vars(Timeout(r)) /\ WF_vars(Kill(r))

FairSpec == Spec /\ Fairness

(***************************************************************************)
(* Properties                                                              *)
(***************************************************************************)
(* The variables have their types; a scope is blocked exactly while a      *)
(* batch is handled, and what waits in a scope that is not has its timer.  *)
TypeOK ==
  /\ kind \in [Msgs -> Kinds \union {"click", "unsent"}] /\ batch \subseteq Msgs
  /\ work \in [pc : {"none", "reply", "apology", "stopping", "starting", "sending",
                     "working", "closing"},
               msgs : SUBSET Msgs, policy : Policies, thread : Runs \union {0},
               run : Runs \union {0}]
  /\ active \in Runs \union {0}
  /\ agent \in [Runs -> [child : {"unborn", "running", "exited", "closed"},
                         good : BOOLEAN, stopped : BOOLEAN, term : BOOLEAN,
                         orphan : BOOLEAN, resumes : Runs \union {0},
                         thread : Runs \union {0}, policy : Policies]]
  /\ status \in [Runs -> {"none", "running", "stopping", "success", "stopped", "failed"}]
  /\ op \in [Msgs -> [pc : {"none", "marking", "waiting"}, run : Runs \union {0}]]
  /\ session \in [policy : Policies \union {"none"}, thread : Runs \union {0}]
  /\ policy \in Policies /\ over \subseteq Msgs /\ mishaps \subseteq {"card", "death"}
  /\ left \in Load
  /\ blocked = (work.pc # "none") /\ timer = (batch # {} /\ ~blocked)

(* Two agents never work in one conversation at once, whatever comes in    *)
(* while one works, as long as cards can be sent and the service lives.    *)
OneAgentPerScope ==
  mishaps = {} => Cardinality({r \in Runs : agent[r].child \in {"running", "exited"}}) <= 1

(* An agent resumes only a thread that was made under its own policy, and  *)
(* no later one has been told of since, nor has the policy been another in *)
(* between: whatever changes while an agent works.                         *)
ResumesLatest ==
  \A r \in Runs : LET t == agent[r].resumes IN t # 0 =>
    /\ t < r
    /\ \A u \in t..(r - 1) : agent[u].policy = agent[r].policy
    /\ \A u \in (t + 1)..(r - 1) :
         agent[u].thread # 0 => status[u] \notin {"success", "stopped"}

(* The agents of one conversation never get in each other's way: one at a  *)
(* time, and each goes on with the thread that is current.                 *)
AgentsKept == OneAgentPerScope /\ ResumesLatest

(* In the end every message is dealt with, and every stop has seen the end *)
(* of the agent, though agents never end by themselves and ignore SIGTERM, *)
(* and replies and cards fail, unless the service died.                    *)
RequestsAnswered ==
  <>[]("death" \in mishaps \/ \A m \in Msgs : kind[m] # "unsent" => m \in over)

(* The card of an agent that fails comes to show it (README.md:664,        *)
(* "success/failure/timeout state").                                       *)
FailureShown ==
  \A r \in Runs : agent[r].child = "closed" /\ Rejected(r) ~> status[r] = "failed"
=============================================================================
