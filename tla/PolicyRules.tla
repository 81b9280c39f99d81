---------------------------- MODULE PolicyRules ----------------------------
(***************************************************************************)
(* The rules by which the assistant decides, and the chat in which they    *)
(* are worked out.  What the user says there is answered by a model that   *)
(* may propose a rule (decision/calibration-agent.ts); a proposal waits in *)
(* a store until a command confirms or rejects it, and a confirmed one is  *)
(* written into the policy file, which the user edits as well              *)
(* (decision/candidates.ts).  The chat is made, and greeted, by whichever  *)
(* of two processes is asked first (decision/onboarding.ts).               *)
(*                                                                         *)
(* Candidates are numbered as they are created; a rule is named by its id. *)
(***************************************************************************)
EXTENDS Naturals, Sequences, FiniteSets

CONSTANTS
  Rules,         \* the ids of rules
  Scopes,        \* the conversations in which the model is asked
  Processes,     \* the interaction and the console
  MaxCandidates, \* bound: the candidates
  MaxChats,      \* bound: the chats that are made
  Tasks          \* bounds: how often what happens from outside happens

Ids == 1..MaxCandidates
Chats == 1..MaxChats
Task == [edits : Nat, asks : Nat, commands : Nat, starts : Nat, late : Nat, restarts : Nat,
         hit : BOOLEAN]
NoJob == [step |-> "idle", chat |-> 0, force |-> FALSE]

VARIABLES
  store,    \* the candidates, the newest first: [id, rule, status]
  policy,   \* policy[r]: the candidate whose words stand under r, or 0
  readable, \* whether the policy file can be parsed
  asked,    \* the conversations whose model is at work
  told,     \* the candidates the user was told of
  chats,    \* the chats made so far
  file,     \* the state file: the chat, and whether one was greeted within 24 hours
  env,      \* env[p]: the chat a process has in its environment
  dotenv,   \* the chat in the .env file
  lock,     \* the process that made the lock file, or "none"
  job,      \* job[p]: the set-up a process is working on
  greeted,  \* greeted[c]: the greetings a chat has got
  task      \* what is left of the bounds, and whether a greeting may be lost sight of

rules == <<store, policy, readable, asked, told>>
setup == <<chats, file, env, dotenv, lock, job, greeted>>
vars == <<rules, setup, task>>

Init ==
  /\ store = <<>> /\ policy = [r \in Rules |-> 0] /\ readable = TRUE
  /\ asked = {} /\ told = {}
  /\ chats = 0 /\ file = [chat |-> 0, greeted |-> FALSE]
  /\ env = [p \in Processes |-> 0] /\ dotenv = 0 /\ lock = "none"
  /\ job = [p \in Processes |-> NoJob] /\ greeted = [c \in Chats |-> 0]
  /\ task \in Tasks

Spend(what) == task[what] > 0 /\ task' = [task EXCEPT ![what] = @ - 1]

(***************************************************************************)
(* Candidates                                                              *)
(***************************************************************************)
Newest(c) == [id |-> Len(store) + 1, rule |-> c, status |-> "pending"]

(* runDecisionCalibrationAgent: the model is asked ...                     *)
AskModel(s) ==
  /\ Spend("asks") /\ s \notin asked /\ asked' = asked \union {s}
  /\ UNCHANGED <<store, policy, readable, told, setup>>

(* ... and its answer has a rule, or none, or it fails; the user reads of  *)
(* the candidate once the reply is sent.                                   *)
ModelProposes(s, r) ==
  /\ s \in asked /\ Len(store) < MaxCandidates
  /\ store' = <<Newest(r)>> \o store /\ asked' = asked \ {s}
  /\ UNCHANGED <<policy, readable, told, setup, task>>

ModelEnds(s) ==
  /\ s \in asked /\ asked' = asked \ {s}
  /\ UNCHANGED <<store, policy, readable, told, setup, task>>

ReplyArrives(i) ==
  /\ i \in 1..Len(store) /\ i \notin told /\ told' = told \union {i}
  /\ UNCHANGED <<store, policy, readable, asked, setup, task>>

Known == {store[i].id : i \in DOMAIN store}
Candidate(i) == CHOOSE c \in {store[j] : j \in DOMAIN store} : c.id = i
Marked(i, status) ==
  [j \in DOMAIN store |-> IF store[j].id = i THEN [store[j] EXCEPT !.status = status] ELSE store[j]]

(* Mutant of Saves: what was confirmed before is written once more.        *)
SavesAgain(i) ==
  /\ Candidate(i).status \in {"pending", "confirmed"} /\ store' = Marked(i, "confirmed")
  /\ policy' = IF readable THEN [policy EXCEPT ![Candidate(i).rule] = i] ELSE policy

(* confirmPolicyCandidate: the store, and then the policy, whose rule of   *)
(* the same id gives way; a policy that cannot be parsed is left as it is. *)
Saves(i) ==
  /\ Candidate(i).status = "pending" /\ store' = Marked(i, "confirmed")
  /\ policy' = IF readable THEN [policy EXCEPT ![Candidate(i).rule] = i] ELSE policy

Confirm(i) ==
  /\ Spend("commands") /\ i \in Known \cap told /\ Saves(i)
  /\ UNCHANGED <<readable, asked, told, setup>>

(* confirm_policy without an id takes the newest that is pending.          *)
Pending == {j \in DOMAIN store : store[j].status = "pending"}
ConfirmBare ==
  /\ Spend("commands") /\ told # {}
  /\ \E j \in Pending : (\A k \in Pending : j <= k) /\ Saves(store[j].id)
  /\ UNCHANGED <<readable, asked, told, setup>>

(* Mutant of Reject: a confirmed one can be rejected.                      *)
RejectAny(i) ==
  /\ Spend("commands") /\ i \in Known \cap told
  /\ store' = Marked(i, "rejected")
  /\ UNCHANGED <<policy, readable, asked, told, setup>>

(* rejectPolicyCandidate                                                   *)
Reject(i) ==
  /\ Spend("commands") /\ i \in Known \cap told /\ Candidate(i).status # "confirmed"
  /\ store' = Marked(i, "rejected")
  /\ UNCHANGED <<policy, readable, asked, told, setup>>

(* The user edits the policy: a rule is taken out, the file gets or loses  *)
(* a mistake.                                                              *)
EditPolicy(r) ==
  /\ Spend("edits") /\ policy' = [policy EXCEPT ![r] = 0] /\ readable' \in BOOLEAN
  /\ UNCHANGED <<store, asked, told, setup>>

(***************************************************************************)
(* The chat                                                                *)
(***************************************************************************)
Works(p, step, c, force) == job' = [job EXCEPT ![p] = [step |-> step, chat |-> c, force |-> force]]
Rests(p) == job' = [job EXCEPT ![p] = NoJob]

(* decisionOnboardingChatId: the environment, and then the state file.     *)
ChatOf(p) == IF env[p] # 0 THEN env[p] ELSE file.chat

(* claimWelcomeLock, when the lock file is young or not there.             *)
Claims(p, c, force) ==
  IF lock = "none" THEN lock' = p /\ Works(p, "greeting", c, force)
  ELSE UNCHANGED lock /\ Rests(p)

(* sendWelcomeMessageIfDue: the state is read before and under the lock.   *)
Due(force) == force \/ ~file.greeted

(* startDecisionOnboarding, when there is a chat and when there is none.   *)
Start(p) ==
  /\ Spend("starts") /\ job[p] = NoJob
  /\ LET c == ChatOf(p)
     IN IF c = 0 THEN Works(p, "making", 0, FALSE) /\ UNCHANGED <<env, dotenv, lock>>
        ELSE /\ env' = [env EXCEPT ![p] = c]
             /\ dotenv' = IF p = "console" THEN c ELSE dotenv
             /\ IF Due(FALSE) THEN Works(p, "claiming", c, FALSE) ELSE Rests(p)
             /\ UNCHANGED lock
  /\ UNCHANGED <<rules, chats, file, greeted>>

(* The chat is there: it is written down before the greeting.              *)
Made(p) ==
  /\ job[p].step = "making" /\ chats < MaxChats
  /\ chats' = chats + 1 /\ env' = [env EXCEPT ![p] = chats + 1]
  /\ file' = [file EXCEPT !.chat = chats + 1]
  /\ dotenv' = IF p = "console" THEN chats + 1 ELSE dotenv
  /\ Claims(p, chats + 1, TRUE)
  /\ UNCHANGED <<rules, greeted, task>>

Claim(p) ==
  /\ job[p].step = "claiming" /\ Claims(p, job[p].chat, FALSE)
  /\ UNCHANGED <<rules, chats, file, env, dotenv, greeted, task>>

(* A lock file older than a minute is removed, whoever made it: one that   *)
(* died, or one whose message takes that long.                             *)
Steals(p) ==
  /\ job[p].step = "claiming" /\ lock # "none" /\ task.late > 0
  /\ task' = [task EXCEPT !.late = @ - 1, !.hit = @ \/ job[lock] # NoJob]
  /\ lock' = p /\ Works(p, "greeting", job[p].chat, FALSE)
  /\ UNCHANGED <<rules, chats, file, env, dotenv, greeted>>

(* Under the lock the state is looked at again, and the message sent.      *)
Greet(p) ==
  /\ job[p].step = "greeting"
  /\ LET c == job[p].chat
     IN IF Due(job[p].force)
        THEN /\ greeted' = [greeted EXCEPT ![c] = @ + 1] /\ Works(p, "greeted", c, job[p].force)
             /\ UNCHANGED lock
        ELSE lock' = "none" /\ Rests(p) /\ UNCHANGED greeted
  /\ UNCHANGED <<rules, chats, file, env, dotenv, task>>

(* The state is written and the lock file removed, whoever made it.        *)
Greeted(p) ==
  /\ job[p].step = "greeted" /\ file' = [chat |-> job[p].chat, greeted |-> TRUE]
  /\ lock' = "none" /\ Rests(p)
  /\ UNCHANGED <<rules, chats, env, dotenv, greeted, task>>

(* The chat cannot be made, or the message cannot be sent.                 *)
StartFails(p) ==
  /\ Spend("late") /\ job[p].step \in {"making", "greeting"} /\ Rests(p)
  /\ lock' = IF job[p].step = "greeting" THEN "none" ELSE lock
  /\ UNCHANGED <<rules, chats, file, env, dotenv, greeted>>

(* A day passes: the chat may be greeted again.                            *)
DayPasses ==
  /\ Spend("late") /\ file' = [file EXCEPT !.greeted = FALSE] /\ lock = "none"
  /\ greeted' = [c \in Chats |-> 0]
  /\ UNCHANGED <<rules, chats, env, dotenv, lock, job>>

(* A process ends and starts: the lock file stays.                         *)
Restart(p) ==
  /\ task.restarts > 0
  /\ task' = [task EXCEPT !.restarts = @ - 1, !.hit = @ \/ job[p].step = "greeted"]
  /\ env' = [env EXCEPT ![p] = dotenv] /\ Rests(p)
  /\ UNCHANGED <<rules, chats, file, dotenv, lock, greeted>>

Next ==
  \/ \E s \in Scopes : AskModel(s) \/ ModelEnds(s) \/ \E r \in Rules : ModelProposes(s, r)
  \/ \E i \in Ids : ReplyArrives(i) \/ Confirm(i) \/ Reject(i)
  \/ ConfirmBare \/ DayPasses
  \/ \E r \in Rules : EditPolicy(r)
  \/ \E p \in Processes : Start(p) \/ Made(p) \/ Claim(p) \/ Steals(p) \/ Greet(p) \/ Greeted(p) \/ StartFails(p) \/ Restart(p)

Spec == Init /\ [][Next]_vars

(***************************************************************************)
(* Properties                                                              *)
(***************************************************************************)
TypeOK ==
  /\ policy \in [Rules -> Ids \union {0}] /\ readable \in BOOLEAN
  /\ Known = 1..Len(store) /\ told \subseteq Known
  /\ file \in [chat : Chats \union {0}, greeted : BOOLEAN]
  /\ env \in [Processes -> Chats \union {0}] /\ lock \in Processes \union {"none"}
  /\ chats \in Chats \union {0} /\ dotenv \in 0..chats

(* A rule's words are those of a candidate of its id that a command         *)
(* confirmed, never of one that waits or was rejected, and they give way to *)
(* a pending candidate that is confirmed or to the user's own edit, never   *)
(* to one that had been confirmed before (candidates.ts).                   *)
RulesAreConfirmed == \A r \in Rules : policy[r] # 0 =>
  Candidate(policy[r]).status = "confirmed" /\ Candidate(policy[r]).rule = r
KeepsRules ==
  \A r \in Rules : policy'[r] # policy[r] =>
    policy'[r] = 0 \/ Candidate(policy'[r]).status = "pending"
RulesStay == [][KeepsRules]_vars

(* A chat is greeted once in a day, however the console and the interaction *)
(* set it up at once, start again or leave their lock behind, unless the    *)
(* message takes a minute or its sender dies before it wrote that it was    *)
(* sent (onboarding.ts sendWelcomeMessageIfDue).                            *)
GreetedOnce == ~task.hit => \A c \in Chats : greeted[c] <= 1

(* policy.ts tells the user that a candidate, "once you confirm it, is      *)
(* saved as a long-term rule".                                              *)
SavesConfirmed ==
  \A i \in Known :
    Candidate(i).status = "pending" /\ Candidate(i)'.status = "confirmed" => policy'[Candidate(i).rule] = i
ConfirmedIsSaved == [][SavesConfirmed]_vars
=============================================================================
