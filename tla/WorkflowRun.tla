---------------------------- MODULE WorkflowRun ----------------------------
(***************************************************************************)
(* A run and its ledger record: src/workflows/run-workflow.ts and           *)
(* src/skills/runner.ts keep a copy of the record, rewrite the ledger file  *)
(* (src/workflows/run-ledger.ts) from that copy at every stage, and are     *)
(* listed by src/service/run-manager.ts so that the console can cancel      *)
(* them.  The runs share one process; the console can act at every await.   *)
(***************************************************************************)
CONSTANTS Workflows,  \* runs of runWorkflowDetailed
          Skills,     \* runs of runConfiguredSkill
          Sends       \* the workflow runs whose message goes to Feishu

ASSUME WorkflowRunAssumption == Workflows \cap Skills = {} /\ Sends \subseteq Workflows

Runs == Workflows \cup Skills

VARIABLES
  stage,      \* where a run is: idle, agent (1st try), retry, sending, sent, over
  copy,       \* the record as the run holds it
  ledger,     \* the record on file
  active,     \* RunManager.entries
  cancelled,  \* runs whose onCancel has run
  saved,      \* runs whose output is stored
  delivered,  \* runs whose message arrived
  died        \* runs the process took with it when it died

vars == <<stage, copy, ledger, active, cancelled, saved, delivered, died>>

\* A record, reduced to what the pages and the rerun button read from it.
NoRecord == [status |-> "none", send |-> "none", error |-> "none"]
Record == [status : {"none", "running", "succeeded", "failed"},
           send : {"none", "pending", "succeeded", "failed", "skipped"},
           error : {"none", "cancelled", "failed"}]

Working == {"agent", "retry", "sending", "sent"}

TypeOK ==
  /\ stage \in [Runs -> Working \cup {"idle", "over"}]
  /\ copy \in [Runs -> Record] /\ ledger \in [Runs -> Record]
  /\ active \subseteq {r \in Runs : stage[r] \in Working} \ cancelled
  /\ cancelled \subseteq Runs
  /\ saved \subseteq Runs /\ delivered \subseteq Sends \cap saved
  /\ died \subseteq {r \in Runs : stage[r] = "over"}

Init ==
  /\ stage = [r \in Runs |-> "idle"]
  /\ copy = [r \in Runs |-> NoRecord] /\ ledger = [r \in Runs |-> NoRecord]
  /\ active = {} /\ cancelled = {} /\ saved = {} /\ delivered = {} /\ died = {}

\* safeWriteRun: the copy changes and the file is rewritten from it.
Write(r, record) ==
  /\ copy' = [copy EXCEPT ![r] = record]
  /\ ledger' = [ledger EXCEPT ![r] = record]

\* markWorkflowRunFailed and markWorkflowRunSucceeded.
Failed(record, why) == [record EXCEPT !.status = "failed", !.error = why]
SendFailed(record) == [Failed(record, "failed") EXCEPT !.send = "failed"]

\* Mutant of Succeeded: a sent message leaves the send pending.
SucceededPending(r, record) == [record EXCEPT !.status = "succeeded"]

Succeeded(r, record) ==
  [record EXCEPT !.status = "succeeded", !.send = IF r \in Sends THEN "succeeded" ELSE "skipped"]

\* Mutant of Leave: the run is not taken off the list.
LeaveListed(r) == stage' = [stage EXCEPT ![r] = "over"] /\ UNCHANGED active

\* The run is over: the catch and finally blocks have run.
Leave(r) ==
  /\ stage' = [stage EXCEPT ![r] = "over"]
  /\ active' = active \ {r}

Start(r) ==
  /\ stage[r] = "idle"
  /\ Write(r, [status |-> "running", send |-> IF r \in Sends THEN "pending" ELSE "skipped", error |-> "none"])
  /\ active' = active \cup {r}
  /\ stage' = [stage EXCEPT ![r] = "agent"]
  /\ UNCHANGED <<cancelled, saved, delivered, died>>

\* An empty or unreadable answer of the agent is asked for once more.
Retry(r) ==
  /\ stage[r] = "agent" /\ r \in Workflows
  /\ stage' = [stage EXCEPT ![r] = "retry"]
  /\ UNCHANGED <<copy, ledger, active, cancelled, saved, delivered, died>>

\* Mutant of Catch: an error is left to the caller.
CatchNothing(r) == UNCHANGED <<copy, ledger>>

\* The catch block: the ledger says failed, unless the operator already made it so.
Catch(r) ==
  IF r \in cancelled THEN UNCHANGED <<copy, ledger>> ELSE Write(r, Failed(copy[r], "failed"))

\* Evidence, the agent or its second answer failed.
Fail(r) ==
  /\ stage[r] \in {"agent", "retry"}
  /\ Catch(r)
  /\ Leave(r)
  /\ UNCHANGED <<cancelled, saved, delivered, died>>

\* The output is stored and the record rewritten (markWorkflowRunGenerated); a
\* run that sends waits for Feishu, another one is over.
Generate(r) ==
  /\ stage[r] \in {"agent", "retry"} /\ r \in Workflows
  /\ saved' = saved \cup {r}
  /\ IF r \in Sends
     THEN /\ Write(r, copy[r])
          /\ stage' = [stage EXCEPT ![r] = "sending"]
          /\ UNCHANGED active
     ELSE /\ Write(r, Succeeded(r, copy[r]))
          /\ Leave(r)
  /\ UNCHANGED <<cancelled, delivered, died>>

\* Feishu has the message; the run has not heard of it yet.
Arrive(r) ==
  /\ stage[r] = "sending"
  /\ stage' = [stage EXCEPT ![r] = "sent"]
  /\ delivered' = delivered \cup {r}
  /\ UNCHANGED <<copy, ledger, active, cancelled, saved, died>>

\* The run resumes: the record says succeeded, whatever it said before.
Sent(r) ==
  /\ stage[r] = "sent"
  /\ Write(r, Succeeded(r, copy[r]))
  /\ Leave(r)
  /\ UNCHANGED <<cancelled, saved, delivered, died>>

\* The send failed, or the message arrived and the answer did not: recorded by
\* the inner catch, and again by the outer one.
Unsent(r) ==
  /\ stage[r] \in {"sending", "sent"}
  /\ Write(r, SendFailed(copy[r]))
  /\ Leave(r)
  /\ UNCHANGED <<cancelled, saved, delivered, died>>

\* Mutant of SkillEnds: a skill run does not look whether it was cancelled.
SkillEndsAnyway(r) == Write(r, Succeeded(r, copy[r]))

\* runConfiguredSkill writes success only when it was not cancelled.
SkillEnds(r) ==
  IF r \in cancelled THEN UNCHANGED <<copy, ledger>> ELSE Write(r, Succeeded(r, copy[r]))

Finish(r) ==
  /\ stage[r] = "agent" /\ r \in Skills
  /\ saved' = saved \cup {r}
  /\ SkillEnds(r)
  /\ Leave(r)
  /\ UNCHANGED <<cancelled, delivered, died>>

\* Mutant of OnCancel: the file is written, the run's copy is not.
OnCancelFileOnly(r) ==
  /\ ledger' = [ledger EXCEPT ![r] = Failed(copy[r], "cancelled")]
  /\ UNCHANGED copy

\* The onCancel callback: the run's copy and the file say failed.
OnCancel(r) == Write(r, Failed(copy[r], "cancelled"))

\* RunManager.cancel: an in-process run has no pid, nothing is signalled.
Cancel(r) ==
  /\ r \in active
  /\ active' = active \ {r}
  /\ cancelled' = cancelled \cup {r}
  /\ OnCancel(r)
  /\ UNCHANGED <<stage, saved, delivered, died>>

\* The process dies: only the files are left.
Crash ==
  /\ LET lost == {r \in Runs : stage[r] \in Working} IN
       /\ lost # {}
       /\ stage' = [r \in Runs |-> IF r \in lost THEN "over" ELSE stage[r]]
       /\ died' = died \cup lost
  /\ active' = {}
  /\ UNCHANGED <<copy, ledger, cancelled, saved, delivered>>

Ends(r) == Fail(r) \/ Generate(r) \/ Arrive(r) \/ Sent(r) \/ Unsent(r) \/ Finish(r)

Next ==
  \/ \E r \in Runs : Start(r) \/ Retry(r) \/ Cancel(r)
  \/ \E r \in Runs : Fail(r) \/ Generate(r) \/ Arrive(r) \/ Sent(r) \/ Unsent(r) \/ Finish(r)
  \/ Crash

Spec == Init /\ [][Next]_vars

\* The agent and the sender are bounded by the timeouts of their commands.
Fairness == \A r \in Runs : WF_vars(Ends(r))
FairSpec == Spec /\ Fairness

-----------------------------------------------------------------------------
(* Properties *)

\* What the ledger claims has happened: a run said to have succeeded has stored
\* its output and, if it sends, its message has arrived.
LedgerHonest ==
  \A r \in Workflows :
    /\ ledger[r].status = "succeeded" => r \in saved
    /\ ledger[r].send = "succeeded" => r \in delivered
    /\ ledger[r].status = "succeeded" /\ r \in Sends => ledger[r].send = "succeeded"

\* A record that was settled, by the run or by the console, is never running
\* again, although the run rewrites the file from its own copy.
NeverRunsAgain ==
  [][\A r \in Runs :
       ledger[r].status \in {"succeeded", "failed"} => ledger'[r].status # "running"]_vars

\* A skill run the operator cancelled stays cancelled, however it ends.
SkillCancelSticks ==
  [][\A r \in Skills : r \in cancelled => ledger'[r] = ledger[r]]_vars

\* "cancellation writes the ledger back to failed": a cancelled run stays failed.
CancelSticks ==
  [][\A r \in Runs : r \in cancelled => ledger'[r].status = "failed"]_vars

\* In the end no record says that its run is running, except those of runs the
\* process took with it: nothing settles those when it starts again.
RunSettles == <>[](\A r \in Runs : ledger[r].status = "running" => r \in died)
=============================================================================
