------------------------- MODULE WorkflowRun_proofs -------------------------
(***************************************************************************)
(* What the ledger of runs guarantees for any set of runs, proved: the     *)
(* argument rests on the copy of the record a run keeps, which always is   *)
(* the record on file, so that rewriting the file from it loses nothing.   *)
(*                                                                         *)
(* After it two parts of the sum of MC_Workflows: what a card confirms of  *)
(* a weekly review is what it showed (ReviewWriteback), and the rows of a  *)
(* day and the events of the calendar agree as far as faults allow         *)
(* (Calendar).                                                             *)
(***************************************************************************)
EXTENDS MC_Workflows, FiniteSetTheorems, TLAPS

\* A run that waits for Feishu has stored its output, one that goes on after
\* the message has delivered it, one not started has no record.
StageHonest ==
  \A r \in Runs :
    /\ stage[r] \in {"sending", "sent"} => r \in Sends \cap saved
    /\ stage[r] = "sent" => r \in delivered
    /\ stage[r] = "idle" => ledger[r].status = "none" /\ r \notin cancelled

\* The copy of the run is the record on file.
CopyIsLedger == copy = ledger

IInv == TypeOK /\ CopyIsLedger /\ StageHonest /\ LedgerHonest

\* What the constructors of a record return.
LEMMA Constructors ==
  ASSUME NEW rec \in Record, NEW why \in {"cancelled", "failed"}, NEW r \in Runs
  PROVE  /\ Failed(rec, why) \in Record
         /\ Failed(rec, why).status = "failed" /\ Failed(rec, why).send = rec.send
         /\ SendFailed(rec) \in Record
         /\ SendFailed(rec).status = "failed" /\ SendFailed(rec).send = "failed"
         /\ Succeeded(r, rec) \in Record
         /\ Succeeded(r, rec).status = "succeeded"
         /\ Succeeded(r, rec).send = IF r \in Sends THEN "succeeded" ELSE "skipped"
  BY DEF Record, Failed, SendFailed, Succeeded

LEMMA NoRecordIsRecord == NoRecord \in Record /\ NoRecord.status = "none" /\ NoRecord.send = "none"
  BY DEF Record, NoRecord

\* Writing a record changes the file and the copy of that run alone, alike.
LEMMA WriteEffect ==
  ASSUME copy \in [Runs -> Record], ledger \in [Runs -> Record], CopyIsLedger,
         NEW r \in Runs, NEW rec \in Record, Write(r, rec)
  PROVE  /\ copy' \in [Runs -> Record] /\ ledger' \in [Runs -> Record] /\ CopyIsLedger'
         /\ ledger'[r] = rec
         /\ \A x \in Runs : x # r => ledger'[x] = ledger[x]
  BY DEF Write, CopyIsLedger

\* The starting record of a run.
LEMMA StartRecord ==
  ASSUME NEW r \in Runs
  PROVE  LET rec == [status |-> "running",
                     send |-> IF r \in Sends THEN "pending" ELSE "skipped",
                     error |-> "none"]
         IN rec \in Record /\ rec.status = "running" /\ rec.send # "succeeded"
  BY DEF Record

LEMMA InitInv == Init => IInv
<1>. SUFFICES ASSUME Init PROVE IInv
  OBVIOUS
<1>. USE NoRecordIsRecord DEF Init
<1>1. TypeOK
  BY DEF TypeOK, Working
<1>2. CopyIsLedger /\ StageHonest
  BY DEF CopyIsLedger, StageHonest
<1>3. LedgerHonest
  BY DEF LedgerHonest, Runs
<1>. QED  BY <1>1, <1>2, <1>3 DEF IInv

\* A step that writes the record rec of run r keeps the ledger honest if rec
\* claims nothing that has not happened.
LEMMA HonestWrite ==
  ASSUME IInv, NEW r \in Runs, NEW rec \in Record, Write(r, rec),
         saved \subseteq saved', delivered \subseteq delivered',
         r \in Workflows =>
           /\ rec.status = "succeeded" => r \in saved'
           /\ rec.send = "succeeded" => r \in delivered'
           /\ rec.status = "succeeded" /\ r \in Sends => rec.send = "succeeded"
  PROVE  LedgerHonest'
<1>. SUFFICES ASSUME NEW x \in Workflows
              PROVE  /\ ledger'[x].status = "succeeded" => x \in saved'
                     /\ ledger'[x].send = "succeeded" => x \in delivered'
                     /\ ledger'[x].status = "succeeded" /\ x \in Sends
                          => ledger'[x].send = "succeeded"
  BY DEF LedgerHonest
<1>0. x \in Runs
  BY DEF Runs
<1>1. ledger'[r] = rec /\ \A y \in Runs : y # r => ledger'[y] = ledger[y]
  BY WriteEffect DEF IInv, TypeOK
<1>2. CASE x = r
  BY <1>1, <1>2
<1>3. CASE x # r
  BY <1>0, <1>1, <1>3 DEF IInv, LedgerHonest
<1>. QED  BY <1>2, <1>3

\* A step that leaves the ledger alone keeps it honest.
LEMMA HonestUnchanged ==
  ASSUME IInv, UNCHANGED ledger, saved \subseteq saved', delivered \subseteq delivered'
  PROVE  LedgerHonest'
  BY DEF IInv, LedgerHonest

LEMMA StartInv ==
  ASSUME IInv, NEW r \in Runs, Start(r)
  PROVE  IInv'
<1>. DEFINE rec == [status |-> "running",
                    send |-> IF r \in Sends THEN "pending" ELSE "skipped",
                    error |-> "none"]
<1>1. rec \in Record /\ rec.status = "running" /\ rec.send # "succeeded"
  BY StartRecord
<1>2. Write(r, rec) /\ stage[r] = "idle" /\ active' = active \cup {r}
      /\ stage' = [stage EXCEPT ![r] = "agent"]
      /\ UNCHANGED <<cancelled, saved, delivered, died>>
  BY DEF Start
<1>. HIDE DEF rec
<1>3. /\ copy' \in [Runs -> Record] /\ ledger' \in [Runs -> Record] /\ CopyIsLedger'
      /\ \A x \in Runs : x # r => ledger'[x] = ledger[x]
  BY <1>1, <1>2, WriteEffect DEF IInv, TypeOK
<1>4. TypeOK'
  BY <1>2, <1>3 DEF IInv, TypeOK, StageHonest, Working
<1>5. StageHonest'
  BY <1>2, <1>3 DEF IInv, TypeOK, StageHonest
<1>6. LedgerHonest'
  BY <1>1, <1>2, HonestWrite
<1>. QED  BY <1>3, <1>4, <1>5, <1>6 DEF IInv

LEMMA RetryInv ==
  ASSUME IInv, NEW r \in Runs, Retry(r)
  PROVE  IInv'
<1>1. TypeOK'
  BY DEF Retry, IInv, TypeOK, Working
<1>2. CopyIsLedger' /\ StageHonest'
  BY DEF Retry, IInv, TypeOK, CopyIsLedger, StageHonest
<1>3. LedgerHonest'
  BY HonestUnchanged DEF Retry
<1>. QED  BY <1>1, <1>2, <1>3 DEF IInv

\* A run that leaves with its record rewritten, or as it is.
LEMMA LeaveInv ==
  ASSUME IInv, NEW r \in Runs, Leave(r), stage[r] \in Working,
         copy' \in [Runs -> Record], ledger' \in [Runs -> Record], CopyIsLedger',
         \A x \in Runs : x # r => ledger'[x] = ledger[x],
         saved \subseteq saved', saved' \subseteq Runs, LedgerHonest',
         UNCHANGED <<cancelled, delivered, died>>
  PROVE  IInv'
<1>1. TypeOK'
  BY DEF Leave, IInv, TypeOK, Working
<1>2. StageHonest'
  BY DEF Leave, IInv, TypeOK, StageHonest, Working
<1>. QED  BY <1>1, <1>2 DEF IInv

\* The catch block keeps the copy on file and claims no success.
LEMMA CatchEffect ==
  ASSUME IInv, NEW r \in Runs, Catch(r), saved \subseteq saved', delivered \subseteq delivered'
  PROVE  /\ copy' \in [Runs -> Record] /\ ledger' \in [Runs -> Record] /\ CopyIsLedger'
         /\ \A x \in Runs : x # r => ledger'[x] = ledger[x]
         /\ LedgerHonest'
<1>1. CASE r \in cancelled
  <2>1. UNCHANGED <<copy, ledger>>
    BY <1>1 DEF Catch
  <2>. QED  BY <2>1, HonestUnchanged DEF IInv, TypeOK, CopyIsLedger
<1>2. CASE r \notin cancelled
  <2>. DEFINE rec == Failed(copy[r], "failed")
  <2>1. copy[r] \in Record
    BY DEF IInv, TypeOK
  <2>2. rec \in Record /\ rec.status = "failed" /\ rec.send = copy[r].send
    BY <2>1, Constructors
  <2>3. Write(r, rec)
    BY <1>2 DEF Catch
  <2>4. copy[r] = ledger[r]
    BY DEF IInv, CopyIsLedger
  <2>. HIDE DEF rec
  <2>5. r \in Workflows /\ rec.send = "succeeded" => r \in delivered
    BY <2>2, <2>4 DEF IInv, LedgerHonest
  <2>6. LedgerHonest'
    BY <2>2, <2>3, <2>5, HonestWrite
  <2>. QED  BY <2>2, <2>3, <2>6, WriteEffect DEF IInv, TypeOK
<1>. QED  BY <1>1, <1>2

LEMMA FailInv ==
  ASSUME IInv, NEW r \in Runs, Fail(r)
  PROVE  IInv'
<1>1. Catch(r) /\ Leave(r) /\ stage[r] \in Working /\ UNCHANGED <<cancelled, saved, delivered, died>>
  BY DEF Fail, Working
<1>2. saved' \subseteq Runs
  BY <1>1 DEF IInv, TypeOK
<1>. QED  BY <1>1, <1>2, CatchEffect, LeaveInv

LEMMA GenerateInv ==
  ASSUME IInv, NEW r \in Runs, Generate(r)
  PROVE  IInv'
<1>1. /\ stage[r] \in {"agent", "retry"} /\ r \in Workflows /\ saved' = saved \cup {r}
      /\ UNCHANGED <<cancelled, delivered, died>>
  BY DEF Generate
<1>2. copy[r] \in Record /\ copy[r] = ledger[r]
  BY DEF IInv, TypeOK, CopyIsLedger
<1>3. CASE r \in Sends
  <2>1. Write(r, copy[r]) /\ stage' = [stage EXCEPT ![r] = "sending"] /\ UNCHANGED active
    BY <1>3 DEF Generate
  <2>2. /\ copy' \in [Runs -> Record] /\ ledger' \in [Runs -> Record] /\ CopyIsLedger'
        /\ \A x \in Runs : ledger'[x] = ledger[x]
    BY <2>1, <1>2, WriteEffect DEF IInv, TypeOK
  <2>3. TypeOK'
    BY <1>1, <2>1, <2>2 DEF IInv, TypeOK, Working
  <2>4. StageHonest'
    BY <1>1, <1>3, <2>1, <2>2 DEF IInv, TypeOK, StageHonest
  <2>5. LedgerHonest'
    BY <1>1, <2>2 DEF IInv, LedgerHonest, Runs
  <2>. QED  BY <2>2, <2>3, <2>4, <2>5 DEF IInv
<1>4. CASE r \notin Sends
  <2>. DEFINE rec == Succeeded(r, copy[r])
  <2>1. Write(r, rec) /\ Leave(r)
    BY <1>4 DEF Generate
  <2>2. rec \in Record /\ rec.send = "skipped"
    BY <1>2, <1>4, Constructors
  <2>. HIDE DEF rec
  <2>3. LedgerHonest'
    BY <1>1, <1>4, <2>1, <2>2, HonestWrite
  <2>4. saved' \subseteq Runs /\ stage[r] \in Working
    BY <1>1 DEF IInv, TypeOK, Working
  <2>. QED  BY <1>1, <2>1, <2>2, <2>3, <2>4, WriteEffect, LeaveInv DEF IInv, TypeOK
<1>. QED  BY <1>3, <1>4

LEMMA ArriveInv ==
  ASSUME IInv, NEW r \in Runs, Arrive(r)
  PROVE  IInv'
<1>1. r \in Sends \cap saved
  BY DEF Arrive, IInv, StageHonest
<1>2. TypeOK'
  BY <1>1 DEF Arrive, IInv, TypeOK, Working
<1>3. CopyIsLedger' /\ StageHonest'
  BY <1>1 DEF Arrive, IInv, TypeOK, CopyIsLedger, StageHonest
<1>4. LedgerHonest'
  BY HonestUnchanged DEF Arrive
<1>. QED  BY <1>2, <1>3, <1>4 DEF IInv

LEMMA SentInv ==
  ASSUME IInv, NEW r \in Runs, Sent(r)
  PROVE  IInv'
<1>. DEFINE rec == Succeeded(r, copy[r])
<1>1. Write(r, rec) /\ Leave(r) /\ stage[r] = "sent"
      /\ UNCHANGED <<cancelled, saved, delivered, died>>
  BY DEF Sent
<1>2. r \in Sends \cap saved /\ r \in delivered
  BY <1>1 DEF IInv, StageHonest
<1>3. copy[r] \in Record
  BY DEF IInv, TypeOK
<1>4. rec \in Record /\ rec.send = "succeeded"
  BY <1>2, <1>3, Constructors
<1>. HIDE DEF rec
<1>5. LedgerHonest'
  BY <1>1, <1>2, <1>4, HonestWrite
<1>6. saved' \subseteq Runs /\ stage[r] \in Working
  BY <1>1 DEF IInv, TypeOK, Working
<1>. QED  BY <1>1, <1>4, <1>5, <1>6, WriteEffect, LeaveInv DEF IInv, TypeOK

LEMMA UnsentInv ==
  ASSUME IInv, NEW r \in Runs, Unsent(r)
  PROVE  IInv'
<1>. DEFINE rec == SendFailed(copy[r])
<1>1. Write(r, rec) /\ Leave(r) /\ stage[r] \in Working
      /\ UNCHANGED <<cancelled, saved, delivered, died>>
  BY DEF Unsent, Working
<1>2. copy[r] \in Record
  BY DEF IInv, TypeOK
<1>3. rec \in Record /\ rec.status = "failed" /\ rec.send = "failed"
  BY <1>2, Constructors
<1>. HIDE DEF rec
<1>4. LedgerHonest'
  BY <1>1, <1>3, HonestWrite
<1>5. saved' \subseteq Runs
  BY <1>1 DEF IInv, TypeOK
<1>. QED  BY <1>1, <1>3, <1>4, <1>5, WriteEffect, LeaveInv DEF IInv, TypeOK

LEMMA FinishInv ==
  ASSUME IInv, NEW r \in Runs, Finish(r)
  PROVE  IInv'
<1>1. /\ SkillEnds(r) /\ Leave(r) /\ stage[r] \in Working /\ r \in Skills
      /\ saved' = saved \cup {r} /\ UNCHANGED <<cancelled, delivered, died>>
  BY DEF Finish, Working
<1>2. saved' \subseteq Runs
  BY <1>1 DEF IInv, TypeOK
<1>3. CASE r \in cancelled
  <2>1. UNCHANGED <<copy, ledger>>
    BY <1>1, <1>3 DEF SkillEnds
  <2>2. LedgerHonest'
    BY <1>1, <2>1, HonestUnchanged
  <2>. QED  BY <1>1, <1>2, <2>1, <2>2, LeaveInv DEF IInv, TypeOK, CopyIsLedger
<1>4. CASE r \notin cancelled
  <2>. DEFINE rec == Succeeded(r, copy[r])
  <2>1. Write(r, rec)
    BY <1>1, <1>4 DEF SkillEnds
  <2>2. copy[r] \in Record
    BY DEF IInv, TypeOK
  <2>3. rec \in Record
    BY <2>2, Constructors
  <2>4. r \notin Workflows
    BY <1>1, WorkflowRunAssumption
  <2>. HIDE DEF rec
  <2>5. LedgerHonest'
    BY <1>1, <2>1, <2>3, <2>4, HonestWrite
  <2>. QED  BY <1>1, <1>2, <2>1, <2>3, <2>5, WriteEffect, LeaveInv DEF IInv, TypeOK
<1>. QED  BY <1>3, <1>4

LEMMA CancelInv ==
  ASSUME IInv, NEW r \in Runs, Cancel(r)
  PROVE  IInv'
<1>. DEFINE rec == Failed(copy[r], "cancelled")
<1>1. /\ r \in active /\ active' = active \ {r} /\ cancelled' = cancelled \cup {r}
      /\ Write(r, rec) /\ UNCHANGED <<stage, saved, delivered, died>>
  BY DEF Cancel, OnCancel
<1>2. copy[r] \in Record /\ copy[r] = ledger[r] /\ stage[r] # "idle"
  BY <1>1 DEF IInv, TypeOK, CopyIsLedger, Working
<1>3. rec \in Record /\ rec.status = "failed" /\ rec.send = ledger[r].send
  BY <1>2, Constructors
<1>. HIDE DEF rec
<1>4. /\ copy' \in [Runs -> Record] /\ ledger' \in [Runs -> Record] /\ CopyIsLedger'
      /\ \A x \in Runs : x # r => ledger'[x] = ledger[x]
  BY <1>1, <1>3, WriteEffect DEF IInv, TypeOK
<1>5. TypeOK'
  BY <1>1, <1>4 DEF IInv, TypeOK
<1>6. StageHonest'
  BY <1>1, <1>2, <1>4 DEF IInv, StageHonest
<1>7. r \in Workflows /\ rec.send = "succeeded" => r \in delivered
  BY <1>3 DEF IInv, LedgerHonest
<1>8. LedgerHonest'
  BY <1>1, <1>3, <1>7, HonestWrite
<1>. QED  BY <1>4, <1>5, <1>6, <1>8 DEF IInv

LEMMA CrashInv == IInv /\ Crash => IInv'
<1>. SUFFICES ASSUME IInv, Crash PROVE IInv'
  OBVIOUS
<1>1. TypeOK'
  BY DEF Crash, IInv, TypeOK, Working
<1>2. CopyIsLedger' /\ StageHonest'
  BY DEF Crash, IInv, TypeOK, CopyIsLedger, StageHonest, Working
<1>3. LedgerHonest'
  BY HonestUnchanged DEF Crash
<1>. QED  BY <1>1, <1>2, <1>3 DEF IInv

LEMMA StepInv == IInv /\ [Next]_vars => IInv'
<1>. SUFFICES ASSUME IInv, [Next]_vars PROVE IInv'
  OBVIOUS
<1>1. CASE UNCHANGED vars
  BY <1>1 DEF vars, IInv, TypeOK, CopyIsLedger, StageHonest, LedgerHonest
<1>2. ASSUME NEW r \in Runs,
             Start(r) \/ Retry(r) \/ Cancel(r) \/ Fail(r) \/ Generate(r) \/ Arrive(r)
               \/ Sent(r) \/ Unsent(r) \/ Finish(r)
      PROVE  IInv'
  BY <1>2, StartInv, RetryInv, CancelInv, FailInv, GenerateInv, ArriveInv, SentInv,
     UnsentInv, FinishInv
<1>. QED  BY <1>1, <1>2, CrashInv DEF Next

LEMMA Inductive == Spec => []IInv
  BY InitInv, StepInv, PTL DEF Spec

\* The variables have their types: the console lists only runs that are at
\* work and not cancelled, and only stored output is delivered.
THEOREM TypeCorrect == Spec => []TypeOK
<1>1. IInv => TypeOK
  BY DEF IInv
<1>. QED  BY <1>1, Inductive, PTL

\* A run the ledger calls a success has stored its output and, if it sends,
\* delivered it, however it was cancelled, failed or crashed.
THEOREM LedgerAlwaysHonest == Spec => []LedgerHonest
<1>1. IInv => LedgerHonest
  BY DEF IInv
<1>. QED  BY <1>1, Inductive, PTL

\* A settled record is never running again: only a run that has no record
\* starts, and a rewrite from the copy repeats what is on file.
THEOREM SettledStays == Spec => NeverRunsAgain
<1>. DEFINE A == \A r \in Runs :
              ledger[r].status \in {"succeeded", "failed"} => ledger'[r].status # "running"
<1>1. ASSUME IInv, [Next]_vars PROVE A
  <2>. SUFFICES ASSUME NEW r \in Runs, ledger[r].status \in {"succeeded", "failed"}
                PROVE  ledger'[r].status # "running"
    OBVIOUS
  <2>. /\ copy \in [Runs -> Record] /\ ledger \in [Runs -> Record] /\ CopyIsLedger
       /\ copy[r] = ledger[r] /\ ledger[r].status # "running"
    BY <1>1 DEF IInv, TypeOK, CopyIsLedger
  <2>1. CASE UNCHANGED ledger
    BY <2>1
  <2>2. ASSUME NEW x \in Runs, NEW rec \in Record, Write(x, rec),
               x # r \/ rec.status # "running"
        PROVE  ledger'[r].status # "running"
    BY <2>2, WriteEffect
  <2>3. ASSUME NEW x \in Runs, Start(x) PROVE ledger'[r].status # "running"
    <3>. DEFINE rec == [status |-> "running",
                        send |-> IF x \in Sends THEN "pending" ELSE "skipped",
                        error |-> "none"]
    <3>1. rec \in Record
      BY StartRecord
    <3>2. Write(x, rec) /\ stage[x] = "idle"
      BY <2>3 DEF Start
    <3>3. x # r
      BY <1>1, <3>2 DEF IInv, StageHonest
    <3>. HIDE DEF rec
    <3>. QED  BY <3>1, <3>2, <3>3, <2>2
  <2>4. ASSUME NEW x \in Runs,
               Fail(x) \/ Generate(x) \/ Sent(x) \/ Unsent(x) \/ Finish(x) \/ Cancel(x)
        PROVE  ledger'[r].status # "running"
    <3>1. copy[x] \in Record
      BY <1>1 DEF IInv, TypeOK
    <3>2. /\ Failed(copy[x], "failed") \in Record
          /\ Failed(copy[x], "failed").status = "failed"
          /\ Failed(copy[x], "cancelled") \in Record
          /\ Failed(copy[x], "cancelled").status = "failed"
          /\ SendFailed(copy[x]) \in Record /\ SendFailed(copy[x]).status = "failed"
          /\ Succeeded(x, copy[x]) \in Record
          /\ Succeeded(x, copy[x]).status = "succeeded"
      BY <3>1, Constructors
    <3>3. \/ UNCHANGED ledger
          \/ Write(x, copy[x])
          \/ Write(x, Failed(copy[x], "failed"))
          \/ Write(x, Failed(copy[x], "cancelled"))
          \/ Write(x, SendFailed(copy[x]))
          \/ Write(x, Succeeded(x, copy[x]))
      BY <2>4 DEF Fail, Catch, Generate, Sent, Unsent, Finish, SkillEnds, Cancel, OnCancel
    <3>4. x # r \/ copy[x].status # "running"
      OBVIOUS
    <3>. QED  BY <3>1, <3>2, <3>3, <3>4, <2>1, <2>2
  <2>5. (\E x \in Runs : Retry(x) \/ Arrive(x)) \/ Crash \/ UNCHANGED vars => UNCHANGED ledger
    BY DEF Retry, Arrive, Crash, vars
  <2>. QED  BY <1>1, <2>1, <2>3, <2>4, <2>5 DEF Next
<1>2. IInv /\ [Next]_vars => [A]_vars
  BY <1>1
<1>. QED  BY <1>2, Inductive, PTL DEF Spec, NeverRunsAgain

\* A cancelled skill run stays as the operator left it.
THEOREM CancelledSkillStays == Spec => SkillCancelSticks
<1>. DEFINE A == \A r \in Skills : r \in cancelled => ledger'[r] = ledger[r]
<1>1. ASSUME IInv, [Next]_vars PROVE A
  <2>. SUFFICES ASSUME NEW r \in Skills, r \in cancelled PROVE ledger'[r] = ledger[r]
    OBVIOUS
  <2>1. r \in Runs /\ r \notin Workflows /\ r \notin Sends /\ r \notin active
        /\ stage[r] \notin {"idle", "sending", "sent"}
    BY <1>1, WorkflowRunAssumption DEF Runs, IInv, TypeOK, StageHonest
  <2>2. ledger \in [Runs -> Record]
    BY <1>1 DEF IInv, TypeOK
  <2>3. ASSUME NEW x \in Runs, NEW rec, Write(x, rec), x # r PROVE ledger'[r] = ledger[r]
    BY <2>1, <2>2, <2>3 DEF Write
  <2>4. ASSUME NEW x \in Runs, Start(x) \/ Sent(x) \/ Unsent(x) \/ Generate(x) \/ Cancel(x)
        PROVE  ledger'[r] = ledger[r]
    <3>1. x # r
      BY <2>1, <2>4 DEF Start, Sent, Unsent, Generate, Cancel
    <3>2. \E rec : Write(x, rec)
      BY <2>4 DEF Start, Sent, Unsent, Generate, Cancel, OnCancel
    <3>. QED  BY <3>1, <3>2, <2>3
  <2>5. ASSUME NEW x \in Runs, Fail(x) \/ Finish(x)
        PROVE  ledger'[r] = ledger[r]
    <3>1. CASE x = r
      BY <2>5, <3>1 DEF Fail, Catch, Finish, SkillEnds
    <3>2. CASE x # r
      <4>1. UNCHANGED ledger \/ \E rec : Write(x, rec)
        BY <2>5 DEF Fail, Catch, Finish, SkillEnds
      <4>. QED  BY <4>1, <3>2, <2>3
    <3>. QED  BY <3>1, <3>2
  <2>6. (\E x \in Runs : Retry(x) \/ Arrive(x)) \/ Crash \/ UNCHANGED vars => UNCHANGED ledger
    BY DEF Retry, Arrive, Crash, vars
  <2>. QED  BY <1>1, <2>4, <2>5, <2>6 DEF Next
<1>2. IInv /\ [Next]_vars => [A]_vars
  BY <1>1
<1>. QED  BY <1>2, Inductive, PTL DEF Spec, SkillCancelSticks

(***************************************************************************)
(* The write-back of a weekly review                                       *)
(***************************************************************************)
\* The draft was confirmed for that thing.
Agreed(what, d) == \E c \in confirmed : c.what = what /\ c.draft = d
\* A row of the table has its three columns.
HasCells(row) == DOMAIN row = {"pair", "tasks", "review"}
Columns == table = [w \in Weeks |-> table[w]] /\ \A w \in Weeks : HasCells(table[w])

\* The table has its columns; what a call of the CLI is about to write has been
\* confirmed.
ReviewInv ==
  /\ Columns
  /\ \A c \in cliCalls : c.what \in Review!Things /\ Agreed(c.what, c.draft)
  /\ Review!CardWritesShown /\ Review!TableConfirmed

\* Nothing is in the table at first.
LEMMA ReviewInit == Review!Init => ReviewInv
BY DEF Review!Init, Review!Empty, Review!Nothing, Review!Things, ReviewInv, Columns, HasCells, Review!CardWritesShown, Review!TableConfirmed

\* A call of the CLI begins with a confirmation.
LEMMA ReviewStarts ==
  ASSUME ReviewInv, NEW what \in Review!Things, NEW d, NEW by, NEW shown, by = "card" => shown = TRUE,
         Review!Starts(what, d, by, shown)
  PROVE  ReviewInv'
<1>. DEFINE new == [what |-> what, draft |-> d, by |-> by, shown |-> shown, enabled |-> enabled]
<1>1. /\ enabled /\ confirmed' = confirmed \union {new} /\ cliCalls' = cliCalls \union {[what |-> what, draft |-> d]}
      /\ table' = table
  BY DEF Review!Starts
<1>2. Agreed(what, d)'
  <2>1. new \in confirmed' /\ new.what = what /\ new.draft = d
    BY <1>1
  <2>. HIDE DEF new
  <2>. QED  BY <2>1 DEF Agreed
<1>3. \A c \in cliCalls' : c.what \in Review!Things /\ Agreed(c.what, c.draft)'
  BY <1>1, <1>2 DEF ReviewInv, Agreed
<1>4. Review!CardWritesShown'
  BY <1>1 DEF ReviewInv, Review!CardWritesShown
<1>5. Review!TableConfirmed'
  BY <1>1 DEF ReviewInv, Review!TableConfirmed
<1>. QED  BY <1>1, <1>3, <1>4, <1>5 DEF ReviewInv, Agreed, Columns

\* A cell that is written gets a draft that was confirmed for it, or what the
\* user wrote.
LEMMA ReviewCells ==
  ASSUME ReviewInv, NEW v, NEW row, table' = [table EXCEPT ![v] = row], confirmed \subseteq confirmed',
         v \in Weeks => HasCells(row) /\ \A what \in Review!Things :
           row[what] = table[v][what] \/ Agreed(what, row[what]) \/ row[what] = Review!ByHand
  PROVE  Columns' /\ Review!TableConfirmed'
<1>1. DOMAIN table = Weeks /\ table' = [w \in Weeks |-> IF w = v THEN row ELSE table[w]]
  BY DEF ReviewInv, Columns
<1>2. Columns'
  BY <1>1 DEF ReviewInv, Columns
<1>3. ASSUME NEW w \in Weeks, NEW what \in Review!Things, table'[w][what] > Review!Nothing
      PROVE  Agreed(what, table'[w][what])
  <2>1. table'[w][what] # -1
    BY <1>3 DEF Review!Nothing
  <2>2. \/ table'[w][what] = table[w][what]
        \/ Agreed(what, table'[w][what])
    BY <1>1, <2>1 DEF Review!ByHand
  <2>. QED  BY <1>3, <2>2 DEF ReviewInv, Review!TableConfirmed, Agreed
<1>. QED  BY <1>2, <1>3 DEF Review!TableConfirmed, Agreed

\* The CLI leaves a cell alone or puts the draft of its call there.
LEMMA ReviewWrites ==
  ASSUME ReviewInv, NEW c \in cliCalls, NEW row, HasCells(row)
  PROVE  /\ HasCells(Review!Writes(c, row))
         /\ \A what \in Review!Things :
              \/ Review!Writes(c, row)[what] = row[what]
              \/ Agreed(what, Review!Writes(c, row)[what])
<1>. DEFINE new == Review!Writes(c, row)
<1>1. \/ new = row
      \/ c.what = "tasks" /\ new = [row EXCEPT !.pair = TRUE, !.tasks = c.draft]
      \/ c.what = "review" /\ new = [row EXCEPT !.review = c.draft]
  BY DEF Review!Writes
<1>2. Agreed(c.what, c.draft)
  BY DEF ReviewInv
<1>. HIDE DEF new
<1>3. HasCells(new)
  BY <1>1 DEF HasCells
<1>4. ASSUME NEW what \in Review!Things PROVE new[what] = row[what] \/ (c.what = what /\ new[what] = c.draft)
  BY <1>1 DEF HasCells, Review!Things
<1>5. \A what \in Review!Things : new[what] = row[what] \/ Agreed(what, new[what])
  BY <1>2, <1>4
<1>. QED  BY <1>3, <1>5 DEF new

\* Every step keeps the invariant.
LEMMA ReviewNext == ReviewInv /\ [Review!Next]_Review!vars => ReviewInv'
<1>. SUFFICES ASSUME ReviewInv, [Review!Next]_Review!vars PROVE ReviewInv'
  OBVIOUS
<1>0. ASSUME UNCHANGED <<table, cliCalls, confirmed>> PROVE ReviewInv'
  BY <1>0 DEF ReviewInv, Agreed, Columns, Review!CardWritesShown, Review!TableConfirmed
<1>1. ASSUME NEW what \in Review!Things, NEW d \in 1..MaxDrafts, Review!PressConfirm(what, d) PROVE ReviewInv'
  <2>1. Review!Starts(what, d, "card", TRUE)
    BY <1>1 DEF Review!PressConfirm, Review!Pressed
  <2>. QED  BY <2>1, ReviewStarts
<1>2. ASSUME NEW what \in Review!Things, Review!TypeConfirm(what) PROVE ReviewInv'
  <2>1. Review!Starts(what, Review!Meant(what), "text", told[what] = Review!Meant(what))
    BY <1>2 DEF Review!TypeConfirm
  <2>. QED  BY <2>1, ReviewStarts
<1>3. ASSUME NEW c \in cliCalls, Review!CliEnds(c) PROVE ReviewInv'
  <2>1. cliCalls' = cliCalls \ {c} /\ confirmed' = confirmed
    BY <1>3 DEF Review!CliEnds
  <2>2. Columns' /\ Review!TableConfirmed'
    <3>. DEFINE v == drafts[c.draft].week
    <3>1. CASE table' = table
      BY <2>1, <3>1 DEF ReviewInv, Columns, Review!TableConfirmed
    <3>2. CASE table' = [table EXCEPT ![v] = Review!Writes(c, table[v])]
      <4>1. v \in Weeks => HasCells(table[v])
        BY DEF ReviewInv, Columns
      <4>. QED  BY <2>1, <3>2, <4>1, ReviewWrites, ReviewCells
    <3>. QED  BY <1>3, <3>1, <3>2 DEF Review!CliEnds
  <2>. QED  BY <2>1, <2>2 DEF ReviewInv, Agreed, Review!CardWritesShown
<1>4. ASSUME NEW w \in Weeks, Review!WriteByHand(w) PROVE ReviewInv'
  <2>. DEFINE row == [table[w] EXCEPT !.pair = TRUE, !.tasks = Review!ByHand]
  <2>1. table' = [table EXCEPT ![w] = row] /\ cliCalls' = cliCalls /\ confirmed' = confirmed
    BY <1>4 DEF Review!WriteByHand
  <2>2. HasCells(table[w])
    BY DEF ReviewInv, Columns
  <2>3. HasCells(row) /\ row.tasks = Review!ByHand /\ row.review = table[w].review
    BY <2>2 DEF HasCells
  <2>. HIDE DEF row
  <2>4. Columns' /\ Review!TableConfirmed'
    BY <2>1, <2>3, ReviewCells DEF Review!Things
  <2>. QED  BY <2>1, <2>4 DEF ReviewInv, Agreed, Review!CardWritesShown
<1>5. ASSUME NEW d, Review!RunEnds(d) \/ Review!PressPrepare(d) \/ Review!TypePreview(d) \/ Review!Fill(d)
      PROVE  UNCHANGED <<table, cliCalls, confirmed>>
  BY <1>5 DEF Review!RunEnds, Review!PressPrepare, Review!TypePreview, Review!Fill
<1>6. CASE Review!Switch \/ Review!NewYear
  BY <1>0, <1>6 DEF Review!Switch, Review!NewYear
<1>7. CASE UNCHANGED Review!vars
  BY <1>0, <1>7 DEF Review!vars
<1>. QED  BY <1>0, <1>1, <1>2, <1>3, <1>4, <1>5, <1>6, <1>7 DEF Review!Next

\* Whatever the CLI is killed in, and however many runs have ended since: what a
\* card confirms is what it showed, and what stands in the shared table was
\* confirmed as such (executeLifeReviewOsWriteback).
THEOREM ConfirmedAlways == Review!Spec => [](Review!CardWritesShown /\ Review!TableConfirmed)
<1>1. ReviewInv => Review!CardWritesShown /\ Review!TableConfirmed
  BY DEF ReviewInv
<1>. QED  BY <1>1, ReviewInit, ReviewNext, PTL DEF Review!Spec

\* The same of the sum of the parts, of which one runs at a time.
THEOREM WritebackAlwaysConfirmed == PartsSpec => []WritebackConfirmed
<1>. DEFINE Inv == part = "review" => ReviewInv
<1>1. Parts => Inv
  BY ReviewInit DEF Parts
<1>2. Inv /\ [Step]_<<part, runVars, bookVars, readVars, packVars, reviewVars>> => Inv'
  <2>. SUFFICES ASSUME Inv, [Step]_<<part, runVars, bookVars, readVars, packVars, reviewVars>>, part' = "review"
                PROVE  ReviewInv'
    OBVIOUS
  <2>1. part = "review" /\ [Review!Next]_Review!vars
    BY DEF Step, reviewVars, Review!vars
  <2>. QED  BY <2>1, ReviewNext
<1>3. Inv => WritebackConfirmed
  BY DEF ReviewInv, WritebackConfirmed
<1>. QED  BY <1>1, <1>2, <1>3, PTL DEF PartsSpec

(***************************************************************************)
(* The calendar                                                            *)
(***************************************************************************)
\* A nonempty set of numbers has a least one.
LEMMA Least ==
  ASSUME NEW S \in SUBSET Nat, S # {}
  PROVE  \E x \in S : \A y \in S : x <= y
<1>. DEFINE R == {ss \in Nat \X Nat : ss[1] < ss[2]}
<1>0. IsWellFoundedOn(R, Nat)
  BY NatLessThanWellFounded DEF OpToRel
<1>1. PICK x \in S : \A y \in S : ~(<<y, x>> \in R)
  BY <1>0, WFMin
<1>2. \A y \in S : ~(y < x)
  BY <1>1
<1>. QED  BY <1>2

\* The task that is next is one that is to be done.
LEMMA FirstIs == ASSUME NEW S \in SUBSET Nat, S # {} PROVE Book!First(S) \in S
BY Least DEF Book!First

\* The count of the calendar is the count of the sets.
LEMMA BookCards == \A S : Book!Cardinality(S) = Cardinality(S)
BY Zenon DEF Book!Cardinality, Cardinality

\* Tasks, handlers and batches are numbered from one on, and finite.
LEMMA BookSets ==
  /\ Book!Keys \in SUBSET Nat /\ Book!Handlers \in SUBSET Nat /\ Book!Batches \in SUBSET Nat
  /\ 0 \notin Book!Handlers /\ 0 \notin Book!Batches
  /\ IsFiniteSet(Book!Keys) /\ IsFiniteSet(Book!Handlers)
<1>1. Book!Cardinality(Titles) = Cardinality(Titles)
  BY BookCards
<1>2. Cardinality(Titles) \in Nat
  BY CalendarAssumption, FS_CardinalityType
<1>3. IsFiniteSet(1..Cardinality(Titles)) /\ IsFiniteSet(1..MaxHandlers)
  BY <1>2, CalendarAssumption, FS_Interval
<1>. QED  BY <1>1, <1>2, <1>3, CalendarAssumption DEF Book!Keys, Book!Handlers, Book!Batches

\* A row, and what a handler does.
RowFields == {"event", "slot", "batch", "active"}
BookRow(r) == DOMAIN r = RowFields /\ r.event \in Nat /\ r.active \in BOOLEAN
                /\ (r.active => r.event # 0 /\ r.batch \in Book!Batches)

ConfirmFields == {"kind", "shown", "draft", "todo", "step", "batch", "event", "done"}
Steps == {"look", "check", "ask", "created", "updated"}
ConfirmWork(w) ==
  /\ DOMAIN w = ConfirmFields /\ w.kind = "confirm" /\ w.todo \in SUBSET Book!Keys /\ w.step \in Steps
  /\ (w.step # "look" => w.todo # {}) /\ w.batch \in Book!Batches /\ w.event \in Nat /\ w.done \in Nat
  /\ (w.step \in {"created", "updated"} => w.event # 0)

UndoFields == {"kind", "batch", "rows", "gone", "failed"}
UndoWork(w) ==
  /\ DOMAIN w = UndoFields /\ w.kind = "undo" /\ w.batch \in Book!Batches /\ w.failed \in BOOLEAN
  /\ w.rows \in SUBSET (Book!Keys \X (Nat \ {0})) /\ w.gone \in w.rows \union {<<0, 0>>}

BookWork(w) == w = Book!Idle \/ ConfirmWork(w) \/ UndoWork(w)

BookTypes ==
  /\ DOMAIN agenda \in SUBSET Book!Keys /\ DOMAIN kept \in SUBSET Book!Keys
  /\ made \in Nat /\ DOMAIN events \in SUBSET (1..made) /\ booking \in Book!Booking
  /\ DOMAIN rows = Book!Keys /\ \A k \in Book!Keys : BookRow(rows[k])
  /\ batches \in [Book!Batches -> {"new", "open", "recorded", "dropped", "undone"}]
  /\ DOMAIN work = Book!Handlers /\ \A h \in Book!Handlers : BookWork(work[h])

Created(h) == work[h].kind = "confirm" /\ work[h].step = "created"
Gone(h) == work[h].kind = "undo" /\ work[h].gone # <<0, 0>>

\* An event is of one key, and of no other handler until its row is there.
Refs ==
  /\ \A k \in Book!Keys : rows[k].event <= made
  /\ \A k, l \in Book!Keys : rows[k].event = rows[l].event /\ rows[k].event # 0 => k = l
  /\ \A h \in Book!Handlers : work[h].kind = "confirm" => work[h].event <= made
  /\ \A h \in Book!Handlers : work[h].kind = "undo" =>
       \A r \in work[h].rows : r[2] <= made /\ \A k \in Book!Keys : rows[k].event = r[2] => k = r[1]
  /\ \A h \in Book!Handlers : Created(h) =>
       /\ \A k \in Book!Keys : rows[k].event # work[h].event
       /\ \A g \in Book!Handlers : g # h /\ Created(g) => work[g].event # work[h].event
       /\ \A g \in Book!Handlers : work[g].kind = "undo" => \A r \in work[g].rows : r[2] # work[h].event

\* Without faults what a row or a handler names is in the calendar.
Present ==
  booking.hit = "no" =>
    /\ \A h \in Book!Handlers : Created(h) => work[h].event \in DOMAIN events
    /\ \A k \in Book!Keys : rows[k].active =>
         \/ rows[k].event \in DOMAIN events
         \/ \E h \in Book!Handlers : Gone(h) /\ work[h].gone = <<k, rows[k].event>>

\* The batch of a write-back is its own; an undo is of one that is recorded.
Batched ==
  /\ \A h \in Book!Handlers : work[h].kind = "confirm" =>
       batches[work[h].batch] = "open" /\ \A g \in Book!Handlers :
          g # h /\ work[g].kind = "confirm" => work[g].batch # work[h].batch
  /\ \A h \in Book!Handlers : work[h].kind = "undo" =>
       /\ batches[work[h].batch] \in {"recorded", "undone"}
       /\ ~work[h].failed => \A k \in Book!Keys :
            rows[k].active /\ rows[k].batch = work[h].batch => \E r \in work[h].rows : r[1] = k
  /\ booking.hit # "crash" =>
       /\ \A k \in Book!Keys : rows[k].active => batches[rows[k].batch] \in {"open", "recorded"}
       /\ \A h \in Book!Handlers : work[h].kind = "confirm" /\ work[h].done = 0 =>
            \A k \in Book!Keys : rows[k].active => rows[k].batch # work[h].batch

\* One after the other: what a handler saw is so, and every event is of a row or
\* was just made.
Serial == ~booking.together /\ booking.hit = "no"
Key(h) == Book!First(work[h].todo)
InOrder ==
  Serial =>
    /\ \A h, g \in Book!Handlers : work[h] # Book!Idle /\ work[g] # Book!Idle => h = g
    /\ \A e \in DOMAIN events : \/ \E k \in Book!Keys : rows[k].active /\ rows[k].event = e
                                \/ \E h \in Book!Handlers : Created(h) /\ work[h].event = e
    /\ \A h \in Book!Handlers : work[h].kind = "undo" =>
         \A r \in work[h].rows : rows[r[1]].active /\ rows[r[1]].event = r[2]
    /\ \A h \in Book!Handlers : Gone(h) => work[h].gone[2] \notin DOMAIN events
    /\ \A h \in Book!Handlers : work[h].kind = "confirm" =>
         /\ work[h].step \in {"check", "ask"} =>
              work[h].event = IF rows[Key(h)].active THEN rows[Key(h)].event ELSE 0
         /\ work[h].step = "created" => ~rows[Key(h)].active
         /\ work[h].step = "updated" => rows[Key(h)].active /\ rows[Key(h)].event = work[h].event
         /\ work[h].step \in {"created", "updated"} => events[work[h].event].slot = work[h].draft[Key(h)].slot
    /\ \A k \in Book!Keys : rows[k].active /\ rows[k].event \in DOMAIN events =>
         \/ events[rows[k].event].slot = rows[k].slot
         \/ \E h \in Book!Handlers : work[h].kind = "confirm" /\ work[h].step = "updated" /\ Key(h) = k

BookInv == BookTypes /\ Refs /\ Present /\ Batched /\ InOrder

\* What the bounds say is kept by what they count down.
LEMMA BookSpends ==
  ASSUME booking \in Book!Booking, NEW what \in {"edits", "wishes", "presses", "undos", "faults"}, Book!Spend(what)
  PROVE  booking' \in Book!Booking /\ booking'.together = booking.together /\ booking'.hit = booking.hit
BY DEF Book!Booking, Book!Spend

\* A fault is told of, and a crash is not forgotten.
LEMMA BookHit ==
  ASSUME booking \in Book!Booking, NEW how \in {"fault", "crash"}, Book!Hit(how)
  PROVE  /\ booking' \in Book!Booking /\ booking'.together = booking.together /\ booking'.hit # "no"
         /\ booking.hit = "crash" \/ how = "crash" => booking'.hit = "crash"
<1>1. booking' = [booking EXCEPT !.faults = booking.faults - 1, !.hit = IF booking.hit = "crash" THEN booking.hit ELSE how]
      /\ booking.faults > 0
  BY DEF Book!Hit
<1>0. DOMAIN booking = {"edits", "wishes", "presses", "undos", "faults", "together", "policy", "hit"}
  BY DEF Book!Booking
<1>2. booking'.together = booking.together /\ (booking.hit = "crash" => booking'.hit = "crash")
      /\ (booking.hit # "crash" => booking'.hit = how)
  BY <1>0, <1>1
<1>3. booking' \in Book!Booking
  <2>1. /\ booking'.faults = booking.faults - 1 /\ booking'.edits = booking.edits
        /\ booking'.wishes = booking.wishes /\ booking'.presses = booking.presses /\ booking'.undos = booking.undos
        /\ booking'.policy = booking.policy
    BY <1>0, <1>1
  <2>2. booking'.faults \in Nat
    BY <1>1, <2>1 DEF Book!Booking
  <2>3. booking'.hit \in {"no", "fault", "crash"}
    BY <1>2 DEF Book!Booking
  <2>4. booking' = [edits |-> booking'.edits, wishes |-> booking'.wishes, presses |-> booking'.presses,
                    undos |-> booking'.undos, faults |-> booking'.faults, together |-> booking'.together,
                    policy |-> booking'.policy, hit |-> booking'.hit]
    BY <1>0, <1>1
  <2>. QED  BY <1>2, <2>1, <2>2, <2>3, <2>4 DEF Book!Booking
<1>. QED  BY <1>2, <1>3

\* What is not work on the calendar changes nothing the invariant is about.
LEMMA BookAside ==
  ASSUME BookInv, UNCHANGED <<events, rows, batches, work, made>>,
         DOMAIN agenda' \in SUBSET Book!Keys, DOMAIN kept' \in SUBSET Book!Keys, booking' \in Book!Booking,
         booking'.together = booking.together, booking'.hit = booking.hit
  PROVE  BookInv'
<1>1. BookTypes'
  BY DEF BookInv, BookTypes, BookRow, BookWork, ConfirmWork, UndoWork
<1>2. Refs' /\ Present'
  BY DEF BookInv, Refs, Present, Created, Gone
<1>3. Batched' /\ InOrder'
  BY DEF BookInv, Batched, InOrder, Serial, Key, Created, Gone
<1>. QED  BY <1>1, <1>2, <1>3 DEF BookInv

\* The draft is of tasks that are there.
LEMMA BookDrafts ==
  ASSUME NEW draft, DOMAIN draft \in SUBSET Book!Keys
  PROVE  DOMAIN Book!Adjusted(draft) \in SUBSET Book!Keys
BY DEF Book!Adjusted

\* Every task of an agenda has a key.
LEMMA BookAgendas == \A a \in Book!Agendas : DOMAIN a \in SUBSET Book!Keys
<1>1. Book!Cardinality(Titles) \in Nat
  BY BookCards, CalendarAssumption, FS_CardinalityType
<1>. QED  BY <1>1 DEF Book!Agendas, Book!Keys

\* At first nothing is written.
LEMMA BookInit == Book!Init => BookInv
<1>. SUFFICES ASSUME Book!Init PROVE BookInv
  OBVIOUS
<1>1. DOMAIN agenda \in SUBSET Book!Keys /\ DOMAIN kept \in SUBSET Book!Keys /\ booking \in Book!Booking
  BY BookAgendas, CalendarAssumption DEF Book!Init
<1>2. /\ \A k \in Book!Keys : rows[k] = Book!NoRow
      /\ \A h \in Book!Handlers : work[h] = Book!Idle
      /\ DOMAIN rows = Book!Keys /\ DOMAIN work = Book!Handlers /\ made = 0 /\ DOMAIN events = {}
  BY DEF Book!Init
<1>3. BookRow(Book!NoRow) /\ Book!NoRow.active = FALSE /\ Book!NoRow.event = 0 /\ Book!Idle.kind = "idle"
  BY DEF BookRow, RowFields, Book!NoRow, Book!Idle
<1>4. batches \in [Book!Batches -> {"new", "open", "recorded", "dropped", "undone"}]
  BY DEF Book!Init
<1>5. BookTypes
  BY <1>1, <1>2, <1>3, <1>4 DEF BookTypes, BookWork
<1>6. Refs /\ Present
  BY <1>2, <1>3 DEF Refs, Present, Created, Gone
<1>7. Batched
  BY <1>2, <1>3 DEF Batched
<1>8. InOrder
  BY <1>2, <1>3 DEF InOrder, Created, Gone
<1>. QED  BY <1>5, <1>6, <1>7, <1>8 DEF BookInv

\* What the handler is left with when it goes on to the next task.
LEMMA BookAdvanced ==
  ASSUME NEW w, ConfirmWork(w), w.todo # {}, NEW n \in {0, 1}
  PROVE  /\ ConfirmWork(Book!Advanced(w, n)) /\ Book!Advanced(w, n).step = "look"
         /\ Book!Advanced(w, n).batch = w.batch /\ Book!Advanced(w, n).event = w.event
         /\ Book!Advanced(w, n).done = w.done + n
<1>. DEFINE v == Book!Advanced(w, n)
<1>1. /\ DOMAIN v = ConfirmFields /\ v.kind = "confirm" /\ v.todo = w.todo \ {Book!First(w.todo)} /\ v.step = "look"
      /\ v.batch = w.batch /\ v.event = w.event /\ v.done = w.done + n
  BY DEF ConfirmWork, ConfirmFields, Book!Advanced
<1>. HIDE DEF v
<1>2. ConfirmWork(v)
  BY <1>1 DEF ConfirmWork, Steps
<1>. QED  BY <1>1, <1>2 DEF v

\* A handler of a write-back goes on without writing.
LEMMA BookGoesOn ==
  ASSUME BookInv, NEW h \in Book!Handlers, Book!Confirming(h), NEW w,
         ConfirmWork(w), w.batch = work[h].batch, w.done = work[h].done, w.event <= made,
         w.step \notin {"created", "updated"},
         work' = [work EXCEPT ![h] = w], UNCHANGED <<agenda, kept, events, rows, batches, made>>,
         \/ /\ booking' \in Book!Booking /\ booking'.together = booking.together /\ booking'.hit = booking.hit
            /\ work[h].step \notin {"created", "updated"}
            /\ Serial /\ w.step # "look" => w.event = IF rows[Book!First(w.todo)].active
                                            THEN rows[Book!First(w.todo)].event ELSE 0
         \/ /\ booking' \in Book!Booking /\ booking'.hit # "no" /\ booking'.together = booking.together
            /\ booking.hit = "crash" => booking'.hit = "crash"
  PROVE  BookInv'
<1>1. \A g \in Book!Handlers : work'[g] = IF g = h THEN w ELSE work[g]
  BY DEF BookInv, BookTypes
<1>2. w.kind = "confirm" /\ work[h].kind = "confirm"
  BY DEF ConfirmWork, Book!Confirming
<1>3. BookTypes'
  <2>1. \A g \in Book!Handlers : BookWork(work'[g])
    BY <1>1 DEF BookInv, BookTypes, BookWork
  <2>2. \A k \in Book!Keys : BookRow(rows'[k])
    BY DEF BookInv, BookTypes
  <2>. QED  BY <2>1, <2>2 DEF BookInv, BookTypes
<1>4. Refs'
  <2>1. \A g \in Book!Handlers : Created(g)' => g # h /\ Created(g)
    BY <1>1 DEF Created
  <2>2. \A g \in Book!Handlers : work'[g].kind = "undo" => g # h
    BY <1>1, <1>2
  <2>. QED  BY <1>1, <1>2, <2>1, <2>2 DEF BookInv, Refs
<1>5. Present'
  <2>1. CASE booking'.hit = booking.hit
    <3>1. \A g \in Book!Handlers : Created(g)' => g # h /\ Created(g)
      BY <1>1 DEF Created
    <3>2. \A g \in Book!Handlers : Gone(g) => g # h /\ Gone(g)'
      BY <1>1, <1>2 DEF Gone
    <3>3. \A g \in Book!Handlers : g # h => work'[g] = work[g]
      BY <1>1
    <3>4. ASSUME booking.hit = "no", NEW k \in Book!Keys, rows[k].active, rows[k].event \notin DOMAIN events
          PROVE  \E g \in Book!Handlers : Gone(g)' /\ work'[g].gone = <<k, rows[k].event>>
      BY <3>2, <3>3, <3>4 DEF BookInv, Present
    <3>5. ASSUME booking.hit = "no", NEW g \in Book!Handlers, Created(g)' PROVE work'[g].event \in DOMAIN events
      BY <3>1, <3>3, <3>5 DEF BookInv, Present
    <3>. QED  BY <2>1, <3>4, <3>5 DEF Present
  <2>2. CASE booking'.hit # "no"
    BY <2>2 DEF Present
  <2>. QED  BY <2>1, <2>2
<1>6. Batched'
  <2>1. booking'.hit # "crash" => booking.hit # "crash"
    OBVIOUS
  <2>. QED  BY <1>1, <1>2, <2>1 DEF BookInv, Batched
<1>7. InOrder'
  <2>1. CASE booking'.hit # "no"
    BY <2>1 DEF InOrder, Serial
  <2>2. CASE booking'.together = booking.together /\ booking'.hit = booking.hit /\ work[h].step \notin {"created", "updated"} /\ Serial
    <3>0. w.step # "look" => w.event = IF rows[Book!First(w.todo)].active
                                       THEN rows[Book!First(w.todo)].event ELSE 0
      BY <2>2, Zenon DEF Serial
    <3>1. \A g \in Book!Handlers : g = h \/ work[g] = Book!Idle
      BY <1>2, <2>2 DEF BookInv, InOrder, Book!Idle
    <3>2. Book!Idle.kind = "idle" /\ w # Book!Idle
      BY <1>2 DEF Book!Idle
    <3>3. \A g, i \in Book!Handlers : work'[g] # Book!Idle /\ work'[i] # Book!Idle => g = i
      BY <1>1, <3>1
    <3>4. \A g \in Book!Handlers : ~Created(g) /\ ~Created(g)' /\ ~Gone(g)'
      BY <1>1, <1>2, <2>2, <3>1, <3>2 DEF Created, Gone
    <3>5. \A e \in DOMAIN events : \E k \in Book!Keys : rows[k].active /\ rows[k].event = e
      BY <2>2, <3>4 DEF BookInv, InOrder
    <3>6. \A g \in Book!Handlers : work'[g].kind # "undo"
      BY <1>1, <1>2, <3>1, <3>2
    <3>7. \A g \in Book!Handlers : work'[g].kind = "confirm" => g = h /\ work'[g] = w
      BY <1>1, <1>2, <3>1, <3>2
    <3>8. \A k \in Book!Keys : rows[k].active /\ rows[k].event \in DOMAIN events =>
            events[rows[k].event].slot = rows[k].slot
      BY <2>2, <3>1, <3>2 DEF BookInv, InOrder
    <3>9. w.step \in {"look", "check", "ask"}
      BY DEF ConfirmWork, Steps
    <3>. QED  BY <3>0, <3>3, <3>4, <3>5, <3>6, <3>7, <3>8, <3>9 DEF InOrder, Key
  <2>3. CASE booking'.together = booking.together /\ booking'.hit = booking.hit /\ ~Serial
    BY <2>3 DEF InOrder, Serial
  <2>. QED  BY <2>1, <2>2, <2>3
<1>. QED  BY <1>3, <1>4, <1>5, <1>6, <1>7 DEF BookInv

\* dbFindCalendarWriteback: what is found is remembered, or settles the task.
LEMMA BookLook == ASSUME BookInv, NEW h \in Book!Handlers, Book!Look(h) PROVE BookInv'
<1>. DEFINE r == rows[Book!Task(h)]
            v == [work[h] EXCEPT !.event = IF r.active THEN r.event ELSE 0,
                                 !.step = IF booking.policy = "ignore" THEN "ask" ELSE "check"]
<1>1. work[h].kind = "confirm" /\ work[h].todo # {} /\ work[h].step = "look"
  BY DEF Book!Look, Book!Here, Book!Confirming
<1>2. ConfirmWork(work[h])
  BY <1>1 DEF BookInv, BookTypes, BookWork, UndoWork, Book!Idle
<1>3. Book!Task(h) \in Book!Keys /\ Book!Task(h) = Book!First(work[h].todo)
  BY <1>1, <1>2, FirstIs, BookSets DEF ConfirmWork, Book!Task
<1>4. BookRow(r) /\ r.event <= made /\ made \in Nat
  BY <1>3 DEF BookInv, BookTypes, Refs
<1>5. work[h].event <= made
  BY <1>1 DEF BookInv, Refs
<1>6. UNCHANGED <<agenda, kept, events, rows, batches, made>>
      /\ booking' \in Book!Booking /\ booking'.together = booking.together /\ booking'.hit = booking.hit
  BY DEF Book!Look, BookInv, BookTypes
<1>7. CASE work' = [work EXCEPT ![h] = Book!Advanced(work[h], 0)]
  <2>. DEFINE w == Book!Advanced(work[h], 0)
  <2>1. ConfirmWork(w) /\ w.step = "look" /\ w.batch = work[h].batch /\ w.event <= made /\ w.done = work[h].done
    BY <1>1, <1>2, <1>5, BookAdvanced DEF ConfirmWork
  <2>. HIDE DEF w
  <2>. QED  BY <1>1, <1>6, <1>7, <2>1, BookGoesOn DEF w, Book!Confirming
<1>8. CASE work' = [work EXCEPT ![h] = v]
  <2>1. /\ DOMAIN v = ConfirmFields /\ v.kind = "confirm" /\ v.todo = work[h].todo /\ v.step \in {"ask", "check"}
        /\ v.batch = work[h].batch /\ v.event = (IF r.active THEN r.event ELSE 0) /\ v.done = work[h].done
    BY <1>2 DEF ConfirmWork, ConfirmFields
  <2>. HIDE DEF v
  <2>2. ConfirmWork(v)
    BY <1>1, <1>2, <1>4, <2>1 DEF ConfirmWork, Steps, BookRow
  <2>3. v.event <= made
    BY <1>4, <2>1
  <2>. QED  BY <1>1, <1>3, <1>6, <1>8, <2>1, <2>2, <2>3, BookGoesOn DEF Book!Confirming
<1>. QED  BY <1>7, <1>8 DEF Book!Look, Book!Becomes

\* queryFreeBusy: a conflict settles the task under the policy "block".
LEMMA BookCheck == ASSUME BookInv, NEW h \in Book!Handlers, Book!Check(h) PROVE BookInv'
<1>. DEFINE w == Book!Advanced(work[h], 0)
            v == [work[h] EXCEPT !.step = "ask"]
<1>1. work[h].kind = "confirm" /\ work[h].todo # {} /\ work[h].step = "check"
  BY DEF Book!Check, Book!Here, Book!Confirming
<1>2. ConfirmWork(work[h])
  BY <1>1 DEF BookInv, BookTypes, BookWork, UndoWork, Book!Idle
<1>3. work[h].event <= made
  BY <1>1 DEF BookInv, Refs
<1>4. UNCHANGED <<agenda, kept, events, rows, batches, made>>
      /\ booking' \in Book!Booking /\ booking'.together = booking.together /\ booking'.hit = booking.hit
  BY DEF Book!Check, BookInv, BookTypes
<1>5. ConfirmWork(w) /\ w.step = "look" /\ w.batch = work[h].batch /\ w.event <= made /\ w.done = work[h].done
  BY <1>1, <1>2, <1>3, BookAdvanced DEF ConfirmWork
<1>6. /\ DOMAIN v = ConfirmFields /\ v.kind = "confirm" /\ v.todo = work[h].todo /\ v.step = "ask"
      /\ v.batch = work[h].batch /\ v.event = work[h].event /\ v.done = work[h].done
  BY <1>2 DEF ConfirmWork, ConfirmFields
<1>7. work' = [work EXCEPT ![h] = w] \/ work' = [work EXCEPT ![h] = v]
  BY DEF Book!Check, Book!Becomes
<1>. HIDE DEF v, w
<1>8. ConfirmWork(v)
  BY <1>1, <1>2, <1>6 DEF ConfirmWork, Steps
<1>9. CASE work' = [work EXCEPT ![h] = w]
  BY <1>1, <1>4, <1>5, <1>9, BookGoesOn DEF Book!Confirming
<1>10. CASE work' = [work EXCEPT ![h] = v]
  <2>1. CASE Serial
    <3>1. v.event = IF rows[Book!First(v.todo)].active THEN rows[Book!First(v.todo)].event ELSE 0
      BY <1>1, <1>6, <2>1 DEF BookInv, InOrder, Key
    <3>. QED  BY <1>1, <1>3, <1>4, <1>6, <1>8, <1>10, <3>1, BookGoesOn DEF Book!Confirming
  <2>2. CASE ~Serial
    BY <1>1, <1>3, <1>4, <1>6, <1>8, <1>10, <2>2, BookGoesOn DEF Book!Confirming
  <2>. QED  BY <2>1, <2>2
<1>. QED  BY <1>7, <1>9, <1>10

\* A request that fails, or whose answer is lost: the task is given up.
LEMMA BookGivesUp ==
  ASSUME BookInv, NEW h \in Book!Handlers, work[h].kind = "confirm", work[h].todo # {},
         UNCHANGED <<agenda, kept, events, rows, batches, made>>,
         work' = [work EXCEPT ![h] = Book!Advanced(work[h], 0)],
         \/ /\ booking' \in Book!Booking /\ booking'.together = booking.together /\ booking'.hit = booking.hit
            /\ work[h].step \notin {"created", "updated"}
         \/ /\ booking' \in Book!Booking /\ booking'.hit # "no" /\ booking'.together = booking.together
            /\ booking.hit = "crash" => booking'.hit = "crash"
  PROVE  BookInv'
<1>. DEFINE w == Book!Advanced(work[h], 0)
<1>1. ConfirmWork(work[h])
  BY DEF BookInv, BookTypes, BookWork, UndoWork, Book!Idle
<1>2. work[h].event <= made
  BY DEF BookInv, Refs
<1>3. ConfirmWork(w) /\ w.step = "look" /\ w.batch = work[h].batch /\ w.event <= made /\ w.done = work[h].done
  BY <1>1, <1>2, BookAdvanced DEF ConfirmWork
<1>4. work' = [work EXCEPT ![h] = w]
  OBVIOUS
<1>. HIDE DEF w
<1>. QED  BY <1>3, <1>4, BookGoesOn DEF Book!Confirming

\* Nothing was done, and nothing is different.
LEMMA BookRefuse == ASSUME BookInv, NEW h \in Book!Handlers, Book!Refuse(h) PROVE BookInv'
<1>1. work[h].kind = "confirm" /\ work[h].todo # {} /\ work[h].step = "ask"
  BY DEF Book!Refuse, Book!Here, Book!Confirming
<1>2. UNCHANGED <<agenda, kept, events, rows, batches, made>> /\ Book!Spend("faults")
      /\ work' = [work EXCEPT ![h] = Book!Advanced(work[h], 0)]
  BY DEF Book!Refuse, Book!Becomes
<1>3. booking' \in Book!Booking /\ booking'.together = booking.together /\ booking'.hit = booking.hit
  BY <1>2, BookSpends DEF BookInv, BookTypes
<1>. QED  BY <1>1, <1>2, <1>3, BookGivesUp

\* It was done, and nobody knows.
LEMMA BookLose == ASSUME BookInv, NEW h \in Book!Handlers, Book!Lose(h) PROVE BookInv'
<1>1. work[h].kind = "confirm" /\ work[h].todo # {}
  BY DEF Book!Lose, Book!Here, Book!Confirming
<1>2. UNCHANGED <<agenda, kept, events, rows, batches, made>> /\ Book!Hit("fault")
      /\ work' = [work EXCEPT ![h] = Book!Advanced(work[h], 0)]
  BY DEF Book!Lose, Book!Becomes
<1>3. /\ booking' \in Book!Booking /\ booking'.together = booking.together /\ booking'.hit # "no"
      /\ booking.hit = "crash" => booking'.hit = "crash"
  BY <1>2, BookHit DEF BookInv, BookTypes
<1>. QED  BY <1>1, <1>2, <1>3, BookGivesUp

\* createEvent: the event is new and of this handler.
LEMMA BookCreates ==
  ASSUME BookInv, NEW h \in Book!Handlers, work[h].kind = "confirm", work[h].todo # {}, work[h].step = "ask",
         work[h].event = 0, made' = made + 1, NEW x, events' = Book!Booked(made + 1, x),
         x.slot = work[h].draft[Key(h)].slot,
         work' = [work EXCEPT ![h] = [work[h] EXCEPT !.event = made + 1, !.step = "created"]],
         UNCHANGED <<agenda, kept, rows, batches, booking>>
  PROVE  BookInv'
<1>. DEFINE w == [work[h] EXCEPT !.event = made + 1, !.step = "created"]
<1>1. ConfirmWork(work[h])
  BY DEF BookInv, BookTypes, BookWork, UndoWork, Book!Idle
<1>2. /\ DOMAIN w = ConfirmFields /\ w.kind = "confirm" /\ w.todo = work[h].todo /\ w.step = "created"
      /\ w.batch = work[h].batch /\ w.event = made + 1 /\ w.done = work[h].done /\ w.draft = work[h].draft
  BY <1>1 DEF ConfirmWork, ConfirmFields
<1>. HIDE DEF w
<1>3. \A g \in Book!Handlers : work'[g] = IF g = h THEN w ELSE work[g]
  BY DEF BookInv, BookTypes, w
<1>4. made \in Nat /\ DOMAIN events \in SUBSET (1..made) /\ booking \in Book!Booking
  BY DEF BookInv, BookTypes
<1>5. /\ DOMAIN events' = DOMAIN events \union {made + 1} /\ events'[made + 1] = x
      /\ \A e \in DOMAIN events : events'[e] = events[e]
  <2>1. \A e \in DOMAIN events : e # made + 1
    BY <1>4
  <2>2. DOMAIN Book!Booked(made + 1, x) = DOMAIN events \union {made + 1} /\ Book!Booked(made + 1, x)[made + 1] = x
    BY DEF Book!Booked
  <2>3. \A e \in DOMAIN events : e # made + 1 => Book!Booked(made + 1, x)[e] = events[e]
    BY DEF Book!Booked
  <2>. QED  BY <2>1, <2>2, <2>3
<1>6. BookTypes'
  <2>1. ConfirmWork(w)
    BY <1>1, <1>2, <1>4 DEF ConfirmWork, Steps
  <2>2. \A g \in Book!Handlers : BookWork(work'[g])
    BY <1>3, <2>1 DEF BookInv, BookTypes, BookWork
  <2>3. \A k \in Book!Keys : BookRow(rows'[k])
    BY DEF BookInv, BookTypes
  <2>4. DOMAIN work' = Book!Handlers
    BY DEF BookInv, BookTypes
  <2>5. DOMAIN events' \in SUBSET (1..made') /\ made' \in Nat
    BY <1>4, <1>5
  <2>. QED  BY <2>2, <2>3, <2>4, <2>5 DEF BookInv, BookTypes
<1>7. Refs'
  <2>1. \A g \in Book!Handlers : Created(g)' => g = h \/ (g # h /\ Created(g))
    BY <1>3 DEF Created
  <2>2. \A k \in Book!Keys : rows[k].event \in Nat /\ rows[k].event <= made
    BY DEF BookInv, BookTypes, BookRow, Refs
  <2>3. \A g \in Book!Handlers : work[g].kind = "confirm" => work[g].event \in Nat /\ work[g].event <= made
    BY DEF BookInv, BookTypes, BookWork, UndoWork, ConfirmWork, Book!Idle, Refs
  <2>4. \A g \in Book!Handlers : work[g].kind = "undo" => \A r \in work[g].rows : r[2] \in Nat /\ r[2] <= made
    BY DEF BookInv, BookTypes, BookWork, UndoWork, ConfirmWork, Book!Idle, Refs
  <2>5. \A g \in Book!Handlers : work'[g].kind = "undo" => g # h /\ work'[g] = work[g]
    BY <1>2, <1>3
  <2>6. \A g \in Book!Handlers : work'[g].kind = "confirm" => work'[g].event <= made'
    BY <1>2, <1>3, <1>4, <2>3
  <2>7. \A k \in Book!Keys : rows[k].event <= made'
    BY <1>4, <2>2
  <2>8. \A g \in Book!Handlers : work'[g].kind = "undo" =>
          \A r \in work'[g].rows : r[2] <= made' /\ \A k \in Book!Keys : rows[k].event = r[2] => k = r[1]
    <3>1. \A g \in Book!Handlers : work'[g].kind = "undo" =>
            \A r \in work'[g].rows : r[2] <= made /\ \A k \in Book!Keys : rows[k].event = r[2] => k = r[1]
      BY <2>5 DEF BookInv, Refs
    <3>2. \A g \in Book!Handlers : work'[g].kind = "undo" => \A r \in work'[g].rows : r[2] \in Nat
      BY <2>4, <2>5
    <3>. QED  BY <1>4, <3>1, <3>2
  <2>9. ASSUME NEW g \in Book!Handlers, Created(g)'
        PROVE  /\ \A k \in Book!Keys : rows[k].event # work'[g].event
               /\ \A i \in Book!Handlers : i # g /\ Created(i)' => work'[i].event # work'[g].event
               /\ \A i \in Book!Handlers : work'[i].kind = "undo" => \A r \in work'[i].rows : r[2] # work'[g].event
    <3>1. CASE g = h
      <4>1. work'[g].event = made + 1
        BY <1>2, <1>3, <3>1
      <4>2. \A i \in Book!Handlers : i # g /\ Created(i)' => work'[i].event # made + 1
        BY <1>3, <1>4, <2>3, <3>1 DEF Created
      <4>3. \A i \in Book!Handlers : work'[i].kind = "undo" => \A r \in work'[i].rows : r[2] # made + 1
        BY <1>4, <2>4, <2>5
      <4>4. \A k \in Book!Keys : rows[k].event # made + 1
        BY <1>4, <2>2
      <4>. QED  BY <4>1, <4>2, <4>3, <4>4
    <3>2. CASE g # h
      <4>1. Created(g) /\ work'[g] = work[g]
        BY <1>3, <2>1, <2>9, <3>2
      <4>2. work[g].event <= made /\ work[g].event \in Nat
        BY <2>3, <4>1 DEF Created
      <4>3. \A i \in Book!Handlers : i # g /\ Created(i)' => work'[i].event # work[g].event
        BY <1>2, <1>3, <1>4, <2>1, <4>1, <4>2 DEF BookInv, Refs
      <4>4. \A i \in Book!Handlers : work'[i].kind = "undo" => \A r \in work'[i].rows : r[2] # work[g].event
        BY <2>5, <4>1 DEF BookInv, Refs
      <4>5. \A k \in Book!Keys : rows[k].event # work[g].event
        BY <4>1 DEF BookInv, Refs
      <4>. QED  BY <4>1, <4>3, <4>4, <4>5
    <3>. QED  BY <3>1, <3>2
  <2>10. \A k, l \in Book!Keys : rows[k].event = rows[l].event /\ rows[k].event # 0 => k = l
    BY DEF BookInv, Refs
  <2>. QED  BY <2>6, <2>7, <2>8, <2>9, <2>10 DEF Refs
<1>8. Present'
  <2>1. \A g \in Book!Handlers : Gone(g) => g # h /\ Gone(g)' /\ work'[g] = work[g]
    BY <1>3 DEF Gone
  <2>2. ASSUME booking.hit = "no", NEW g \in Book!Handlers, Created(g)' PROVE work'[g].event \in DOMAIN events'
    <3>1. CASE g = h
      BY <1>2, <1>3, <1>5, <3>1
    <3>2. CASE g # h
      BY <1>3, <1>5, <2>2, <3>2 DEF BookInv, Present, Created
    <3>. QED  BY <3>1, <3>2
  <2>3. ASSUME booking.hit = "no", NEW k \in Book!Keys, rows[k].active, rows[k].event \notin DOMAIN events'
        PROVE  \E g \in Book!Handlers : Gone(g)' /\ work'[g].gone = <<k, rows[k].event>>
    <3>1. rows[k].event \notin DOMAIN events
      BY <1>5, <2>3
    <3>2. PICK g \in Book!Handlers : Gone(g) /\ work[g].gone = <<k, rows[k].event>>
      BY <2>3, <3>1 DEF BookInv, Present
    <3>. QED  BY <2>1, <3>2
  <2>. QED  BY <2>2, <2>3 DEF Present
<1>9. Batched'
  BY <1>2, <1>3 DEF BookInv, Batched
<1>10. InOrder'
  <2>. SUFFICES ASSUME Serial PROVE InOrder'
    BY DEF InOrder, Serial
  <2>1. \A g \in Book!Handlers : g = h \/ work[g] = Book!Idle
    BY DEF BookInv, InOrder, Book!Idle
  <2>2. Book!Idle.kind = "idle"
    BY DEF Book!Idle
  <2>3. \A g, i \in Book!Handlers : work'[g] # Book!Idle /\ work'[i] # Book!Idle => g = i
    BY <1>3, <2>1
  <2>4. \A g \in Book!Handlers : work'[g].kind # "undo" /\ ~Gone(g)' /\ ~Created(g) /\ (g # h => ~Created(g)')
    BY <1>2, <1>3, <2>1, <2>2 DEF Gone, Created
  <2>5. ASSUME NEW e \in DOMAIN events'
        PROVE  \/ \E k \in Book!Keys : rows[k].active /\ rows[k].event = e
               \/ Created(h)' /\ work'[h].event = e
    <3>1. CASE e \in DOMAIN events
      BY <2>4, <3>1 DEF BookInv, InOrder
    <3>2. CASE e = made + 1
      BY <1>2, <1>3, <3>2 DEF Created
    <3>. QED  BY <1>5, <3>1, <3>2
  <2>6. ~rows[Key(h)].active
    <3>1. Key(h) \in Book!Keys
      BY <1>1, FirstIs, BookSets DEF Key, ConfirmWork
    <3>2. BookRow(rows[Key(h)])
      BY <3>1 DEF BookInv, BookTypes
    <3>3. work[h].event = IF rows[Key(h)].active THEN rows[Key(h)].event ELSE 0
      BY DEF BookInv, InOrder
    <3>. QED  BY <3>2, <3>3 DEF BookRow
  <2>7. Key(h)' = Key(h)
    BY <1>2, <1>3 DEF Key
  <2>8. ASSUME NEW g \in Book!Handlers, work'[g].kind = "confirm"
        PROVE  /\ work'[g].step = "created" /\ ~rows[Key(g)'].active
               /\ events'[work'[g].event].slot = work'[g].draft[Key(g)'].slot
    <3>1. g = h
      BY <1>3, <2>1, <2>2, <2>8
    <3>. QED  BY <1>2, <1>3, <1>5, <2>6, <2>7, <3>1
  <2>9. ASSUME NEW k \in Book!Keys, rows[k].active, rows[k].event \in DOMAIN events'
        PROVE  events'[rows[k].event].slot = rows[k].slot
    <3>1. rows[k].event \in DOMAIN events
      <4>1. rows[k].event <= made /\ rows[k].event \in Nat
        BY DEF BookInv, BookTypes, BookRow, Refs
      <4>. QED  BY <1>4, <1>5, <2>9, <4>1
    <3>2. events[rows[k].event].slot = rows[k].slot
      BY <2>1, <2>2, <2>9, <3>1 DEF BookInv, InOrder
    <3>. QED  BY <1>5, <3>1, <3>2
  <2>. QED  BY <2>3, <2>4, <2>5, <2>8, <2>9 DEF InOrder
<1>. QED  BY <1>6, <1>7, <1>8, <1>9, <1>10 DEF BookInv

\* updateEvent: the event has the time of the draft.
LEMMA BookUpdates ==
  ASSUME BookInv, NEW h \in Book!Handlers, work[h].kind = "confirm", work[h].todo # {}, work[h].step = "ask",
         work[h].event \in DOMAIN events, NEW x, events' = Book!Booked(work[h].event, x),
         x.slot = work[h].draft[Key(h)].slot,
         work' = [work EXCEPT ![h] = [work[h] EXCEPT !.step = "updated"]],
         UNCHANGED <<agenda, kept, rows, batches, booking, made>>
  PROVE  BookInv'
<1>. DEFINE w == [work[h] EXCEPT !.step = "updated"]
<1>1. ConfirmWork(work[h])
  BY DEF BookInv, BookTypes, BookWork, UndoWork, Book!Idle
<1>2. /\ DOMAIN w = ConfirmFields /\ w.kind = "confirm" /\ w.todo = work[h].todo /\ w.step = "updated"
      /\ w.batch = work[h].batch /\ w.event = work[h].event /\ w.done = work[h].done /\ w.draft = work[h].draft
  BY <1>1 DEF ConfirmWork, ConfirmFields
<1>. HIDE DEF w
<1>3. \A g \in Book!Handlers : work'[g] = IF g = h THEN w ELSE work[g]
  BY DEF BookInv, BookTypes, w
<1>4. made \in Nat /\ DOMAIN events \in SUBSET (1..made) /\ booking \in Book!Booking
  BY DEF BookInv, BookTypes
<1>5. /\ DOMAIN events' = DOMAIN events /\ events'[work[h].event] = x
      /\ \A e \in DOMAIN events : e # work[h].event => events'[e] = events[e]
  <2>1. DOMAIN events' = DOMAIN events \union {work[h].event} /\ events'[work[h].event] = x
    BY DEF Book!Booked
  <2>2. \A e \in DOMAIN events : e # work[h].event => events'[e] = events[e]
    BY DEF Book!Booked
  <2>. QED  BY <2>1, <2>2
<1>6. BookTypes'
  <2>1. ConfirmWork(w)
    BY <1>1, <1>2, <1>4 DEF ConfirmWork, Steps
  <2>2. \A g \in Book!Handlers : BookWork(work'[g])
    BY <1>3, <2>1 DEF BookInv, BookTypes, BookWork
  <2>3. \A k \in Book!Keys : BookRow(rows'[k])
    BY DEF BookInv, BookTypes
  <2>4. DOMAIN work' = Book!Handlers
    BY DEF BookInv, BookTypes
  <2>. QED  BY <1>4, <1>5, <2>2, <2>3, <2>4 DEF BookInv, BookTypes
<1>7. Refs'
  <2>1. \A g \in Book!Handlers : Created(g)' => g # h /\ Created(g)
    BY <1>2, <1>3 DEF Created
  <2>2. \A g \in Book!Handlers : work'[g].kind = "undo" => g # h
    BY <1>2, <1>3
  <2>. QED  BY <1>2, <1>3, <2>1, <2>2 DEF BookInv, Refs
<1>8. Present'
  <2>1. \A g \in Book!Handlers : Created(g)' => g # h /\ Created(g)
    BY <1>2, <1>3 DEF Created
  <2>2. \A g \in Book!Handlers : Gone(g) => Gone(g)' /\ work'[g] = work[g]
    BY <1>3 DEF Gone
  <2>3. ASSUME booking.hit = "no", NEW k \in Book!Keys, rows'[k].active, rows'[k].event \notin DOMAIN events'
        PROVE  \E g \in Book!Handlers : Gone(g)' /\ work'[g].gone = <<k, rows'[k].event>>
    <3>1. PICK g \in Book!Handlers : Gone(g) /\ work[g].gone = <<k, rows[k].event>>
      BY <1>5, <2>3 DEF BookInv, Present
    <3>. QED  BY <2>2, <3>1
  <2>4. ASSUME booking.hit = "no", NEW g \in Book!Handlers, Created(g)' PROVE work'[g].event \in DOMAIN events'
    BY <1>5, <1>3, <2>1, <2>4 DEF BookInv, Present
  <2>. QED  BY <2>3, <2>4 DEF Present
<1>9. Batched'
  BY <1>2, <1>3 DEF BookInv, Batched
<1>10. InOrder'
  <2>. SUFFICES ASSUME Serial PROVE InOrder'
    BY DEF InOrder, Serial
  <2>1. \A g \in Book!Handlers : g = h \/ work[g] = Book!Idle
    BY DEF BookInv, InOrder, Book!Idle
  <2>2. Book!Idle.kind = "idle"
    BY DEF Book!Idle
  <2>3. \A g, i \in Book!Handlers : work'[g] # Book!Idle /\ work'[i] # Book!Idle => g = i
    BY <1>3, <2>1
  <2>4. \A g \in Book!Handlers : work'[g].kind # "undo" /\ ~Gone(g)' /\ ~Created(g) /\ ~Created(g)'
    BY <1>2, <1>3, <2>1, <2>2 DEF Gone, Created
  <2>5. \A e \in DOMAIN events' : \E k \in Book!Keys : rows[k].active /\ rows[k].event = e
    BY <1>5, <2>4 DEF BookInv, InOrder
  <2>6. Key(h) \in Book!Keys /\ rows[Key(h)].active /\ rows[Key(h)].event = work[h].event
    <3>1. Key(h) \in Book!Keys
      BY <1>1, FirstIs, BookSets DEF Key, ConfirmWork
    <3>2. BookRow(rows[Key(h)])
      BY <3>1 DEF BookInv, BookTypes
    <3>3. work[h].event = IF rows[Key(h)].active THEN rows[Key(h)].event ELSE 0
      BY DEF BookInv, InOrder
    <3>4. work[h].event # 0
      BY <1>4
    <3>. QED  BY <3>1, <3>2, <3>3, <3>4 DEF BookRow
  <2>7. Key(h)' = Key(h)
    BY <1>2, <1>3 DEF Key
  <2>8. ASSUME NEW g \in Book!Handlers, work'[g].kind = "confirm"
        PROVE  /\ work'[g].step = "updated" /\ rows[Key(g)'].active /\ rows[Key(g)'].event = work'[g].event
               /\ events'[work'[g].event].slot = work'[g].draft[Key(g)'].slot
    <3>1. g = h
      BY <1>3, <2>1, <2>2, <2>8
    <3>. QED  BY <1>2, <1>3, <1>5, <2>6, <2>7, <3>1
  <2>9. ASSUME NEW k \in Book!Keys, rows[k].active, rows[k].event \in DOMAIN events'
        PROVE  \/ events'[rows[k].event].slot = rows[k].slot
               \/ work'[h].kind = "confirm" /\ work'[h].step = "updated" /\ Key(h)' = k
    <3>1. CASE k = Key(h)
      BY <1>2, <1>3, <2>7, <3>1
    <3>2. CASE k # Key(h)
      <4>1. rows[k].event # work[h].event
        <5>1. work[h].event # 0
          BY <1>4
        <5>. QED  BY <2>6, <3>2, <5>1 DEF BookInv, Refs
      <4>2. events[rows[k].event].slot = rows[k].slot
        BY <1>5, <2>1, <2>2, <2>9 DEF BookInv, InOrder
      <4>. QED  BY <1>5, <2>9, <4>1, <4>2
    <3>. QED  BY <3>1, <3>2
  <2>. QED  BY <2>3, <2>4, <2>5, <2>8, <2>9 DEF InOrder
<1>. QED  BY <1>6, <1>7, <1>8, <1>9, <1>10 DEF BookInv

\* A request: of a new event, of a known one, or of one that is not there.
LEMMA BookAsk == ASSUME BookInv, NEW h \in Book!Handlers, Book!Ask(h) PROVE BookInv'
<1>. DEFINE x == [title |-> Book!Block(h).title, slot |-> Book!Block(h).slot]
            w == Book!Advanced(work[h], 0)
<1>1. work[h].kind = "confirm" /\ work[h].todo # {} /\ work[h].step = "ask"
  BY DEF Book!Ask, Book!Here, Book!Confirming
<1>2. ConfirmWork(work[h])
  BY <1>1 DEF BookInv, BookTypes, BookWork, UndoWork, Book!Idle
<1>3. UNCHANGED <<agenda, kept, rows, batches, booking>>
      /\ booking' \in Book!Booking /\ booking'.together = booking.together /\ booking'.hit = booking.hit
  BY DEF Book!Ask, BookInv, BookTypes
<1>4. x.slot = work[h].draft[Key(h)].slot
  BY DEF Key, Book!Block, Book!Task
<1>5. \/ /\ work[h].event = 0 /\ made' = made + 1 /\ events' = Book!Booked(made + 1, x)
         /\ work' = [work EXCEPT ![h] = [work[h] EXCEPT !.event = made + 1, !.step = "created"]]
      \/ /\ work[h].event \in DOMAIN events /\ events' = Book!Booked(work[h].event, x) /\ made' = made
         /\ work' = [work EXCEPT ![h] = [work[h] EXCEPT !.step = "updated"]]
      \/ work' = [work EXCEPT ![h] = w] /\ UNCHANGED <<events, made>>
  BY DEF Book!Ask, Book!Becomes
<1>6. ConfirmWork(w) /\ w.step = "look" /\ w.batch = work[h].batch /\ w.event <= made /\ w.done = work[h].done
  <2>1. work[h].event <= made
    BY <1>1 DEF BookInv, Refs
  <2>. QED  BY <1>1, <1>2, <2>1, BookAdvanced DEF ConfirmWork
<1>. HIDE DEF x, w
<1>7. CASE work[h].event = 0 /\ made' = made + 1 /\ events' = Book!Booked(made + 1, x)
           /\ work' = [work EXCEPT ![h] = [work[h] EXCEPT !.event = made + 1, !.step = "created"]]
  BY <1>1, <1>3, <1>4, <1>7, BookCreates
<1>8. CASE work[h].event \in DOMAIN events /\ events' = Book!Booked(work[h].event, x) /\ made' = made
           /\ work' = [work EXCEPT ![h] = [work[h] EXCEPT !.step = "updated"]]
  BY <1>1, <1>3, <1>4, <1>8, BookUpdates
<1>9. CASE work' = [work EXCEPT ![h] = w] /\ UNCHANGED <<events, made>>
  BY <1>1, <1>3, <1>6, <1>9, BookGoesOn DEF Book!Confirming
<1>. QED  BY <1>5, <1>7, <1>8, <1>9

\* dbUpsertCalendarWriteback, dbUpdateCalendarWritebackTime: the row is of the
\* event that was asked for, and of this batch.
LEMMA BookAnswer == ASSUME BookInv, NEW h \in Book!Handlers, Book!Answer(h) PROVE BookInv'
<1>. DEFINE w == Book!Advanced(work[h], 1)
            k == Key(h)
            r == IF work[h].step = "created"
                 THEN [event |-> work[h].event, slot |-> Book!Block(h).slot, batch |-> work[h].batch, active |-> TRUE]
                 ELSE [rows[k] EXCEPT !.slot = Book!Block(h).slot, !.batch = work[h].batch]
<1>1. work[h].kind = "confirm" /\ work[h].todo # {} /\ work[h].step \in {"created", "updated"}
  BY DEF Book!Answer, Book!Here, Book!Confirming
<1>2. ConfirmWork(work[h])
  BY <1>1 DEF BookInv, BookTypes, BookWork, UndoWork, Book!Idle
<1>3. UNCHANGED <<agenda, kept, events, batches, booking, made>> /\ rows' = [rows EXCEPT ![k] = r]
      /\ work' = [work EXCEPT ![h] = w]
  BY DEF Book!Answer, Book!Becomes, Key, Book!Task
<1>4. k \in Book!Keys /\ BookRow(rows[k])
  BY <1>1, <1>2, FirstIs, BookSets DEF BookInv, BookTypes, Key, ConfirmWork
<1>5. Book!Block(h).slot = work[h].draft[k].slot
  BY DEF Book!Block, Book!Task, Key
<1>6. /\ DOMAIN r = RowFields /\ r.slot = work[h].draft[k].slot /\ r.batch = work[h].batch
      /\ work[h].step = "created" => r.event = work[h].event /\ r.active = TRUE
      /\ work[h].step = "updated" => r.event = rows[k].event /\ r.active = rows[k].active
  BY <1>1, <1>4, <1>5 DEF BookRow, RowFields
<1>7. ConfirmWork(w) /\ w.step = "look" /\ w.batch = work[h].batch /\ w.event = work[h].event /\ w.done = work[h].done + 1
  BY <1>1, <1>2, BookAdvanced
<1>8. w.kind = "confirm" /\ w.done # 0
  BY <1>2, <1>7 DEF ConfirmWork
<1>. HIDE DEF r, w, k
<1>9. BookRow(r)
  BY <1>1, <1>2, <1>4, <1>6 DEF BookRow, ConfirmWork
<1>10. /\ \A g \in Book!Handlers : work'[g] = IF g = h THEN w ELSE work[g]
       /\ \A l \in Book!Keys : rows'[l] = IF l = k THEN r ELSE rows[l]
       /\ DOMAIN rows' = Book!Keys /\ DOMAIN work' = Book!Handlers
  BY <1>3 DEF BookInv, BookTypes
<1>11. BookTypes'
  <2>1. \A g \in Book!Handlers : BookWork(work'[g])
    BY <1>7, <1>10 DEF BookInv, BookTypes, BookWork
  <2>2. \A l \in Book!Keys : BookRow(rows'[l])
    BY <1>9, <1>10 DEF BookInv, BookTypes
  <2>. QED  BY <1>3, <1>10, <2>1, <2>2 DEF BookInv, BookTypes
<1>12. \A g \in Book!Handlers : Created(g)' => g # h /\ Created(g) /\ work'[g] = work[g]
  BY <1>7, <1>10 DEF Created
<1>13. \A g \in Book!Handlers : work'[g].kind = "undo" => g # h /\ work'[g] = work[g]
  BY <1>8, <1>10
<1>14. work[h].step = "created" <=> Created(h)
  BY <1>1 DEF Created
<1>15. Refs'
  <2>1. work[h].event <= made /\ rows[k].event <= made
    BY <1>1, <1>4 DEF BookInv, Refs
  <2>2. \A l \in Book!Keys : rows'[l].event <= made
    BY <1>1, <1>6, <1>10, <2>1 DEF BookInv, Refs
  <2>3. \A l \in Book!Keys : l # k => rows'[l].event # r.event \/ r.event = 0
    <3>1. CASE work[h].step = "created"
      BY <1>6, <1>10, <1>14, <3>1 DEF BookInv, Refs
    <3>2. CASE work[h].step = "updated"
      BY <1>4, <1>6, <1>10, <3>2 DEF BookInv, Refs
    <3>. QED  BY <1>1, <3>1, <3>2
  <2>4. \A l, m \in Book!Keys : rows'[l].event = rows'[m].event /\ rows'[l].event # 0 => l = m
    BY <1>10, <2>3 DEF BookInv, Refs
  <2>5. \A g \in Book!Handlers : work'[g].kind = "confirm" => work'[g].event <= made
    BY <1>7, <1>10, <2>1 DEF BookInv, Refs
  <2>6. ASSUME NEW g \in Book!Handlers, work'[g].kind = "undo", NEW s \in work'[g].rows
        PROVE  s[2] <= made /\ \A l \in Book!Keys : rows'[l].event = s[2] => l = s[1]
    <3>1. s[2] <= made /\ \A l \in Book!Keys : rows[l].event = s[2] => l = s[1]
      BY <1>13, <2>6 DEF BookInv, Refs
    <3>2. work[h].step = "created" => s[2] # work[h].event
      BY <1>13, <1>14, <2>6 DEF BookInv, Refs
    <3>. QED  BY <1>1, <1>4, <1>6, <1>10, <3>1, <3>2
  <2>7. ASSUME NEW g \in Book!Handlers, Created(g)'
        PROVE  /\ \A l \in Book!Keys : rows'[l].event # work'[g].event
               /\ \A i \in Book!Handlers : i # g /\ Created(i)' => work'[i].event # work'[g].event
               /\ \A i \in Book!Handlers : work'[i].kind = "undo" => \A s \in work'[i].rows : s[2] # work'[g].event
    <3>1. g # h /\ Created(g) /\ work'[g] = work[g]
      BY <1>12, <2>7
    <3>2. \A l \in Book!Keys : rows[l].event # work[g].event
      BY <3>1 DEF BookInv, Refs
    <3>3. work[h].step = "created" => work[h].event # work[g].event
      BY <1>14, <3>1 DEF BookInv, Refs
    <3>4. \A l \in Book!Keys : rows'[l].event # work'[g].event
      BY <1>1, <1>4, <1>6, <1>10, <3>1, <3>2, <3>3
    <3>5. \A i \in Book!Handlers : i # g /\ Created(i)' => work'[i].event # work'[g].event
      BY <1>12, <3>1 DEF BookInv, Refs
    <3>6. \A i \in Book!Handlers : work'[i].kind = "undo" => \A s \in work'[i].rows : s[2] # work'[g].event
      BY <1>13, <3>1 DEF BookInv, Refs
    <3>. QED  BY <3>4, <3>5, <3>6
  <2>. QED  BY <1>3, <2>2, <2>4, <2>5, <2>6, <2>7 DEF Refs
<1>16. Present'
  <2>. SUFFICES ASSUME booking.hit = "no" PROVE Present'
    BY <1>3 DEF Present
  <2>1. \A g \in Book!Handlers : Gone(g) => Gone(g)' /\ work'[g] = work[g]
    BY <1>1, <1>10 DEF Gone
  <2>2. ASSUME NEW l \in Book!Keys, rows'[l].active, rows'[l].event \notin DOMAIN events
        PROVE  \E g \in Book!Handlers : Gone(g)' /\ work'[g].gone = <<l, rows'[l].event>>
    <3>1. ~(l = k /\ work[h].step = "created")
      BY <1>6, <1>10, <1>14, <2>2 DEF BookInv, Present
    <3>2. rows[l].active /\ rows'[l].event = rows[l].event
      BY <1>1, <1>6, <1>10, <2>2, <3>1
    <3>3. PICK g \in Book!Handlers : Gone(g) /\ work[g].gone = <<l, rows[l].event>>
      BY <2>2, <3>2 DEF BookInv, Present
    <3>. QED  BY <2>1, <3>2, <3>3
  <2>3. \A g \in Book!Handlers : Created(g)' => work'[g].event \in DOMAIN events
    BY <1>12 DEF BookInv, Present
  <2>. QED  BY <1>3, <2>2, <2>3 DEF Present
<1>17. Batched'
  <2>1. batches[work[h].batch] = "open"
    BY <1>1 DEF BookInv, Batched
  <2>2. \A g \in Book!Handlers : work'[g].kind = "confirm" =>
          batches[work'[g].batch] = "open" /\ \A i \in Book!Handlers :
             i # g /\ work'[i].kind = "confirm" => work'[i].batch # work'[g].batch
    BY <1>1, <1>7, <1>10 DEF BookInv, Batched
  <2>3. ASSUME NEW g \in Book!Handlers, work'[g].kind = "undo"
        PROVE  /\ batches[work'[g].batch] \in {"recorded", "undone"}
               /\ ~work'[g].failed => \A l \in Book!Keys :
                    rows'[l].active /\ rows'[l].batch = work'[g].batch => \E s \in work'[g].rows : s[1] = l
    <3>1. /\ batches[work[g].batch] \in {"recorded", "undone"}
          /\ ~work[g].failed => \A l \in Book!Keys :
               rows[l].active /\ rows[l].batch = work[g].batch => \E s \in work[g].rows : s[1] = l
      BY <1>13, <2>3 DEF BookInv, Batched
    <3>2. r.batch # work[g].batch
      BY <1>6, <2>1, <3>1
    <3>. QED  BY <1>10, <1>13, <2>3, <3>1, <3>2
  <2>4. ASSUME booking.hit # "crash", NEW l \in Book!Keys, rows'[l].active
        PROVE  /\ batches[rows'[l].batch] \in {"open", "recorded"}
               /\ \A g \in Book!Handlers : work'[g].kind = "confirm" /\ work'[g].done = 0 => rows'[l].batch # work'[g].batch
    <3>1. CASE l = k
      <4>1. rows'[l].batch = work[h].batch
        BY <1>6, <1>10, <3>1
      <4>. QED  BY <1>1, <1>8, <1>10, <2>1, <4>1 DEF BookInv, Batched
    <3>2. CASE l # k
      BY <1>8, <1>10, <2>4, <3>2 DEF BookInv, Batched
    <3>. QED  BY <3>1, <3>2
  <2>. QED  BY <1>3, <2>2, <2>3, <2>4 DEF Batched
<1>18. InOrder'
  <2>. SUFFICES ASSUME Serial PROVE InOrder'
    BY <1>3 DEF InOrder, Serial
  <2>1. \A g \in Book!Handlers : g = h \/ work[g] = Book!Idle
    BY <1>1 DEF BookInv, InOrder, Book!Idle
  <2>2. Book!Idle.kind = "idle"
    BY DEF Book!Idle
  <2>3. \A g, i \in Book!Handlers : work'[g] # Book!Idle /\ work'[i] # Book!Idle => g = i
    BY <1>10, <2>1
  <2>4. \A g \in Book!Handlers : work'[g].kind # "undo" /\ ~Gone(g)' /\ ~Created(g)' /\ (g # h => ~Created(g))
    BY <1>12, <1>13, <2>1, <2>2 DEF Gone, Created
  <2>5. /\ work[h].step = "created" => ~rows[k].active
        /\ work[h].step = "updated" => rows[k].active /\ rows[k].event = work[h].event
        /\ events[work[h].event].slot = work[h].draft[k].slot
    BY <1>1 DEF BookInv, InOrder, k
  <2>6. r.event = work[h].event /\ r.active /\ events[r.event].slot = r.slot
    BY <1>1, <1>6, <2>5
  <2>7. ASSUME NEW e \in DOMAIN events PROVE \E l \in Book!Keys : rows'[l].active /\ rows'[l].event = e
    <3>1. CASE e = work[h].event
      BY <1>4, <1>10, <2>6, <3>1
    <3>2. CASE e # work[h].event
      <4>1. PICK l \in Book!Keys : rows[l].active /\ rows[l].event = e
        BY <2>4, <3>2 DEF BookInv, InOrder
      <4>2. l # k
        BY <1>1, <2>5, <3>2, <4>1
      <4>. QED  BY <1>10, <4>1, <4>2
    <3>. QED  BY <3>1, <3>2
  <2>8. \A g \in Book!Handlers : work'[g].kind = "confirm" => work'[g].step = "look"
    BY <1>7, <1>10, <2>1, <2>2
  <2>9. ASSUME NEW l \in Book!Keys, rows'[l].active, rows'[l].event \in DOMAIN events
        PROVE  events[rows'[l].event].slot = rows'[l].slot
    <3>1. CASE l = k
      BY <1>10, <2>6, <3>1
    <3>2. CASE l # k
      <4>1. rows'[l] = rows[l] /\ \A g \in Book!Handlers : work[g].kind = "confirm" => Key(g) # l
        BY <1>10, <2>1, <2>2, <3>2 DEF k
      <4>. QED  BY <2>9, <4>1 DEF BookInv, InOrder
    <3>. QED  BY <3>1, <3>2
  <2>. QED  BY <1>3, <2>3, <2>4, <2>7, <2>8, <2>9 DEF InOrder
<1>. QED  BY <1>11, <1>15, <1>16, <1>17, <1>18 DEF BookInv

\* The end of a write-back: what has a row was recorded.
LEMMA BookEndConfirm == ASSUME BookInv, NEW h \in Book!Handlers, Book!EndConfirm(h) PROVE BookInv'
<1>. DEFINE b == work[h].batch
            s == IF work[h].done > 0 THEN "recorded" ELSE "dropped"
<1>1. work[h].kind = "confirm" /\ work[h].todo = {}
  BY DEF Book!EndConfirm, Book!Confirming
<1>2. ConfirmWork(work[h])
  BY <1>1 DEF BookInv, BookTypes, BookWork, UndoWork, Book!Idle
<1>3. b \in Book!Batches /\ batches[b] = "open" /\ work[h].step = "look"
  BY <1>1, <1>2 DEF BookInv, Batched, ConfirmWork
<1>4. UNCHANGED <<agenda, kept, events, rows, booking, made>> /\ batches' = [batches EXCEPT ![b] = s]
      /\ work' = [work EXCEPT ![h] = Book!Idle]
  BY DEF Book!EndConfirm, Book!Becomes
<1>5. /\ \A g \in Book!Handlers : work'[g] = IF g = h THEN Book!Idle ELSE work[g]
      /\ \A d \in Book!Batches : batches'[d] = IF d = b THEN s ELSE batches[d]
      /\ Book!Idle.kind = "idle" /\ s \in {"recorded", "dropped"}
  BY <1>4 DEF BookInv, BookTypes, Book!Idle
<1>6. work[h].done = 0 \/ s = "recorded"
  BY <1>2 DEF ConfirmWork
<1>. HIDE DEF b, s
<1>7. BookTypes'
  <2>1. \A g \in Book!Handlers : BookWork(work'[g])
    BY <1>5 DEF BookInv, BookTypes, BookWork
  <2>2. \A l \in Book!Keys : BookRow(rows'[l])
    BY <1>4 DEF BookInv, BookTypes
  <2>3. batches' \in [Book!Batches -> {"new", "open", "recorded", "dropped", "undone"}]
    BY <1>4, <1>5 DEF BookInv, BookTypes
  <2>. QED  BY <1>4, <2>1, <2>2, <2>3 DEF BookInv, BookTypes
<1>8. \A g \in Book!Handlers : work'[g].kind # "idle" => g # h /\ work'[g] = work[g]
  BY <1>5
<1>9. /\ \A g \in Book!Handlers : Created(g)' => Created(g) /\ work'[g] = work[g]
      /\ \A g \in Book!Handlers : Created(g) => Created(g)' /\ work'[g] = work[g]
      /\ \A g \in Book!Handlers : Gone(g) => Gone(g)' /\ work'[g] = work[g]
      /\ \A g \in Book!Handlers : Gone(g)' => Gone(g) /\ work'[g] = work[g]
  BY <1>1, <1>3, <1>5 DEF Created, Gone
<1>10. Refs'
  <2>1. \A g \in Book!Handlers : work'[g].kind = "confirm" => work'[g].event <= made
    BY <1>8 DEF BookInv, Refs
  <2>2. ASSUME NEW g \in Book!Handlers, work'[g].kind = "undo", NEW t \in work'[g].rows
        PROVE  t[2] <= made /\ \A l \in Book!Keys : rows[l].event = t[2] => l = t[1]
    BY <1>8, <2>2 DEF BookInv, Refs
  <2>3. ASSUME NEW g \in Book!Handlers, Created(g)'
        PROVE  /\ \A l \in Book!Keys : rows[l].event # work'[g].event
               /\ \A i \in Book!Handlers : i # g /\ Created(i)' => work'[i].event # work'[g].event
               /\ \A i \in Book!Handlers : work'[i].kind = "undo" => \A t \in work'[i].rows : t[2] # work'[g].event
    BY <1>8, <1>9, <2>3 DEF BookInv, Refs
  <2>. QED  BY <1>4, <2>1, <2>2, <2>3 DEF BookInv, Refs
<1>11. Present'
  BY <1>4, <1>9 DEF BookInv, Present
<1>12. Batched'
  <2>1. \A g \in Book!Handlers : work'[g].kind = "confirm" => work'[g].batch \in Book!Batches /\ work'[g].batch # b
    BY <1>1, <1>8 DEF BookInv, Batched, BookTypes, BookWork, ConfirmWork, UndoWork, Book!Idle, b
  <2>2. \A g \in Book!Handlers : work'[g].kind = "confirm" =>
          batches'[work'[g].batch] = "open" /\ \A i \in Book!Handlers :
             i # g /\ work'[i].kind = "confirm" => work'[i].batch # work'[g].batch
    BY <1>5, <1>8, <2>1 DEF BookInv, Batched
  <2>3. ASSUME NEW g \in Book!Handlers, work'[g].kind = "undo"
        PROVE  /\ batches'[work'[g].batch] \in {"recorded", "undone"}
               /\ ~work'[g].failed => \A l \in Book!Keys :
                    rows[l].active /\ rows[l].batch = work'[g].batch => \E t \in work'[g].rows : t[1] = l
    <3>1. /\ batches[work[g].batch] \in {"recorded", "undone"} /\ work'[g] = work[g]
          /\ ~work[g].failed => \A l \in Book!Keys :
               rows[l].active /\ rows[l].batch = work[g].batch => \E t \in work[g].rows : t[1] = l
      BY <1>8, <2>3 DEF BookInv, Batched
    <3>2. work[g].batch \in Book!Batches
      BY <2>3, <3>1 DEF BookInv, BookTypes, BookWork, ConfirmWork, UndoWork, Book!Idle
    <3>. QED  BY <1>3, <1>5, <3>1, <3>2
  <2>4. ASSUME booking.hit # "crash", NEW l \in Book!Keys, rows[l].active
        PROVE  /\ batches'[rows[l].batch] \in {"open", "recorded"}
               /\ \A g \in Book!Handlers : work'[g].kind = "confirm" /\ work'[g].done = 0 => rows[l].batch # work'[g].batch
    <3>1. rows[l].batch \in Book!Batches
      BY <2>4 DEF BookInv, BookTypes, BookRow
    <3>2. rows[l].batch = b => s = "recorded"
      BY <1>1, <1>6, <2>4 DEF BookInv, Batched, b
    <3>3. batches[rows[l].batch] \in {"open", "recorded"}
      BY <2>4 DEF BookInv, Batched
    <3>4. \A g \in Book!Handlers : work'[g].kind = "confirm" /\ work'[g].done = 0 => rows[l].batch # work'[g].batch
      BY <1>8, <2>4 DEF BookInv, Batched
    <3>. QED  BY <1>5, <3>1, <3>2, <3>3, <3>4
  <2>. QED  BY <1>4, <2>2, <2>3, <2>4 DEF Batched
<1>13. InOrder'
  <2>. SUFFICES ASSUME Serial PROVE InOrder'
    BY <1>4 DEF InOrder, Serial
  <2>1. \A g \in Book!Handlers : work'[g] = Book!Idle
    BY <1>1, <1>5 DEF BookInv, InOrder
  <2>2. \A g \in Book!Handlers : ~Created(g) /\ ~Created(g)' /\ ~Gone(g)' /\ work'[g].kind = "idle"
    BY <1>5, <1>9, <2>1 DEF Created, Gone
  <2>3. \A g \in Book!Handlers : ~(work[g].kind = "confirm" /\ work[g].step = "updated")
    BY <1>1, <1>3, <1>5 DEF BookInv, InOrder
  <2>4. \A l \in Book!Keys : rows[l].active /\ rows[l].event \in DOMAIN events => events[rows[l].event].slot = rows[l].slot
    BY <2>3 DEF BookInv, InOrder
  <2>5. \A e \in DOMAIN events : \E l \in Book!Keys : rows[l].active /\ rows[l].event = e
    BY <2>2 DEF BookInv, InOrder
  <2>. QED  BY <1>4, <2>1, <2>2, <2>4, <2>5 DEF InOrder
<1>. QED  BY <1>7, <1>10, <1>11, <1>12, <1>13 DEF BookInv

\* Who takes up something was free, and a batch that is begun is new.
LEMMA BookFree ==
  ASSUME BookTypes
  PROVE  /\ \A h \in Book!Handlers : h = Book!FreeHandler => work[h] = Book!Idle
         /\ \A b \in Book!Batches : b = Book!NextBatch => batches[b] = "new"
<1>1. ASSUME NEW h \in Book!Handlers, h = Book!FreeHandler PROVE work[h] = Book!Idle
  <2>1. Book!Free # {}
    BY <1>1, BookSets DEF Book!FreeHandler
  <2>2. Book!Free \in SUBSET Nat
    BY BookSets DEF Book!Free
  <2>3. h \in Book!Free
    BY <1>1, <2>1, <2>2, Least DEF Book!FreeHandler
  <2>. QED  BY <2>3 DEF Book!Free
<1>2. ASSUME NEW b \in Book!Batches, b = Book!NextBatch PROVE batches[b] = "new"
  <2>1. Book!Unused # {}
    BY <1>2, BookSets DEF Book!NextBatch
  <2>2. Book!Unused \in SUBSET Nat
    BY BookSets DEF Book!Unused
  <2>3. b \in Book!Unused
    BY <1>2, <2>1, <2>2, Least DEF Book!NextBatch
  <2>. QED  BY <2>3 DEF Book!Unused
<1>. QED  BY <1>1, <1>2

\* A press: a batch of its own, of which nothing is written.
LEMMA BookPress ==
  ASSUME BookInv, NEW c, NEW h \in Book!Handlers, NEW b \in Book!Batches, Book!Press(c, h, b)
  PROVE  BookInv'
<1>. DEFINE w == [kind |-> "confirm", shown |-> cards[c], draft |-> kept, todo |-> DOMAIN kept, step |-> "look",
                  batch |-> b, event |-> 0, done |-> 0]
<1>1. work[h] = Book!Idle /\ batches[b] = "new"
  BY BookFree DEF Book!Press, BookInv
<1>2. UNCHANGED <<agenda, kept, events, rows, made>> /\ batches' = [batches EXCEPT ![b] = "open"]
      /\ work' = [work EXCEPT ![h] = w]
  BY DEF Book!Press, Book!Becomes
<1>3. booking' \in Book!Booking /\ booking'.together = booking.together /\ booking'.hit = booking.hit
  BY BookSpends DEF Book!Press, BookInv, BookTypes
<1>4. Serial => \A g \in Book!Handlers : work[g] = Book!Idle
  BY DEF Book!Press, Serial, Book!Free
<1>5. /\ DOMAIN w = ConfirmFields /\ w.kind = "confirm" /\ w.todo = DOMAIN kept /\ w.step = "look" /\ w.batch = b
      /\ w.event = 0 /\ w.done = 0
  BY DEF ConfirmFields
<1>. HIDE DEF w
<1>6. ConfirmWork(w)
  BY <1>5 DEF ConfirmWork, Steps, BookInv, BookTypes
<1>7. /\ \A g \in Book!Handlers : work'[g] = IF g = h THEN w ELSE work[g]
      /\ \A d \in Book!Batches : batches'[d] = IF d = b THEN "open" ELSE batches[d]
      /\ Book!Idle.kind = "idle" /\ made \in Nat
  BY <1>2 DEF BookInv, BookTypes, Book!Idle
<1>8. BookTypes'
  <2>1. \A g \in Book!Handlers : BookWork(work'[g])
    BY <1>6, <1>7 DEF BookInv, BookTypes, BookWork
  <2>2. \A l \in Book!Keys : BookRow(rows'[l])
    BY <1>2 DEF BookInv, BookTypes
  <2>3. batches' \in [Book!Batches -> {"new", "open", "recorded", "dropped", "undone"}]
    BY <1>2, <1>7 DEF BookInv, BookTypes
  <2>. QED  BY <1>2, <1>3, <2>1, <2>2, <2>3 DEF BookInv, BookTypes
<1>9. /\ \A g \in Book!Handlers : Created(g)' => g # h /\ Created(g) /\ work'[g] = work[g]
      /\ \A g \in Book!Handlers : Created(g) => Created(g)' /\ work'[g] = work[g]
      /\ \A g \in Book!Handlers : Gone(g) => Gone(g)' /\ work'[g] = work[g]
  BY <1>1, <1>5, <1>7 DEF Created, Gone
<1>10. \A g \in Book!Handlers : work'[g].kind = "undo" => g # h /\ work'[g] = work[g]
  BY <1>5, <1>7
<1>11. Refs'
  <2>1. \A g \in Book!Handlers : work'[g].kind = "confirm" => work'[g].event <= made
    BY <1>5, <1>7 DEF BookInv, Refs
  <2>2. ASSUME NEW g \in Book!Handlers, work'[g].kind = "undo", NEW t \in work'[g].rows
        PROVE  t[2] <= made /\ \A l \in Book!Keys : rows[l].event = t[2] => l = t[1]
    BY <1>10, <2>2 DEF BookInv, Refs
  <2>3. ASSUME NEW g \in Book!Handlers, Created(g)'
        PROVE  /\ \A l \in Book!Keys : rows[l].event # work'[g].event
               /\ \A i \in Book!Handlers : i # g /\ Created(i)' => work'[i].event # work'[g].event
               /\ \A i \in Book!Handlers : work'[i].kind = "undo" => \A t \in work'[i].rows : t[2] # work'[g].event
    BY <1>9, <1>10, <2>3 DEF BookInv, Refs
  <2>. QED  BY <1>2, <2>1, <2>2, <2>3 DEF BookInv, Refs
<1>12. Present'
  <2>1. ASSUME booking.hit = "no", NEW k \in Book!Keys, rows'[k].active, rows'[k].event \notin DOMAIN events'
        PROVE  \E g \in Book!Handlers : Gone(g)' /\ work'[g].gone = <<k, rows'[k].event>>
    <3>1. PICK g \in Book!Handlers : Gone(g) /\ work[g].gone = <<k, rows[k].event>>
      BY <1>2, <2>1 DEF BookInv, Present
    <3>. QED  BY <1>2, <1>9, <3>1
  <2>2. ASSUME booking.hit = "no", NEW g \in Book!Handlers, Created(g)' PROVE work'[g].event \in DOMAIN events'
    BY <1>2, <1>9, <2>2 DEF BookInv, Present
  <2>. QED  BY <1>3, <2>1, <2>2 DEF Present
<1>13. Batched'
  <2>1. \A g \in Book!Handlers : g # h /\ work'[g].kind = "confirm" =>
          work'[g] = work[g] /\ work[g].batch \in Book!Batches /\ batches[work[g].batch] = "open" /\ work[g].batch # b
    BY <1>1, <1>7 DEF BookInv, Batched, BookTypes, BookWork, ConfirmWork, UndoWork, Book!Idle
  <2>2. \A g \in Book!Handlers : work'[g].kind = "confirm" =>
          batches'[work'[g].batch] = "open" /\ \A i \in Book!Handlers :
             i # g /\ work'[i].kind = "confirm" => work'[i].batch # work'[g].batch
    <3>1. work'[h].batch = b /\ batches'[b] = "open"
      BY <1>5, <1>7
    <3>. QED  BY <1>7, <2>1, <3>1 DEF BookInv, Batched
  <2>3. ASSUME NEW g \in Book!Handlers, work'[g].kind = "undo"
        PROVE  /\ batches'[work'[g].batch] \in {"recorded", "undone"}
               /\ ~work'[g].failed => \A l \in Book!Keys :
                    rows[l].active /\ rows[l].batch = work'[g].batch => \E t \in work'[g].rows : t[1] = l
    <3>1. /\ batches[work[g].batch] \in {"recorded", "undone"} /\ work'[g] = work[g]
          /\ ~work[g].failed => \A l \in Book!Keys :
               rows[l].active /\ rows[l].batch = work[g].batch => \E t \in work[g].rows : t[1] = l
      BY <1>10, <2>3 DEF BookInv, Batched
    <3>2. work[g].batch \in Book!Batches
      BY <2>3, <3>1 DEF BookInv, BookTypes, BookWork, ConfirmWork, UndoWork, Book!Idle
    <3>. QED  BY <1>1, <1>7, <3>1, <3>2
  <2>4. ASSUME booking.hit # "crash", NEW l \in Book!Keys, rows[l].active
        PROVE  /\ batches'[rows[l].batch] \in {"open", "recorded"}
               /\ \A g \in Book!Handlers : work'[g].kind = "confirm" /\ work'[g].done = 0 => rows[l].batch # work'[g].batch
    <3>1. rows[l].batch \in Book!Batches
      BY <2>4 DEF BookInv, BookTypes, BookRow
    <3>2. batches[rows[l].batch] \in {"open", "recorded"}
      BY <2>4 DEF BookInv, Batched
    <3>3. rows[l].batch # b
      BY <1>1, <3>2
    <3>4. \A g \in Book!Handlers : work'[g].kind = "confirm" /\ work'[g].done = 0 => rows[l].batch # work'[g].batch
      BY <1>5, <1>7, <2>4, <3>3 DEF BookInv, Batched
    <3>. QED  BY <1>7, <3>1, <3>2, <3>4
  <2>. QED  BY <1>2, <1>3, <2>2, <2>3, <2>4 DEF Batched
<1>14. InOrder'
  <2>. SUFFICES ASSUME Serial PROVE InOrder'
    BY <1>3 DEF InOrder, Serial
  <2>1. \A g \in Book!Handlers : work[g] = Book!Idle
    BY <1>4
  <2>2. \A g \in Book!Handlers : ~Created(g) /\ ~Created(g)' /\ ~Gone(g)' /\ work'[g].kind # "undo"
    BY <1>5, <1>7, <1>9, <2>1 DEF Created, Gone
  <2>3. \A g, i \in Book!Handlers : work'[g] # Book!Idle /\ work'[i] # Book!Idle => g = i
    BY <1>7, <2>1
  <2>4. \A l \in Book!Keys : rows[l].active /\ rows[l].event \in DOMAIN events => events[rows[l].event].slot = rows[l].slot
    BY <1>7, <2>1 DEF BookInv, InOrder
  <2>5. \A e \in DOMAIN events : \E l \in Book!Keys : rows[l].active /\ rows[l].event = e
    BY <2>2 DEF BookInv, InOrder
  <2>6. \A g \in Book!Handlers : work'[g].kind = "confirm" => work'[g].step = "look"
    BY <1>5, <1>7, <2>1
  <2>. QED  BY <1>2, <2>2, <2>3, <2>4, <2>5, <2>6 DEF InOrder
<1>. QED  BY <1>8, <1>11, <1>12, <1>13, <1>14 DEF BookInv

\* What becomes of an undo leaves the write-backs alone: the invariant of the
\* batches, from what is known of the rows and of the undos.
LEMMA BookUndoes ==
  ASSUME BookInv, NEW h \in Book!Handlers, NEW w, w = Book!Idle \/ UndoWork(w),
         work[h].kind # "confirm", work' = [work EXCEPT ![h] = w],
         UNCHANGED <<agenda, kept, made>>, DOMAIN events' \in SUBSET DOMAIN events,
         booking' \in Book!Booking, DOMAIN rows' = Book!Keys, \A k \in Book!Keys : rows'[k] = rows[k] \/
           (BookRow(rows'[k]) /\ rows'[k].event = rows[k].event /\ ~rows'[k].active),
         batches' \in [Book!Batches -> {"new", "open", "recorded", "dropped", "undone"}],
         \A r \in IF w = Book!Idle THEN {} ELSE w.rows :
           r[2] <= made /\ (\A k \in Book!Keys : rows[k].event = r[2] => k = r[1])
             /\ \A g \in Book!Handlers : Created(g) => r[2] # work[g].event
  PROVE  BookTypes' /\ Refs'
<1>1. \A g \in Book!Handlers : work'[g] = IF g = h THEN w ELSE work[g]
  BY DEF BookInv, BookTypes
<1>2. w.kind # "confirm" /\ (w.kind = "undo" => w # Book!Idle) /\ Book!Idle.kind = "idle"
  BY DEF UndoWork, Book!Idle
<1>3. BookTypes'
  <2>1. \A g \in Book!Handlers : BookWork(work'[g])
    BY <1>1 DEF BookInv, BookTypes, BookWork
  <2>2. \A k \in Book!Keys : BookRow(rows'[k])
    BY DEF BookInv, BookTypes
  <2>3. DOMAIN work' = Book!Handlers /\ DOMAIN events' \in SUBSET (1..made)
    BY DEF BookInv, BookTypes
  <2>. QED  BY <2>1, <2>2, <2>3 DEF BookInv, BookTypes
<1>4. \A k \in Book!Keys : rows'[k].event = rows[k].event
  OBVIOUS
<1>5. \A g \in Book!Handlers : Created(g)' => g # h /\ Created(g) /\ work'[g] = work[g]
  BY <1>1, <1>2 DEF Created
<1>6. Refs'
  <2>1. \A g \in Book!Handlers : work'[g].kind = "confirm" => work'[g].event <= made
    BY <1>1, <1>2 DEF BookInv, Refs
  <2>2. ASSUME NEW g \in Book!Handlers, work'[g].kind = "undo", NEW t \in work'[g].rows
        PROVE  t[2] <= made /\ \A l \in Book!Keys : rows[l].event = t[2] => l = t[1]
    BY <1>1, <1>2, <2>2 DEF BookInv, Refs
  <2>3. ASSUME NEW g \in Book!Handlers, Created(g)'
        PROVE  /\ \A l \in Book!Keys : rows[l].event # work'[g].event
               /\ \A i \in Book!Handlers : i # g /\ Created(i)' => work'[i].event # work'[g].event
               /\ \A i \in Book!Handlers : work'[i].kind = "undo" => \A t \in work'[i].rows : t[2] # work'[g].event
    <3>1. g # h /\ Created(g) /\ work'[g] = work[g]
      BY <1>5, <2>3
    <3>2. \A i \in Book!Handlers : work'[i].kind = "undo" => \A t \in work'[i].rows : t[2] # work[g].event
      BY <1>1, <1>2, <3>1 DEF BookInv, Refs
    <3>3. \A i \in Book!Handlers : i # g /\ Created(i)' => work'[i].event # work[g].event
      BY <1>5, <3>1 DEF BookInv, Refs
    <3>4. \A l \in Book!Keys : rows[l].event # work[g].event
      BY <3>1 DEF BookInv, Refs
    <3>. QED  BY <3>1, <3>2, <3>3, <3>4
  <2>4. \A k, l \in Book!Keys : rows'[k].event = rows'[l].event /\ rows'[k].event # 0 => k = l
    BY <1>4 DEF BookInv, Refs
  <2>5. \A k \in Book!Keys : rows'[k].event <= made
    BY <1>4 DEF BookInv, Refs
  <2>. QED  BY <1>4, <2>1, <2>2, <2>3, <2>4, <2>5 DEF Refs
<1>. QED  BY <1>3, <1>6

\* An undo takes up the rows of the batch.
LEMMA BookUndo ==
  ASSUME BookInv, NEW h \in Book!Handlers, NEW b \in Book!Batches, Book!Undo(h, b)
  PROVE  BookInv'
<1>. DEFINE w == [kind |-> "undo", batch |-> b, rows |-> {<<k, rows[k].event>> : k \in Book!OfBatch(b)},
                  gone |-> <<0, 0>>, failed |-> FALSE]
<1>1. work[h] = Book!Idle /\ batches[b] = "recorded" /\ Book!Idle.kind = "idle"
  BY BookFree DEF Book!Undo, Book!Recorded, BookInv, Book!Idle
<1>2. UNCHANGED <<agenda, kept, events, rows, made, batches>> /\ work' = [work EXCEPT ![h] = w]
  BY DEF Book!Undo, Book!Becomes
<1>3. booking' \in Book!Booking /\ booking'.together = booking.together /\ booking'.hit = booking.hit
  BY BookSpends DEF Book!Undo, BookInv, BookTypes
<1>4. Serial => \A g \in Book!Handlers : work[g] = Book!Idle
  BY DEF Book!Undo, Serial, Book!Free
<1>5. /\ DOMAIN w = UndoFields /\ w.kind = "undo" /\ w.batch = b /\ w.gone = <<0, 0>> /\ w.failed = FALSE
      /\ w.rows = {<<k, rows[k].event>> : k \in Book!OfBatch(b)}
  BY DEF UndoFields
<1>. HIDE DEF w
<1>6. \A r \in w.rows : r[1] \in Book!Keys /\ rows[r[1]].active /\ r[2] = rows[r[1]].event /\ r = <<r[1], r[2]>>
  BY <1>5 DEF Book!OfBatch
<1>7. \A k \in Book!Keys : BookRow(rows[k])
  BY DEF BookInv, BookTypes
<1>8. UndoWork(w)
  <2>1. \A r \in w.rows : r \in Book!Keys \X (Nat \ {0})
    BY <1>6, <1>7 DEF BookRow
  <2>. QED  BY <1>5, <2>1 DEF UndoWork
<1>9. \A g \in Book!Handlers : work'[g] = IF g = h THEN w ELSE work[g]
  BY <1>2 DEF BookInv, BookTypes
<1>10. w # Book!Idle
  BY <1>1, <1>5
<1>11. BookTypes' /\ Refs'
  <2>1. \A r \in w.rows : r[2] <= made /\ \A k \in Book!Keys : rows[k].event = r[2] => k = r[1]
    BY <1>6, <1>7 DEF BookInv, Refs, BookRow
  <2>2. \A r \in w.rows : \A g \in Book!Handlers : Created(g) => r[2] # work[g].event
    BY <1>6 DEF BookInv, Refs
  <2>3. DOMAIN rows' = Book!Keys /\ batches' \in [Book!Batches -> {"new", "open", "recorded", "dropped", "undone"}]
    BY <1>2 DEF BookInv, BookTypes
  <2>4. \A r \in IF w = Book!Idle THEN {} ELSE w.rows :
          r[2] <= made /\ (\A k \in Book!Keys : rows[k].event = r[2] => k = r[1])
            /\ \A g \in Book!Handlers : Created(g) => r[2] # work[g].event
    BY <1>10, <2>1, <2>2
  <2>. QED  BY <1>1, <1>2, <1>3, <1>8, <2>3, <2>4, BookUndoes
<1>12. /\ \A g \in Book!Handlers : Created(g)' => Created(g) /\ work'[g] = work[g]
       /\ \A g \in Book!Handlers : Gone(g) => Gone(g)' /\ work'[g] = work[g]
       /\ \A g \in Book!Handlers : work'[g].kind = "confirm" => g # h /\ work'[g] = work[g]
  BY <1>1, <1>5, <1>9 DEF Created, Gone
<1>13. Present'
  <2>1. ASSUME booking.hit = "no", NEW k \in Book!Keys, rows'[k].active, rows'[k].event \notin DOMAIN events'
        PROVE  \E g \in Book!Handlers : Gone(g)' /\ work'[g].gone = <<k, rows'[k].event>>
    <3>1. PICK g \in Book!Handlers : Gone(g) /\ work[g].gone = <<k, rows[k].event>>
      BY <1>2, <2>1 DEF BookInv, Present
    <3>. QED  BY <1>2, <1>12, <3>1
  <2>2. ASSUME booking.hit = "no", NEW g \in Book!Handlers, Created(g)' PROVE work'[g].event \in DOMAIN events'
    BY <1>2, <1>12, <2>2 DEF BookInv, Present
  <2>. QED  BY <1>3, <2>1, <2>2 DEF Present
<1>14. Batched'
  <2>1. \A g \in Book!Handlers : work'[g].kind = "confirm" =>
          batches[work'[g].batch] = "open" /\ \A i \in Book!Handlers :
             i # g /\ work'[i].kind = "confirm" => work'[i].batch # work'[g].batch
    BY <1>12 DEF BookInv, Batched
  <2>2. ASSUME NEW g \in Book!Handlers, work'[g].kind = "undo"
        PROVE  /\ batches[work'[g].batch] \in {"recorded", "undone"}
               /\ ~work'[g].failed => \A l \in Book!Keys :
                    rows[l].active /\ rows[l].batch = work'[g].batch => \E t \in work'[g].rows : t[1] = l
    <3>1. CASE g = h
      <4>1. ASSUME NEW l \in Book!Keys, rows[l].active, rows[l].batch = b PROVE \E t \in w.rows : t[1] = l
        <5>1. <<l, rows[l].event>> \in w.rows
          BY <1>5, <4>1 DEF Book!OfBatch
        <5>. QED  BY <5>1
      <4>. QED  BY <1>1, <1>5, <1>9, <3>1, <4>1
    <3>2. CASE g # h
      BY <1>9, <2>2, <3>2 DEF BookInv, Batched
    <3>. QED  BY <3>1, <3>2
  <2>3. booking.hit # "crash" =>
          /\ \A k \in Book!Keys : rows[k].active => batches[rows[k].batch] \in {"open", "recorded"}
          /\ \A g \in Book!Handlers : work'[g].kind = "confirm" /\ work'[g].done = 0 =>
               \A k \in Book!Keys : rows[k].active => rows[k].batch # work'[g].batch
    BY <1>12 DEF BookInv, Batched
  <2>. QED  BY <1>2, <1>3, <2>1, <2>2, <2>3 DEF Batched
<1>15. InOrder'
  <2>. SUFFICES ASSUME Serial PROVE InOrder'
    BY <1>3 DEF InOrder, Serial
  <2>1. \A g \in Book!Handlers : work[g] = Book!Idle
    BY <1>4
  <2>2. \A g \in Book!Handlers : ~Created(g) /\ ~Created(g)' /\ ~Gone(g)' /\ work'[g].kind # "confirm"
    BY <1>1, <1>5, <1>9, <2>1 DEF Created, Gone
  <2>3. \A g, i \in Book!Handlers : work'[g] # Book!Idle /\ work'[i] # Book!Idle => g = i
    BY <1>9, <2>1
  <2>4. \A l \in Book!Keys : rows[l].active /\ rows[l].event \in DOMAIN events => events[rows[l].event].slot = rows[l].slot
    BY <1>1, <2>1 DEF BookInv, InOrder
  <2>5. \A e \in DOMAIN events : \E l \in Book!Keys : rows[l].active /\ rows[l].event = e
    BY <2>2 DEF BookInv, InOrder
  <2>6. \A g \in Book!Handlers : work'[g].kind = "undo" => \A r \in work'[g].rows : rows[r[1]].active /\ rows[r[1]].event = r[2]
    BY <1>1, <1>6, <1>9, <2>1
  <2>. QED  BY <1>2, <2>2, <2>3, <2>4, <2>5, <2>6 DEF InOrder
<1>. QED  BY <1>11, <1>13, <1>14, <1>15 DEF BookInv

\* deleteEvent: the event that is gone is the one of the row that is about to be
\* marked, and of no other.
LEMMA BookDelete ==
  ASSUME BookInv, NEW h \in Book!Handlers, NEW r \in Book!Keys \X Book!Events, Book!Delete(h, r)
  PROVE  BookInv'
<1>. DEFINE w == IF r[2] \in DOMAIN events THEN [work[h] EXCEPT !.gone = r]
                 ELSE [work[h] EXCEPT !.rows = work[h].rows \ {r}, !.failed = TRUE]
<1>1. work[h].kind = "undo" /\ r \in work[h].rows /\ work[h].gone = <<0, 0>> /\ Book!Idle.kind = "idle"
  BY DEF Book!Delete, Book!Undoing, Book!Idle
<1>2. UndoWork(work[h])
  BY <1>1 DEF BookInv, BookTypes, BookWork, ConfirmWork, Book!Idle
<1>3. UNCHANGED <<agenda, kept, rows, batches, booking, made>> /\ work' = [work EXCEPT ![h] = w]
      /\ events' = [e \in DOMAIN events \ {r[2]} |-> events[e]]
  BY DEF Book!Delete, Book!Becomes, Book!Unbooked
<1>4. /\ DOMAIN w = UndoFields /\ w.kind = "undo" /\ w.batch = work[h].batch
      /\ r[2] \in DOMAIN events => w.gone = r /\ w.rows = work[h].rows /\ (w.failed <=> work[h].failed)
      /\ r[2] \notin DOMAIN events => w.gone = <<0, 0>> /\ w.rows = work[h].rows \ {r} /\ w.failed
  BY <1>1, <1>2 DEF UndoWork, UndoFields
<1>5. w.failed \in BOOLEAN
  BY <1>2 DEF UndoWork, UndoFields
<1>. HIDE DEF w
<1>6. UndoWork(w) /\ r # <<0, 0>> /\ r[1] \in Book!Keys /\ r = <<r[1], r[2]>>
  BY <1>1, <1>2, <1>4, <1>5 DEF UndoWork
<1>7. \A g \in Book!Handlers : work'[g] = IF g = h THEN w ELSE work[g]
  BY <1>3 DEF BookInv, BookTypes
<1>8. DOMAIN events' = DOMAIN events \ {r[2]} /\ \A e \in DOMAIN events' : events'[e] = events[e]
  BY <1>3
<1>9. /\ \A g \in Book!Handlers : Created(g)' => g # h /\ Created(g) /\ work'[g] = work[g]
      /\ \A g \in Book!Handlers : Gone(g) => Gone(g)' /\ work'[g] = work[g]
      /\ \A g \in Book!Handlers : work'[g].kind = "confirm" => g # h /\ work'[g] = work[g]
  BY <1>1, <1>4, <1>7 DEF Created, Gone
<1>10. BookTypes' /\ Refs'
  <2>1. \A t \in w.rows : t \in work[h].rows
    BY <1>4
  <2>2. \A t \in IF w = Book!Idle THEN {} ELSE w.rows :
          t[2] <= made /\ (\A k \in Book!Keys : rows[k].event = t[2] => k = t[1])
            /\ \A g \in Book!Handlers : Created(g) => t[2] # work[g].event
    BY <1>1, <2>1 DEF BookInv, Refs
  <2>3. DOMAIN rows' = Book!Keys /\ batches' \in [Book!Batches -> {"new", "open", "recorded", "dropped", "undone"}]
        /\ booking' \in Book!Booking
    BY <1>3 DEF BookInv, BookTypes
  <2>. QED  BY <1>1, <1>3, <1>6, <1>8, <2>2, <2>3, BookUndoes
<1>11. Present'
  <2>1. ASSUME booking.hit = "no", NEW k \in Book!Keys, rows[k].active, rows[k].event \notin DOMAIN events'
        PROVE  \E g \in Book!Handlers : Gone(g)' /\ work'[g].gone = <<k, rows[k].event>>
    <3>1. CASE rows[k].event \in DOMAIN events
      <4>1. rows[k].event = r[2]
        BY <1>8, <2>1, <3>1
      <4>2. k = r[1]
        BY <1>1, <4>1 DEF BookInv, Refs
      <4>3. work'[h].gone = <<k, rows[k].event>> /\ Gone(h)'
        BY <1>4, <1>6, <1>7, <3>1, <4>1, <4>2 DEF Gone
      <4>. QED  BY <4>3
    <3>2. CASE rows[k].event \notin DOMAIN events
      <4>1. PICK g \in Book!Handlers : Gone(g) /\ work[g].gone = <<k, rows[k].event>>
        BY <2>1, <3>2 DEF BookInv, Present
      <4>. QED  BY <1>9, <4>1
    <3>. QED  BY <3>1, <3>2
  <2>2. ASSUME booking.hit = "no", NEW g \in Book!Handlers, Created(g)' PROVE work'[g].event \in DOMAIN events'
    <3>1. work[g].event \in DOMAIN events
      BY <1>9, <2>2 DEF BookInv, Present
    <3>2. work[g].event # r[2]
      BY <1>1, <1>9, <2>2 DEF BookInv, Refs
    <3>. QED  BY <1>8, <1>9, <2>2, <3>1, <3>2
  <2>. QED  BY <1>3, <2>1, <2>2 DEF Present
<1>12. Batched'
  <2>1. \A g \in Book!Handlers : work'[g].kind = "confirm" =>
          batches[work'[g].batch] = "open" /\ \A i \in Book!Handlers :
             i # g /\ work'[i].kind = "confirm" => work'[i].batch # work'[g].batch
    BY <1>9 DEF BookInv, Batched
  <2>2. ASSUME NEW g \in Book!Handlers, work'[g].kind = "undo"
        PROVE  /\ batches[work'[g].batch] \in {"recorded", "undone"}
               /\ ~work'[g].failed => \A l \in Book!Keys :
                    rows[l].active /\ rows[l].batch = work'[g].batch => \E t \in work'[g].rows : t[1] = l
    <3>1. CASE g = h
      <4>1. work'[g] = w
        BY <1>7, <3>1
      <4>2. ~w.failed => w.rows = work[h].rows /\ ~work[h].failed
        BY <1>4
      <4>. QED  BY <1>1, <1>4, <4>1, <4>2 DEF BookInv, Batched
    <3>2. CASE g # h
      BY <1>7, <2>2, <3>2 DEF BookInv, Batched
    <3>. QED  BY <3>1, <3>2
  <2>3. booking.hit # "crash" =>
          /\ \A k \in Book!Keys : rows[k].active => batches[rows[k].batch] \in {"open", "recorded"}
          /\ \A g \in Book!Handlers : work'[g].kind = "confirm" /\ work'[g].done = 0 =>
               \A k \in Book!Keys : rows[k].active => rows[k].batch # work'[g].batch
    BY <1>9 DEF BookInv, Batched
  <2>. QED  BY <1>3, <2>1, <2>2, <2>3 DEF Batched
<1>13. InOrder'
  <2>. SUFFICES ASSUME Serial PROVE InOrder'
    BY <1>3 DEF InOrder, Serial
  <2>1. \A g \in Book!Handlers : g = h \/ work[g] = Book!Idle
    BY <1>1 DEF BookInv, InOrder
  <2>2. \A g \in Book!Handlers : ~Created(g) /\ ~Created(g)' /\ work'[g].kind # "confirm" /\ work[g].kind # "confirm"
    BY <1>1, <1>4, <1>7, <2>1 DEF Created
  <2>3. \A g, i \in Book!Handlers : work'[g] # Book!Idle /\ work'[i] # Book!Idle => g = i
    BY <1>7, <2>1
  <2>4. \A l \in Book!Keys : rows[l].active /\ rows[l].event \in DOMAIN events' => events'[rows[l].event].slot = rows[l].slot
    BY <1>8, <2>2 DEF BookInv, InOrder
  <2>5. \A e \in DOMAIN events' : \E l \in Book!Keys : rows[l].active /\ rows[l].event = e
    BY <1>8, <2>2 DEF BookInv, InOrder
  <2>6. \A t \in work[h].rows : rows[t[1]].active /\ rows[t[1]].event = t[2]
    BY <1>1 DEF BookInv, InOrder
  <2>7. \A g \in Book!Handlers : work'[g].kind = "undo" => \A t \in work'[g].rows : rows[t[1]].active /\ rows[t[1]].event = t[2]
    BY <1>1, <1>4, <1>7, <2>1, <2>6
  <2>8. \A g \in Book!Handlers : Gone(g)' => work'[g].gone[2] \notin DOMAIN events'
    BY <1>1, <1>4, <1>7, <1>8, <2>1 DEF Gone
  <2>. QED  BY <1>3, <2>2, <2>3, <2>4, <2>5, <2>7, <2>8 DEF InOrder
<1>. QED  BY <1>10, <1>11, <1>12, <1>13 DEF BookInv

\* An undo gives up a row: it has failed, and the rows are as they were.
LEMMA BookLeaves ==
  ASSUME BookInv, NEW h \in Book!Handlers, work[h].kind = "undo", NEW r \in work[h].rows, NEW w,
         DOMAIN w = UndoFields, w.kind = "undo", w.batch = work[h].batch, w.gone = <<0, 0>>,
         w.rows = work[h].rows \ {r}, w.failed = TRUE,
         work' = [work EXCEPT ![h] = w], UNCHANGED <<agenda, kept, events, rows, batches, made>>,
         booking' \in Book!Booking, booking'.together = booking.together,
         booking.hit = "crash" => booking'.hit = "crash",
         booking'.hit # "no" \/ (booking'.hit = booking.hit /\ work[h].gone = <<0, 0>>)
  PROVE  BookInv'
<1>1. UndoWork(work[h]) /\ Book!Idle.kind = "idle"
  BY DEF BookInv, BookTypes, BookWork, ConfirmWork, Book!Idle
<1>2. UndoWork(w) /\ w # Book!Idle
  BY <1>1 DEF UndoWork
<1>3. \A g \in Book!Handlers : work'[g] = IF g = h THEN w ELSE work[g]
  BY DEF BookInv, BookTypes
<1>4. /\ \A g \in Book!Handlers : Created(g)' => g # h /\ Created(g) /\ work'[g] = work[g]
      /\ \A g \in Book!Handlers : work'[g].kind = "confirm" => g # h /\ work'[g] = work[g]
      /\ \A g \in Book!Handlers : g # h => work'[g] = work[g]
  BY <1>3 DEF Created
<1>5. BookTypes' /\ Refs'
  <2>1. \A t \in IF w = Book!Idle THEN {} ELSE w.rows :
          t[2] <= made /\ (\A k \in Book!Keys : rows[k].event = t[2] => k = t[1])
            /\ \A g \in Book!Handlers : Created(g) => t[2] # work[g].event
    BY <1>2 DEF BookInv, Refs
  <2>2. DOMAIN rows' = Book!Keys /\ batches' \in [Book!Batches -> {"new", "open", "recorded", "dropped", "undone"}]
    BY DEF BookInv, BookTypes
  <2>. QED  BY <1>2, <2>1, <2>2, BookUndoes
<1>6. Present'
  <2>. SUFFICES ASSUME booking'.hit = "no" PROVE Present'
    BY DEF Present
  <2>1. booking.hit = "no" /\ work[h].gone = <<0, 0>>
    OBVIOUS
  <2>2. \A g \in Book!Handlers : Gone(g) => Gone(g)' /\ work'[g] = work[g]
    BY <1>4, <2>1 DEF Gone
  <2>3. ASSUME NEW k \in Book!Keys, rows'[k].active, rows'[k].event \notin DOMAIN events'
        PROVE  \E g \in Book!Handlers : Gone(g)' /\ work'[g].gone = <<k, rows'[k].event>>
    <3>1. PICK g \in Book!Handlers : Gone(g) /\ work[g].gone = <<k, rows[k].event>>
      BY <2>1, <2>3 DEF BookInv, Present
    <3>. QED  BY <2>2, <3>1
  <2>4. \A g \in Book!Handlers : Created(g)' => work'[g].event \in DOMAIN events'
    BY <1>4, <2>1 DEF BookInv, Present
  <2>. QED  BY <2>3, <2>4 DEF Present
<1>7. Batched'
  <2>1. \A g \in Book!Handlers : work'[g].kind = "confirm" =>
          batches[work'[g].batch] = "open" /\ \A i \in Book!Handlers :
             i # g /\ work'[i].kind = "confirm" => work'[i].batch # work'[g].batch
    BY <1>4 DEF BookInv, Batched
  <2>2. ASSUME NEW g \in Book!Handlers, work'[g].kind = "undo"
        PROVE  /\ batches[work'[g].batch] \in {"recorded", "undone"}
               /\ ~work'[g].failed => \A l \in Book!Keys :
                    rows[l].active /\ rows[l].batch = work'[g].batch => \E t \in work'[g].rows : t[1] = l
    <3>1. CASE g = h
      BY <1>3, <3>1 DEF BookInv, Batched
    <3>2. CASE g # h
      BY <1>4, <2>2, <3>2 DEF BookInv, Batched
    <3>. QED  BY <3>1, <3>2
  <2>3. booking'.hit # "crash" =>
          /\ \A k \in Book!Keys : rows[k].active => batches[rows[k].batch] \in {"open", "recorded"}
          /\ \A g \in Book!Handlers : work'[g].kind = "confirm" /\ work'[g].done = 0 =>
               \A k \in Book!Keys : rows[k].active => rows[k].batch # work'[g].batch
    BY <1>4 DEF BookInv, Batched
  <2>. QED  BY <2>1, <2>2, <2>3 DEF Batched
<1>8. InOrder'
  <2>. SUFFICES ASSUME Serial' PROVE InOrder'
    BY DEF InOrder
  <2>0. Serial /\ work[h].gone = <<0, 0>>
    BY DEF Serial
  <2>1. \A g \in Book!Handlers : g = h \/ work[g] = Book!Idle
    BY <1>1, <2>0 DEF BookInv, InOrder
  <2>2. \A g \in Book!Handlers : ~Created(g) /\ ~Created(g)' /\ ~Gone(g)' /\ work'[g].kind # "confirm" /\ work[g].kind # "confirm"
    BY <1>1, <1>3, <2>1 DEF Created, Gone
  <2>3. \A g, i \in Book!Handlers : work'[g] # Book!Idle /\ work'[i] # Book!Idle => g = i
    BY <1>3, <2>1
  <2>4. \A l \in Book!Keys : rows[l].active /\ rows[l].event \in DOMAIN events => events[rows[l].event].slot = rows[l].slot
    BY <2>0, <2>2 DEF BookInv, InOrder
  <2>5. \A e \in DOMAIN events : \E l \in Book!Keys : rows[l].active /\ rows[l].event = e
    BY <2>0, <2>2 DEF BookInv, InOrder
  <2>6. \A t \in work[h].rows : rows[t[1]].active /\ rows[t[1]].event = t[2]
    BY <2>0 DEF BookInv, InOrder
  <2>7. \A g \in Book!Handlers : work'[g].kind = "undo" => \A t \in work'[g].rows : rows[t[1]].active /\ rows[t[1]].event = t[2]
    BY <1>1, <1>3, <2>1, <2>6
  <2>. QED  BY <2>2, <2>3, <2>4, <2>5, <2>7 DEF InOrder
<1>. QED  BY <1>5, <1>6, <1>7, <1>8 DEF BookInv

\* The request to delete fails: the row stays, and so does the event.
LEMMA BookRefuseDelete ==
  ASSUME BookInv, NEW h \in Book!Handlers, NEW r, Book!RefuseDelete(h, r)
  PROVE  BookInv'
<1>. DEFINE w == [work[h] EXCEPT !.rows = work[h].rows \ {r}, !.failed = TRUE]
<1>1. work[h].kind = "undo" /\ r \in work[h].rows /\ work[h].gone = <<0, 0>>
  BY DEF Book!RefuseDelete, Book!Undoing
<1>2. UndoWork(work[h])
  BY <1>1 DEF BookInv, BookTypes, BookWork, ConfirmWork, Book!Idle
<1>3. UNCHANGED <<agenda, kept, events, rows, batches, made>> /\ work' = [work EXCEPT ![h] = w] /\ Book!Spend("faults")
  BY DEF Book!RefuseDelete, Book!Becomes
<1>4. booking' \in Book!Booking /\ booking'.together = booking.together /\ booking'.hit = booking.hit
  BY <1>3, BookSpends DEF BookInv, BookTypes
<1>5. /\ DOMAIN w = UndoFields /\ w.kind = "undo" /\ w.batch = work[h].batch /\ w.gone = <<0, 0>>
      /\ w.rows = work[h].rows \ {r} /\ w.failed = TRUE
  BY <1>1, <1>2 DEF UndoWork, UndoFields
<1>. HIDE DEF w
<1>. QED  BY <1>1, <1>3, <1>4, <1>5, BookLeaves

\* The event is gone and the row is not marked: a fault that is told of.
LEMMA BookLoseDelete == ASSUME BookInv, NEW h \in Book!Handlers, Book!LoseDelete(h) PROVE BookInv'
<1>. DEFINE w == [work[h] EXCEPT !.rows = work[h].rows \ {work[h].gone}, !.gone = <<0, 0>>, !.failed = TRUE]
<1>1. work[h].kind = "undo" /\ work[h].gone # <<0, 0>>
  BY DEF Book!LoseDelete, Book!Undoing
<1>2. UndoWork(work[h]) /\ work[h].gone \in work[h].rows
  BY <1>1 DEF BookInv, BookTypes, BookWork, ConfirmWork, UndoWork, Book!Idle
<1>3. UNCHANGED <<agenda, kept, events, rows, batches, made>> /\ work' = [work EXCEPT ![h] = w] /\ Book!Hit("fault")
  BY DEF Book!LoseDelete, Book!Becomes
<1>4. /\ booking' \in Book!Booking /\ booking'.together = booking.together /\ booking'.hit # "no"
      /\ booking.hit = "crash" => booking'.hit = "crash"
  BY <1>3, BookHit DEF BookInv, BookTypes
<1>5. /\ DOMAIN w = UndoFields /\ w.kind = "undo" /\ w.batch = work[h].batch /\ w.gone = <<0, 0>>
      /\ w.rows = work[h].rows \ {work[h].gone} /\ w.failed = TRUE
  BY <1>1, <1>2 DEF UndoWork, UndoFields
<1>. HIDE DEF w
<1>6. PICK r \in work[h].rows : w.rows = work[h].rows \ {r}
  BY <1>2, <1>5
<1>7. booking' \in Book!Booking /\ booking'.together = booking.together
  BY <1>4
<1>8. booking.hit = "crash" => booking'.hit = "crash"
  BY <1>4
<1>9. booking'.hit # "no" \/ (booking'.hit = booking.hit /\ work[h].gone = <<0, 0>>)
  BY <1>4
<1>. QED  BY <1>1, <1>3, <1>5, <1>6, <1>7, <1>8, <1>9, BookLeaves

\* dbMarkCalendarWritebackDeleted: the row of the event that is gone.
LEMMA BookDeleted == ASSUME BookInv, NEW h \in Book!Handlers, Book!Deleted(h) PROVE BookInv'
<1>. DEFINE w == [work[h] EXCEPT !.rows = work[h].rows \ {work[h].gone}, !.gone = <<0, 0>>]
            k == work[h].gone[1]
            r == [rows[k] EXCEPT !.active = FALSE]
<1>1. work[h].kind = "undo" /\ work[h].gone # <<0, 0>> /\ Book!Idle.kind = "idle"
  BY DEF Book!Deleted, Book!Undoing, Book!Idle
<1>2. UndoWork(work[h]) /\ work[h].gone \in work[h].rows
  BY <1>1 DEF BookInv, BookTypes, BookWork, ConfirmWork, UndoWork, Book!Idle
<1>3. k \in Book!Keys /\ BookRow(rows[k])
  BY <1>2 DEF UndoWork, BookInv, BookTypes
<1>4. UNCHANGED <<agenda, kept, events, batches, booking, made>> /\ work' = [work EXCEPT ![h] = w]
      /\ rows' = [rows EXCEPT ![k] = r]
  BY <1>3 DEF Book!Deleted, Book!Becomes, BookInv, BookTypes
<1>5. /\ DOMAIN w = UndoFields /\ w.kind = "undo" /\ w.batch = work[h].batch /\ w.gone = <<0, 0>>
      /\ w.rows = work[h].rows \ {work[h].gone} /\ (w.failed <=> work[h].failed) /\ w.failed \in BOOLEAN
  BY <1>2 DEF UndoWork, UndoFields
<1>6. DOMAIN r = RowFields /\ ~r.active /\ r.active \in BOOLEAN /\ r.event = rows[k].event
  BY <1>3 DEF BookRow, RowFields
<1>7. \A t \in work[h].rows : t[1] = k /\ t[2] = work[h].gone[2] => t = work[h].gone
  BY <1>2 DEF UndoWork
<1>. HIDE DEF w, r
<1>8. UndoWork(w) /\ BookRow(r)
  BY <1>2, <1>3, <1>5, <1>6 DEF UndoWork, BookRow
<1>9. /\ \A g \in Book!Handlers : work'[g] = IF g = h THEN w ELSE work[g]
      /\ \A l \in Book!Keys : rows'[l] = IF l = k THEN r ELSE rows[l]
      /\ DOMAIN rows' = Book!Keys
  BY <1>3, <1>4 DEF BookInv, BookTypes
<1>10. /\ \A g \in Book!Handlers : Created(g)' => g # h /\ Created(g) /\ work'[g] = work[g]
       /\ \A g \in Book!Handlers : g # h /\ Gone(g) => Gone(g)' /\ work'[g] = work[g]
       /\ \A g \in Book!Handlers : work'[g].kind = "confirm" => g # h /\ work'[g] = work[g]
  BY <1>1, <1>5, <1>9 DEF Created, Gone
<1>11. \A l \in Book!Keys : rows'[l].active => l # k /\ rows'[l] = rows[l]
  BY <1>6, <1>9
<1>12. BookTypes' /\ Refs'
  <2>1. \A t \in IF w = Book!Idle THEN {} ELSE w.rows :
          t[2] <= made /\ (\A l \in Book!Keys : rows[l].event = t[2] => l = t[1])
            /\ \A g \in Book!Handlers : Created(g) => t[2] # work[g].event
    BY <1>1, <1>5 DEF BookInv, Refs
  <2>2. batches' \in [Book!Batches -> {"new", "open", "recorded", "dropped", "undone"}] /\ booking' \in Book!Booking
    BY <1>4 DEF BookInv, BookTypes
  <2>3. \A l \in Book!Keys : rows'[l] = rows[l] \/
           (BookRow(rows'[l]) /\ rows'[l].event = rows[l].event /\ ~rows'[l].active)
    BY <1>6, <1>8, <1>9
  <2>. QED  BY <1>1, <1>4, <1>8, <1>9, <2>1, <2>2, <2>3, BookUndoes
<1>13. Present'
  <2>1. ASSUME booking.hit = "no", NEW l \in Book!Keys, rows'[l].active, rows'[l].event \notin DOMAIN events
        PROVE  \E g \in Book!Handlers : Gone(g)' /\ work'[g].gone = <<l, rows'[l].event>>
    <3>1. l # k /\ rows'[l] = rows[l]
      BY <1>11, <2>1
    <3>2. PICK g \in Book!Handlers : Gone(g) /\ work[g].gone = <<l, rows[l].event>>
      BY <2>1, <3>1 DEF BookInv, Present
    <3>3. g # h
      BY <3>1, <3>2
    <3>. QED  BY <1>10, <3>1, <3>2, <3>3
  <2>2. ASSUME booking.hit = "no", NEW g \in Book!Handlers, Created(g)' PROVE work'[g].event \in DOMAIN events
    BY <1>10, <2>2 DEF BookInv, Present
  <2>. QED  BY <1>4, <2>1, <2>2 DEF Present
<1>14. Batched'
  <2>1. \A g \in Book!Handlers : work'[g].kind = "confirm" =>
          batches[work'[g].batch] = "open" /\ \A i \in Book!Handlers :
             i # g /\ work'[i].kind = "confirm" => work'[i].batch # work'[g].batch
    BY <1>10 DEF BookInv, Batched
  <2>2. ASSUME NEW g \in Book!Handlers, work'[g].kind = "undo"
        PROVE  /\ batches[work'[g].batch] \in {"recorded", "undone"}
               /\ ~work'[g].failed => \A l \in Book!Keys :
                    rows'[l].active /\ rows'[l].batch = work'[g].batch => \E t \in work'[g].rows : t[1] = l
    <3>1. CASE g = h
      <4>1. work'[g] = w /\ batches[w.batch] \in {"recorded", "undone"}
        BY <1>1, <1>5, <1>9, <3>1 DEF BookInv, Batched
      <4>2. ASSUME ~w.failed, NEW l \in Book!Keys, rows'[l].active, rows'[l].batch = w.batch
            PROVE  \E t \in w.rows : t[1] = l
        <5>1. l # k /\ rows'[l] = rows[l]
          BY <1>11, <4>2
        <5>2. PICK t \in work[h].rows : t[1] = l
          BY <1>1, <1>5, <4>2, <5>1 DEF BookInv, Batched
        <5>. QED  BY <1>5, <5>1, <5>2
      <4>. QED  BY <4>1, <4>2
    <3>2. CASE g # h
      BY <1>9, <1>11, <2>2, <3>2 DEF BookInv, Batched
    <3>. QED  BY <3>1, <3>2
  <2>3. booking.hit # "crash" =>
          /\ \A l \in Book!Keys : rows'[l].active => batches[rows'[l].batch] \in {"open", "recorded"}
          /\ \A g \in Book!Handlers : work'[g].kind = "confirm" /\ work'[g].done = 0 =>
               \A l \in Book!Keys : rows'[l].active => rows'[l].batch # work'[g].batch
    BY <1>10, <1>11 DEF BookInv, Batched
  <2>. QED  BY <1>4, <2>1, <2>2, <2>3 DEF Batched
<1>15. InOrder'
  <2>. SUFFICES ASSUME Serial PROVE InOrder'
    BY <1>4 DEF InOrder, Serial
  <2>1. \A g \in Book!Handlers : g = h \/ work[g] = Book!Idle
    BY <1>1 DEF BookInv, InOrder
  <2>2. \A g \in Book!Handlers : ~Created(g) /\ ~Created(g)' /\ ~Gone(g)' /\ work'[g].kind # "confirm" /\ work[g].kind # "confirm"
    BY <1>1, <1>5, <1>9, <2>1 DEF Created, Gone
  <2>3. \A g, i \in Book!Handlers : work'[g] # Book!Idle /\ work'[i] # Book!Idle => g = i
    BY <1>9, <2>1
  <2>4. \A l \in Book!Keys : rows'[l].active /\ rows'[l].event \in DOMAIN events => events[rows'[l].event].slot = rows'[l].slot
    BY <1>11, <2>2 DEF BookInv, InOrder
  <2>5. \A t \in work[h].rows : rows[t[1]].active /\ rows[t[1]].event = t[2]
    BY <1>1 DEF BookInv, InOrder
  <2>6. rows[k].event = work[h].gone[2] /\ work[h].gone[2] \notin DOMAIN events
    <3>1. Gone(h)
      BY <1>1 DEF Gone
    <3>. QED  BY <1>2, <2>5, <3>1 DEF BookInv, InOrder
  <2>7. ASSUME NEW e \in DOMAIN events PROVE \E l \in Book!Keys : rows'[l].active /\ rows'[l].event = e
    <3>1. PICK l \in Book!Keys : rows[l].active /\ rows[l].event = e
      BY <2>2 DEF BookInv, InOrder
    <3>. QED  BY <1>9, <2>6, <3>1
  <2>8. ASSUME NEW t \in w.rows PROVE rows'[t[1]].active /\ rows'[t[1]].event = t[2]
    <3>1. t \in work[h].rows /\ t # work[h].gone /\ rows[t[1]].active /\ rows[t[1]].event = t[2]
      BY <1>5, <2>5
    <3>2. t[1] # k
      BY <1>7, <2>6, <3>1
    <3>3. t[1] \in Book!Keys
      BY <1>2, <3>1 DEF UndoWork
    <3>. QED  BY <1>9, <3>1, <3>2, <3>3
  <2>9. \A g \in Book!Handlers : work'[g].kind = "undo" => \A t \in work'[g].rows : rows'[t[1]].active /\ rows'[t[1]].event = t[2]
    BY <1>1, <1>9, <2>1, <2>8
  <2>. QED  BY <1>4, <2>2, <2>3, <2>4, <2>7, <2>9 DEF InOrder
<1>. QED  BY <1>12, <1>13, <1>14, <1>15 DEF BookInv

\* The end of an undo: of a batch that is undone no row is active.
LEMMA BookEndUndo == ASSUME BookInv, NEW h \in Book!Handlers, Book!EndUndo(h) PROVE BookInv'
<1>. DEFINE b == work[h].batch
            s == IF work[h].failed THEN batches[b] ELSE "undone"
<1>1. work[h].kind = "undo" /\ work[h].rows = {} /\ Book!Idle.kind = "idle"
  BY DEF Book!EndUndo, Book!Undoing, Book!Idle
<1>2. UndoWork(work[h])
  BY <1>1 DEF BookInv, BookTypes, BookWork, ConfirmWork, Book!Idle
<1>3. work[h].gone = <<0, 0>> /\ b \in Book!Batches /\ batches[b] \in {"recorded", "undone"}
  BY <1>1, <1>2 DEF UndoWork, BookInv, Batched
<1>4. UNCHANGED <<agenda, kept, events, rows, booking, made>> /\ work' = [work EXCEPT ![h] = Book!Idle]
      /\ batches' = [batches EXCEPT ![b] = s]
  BY DEF Book!EndUndo, Book!Becomes
<1>5. s \in {"recorded", "undone"} /\ (s = batches[b] \/ ~work[h].failed)
  BY <1>3
<1>. HIDE DEF b, s
<1>6. /\ \A g \in Book!Handlers : work'[g] = IF g = h THEN Book!Idle ELSE work[g]
      /\ \A d \in Book!Batches : batches'[d] = IF d = b THEN s ELSE batches[d]
  BY <1>4 DEF BookInv, BookTypes
<1>7. batches' \in [Book!Batches -> {"new", "open", "recorded", "dropped", "undone"}]
  BY <1>4, <1>5, <1>6 DEF BookInv, BookTypes
<1>8. BookTypes' /\ Refs'
  <2>1. DOMAIN rows' = Book!Keys /\ booking' \in Book!Booking
    BY <1>4 DEF BookInv, BookTypes
  <2>. QED  BY <1>1, <1>4, <1>7, <2>1, BookUndoes
<1>9. /\ \A g \in Book!Handlers : Created(g)' => g # h /\ Created(g) /\ work'[g] = work[g]
      /\ \A g \in Book!Handlers : Gone(g) => Gone(g)' /\ work'[g] = work[g]
      /\ \A g \in Book!Handlers : work'[g].kind # "idle" => g # h /\ work'[g] = work[g]
  BY <1>1, <1>3, <1>6 DEF Created, Gone
<1>10. Present'
  <2>1. ASSUME booking.hit = "no", NEW k \in Book!Keys, rows'[k].active, rows'[k].event \notin DOMAIN events'
        PROVE  \E g \in Book!Handlers : Gone(g)' /\ work'[g].gone = <<k, rows'[k].event>>
    <3>1. PICK g \in Book!Handlers : Gone(g) /\ work[g].gone = <<k, rows[k].event>>
      BY <1>4, <2>1 DEF BookInv, Present
    <3>. QED  BY <1>4, <1>9, <3>1
  <2>2. ASSUME booking.hit = "no", NEW g \in Book!Handlers, Created(g)' PROVE work'[g].event \in DOMAIN events'
    BY <1>4, <1>9, <2>2 DEF BookInv, Present
  <2>. QED  BY <1>4, <2>1, <2>2 DEF Present
<1>11. Batched'
  <2>1. ASSUME NEW g \in Book!Handlers, work'[g].kind = "confirm"
        PROVE  batches'[work'[g].batch] = "open" /\ \A i \in Book!Handlers :
                 i # g /\ work'[i].kind = "confirm" => work'[i].batch # work'[g].batch
    <3>1. work[g].kind = "confirm" /\ work'[g] = work[g]
      BY <1>9, <2>1
    <3>2. batches[work[g].batch] = "open" /\ work[g].batch \in Book!Batches
      BY <3>1 DEF BookInv, Batched, BookTypes, BookWork, ConfirmWork, UndoWork, Book!Idle
    <3>3. work[g].batch # b
      BY <1>3, <3>2 DEF b
    <3>. QED  BY <1>6, <1>9, <3>1, <3>2, <3>3 DEF BookInv, Batched
  <2>2. ASSUME NEW g \in Book!Handlers, work'[g].kind = "undo"
        PROVE  /\ batches'[work'[g].batch] \in {"recorded", "undone"}
               /\ ~work'[g].failed => \A l \in Book!Keys :
                    rows[l].active /\ rows[l].batch = work'[g].batch => \E t \in work'[g].rows : t[1] = l
    <3>1. work[g].kind = "undo" /\ work'[g] = work[g]
      BY <1>9, <2>2
    <3>2. batches[work[g].batch] \in {"recorded", "undone"} /\ work[g].batch \in Book!Batches
      BY <3>1 DEF BookInv, Batched, BookTypes, BookWork, ConfirmWork, UndoWork, Book!Idle
    <3>. QED  BY <1>5, <1>6, <3>1, <3>2 DEF BookInv, Batched
  <2>3. ASSUME booking.hit # "crash", NEW l \in Book!Keys, rows[l].active
        PROVE  /\ batches'[rows[l].batch] \in {"open", "recorded"}
               /\ \A g \in Book!Handlers : work'[g].kind = "confirm" /\ work'[g].done = 0 => rows[l].batch # work'[g].batch
    <3>1. batches[rows[l].batch] \in {"open", "recorded"} /\ rows[l].batch \in Book!Batches
      BY <2>3 DEF BookInv, Batched, BookTypes, BookRow
    <3>2. rows[l].batch = b => work[h].failed
      BY <1>1, <2>3 DEF BookInv, Batched, b
    <3>3. \A g \in Book!Handlers : work'[g].kind = "confirm" /\ work'[g].done = 0 => rows[l].batch # work'[g].batch
      BY <1>9, <2>3 DEF BookInv, Batched
    <3>. QED  BY <1>5, <1>6, <3>1, <3>2, <3>3
  <2>. QED  BY <1>4, <2>1, <2>2, <2>3 DEF Batched
<1>12. InOrder'
  <2>. SUFFICES ASSUME Serial PROVE InOrder'
    BY <1>4 DEF InOrder, Serial
  <2>1. \A g \in Book!Handlers : work'[g] = Book!Idle /\ work[g].kind # "confirm"
    BY <1>1, <1>6 DEF BookInv, InOrder
  <2>2. \A g \in Book!Handlers : ~Created(g) /\ ~Created(g)' /\ ~Gone(g)' /\ work'[g].kind = "idle"
    BY <1>1, <2>1 DEF Created, Gone
  <2>3. \A l \in Book!Keys : rows[l].active /\ rows[l].event \in DOMAIN events => events[rows[l].event].slot = rows[l].slot
    BY <2>1 DEF BookInv, InOrder
  <2>4. \A e \in DOMAIN events : \E l \in Book!Keys : rows[l].active /\ rows[l].event = e
    BY <2>2 DEF BookInv, InOrder
  <2>. QED  BY <1>4, <2>1, <2>2, <2>3, <2>4 DEF InOrder
<1>. QED  BY <1>8, <1>10, <1>11, <1>12 DEF BookInv

\* The user deletes an event, or the program stops: what follows is about the
\* batches only.
LEMMA BookDeleteByHand == ASSUME BookInv, NEW e, Book!DeleteByHand(e) PROVE BookInv'
<1>1. UNCHANGED <<agenda, kept, rows, batches, work, made>> /\ DOMAIN events' \in SUBSET DOMAIN events
  BY DEF Book!DeleteByHand, Book!Unbooked
<1>2. /\ booking' \in Book!Booking /\ booking'.hit # "no"
      /\ booking.hit = "crash" => booking'.hit = "crash"
  BY BookHit DEF Book!DeleteByHand, BookInv, BookTypes
<1>3. BookTypes'
  BY <1>1, <1>2 DEF BookInv, BookTypes, BookRow, BookWork, ConfirmWork, UndoWork
<1>4. Refs'
  BY <1>1 DEF BookInv, Refs, Created
<1>5. Present' /\ InOrder'
  BY <1>2 DEF Present, InOrder, Serial
<1>6. Batched'
  BY <1>1, <1>2 DEF BookInv, Batched
<1>. QED  BY <1>3, <1>4, <1>5, <1>6 DEF BookInv

\* What was under way is lost, and its batches with it.
LEMMA BookCrash == ASSUME BookInv, Book!Crash PROVE BookInv'
<1>1. UNCHANGED <<agenda, kept, rows, events, made>> /\ work' = [h \in Book!Handlers |-> Book!Idle]
      /\ batches' = [b \in Book!Batches |-> IF batches[b] = "open" THEN "dropped" ELSE batches[b]]
  BY DEF Book!Crash
<1>2. booking' \in Book!Booking /\ booking'.hit = "crash"
  BY BookHit DEF Book!Crash, BookInv, BookTypes
<1>3. \A h \in Book!Handlers : work'[h] = Book!Idle /\ Book!Idle.kind = "idle"
  BY <1>1 DEF Book!Idle
<1>4. BookTypes'
  <2>1. \A k \in Book!Keys : BookRow(rows'[k])
    BY <1>1 DEF BookInv, BookTypes
  <2>2. batches' \in [Book!Batches -> {"new", "open", "recorded", "dropped", "undone"}]
    BY <1>1 DEF BookInv, BookTypes
  <2>. QED  BY <1>1, <1>2, <1>3, <2>1, <2>2 DEF BookInv, BookTypes, BookWork
<1>5. Refs'
  BY <1>1, <1>3 DEF BookInv, Refs, Created
<1>6. Present' /\ InOrder' /\ Batched'
  BY <1>2, <1>3 DEF Present, InOrder, Serial, Batched
<1>. QED  BY <1>4, <1>5, <1>6 DEF BookInv

\* Every step keeps the invariant.
LEMMA BookNext == BookInv /\ [Book!Next]_Book!vars => BookInv'
<1>. SUFFICES ASSUME BookInv, [Book!Next]_Book!vars PROVE BookInv'
  OBVIOUS
<1>0. BookTypes
  BY DEF BookInv
<1>1. ASSUME NEW a \in Book!Agendas, Book!EditAgenda(a) PROVE BookInv'
  <2>1. DOMAIN a \in SUBSET Book!Keys /\ agenda' = a /\ UNCHANGED <<kept, events, rows, batches, work, made>>
    BY <1>1, BookAgendas DEF Book!EditAgenda
  <2>2. booking' \in Book!Booking /\ booking'.together = booking.together /\ booking'.hit = booking.hit
    BY <1>0, <1>1, BookSpends DEF Book!EditAgenda, BookTypes
  <2>. QED  BY <1>0, <2>1, <2>2, BookAside DEF BookTypes
<1>2. ASSUME NEW wish \in Wishes, Book!Adjust(wish) PROVE BookInv'
  <2>1. UNCHANGED <<agenda, kept, events, rows, batches, work, made>>
    BY <1>2 DEF Book!Adjust
  <2>2. booking' \in Book!Booking /\ booking'.together = booking.together /\ booking'.hit = booking.hit
    BY <1>0, <1>2, BookSpends DEF Book!Adjust, BookTypes
  <2>. QED  BY <1>0, <2>1, <2>2, BookAside DEF BookTypes
<1>3. CASE Book!Clear
  BY <1>0, <1>3, BookAside DEF Book!Clear, BookTypes
<1>4. CASE Book!ShowDraft
  <2>1. UNCHANGED <<agenda, events, rows, batches, work, made, booking>> /\ kept' = Book!Draft
    BY <1>4 DEF Book!ShowDraft
  <2>2. DOMAIN kept' \in SUBSET Book!Keys
    <3>1. DOMAIN Book!Built \in SUBSET Book!Keys
      BY <1>0 DEF Book!Built, BookTypes
    <3>. QED  BY <2>1, <3>1, BookDrafts DEF Book!Draft
  <2>. QED  BY <1>0, <2>1, <2>2, BookAside DEF BookTypes
<1>5. ASSUME NEW c, Book!Forget(c) PROVE BookInv'
  BY <1>0, <1>5, BookAside DEF Book!Forget, BookTypes
<1>6. CASE UNCHANGED Book!vars
  BY <1>0, <1>6, BookAside DEF Book!vars, BookTypes
<1>7. ASSUME NEW e, Book!DeleteByHand(e) PROVE BookInv'
  BY <1>7, BookDeleteByHand
<1>8. ASSUME NEW h \in Book!Handlers,
             Book!Look(h) \/ Book!Check(h) \/ Book!Ask(h) \/ Book!Answer(h) \/ Book!EndConfirm(h)
      PROVE  BookInv'
  BY <1>8, BookLook, BookCheck, BookAsk, BookAnswer, BookEndConfirm
<1>9. ASSUME NEW h \in Book!Handlers,
             \/ \E r \in Book!Keys \X Book!Events : Book!Delete(h, r) \/ Book!RefuseDelete(h, r)
             \/ Book!Deleted(h) \/ Book!EndUndo(h)
      PROVE  BookInv'
  BY <1>9, BookDelete, BookRefuseDelete, BookDeleted, BookEndUndo
<1>10. CASE Book!Crash
  BY <1>10, BookCrash
<1>11. ASSUME NEW c, NEW h \in Book!Handlers, NEW b \in Book!Batches, Book!Press(c, h, b) \/ Book!Undo(h, b)
       PROVE  BookInv'
  BY <1>11, BookPress, BookUndo
<1>12. ASSUME NEW h \in Book!Handlers, Book!Refuse(h) \/ Book!Lose(h) \/ Book!LoseDelete(h) PROVE BookInv'
  BY <1>12, BookRefuse, BookLose, BookLoseDelete
<1>. QED  BY <1>1, <1>2, <1>3, <1>4, <1>5, <1>6, <1>7, <1>8, <1>9, <1>10, <1>11, <1>12 DEF Book!Next

\* As many events as active rows, when every one of these has its own.
LEMMA RowEvents ==
  ASSUME NEW A \in SUBSET Book!Keys, \A k, l \in A : rows[k].event = rows[l].event => k = l
  PROVE  LET E == {rows[k].event : k \in A} IN IsFiniteSet(E) /\ Cardinality(E) = Cardinality(A)
<1>. DEFINE E == {rows[k].event : k \in A}
            f == [k \in A |-> rows[k].event]
<1>1. f \in Bijection(A, E)
  BY DEF Bijection, Injection, Surjection, IsInjective
<1>2. ExistsBijection(A, E)
  BY <1>1 DEF ExistsBijection
<1>3. IsFiniteSet(A)
  BY BookSets, FS_Subset
<1>. QED  BY <1>2, <1>3, FS_Bijection

\* A set without one of its elements has one element less.
LEMMA OneLess == ASSUME NEW S, NEW T, NEW x \in S, IsFiniteSet(S), T = S \ {x}
                 PROVE  Cardinality(T) = Cardinality(S) - 1
<1>1. Cardinality(S \ {x}) = Cardinality(S) - 1
  BY FS_RemoveElement
<1>. QED  BY <1>1

\* And with another one, one more.
LEMMA OneMore == ASSUME NEW S, NEW T, NEW x, x \notin S, IsFiniteSet(S), T = S \union {x}
                 PROVE  Cardinality(T) = Cardinality(S) + 1
<1>1. Cardinality(S \union {x}) = Cardinality(S) + 1
  BY FS_AddElement
<1>. QED  BY <1>1

\* One after the other: the events are those of the active rows, the one that was
\* just made, and not the one that is just gone.
LEMMA BookCounts == ASSUME BookInv PROVE Book!OneEventPerTask
<1>. SUFFICES ASSUME Serial PROVE Book!OneEventPerTask
  BY DEF Book!OneEventPerTask, Serial
<1>. DEFINE A == {k \in Book!Keys : rows[k].active}
            E == {rows[k].event : k \in A}
            C == {h \in Book!Handlers : Book!Confirming(h) /\ work[h].step = "created"}
            G == {h \in Book!Handlers : Book!Undoing(h) /\ work[h].gone # <<0, 0>>}
<1>1. /\ \A h : h \in C <=> h \in Book!Handlers /\ Created(h)
      /\ \A h : h \in G <=> h \in Book!Handlers /\ Gone(h)
  BY DEF Created, Gone, Book!Confirming, Book!Undoing
<1>2. \A k \in A : rows[k].event # 0
  BY DEF BookInv, BookTypes, BookRow
<1>3. IsFiniteSet(E) /\ Cardinality(E) = Cardinality(A)
  <2>1. \A k, l \in A : rows[k].event = rows[l].event => k = l
    BY <1>2 DEF BookInv, Refs
  <2>. QED  BY <2>1, RowEvents
<1>4. \A h, g \in C \union G : h = g
  BY <1>1, Book!Idle = [kind |-> "idle"] DEF BookInv, InOrder, Created, Gone, Book!Idle
<1>5. \A e \in DOMAIN events : e \in E \/ \E h \in C : work[h].event = e
  BY <1>1 DEF BookInv, InOrder
<1>6. \A h \in C : work[h].event \in DOMAIN events /\ work[h].event \notin E
  BY <1>1 DEF BookInv, Present, Serial, Refs
<1>7. \A h \in G : work[h].gone[2] \in E /\ work[h].gone[2] \notin DOMAIN events
  <2>1. ASSUME NEW h \in G PROVE work[h].gone[2] \in E
    <3>1. work[h].kind = "undo" /\ work[h].gone \in work[h].rows /\ work[h].gone[1] \in Book!Keys
      BY <1>1, <2>1 DEF Gone, BookInv, BookTypes, BookWork, ConfirmWork, UndoWork, Book!Idle
    <3>. QED  BY <1>1, <3>1 DEF BookInv, InOrder
  <2>. QED  BY <1>1, <2>1 DEF BookInv, InOrder
<1>8. \A e \in E : e \in DOMAIN events \/ \E h \in G : work[h].gone[2] = e
  <2>1. ASSUME NEW k \in A, rows[k].event \notin DOMAIN events PROVE \E h \in G : work[h].gone[2] = rows[k].event
    <3>1. PICK h \in Book!Handlers : Gone(h) /\ work[h].gone = <<k, rows[k].event>>
      BY <2>1 DEF BookInv, Present, Serial
    <3>. QED  BY <1>1, <3>1
  <2>. QED  BY <2>1
<1>9. C \in SUBSET Book!Handlers /\ G \in SUBSET Book!Handlers /\ \A h \in Book!Handlers : ~(h \in C /\ h \in G)
  BY <1>1 DEF Created, Gone
<1>10. Cardinality(A) \in Nat
  BY <1>3, FS_CardinalityType
<1>. HIDE DEF A, E, C, G
<1>11. Cardinality(DOMAIN events) = Cardinality(A) + Cardinality(C) - Cardinality(G)
  <2>1. CASE C = {} /\ G = {}
    <3>1. DOMAIN events = E
      BY <1>5, <1>8, <2>1
    <3>. QED  BY <1>3, <1>10, <2>1, <3>1, FS_EmptySet
  <2>2. ASSUME NEW h \in C PROVE Cardinality(DOMAIN events) = Cardinality(A) + Cardinality(C) - Cardinality(G)
    <3>1. C = {h} /\ G = {}
      BY <1>4, <1>9
    <3>2. DOMAIN events = E \union {work[h].event}
      BY <1>5, <1>6, <1>8, <3>1
    <3>3. Cardinality(DOMAIN events) = Cardinality(E) + 1
      BY <1>3, <1>6, <3>2, OneMore
    <3>4. Cardinality(C) = 1 /\ Cardinality(G) = 0
      BY <3>1, FS_Singleton, FS_EmptySet
    <3>. QED  BY <1>3, <1>10, <3>3, <3>4
  <2>3. ASSUME NEW h \in G PROVE Cardinality(DOMAIN events) = Cardinality(A) + Cardinality(C) - Cardinality(G)
    <3>1. G = {h} /\ C = {}
      BY <1>4, <1>9
    <3>2. DOMAIN events = E \ {work[h].gone[2]}
      BY <1>5, <1>7, <1>8, <3>1
    <3>3. Cardinality(DOMAIN events) = Cardinality(E) - 1
      <4>1. work[h].gone[2] \in E
        BY <1>7
      <4>. QED  BY <1>3, <3>2, <4>1, OneLess
    <3>4. Cardinality(G) = 1 /\ Cardinality(C) = 0
      BY <3>1, FS_Singleton, FS_EmptySet
    <3>. QED  BY <1>3, <1>10, <3>3, <3>4
  <2>. QED  BY <2>1, <2>2, <2>3
<1>12. ASSUME NEW k \in Book!Keys, rows[k].active, \A h \in Book!Handlers : work[h] = Book!Idle
       PROVE  events[rows[k].event].slot = rows[k].slot
  <2>1. \A h \in Book!Handlers : work[h].kind = "idle"
    BY <1>12 DEF Book!Idle
  <2>2. rows[k].event \in DOMAIN events
    BY <1>12, <2>1 DEF BookInv, Present, Serial, Gone
  <2>. QED  BY <1>12, <2>1, <2>2 DEF BookInv, InOrder
<1>13. Book!Cardinality(DOMAIN events) = Book!Cardinality(A) + Book!Cardinality(C) - Book!Cardinality(G)
  BY <1>11, BookCards
<1>. QED  BY <1>12, <1>13 DEF Book!OneEventPerTask, A, C, G

\* The invariant is stronger than what is checked.
LEMMA BookHolds == BookInv => Book!RowsHaveEvents /\ Book!UndoReaches /\ Book!OneEventPerTask
<1>. SUFFICES ASSUME BookInv PROVE Book!RowsHaveEvents /\ Book!UndoReaches /\ Book!OneEventPerTask
  OBVIOUS
<1>1. Book!RowsHaveEvents
  BY DEF BookInv, Present, Gone, Book!RowsHaveEvents, Book!Undoing
<1>2. Book!UndoReaches
  BY DEF BookInv, Batched, InOrder, Serial, Created, Book!UndoReaches, Book!Confirming
<1>. QED  BY <1>1, <1>2, BookCounts

\* Whatever is confirmed, adjusted, confirmed again and undone, side by side, and
\* whatever requests are refused: an active row has its event, and a batch that
\* can be undone unless the process was killed.  One after the other, as long as
\* no answer is lost, every event is reached by an undo, and a task has one
\* (writebackCalendarDraft, undoCalendarBatch).
THEOREM EventsAlwaysReached == Book!Spec => [](Book!RowsHaveEvents /\ Book!UndoReaches /\ Book!OneEventPerTask)
BY BookInit, BookNext, BookHolds, PTL DEF Book!Spec

\* The same of the sum of the parts, of which one runs at a time.
THEOREM CalendarAlwaysKept == PartsSpec => []CalendarKept
<1>. DEFINE Inv == part = "calendar" => BookInv
<1>1. Parts => Inv
  BY BookInit DEF Parts
<1>2. Inv /\ [Step]_<<part, runVars, bookVars, readVars, packVars, reviewVars>> => Inv'
  <2>. SUFFICES ASSUME Inv, [Step]_<<part, runVars, bookVars, readVars, packVars, reviewVars>>, part' = "calendar"
                PROVE  BookInv'
    OBVIOUS
  <2>1. part = "calendar" /\ [Book!Next]_Book!vars
    BY DEF Step, bookVars, Book!vars
  <2>. QED  BY <2>1, BookNext
<1>3. Inv => CalendarKept
  BY BookHolds DEF CalendarKept
<1>. QED  BY <1>1, <1>2, <1>3, PTL DEF PartsSpec

=============================================================================
