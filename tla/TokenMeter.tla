----------------------------- MODULE TokenMeter -----------------------------
(***************************************************************************)
(* The budget of the calls of a language model (agent/token-meter.ts, with *)
(* agent/anthropic-agent.ts and agent/openai-agent.ts): before a call what *)
(* the ledger holds of its run, of the day and of the month is compared    *)
(* with the limits; after a usable answer its cost is added, by reading    *)
(* the file and writing it anew, which other processes may come between.   *)
(*                                                                         *)
(* The month is as the day and left out; a cost is a number of millionths  *)
(* of a dollar, 0 where the price is unknown and for the mark of a turn in *)
(* the console's chat.                                                     *)
(***************************************************************************)
EXTENDS Integers, FiniteSets

CONSTANTS
  Calls,      \* the calls there may be
  Runs,       \* the runs they belong to
  Processes,  \* the processes that call
  Costs,      \* what a call may cost
  Dearest,    \* the most that a call costs
  TaskLimit,  \* per_task_usd, 0 for none
  DayLimit,   \* daily_usd, 0 for none
  LastDay     \* bound: the days that are lived through

VARIABLES
  day,
  ledger,     \* the calls that the file holds
  call,       \* call[c]: where it is
  copy        \* copy[p]: what a process read of the file to write it anew

vars == <<day, ledger, call, copy>>

Unmade == [pc |-> "none", run |-> CHOOSE r \in Runs : TRUE, by |-> CHOOSE p \in Processes : TRUE,
           day |-> 0, cost |-> 0]

Init ==
  /\ day = 1
  /\ ledger = {} /\ copy = [p \in Processes |-> {}]
  /\ call = [c \in Calls |-> Unmade]

(* What calls cost together: the millionths, each with its call.           *)
Units(S) == {u \in S \X (1 .. Dearest) : u[2] <= call[u[1]].cost}
Sum(S) == Cardinality(Units(S))
OfRun(S, r) == {c \in S : call[c].run = r}
OfDay(S, d) == {c \in S : call[c].day = d}

Under(spent, limit) == limit = 0 \/ spent < limit

Is(pc) == {c \in Calls : call[c].pc = pc}
UnderWay == Is("called") \cup Is("writing")

(* A process writes the file without a break, others do not wait for it.   *)
Free(p) == \A c \in Is("writing") : call[c].by # p

(* Mutant of Checked: the run is not looked at.                            *)
CheckedDay(r) == Under(Sum(OfDay(ledger, day)), DayLimit)

(* checkBudget: what is spent is still under the limits.                   *)
Checked(r) == Under(Sum(OfRun(ledger, r)), TaskLimit) /\ Under(Sum(OfDay(ledger, day)), DayLimit)

(* A run makes a call, one after the other; or is refused.                 *)
Begin(c, r, p) ==
  /\ call[c].pc = "none" /\ Free(p)
  /\ OfRun(UnderWay, r) = {}
  /\ call' = [call EXCEPT ![c] =
                [pc |-> IF Checked(r) THEN "called" ELSE "refused", run |-> r, by |-> p, day |-> 0, cost |-> 0]]
  /\ UNCHANGED <<day, ledger, copy>>

(* The call fails, is cut off or times out: nothing is written of it.      *)
Fail(c) ==
  /\ call[c].pc = "called" /\ Free(call[c].by)
  /\ call' = [call EXCEPT ![c].pc = "failed"]
  /\ UNCHANGED <<day, ledger, copy>>

(* recordUsage: the file is read, under the day of now,                    *)
Read(c) ==
  /\ call[c].pc = "called" /\ Free(call[c].by)
  /\ \E cost \in Costs : call' = [call EXCEPT ![c].pc = "writing", ![c].day = day, ![c].cost = cost]
  /\ copy' = [copy EXCEPT ![call[c].by] = ledger]
  /\ UNCHANGED <<day, ledger>>

(* and written with the call behind what was read.                         *)
Write(c) ==
  /\ call[c].pc = "writing"
  /\ ledger' = copy[call[c].by] \cup {c}
  /\ copy' = [copy EXCEPT ![call[c].by] = {}]
  /\ call' = [call EXCEPT ![c].pc = "done"]
  /\ UNCHANGED day

DayTurns ==
  /\ day < LastDay /\ day' = day + 1
  /\ UNCHANGED <<ledger, call, copy>>

Next ==
  \/ \E c \in Calls :
       \/ \E r \in Runs, p \in Processes : Begin(c, r, p)
       \/ Fail(c) \/ Read(c) \/ Write(c)
  \/ DayTurns

Spec == Init /\ [][Next]_vars

(***************************************************************************)
(* Properties                                                              *)
(***************************************************************************)
TypeOK ==
  /\ day \in 1 .. LastDay /\ ledger \subseteq Calls /\ copy \in [Processes -> SUBSET Calls]
  /\ call \in [Calls -> [pc : {"none", "called", "refused", "failed", "writing", "done"}, run : Runs, by : Processes,
                         day : 0 .. LastDay, cost : Costs \cup {0}]]

Alone == Cardinality(Processes) = 1

(* Every usable answer is in the ledger, as long as one process writes it. *)
Recorded == Alone => Is("done") = ledger

(* What the answers of a run cost exceeds its limit by less than one call, *)
(* and what those of a day cost by less than the calls that were under way *)
(* when the limit was reached: a call spends what it costs after the check *)
(* (one process, answers that count).                                      *)
RunBounded ==
  Alone => \A r \in Runs :
    TaskLimit > 0 => Sum(OfRun(Is("done"), r)) < TaskLimit + Dearest

DayBounded ==
  Alone => \A d \in 1 .. LastDay :
    DayLimit > 0 =>
      Sum(OfDay(Is("done"), d)) < DayLimit + Dearest * Cardinality(Runs)

SpendBounded == Recorded /\ RunBounded /\ DayBounded
=============================================================================
