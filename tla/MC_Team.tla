------------------------------ MODULE MC_Team -------------------------------
(***************************************************************************)
(* What one machine sends to its team beside the cycles, on small          *)
(* instances: the queue of its jobs, the plans and boards an owner shares  *)
(* with a viewer, and the teams and members of the remote database.  A     *)
(* behaviour is one of the parts, the others are at rest or not there.     *)
(***************************************************************************)
EXTENDS SyncQueue, TLC

CONSTANTS
  OpenParts,
  Contents, NoContent, LastDay, PushDays, HistoryDays, RetentionDays, MaxClock, Doses \* TeamBoard

VARIABLES part, today, plan, board, sharing, saved, tick, planRow, boardRow, clock, mark, look, planFile,
          boardFile, clean, hit, dose,                                                 \* TeamBoard
          members, teams, issued, calls, lock, left, demand                            \* Membership

queueVars == vars
boardVars == <<today, plan, board, sharing, saved, tick, planRow, boardRow, clock, mark, look, planFile,
               boardFile, clean, hit, dose>>
memberVars == <<members, teams, issued, calls, lock, left, demand>>

(***************************************************************************)
(* A plan that is made and remade, one that is changed back, a board that  *)
(* is shared and not, and what gets old.                                   *)
(***************************************************************************)
Quiet == [edits |-> 0, days |-> 0, toggles |-> 0, ticks |-> 0, looks |-> 0, faults |-> 0]
Planning == [Quiet EXCEPT !.edits = 2, !.days = 1, !.ticks = 2, !.looks = 2, !.faults = 1]
Wavering == [Quiet EXCEPT !.edits = 3, !.ticks = 3, !.looks = 1, !.faults = 1]
Sharing == [Quiet EXCEPT !.toggles = 3, !.edits = 1, !.ticks = 3, !.looks = 1, !.faults = 1]
Aging == [Quiet EXCEPT !.edits = 1, !.days = 2, !.ticks = 2, !.looks = 2]
AllDoses == {Planning, Wavering, Sharing, Aging}
Board == INSTANCE TeamBoard

(* What is pushed is seen and kept: the days that are pushed are not more  *)
(* than those the viewer keeps, and than those the remote keeps            *)
(* (sync.ts:186-201).                                                      *)
ASSUME ContentAssumption == NoContent \notin Contents
ASSUME BoardAssumption ==
  /\ LastDay \in Nat \ {0} /\ MaxClock \in Nat /\ Doses \subseteq Board!Dose
  /\ PushDays \in Nat /\ HistoryDays \in Nat /\ RetentionDays \in Nat
  /\ PushDays <= HistoryDays /\ PushDays <= RetentionDays

(***************************************************************************)
(* Two people who create, join, leave and change the code; who rename      *)
(* themselves; whose transactions are cancelled.                           *)
(***************************************************************************)
Calling == [calls |-> 5, renames |-> 0, cancels |-> 0]
Renaming == [Calling EXCEPT !.calls = 4, !.renames = 1]
Cancelling == [Renaming EXCEPT !.calls = 3, !.cancels = 1]
Members == INSTANCE Membership WITH
  Users <- {"ann", "ben"}, Labels <- {"leon", "penguin"}, Slots <- 1..2, Demands <- {Calling, Renaming, Cancelling}

(***************************************************************************)
(* One part at a time                                                      *)
(***************************************************************************)
NoBoard == /\ today = 0 /\ plan = 0 /\ board = 0 /\ sharing = 0 /\ saved = 0 /\ tick = 0 /\ planRow = 0
           /\ boardRow = 0 /\ clock = 0 /\ mark = 0 /\ look = 0 /\ planFile = 0 /\ boardFile = 0 /\ clean = 0
           /\ hit = 0 /\ dose = 0

NoMembers == members = 0 /\ teams = 0 /\ issued = 0 /\ calls = 0 /\ lock = 0 /\ left = 0 /\ demand = 0

Parts ==
  /\ part \in OpenParts /\ Init
  /\ IF part = "board" THEN Board!Init ELSE NoBoard
  /\ IF part = "members" THEN Members!Init ELSE NoMembers

Step ==
  \/ part = "queue" /\ Next /\ UNCHANGED <<part, boardVars, memberVars>>
  \/ part = "board" /\ Board!Next /\ UNCHANGED <<part, queueVars, memberVars>>
  \/ part = "members" /\ Members!Next /\ UNCHANGED <<part, queueVars, boardVars>>

(* The queue is never idle for good, so its fairness is asked of a         *)
(* behaviour of the queue only; the database carries on with what it has   *)
(* begun.                                                                  *)
PartsSpec ==
  /\ Parts /\ [][Step]_<<part, queueVars, boardVars, memberVars>>
  /\ WF_vars(part = "queue" /\ JobStep) /\ WF_vars(part = "queue" /\ Interval)
  /\ WF_memberVars(part = "members" /\ Members!ServerStep)

TypesOK == CASE part = "queue" -> TypeOK
             [] part = "board" -> Board!TypeOK
             [] part = "members" -> Members!TypeOK

(* After a tick of the owner and a look of the viewer without an error the *)
(* viewer has the rows of the owner's plans and board, and they are what   *)
(* the owner has unless it forgot something it sent (sync.ts pushTodayPlan,          *)
(* pullTeammatePlans, pushStickyBoard, pullTeammateStickyBoards).          *)
TeammateSees == part = "board" => Board!PlansShown /\ Board!BoardShown

(* Whatever calls are under way at once, nobody is moved from one team to  *)
(* another, no team is left behind, no label is borne twice in a team, no  *)
(* code that was replaced opens one, and every call is answered            *)
(* (supabase/migrations/20260907000000_init.sql).                          *)
MembershipHolds ==
  /\ [](part = "members" => Members!NoneStranded /\ Members!LabelsApart /\ Members!OldCodesDead)
  /\ [][part = "members" => Members!NoHop]_memberVars
  /\ <>[](part = "members" => Members!CallsEnd)
=============================================================================
