---------------------------- MODULE MC_Scheduler ----------------------------
(* Small instances of Scheduler for TLC.                                    *)
EXTENDS Scheduler, TLC

CONSTANTS p1, p2, t1, t2

(* The plan's window closes when the review's opens; the reminder's stays open. *)
DayTimes == "daily_plan" :> 0 @@ "daily_review" :> 1 @@ "weekly_review" :> 1 @@
            "progress_reminder" :> 1
AllJobs == <<"daily_plan", "daily_review", "weekly_review", "progress_reminder">>
Both == {p1, p2}
TwoTicks == {t1, t2}

(* One process with all that is scheduled over two days; two that race for *)
(* one item of one day; and a plan whose window the review closes that is  *)
(* switched off.                                                           *)
OneProcess == [procs |-> {p1}, slots |-> {t1, t2}, enabled |-> Jobs,
               until |-> MaxClock, fails |-> 1, crashes |-> 0]
TwoProcesses == [procs |-> {p1, p2}, slots |-> {t1}, enabled |-> {"daily_review"},
                 until |-> DayLen - 1, fails |-> 1, crashes |-> 1]
PlanAlone == [OneProcess EXCEPT !.enabled = {"daily_plan"}, !.slots = {t1}]
AllLoads == {OneProcess, TwoProcesses, PlanAlone}
=============================================================================
