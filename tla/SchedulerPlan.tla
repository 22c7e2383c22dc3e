----------------------------- MODULE SchedulerPlan -----------------------------
(* That the timer table of Scheduler implements the plan of DayPlan. *)
EXTENDS Scheduler

(* The occurrence to come is the one of the armed closure among the closures t of
   an id. *)
DueOf(t) ==
    IF \E h \in Handles : t[h].pc = "armed"
    THEN t[CHOOSE h \in Handles : t[h].pc = "armed"].left
    ELSE None

Due == [id \in Ids |-> DueOf(task[id])]

Plan == INSTANCE DayPlan WITH
    list <- schedules, clock <- now, alive <- up,
    due <- Due, running <- {id \in Ids : Running(id)}

(* Each step of the scheduler is a step of the plan, or changes nothing of it, as
   long as the list is not replaced during a run: edits, skipped and failed runs,
   run-now, crashes and restarts are all covered, the clock included. *)
FollowsPlan == Plan!Init /\ [][Plan!Next \/ overlapped' # {}]_(Plan!planVars)
===============================================================================
