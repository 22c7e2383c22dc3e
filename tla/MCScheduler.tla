---------------------------- MODULE MCScheduler ----------------------------
(* Small instances of Scheduler and of its refinement for TLC. *)
EXTENDS SchedulerPlan
=============================================================================
