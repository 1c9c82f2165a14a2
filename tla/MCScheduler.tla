----------------------------- MODULE MCScheduler -----------------------------
(* Small instances of the task manager for TLC.                            *)
EXTENDS SchedulerInv
=============================================================================
