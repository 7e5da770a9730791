---------------------------- MODULE MCScheduler ----------------------------
(***************************************************************************)
(* One CPU: the process of cpu_initialize and the ones made by             *)
(* scheduler_execute.                                                      *)
(***************************************************************************)
EXTENDS Scheduler

CONSTANTS p1, p2, p3
=============================================================================
