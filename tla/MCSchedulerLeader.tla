------------------------- MODULE MCSchedulerLeader -------------------------
(***************************************************************************)
(* SchedulerLeader for TLC: two processes, one after or beside the other,  *)
(* with the time to live and the patience of the code, in heartbeats.      *)
(***************************************************************************)
EXTENDS SchedulerLeader

CONSTANTS p1, p2, job
=============================================================================
