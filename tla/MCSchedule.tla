----------------------------- MODULE MCSchedule -----------------------------
(* The schedule on small instances: the constants are set in the cfg.       *)
EXTENDS Schedule
=============================================================================
