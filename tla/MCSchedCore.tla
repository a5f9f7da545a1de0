----------------------------- MODULE MCSchedCore -----------------------------
(* Instances of SchedCore for TLC. *)
EXTENDS SchedCore

AllPriorities == 0..2
=============================================================================
