-------------------------------- MODULE MCCap --------------------------------
(* Instances of Cap for TLC. *)
EXTENDS Cap

TwoTasks == 1..2
TwoMasks == {Rights, {"READ", "GRANT"}}
=============================================================================
