------------------------------ MODULE MCDevIrq ------------------------------
(* Instances of DevIrq for TLC. *)
EXTENDS DevIrq, TLC

CONSTANTS nic, disk

TwoDevices == {nic, disk}
OwnLines == nic :> 10 @@ disk :> 11
=============================================================================
