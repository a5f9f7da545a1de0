------------------------------ MODULE MCTaskLife ------------------------------
(* Instances of TaskLife for TLC. *)
EXTENDS TaskLife

NormalOnly == {1}
OneCode == {5}
=============================================================================
