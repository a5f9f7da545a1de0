----------------------------- MODULE MCRunQueue -----------------------------
(* Instances of RunQueue for TLC. *)
EXTENDS RunQueue

NormalAndHigh == {1, 2}
NormalOnly == {1}
=============================================================================
