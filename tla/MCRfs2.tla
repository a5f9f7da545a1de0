------------------------------- MODULE MCRfs2 -------------------------------
(* Instances of Rfs2 for TLC.                                              *)
EXTENDS Rfs2, TLC

FileSymmetry == Permutations(Files)
=============================================================================
