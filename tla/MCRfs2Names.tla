---------------------------- MODULE MCRfs2Names -----------------------------
(* Instances of Rfs2Names for TLC.                                         *)
EXTENDS Rfs2Names, TLC

NameSymmetry == Permutations(Names)
=============================================================================
