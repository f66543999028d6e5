------------------------------- MODULE MCWait -------------------------------
(* Small instance of CmWait for TLC.                                       *)
EXTENDS CmWait, TLC

Symmetry == Permutations(Tasks)
=============================================================================
