---------------------------- MODULE MCResources ----------------------------
(* An instance of Resources for TLC.                                       *)
EXTENDS Resources, TLC

Symmetry == Permutations(Listeners)
=============================================================================
