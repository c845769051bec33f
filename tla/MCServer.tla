------------------------------ MODULE MCServer ------------------------------
(* Instances of Server for TLC.                                            *)
EXTENDS Server

ClientSymmetry == Permutations(Clients)
=============================================================================
