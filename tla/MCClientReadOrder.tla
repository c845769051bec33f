-------------------------- MODULE MCClientReadOrder --------------------------
(* An instance of ClientReadOrder for TLC.                                 *)
EXTENDS MCClientRead, ClientReadOrder
=============================================================================
