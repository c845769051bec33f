----------------------------- MODULE MCRegistry -----------------------------
(* An instance of Registry for TLC.                                        *)
EXTENDS Registry, TLC

CONSTANTS c1, c2, r1, r2

OwnerOf == r1 :> c1 @@ r2 :> c2
Budget  == c1 :> 3 @@ c2 :> 2
=============================================================================
