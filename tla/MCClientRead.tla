---------------------------- MODULE MCClientRead ----------------------------
(* Instances of ClientRead for TLC.                                        *)
EXTENDS ClientRead, TLC

CONSTANTS t1, t2, t3, q1, q2, p1, p2

ThreePrivate == t1 :> q1 @@ t2 :> q2 @@ t3 :> q2
TwoPrivate   == t1 :> q1 @@ t2 :> q2
ProxyHome    == p1 :> q1 @@ p2 :> q2
OneProxy     == p1 :> q1
=============================================================================
