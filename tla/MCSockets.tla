------------------------------ MODULE MCSockets ------------------------------
(* An instance of Sockets for TLC: a compositor with two sockets and one   *)
(* with one.                                                               *)
EXTENDS Sockets, TLC

CONSTANTS a, b, s1, s2, s3

Owners == s1 :> a @@ s2 :> a @@ s3 :> b

SocketsOfA == Permutations({s1, s2})
=============================================================================
