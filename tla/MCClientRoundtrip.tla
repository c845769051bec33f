-------------------------- MODULE MCClientRoundtrip --------------------------
(* Instances of ClientRoundtrip for TLC; q1 is the display's default queue.*)
EXTENDS ClientRoundtrip, TLC

CONSTANTS t1, t2, t3, q1, q2, cb1, cb2

TwoHomes      == t1 :> q1 @@ t2 :> q2
ThreeHomes    == t1 :> q1 @@ t2 :> q2 @@ t3 :> q2
SecondThread  == t2 :> cb1
FirstThread   == t1 :> cb1
DefaultQueue1 == cb1 :> q1
CallbackAndOther == cb1 :> q1 @@ cb2 :> q2
=============================================================================
