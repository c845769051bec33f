--------------------------- MODULE OrderedDelivery ---------------------------
(***************************************************************************)
(* What event reading promises to a client, whatever its threads and       *)
(* queues: the handlers of an object are started for the messages that the *)
(* server has sent to it in the order sent, for none twice and past none,  *)
(* unless the object has been destroyed, and, once the display has failed, *)
(* for none any more.                                                      *)
(*                                                                         *)
(* A message is known by a number, which grows from one message to the     *)
(* next.                                                                   *)
(***************************************************************************)
EXTENDS Naturals

CONSTANTS
    Objects,   \* protocol objects
    Messages   \* numbers of messages

VARIABLES
    sent,      \* the last message sent
    pending,   \* pending[o]: the messages sent to o, not yet handled
    handling,  \* the messages whose handlers are running
    failed     \* the display has failed

vars == <<sent, pending, handling, failed>>

Init ==
    /\ sent = 0
    /\ pending = [o \in Objects |-> {}]
    /\ handling = {}
    /\ failed = FALSE

(* A message to an object, or one that is for no handler.                  *)
Send ==
    /\ \E m \in Messages :
          /\ m > sent /\ sent' = m
          /\ \/ UNCHANGED pending
             \/ \E o \in Objects : pending' = [pending EXCEPT ![o] = @ \cup {m}]
    /\ UNCHANGED <<handling, failed>>

(* Message m is the next one of object o.                                  *)
IsNext(o, m) == m \in pending[o] /\ \A n \in pending[o] : m <= n

Start(o) ==
    /\ ~failed
    /\ \E m \in pending[o] :
          /\ IsNext(o, m)
          /\ handling' = handling \cup {m}
          /\ pending' = [pending EXCEPT ![o] = @ \ {m}]
    /\ UNCHANGED <<sent, failed>>

(* The object was destroyed by the client: its next message is dropped.    *)
Drop(o) ==
    /\ ~failed
    /\ \E m \in pending[o] :
          IsNext(o, m) /\ pending' = [pending EXCEPT ![o] = @ \ {m}]
    /\ UNCHANGED <<sent, handling, failed>>

Finish(m) ==
    /\ handling' = handling \ {m}
    /\ UNCHANGED <<sent, pending, failed>>

Fail ==
    /\ failed' = TRUE
    /\ UNCHANGED <<sent, pending>>
    /\ \/ UNCHANGED handling
       \/ \E m \in handling : handling' = handling \ {m}

Next ==
    \/ Fail \/ Send
    \/ \E o \in Objects : Start(o) \/ Drop(o)
    \/ \E m \in handling : Finish(m)

Spec == Init /\ [][Next]_vars
=============================================================================
