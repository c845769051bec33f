--------------------------- MODULE ClientReadOrder ---------------------------
(***************************************************************************)
(* ClientRead implements OrderedDelivery for every object that is not moved*)
(* between queues: the messages pending for an object are those in its     *)
(* queue and those that are still in the socket.                           *)
(***************************************************************************)
EXTENDS ClientRead

QueueOf(o) == IF o = display THEN display_queue ELSE proxy_queue[o]

(* The messages in s that a handler of object o is waiting for             *)
Waiting(o, s) ==
    {s[i].id : i \in {j \in 1 .. Len(s) :
                        s[j].obj = o /\ s[j].kind \in {"event", "error"}}}

PendingFor(o) == Waiting(o, queue[QueueOf(o)]) \cup Waiting(o, wire)

Ordered == Objects \ Movable

Running == {t \in Threads : pc[t] \in {"handler", "perr"}}

Delivery == INSTANCE OrderedDelivery WITH
    Objects  <- Ordered,
    Messages <- 1 .. MaxEvents,
    sent     <- sent,
    pending  <- [o \in Ordered |-> PendingFor(o)],
    handling <- {cur[t].id : t \in {u \in Running : cur[u].obj \in Ordered}},
    failed   <- last_error # "none"

(* Every behaviour of the threads delivers each object's messages in the   *)
(* order sent, each once, and none after an error (queue_event appends,    *)
(* dispatch_event takes from the front).                                   *)
DeliversInOrder == Delivery!Spec
=============================================================================
