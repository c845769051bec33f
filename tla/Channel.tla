------------------------------ MODULE Channel -------------------------------
(***************************************************************************)
(* What a connection promises: messages arrive whole, in the order in which*)
(* they were accepted, each once and each with the file descriptors it was *)
(* sent with.  Once a message could not be accepted, and some of its       *)
(* descriptors perhaps were, nothing is promised about descriptors.        *)
(***************************************************************************)
EXTENDS Sequences

CONSTANT Messages    \* messages: records with words and fds

VARIABLES
    queue,           \* accepted and not yet received
    last,            \* the message received last
    refused          \* a message could not be accepted

vars == <<queue, last, refused>>

Init ==
    /\ queue = <<>>
    /\ last = [words |-> <<>>, fds |-> <<>>]
    /\ refused = FALSE

Accept(m) ==
    /\ queue' = Append(queue, m)
    /\ UNCHANGED <<last, refused>>

Refuse ==
    /\ refused' = TRUE
    /\ UNCHANGED <<queue, last>>

Receive ==
    /\ queue # <<>>
    /\ queue' = Tail(queue)
    /\ last'.words = Head(queue).words
    /\ ~refused => last'.fds = Head(queue).fds
    /\ UNCHANGED refused

Next == Refuse \/ Receive \/ \E m \in Messages : Accept(m)

Spec == Init /\ [][Next]_vars
=============================================================================
