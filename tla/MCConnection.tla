---------------------------- MODULE MCConnection ----------------------------
(* An instance of Connection, and of Closures and Scanner, for TLC.        *)
EXTENDS Connection

CONSTANTS NULL, fd1, fd2

Empty  == [bytes |-> 0, nul |-> TRUE]
Four   == [bytes |-> 4, nul |-> TRUE]
NoText == [bytes |-> 0, nul |-> FALSE]
Five   == [bytes |-> 5, nul |-> FALSE]

C == INSTANCE Scanner WITH
    WordSize <- 4, WL_CLOSURE_MAX_ARGS <- 3,
    Texts    <- {Empty, Four, NoText, Five},
    Interface <- <<NULL, "a", "b">>, WL_SERVER_ID_START <- 8

Encodings == {<<c>> : c \in C!Types} \cup {<<"?", c>> : c \in {"s", "o", "n", "a"}}

(* A client with a zombie, to which the server may give the ids 8, which it*)
(* has had before, and 10; and a server that reads the new ids 3 and 4.    *)
ClientObjects ==
    [side |-> "client", client |-> <<0, 2, C!Zombie>>, server |-> <<0, 3>>, free_list |-> 0]

ServerObjects ==
    [side |-> "server", client |-> <<0, 2, 3, 0>>, server |-> <<>>, free_list |-> 0]

Readers == {[objects |-> ClientObjects, news |-> {8, 10}],
            [objects |-> ServerObjects, news |-> {3, 4}]}

(* Up to two arguments of every type, and three of some; "2" is a version. *)
Signatures ==
    {<<"2">>} \cup Encodings \cup {e \o f : e, f \in Encodings}
    \cup {<<"h">> \o e \o <<"h">> : e \in Encodings}
    \cup {<<"2", "i", "i", "i", "i">>}

(* A sender gives no id twice. *)
ArgsOf(sig, reader) ==
    LET d == C!Details(sig)
        One(S, arg) ==
            {Append(args, v) : args \in S,
                v \in C!Values(arg.type, {0, 1}, reader.news, {fd1, fd2}, reader.objects)}
    IN  {args \in FoldLeft(One, {<<>>}, d) :
            \A i, j \in DOMAIN d :
                d[i].type = "n" /\ d[j].type = "n" /\ args[i] = args[j] => i = j \/ args[i] = NULL}

(* ArrivesAsSent of each of these closures; nothing that is sent changes   *)
(* them, and they are looked at before.                                    *)
ClosuresArrive ==
    tried = 0 =>
        \A sig \in Signatures, reader \in Readers : \A args \in ArgsOf(sig, reader) :
            C!ArrivesAsSent(sig, args, <<fd2>>, reader.objects)

(* NeverReadBeyond, with lengths that are none, fit, or do not by one byte *)
(* or by far, and with ids in use, unused, the next, one too far and of    *)
(* either side.                                                            *)
MessagesContained ==
    tried = 0 =>
        \A sig \in Signatures, reader \in Readers : \A args \in ArgsOf(sig, reader) :
            C!NeverReadBeyond(sig, args, {0, 1, 3, 4, 5, 8, 10, 11, 1000000}, reader.objects)

-----------------------------------------------------------------------------
Args == {a \in [type : C!Types, nullable : BOOLEAN, interface : {NULL, "a", "b"}] :
            C!Accepted(a)}

MessagesOf(S) == {[since |-> 1, args |-> args] : args \in BoundedSeq(S, 2)}

Word == [type |-> "i", nullable |-> FALSE, interface |-> NULL]

(* Three messages of up to two arguments, or with four words.              *)
Protocols ==
    LET small == MessagesOf({a \in Args : a.type \in {"i", "o", "n"} /\ ~a.nullable
                                          /\ (a.type = "n" => a.interface # "b")})
        long  == [since |-> 2, args |-> <<Word, Word, Word, Word>>]
    IN  [1 .. 3 -> small \cup {long}]

(* TypesFound, of each protocol, and CallsAgree, of each message.          *)
EmittedCodeAgrees ==
    tried = 0 =>
        /\ \A messages \in Protocols : C!TypesFound(messages)
        /\ \A m \in MessagesOf(Args) : C!CallsAgree(m)
=============================================================================
