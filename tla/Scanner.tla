------------------------------ MODULE Scanner -------------------------------
(***************************************************************************)
(* The scanner (scanner.c) and the library run one protocol: what the      *)
(* scanner emits for a message - its signature, its place in the array of  *)
(* types, the stub that sends it and the handler that gets it - has to be  *)
(* what connection.c expects of that message.                              *)
(*                                                                         *)
(* A message is its `since' and its arguments, each with the type that the *)
(* signature has for it ("n" is new_id, "h" is fd, "i" stands for int, uint*)
(* and fixed), `nullable', and the interface it names, or NULL.  Enums,    *)
(* descriptions and the layout of what is printed are left out.            *)
(***************************************************************************)
EXTENDS Closures

is_nullable_type(a) == a.type \in {"s", "o", "n", "a"}

(* start_element, of an argument: the rest is refused.                     *)
Accepted(a) ==
    /\ a.interface # NULL => a.type \in {"n", "o"}
    /\ a.nullable => is_nullable_type(a)

(* A new_id whose interface the application chooses, as in wl_registry.bind*)
Generic(a) == a.type = "n" /\ a.interface = NULL

-----------------------------------------------------------------------------
(* emit_messages, the signature                                            *)
EmitArg(a) ==
    (IF is_nullable_type(a) /\ a.nullable THEN <<"?">> ELSE <<>>)
    \o (IF Generic(a) THEN <<"s", "i">> ELSE <<>>)
    \o <<a.type>>

Signature(m) ==
    (IF m.since > 1 THEN <<"since">> ELSE <<>>)
    \o FlattenSeq([k \in 1 .. Len(m.args) |-> EmitArg(m.args[k])])

(* emit_types_forward_declarations: all_null and null_run_length.  The     *)
(* messages of a protocol are here in the order in which they are emitted. *)
all_null(m) == \A k \in 1 .. Len(m.args) : m.args[k].interface = NULL

null_run_length(messages) ==
    FoldLeft(LAMBDA n, m : IF all_null(m) /\ Len(m.args) > n THEN Len(m.args) ELSE n,
             0, messages)

(* emit_types: the entries of one message, and the type_index of each, from*)
(* 0, the entries before it being those of the other messages.             *)
EmitTypes(m) ==
    IF all_null(m) THEN <<>>
    ELSE [k \in 1 .. Len(m.args) |-> m.args[k].interface]

types(messages) ==
    [k \in 1 .. null_run_length(messages) |-> NULL]
    \o FlattenSeq([k \in 1 .. Len(messages) |-> EmitTypes(messages[k])])

(* Mutation: the place of a message is counted from the end of the run for *)
(* messages that share the run, too.                                       *)
TypeIndexCountsAll(messages, k) ==
    IF all_null(messages[k]) THEN 0
    ELSE null_run_length(messages)
         + FoldLeft(LAMBDA n, m : n + Len(m.args), 0, SubSeq(messages, 1, k - 1))

type_index(messages, k) ==
    IF all_null(messages[k]) THEN 0
    ELSE null_run_length(messages)
         + FoldLeft(LAMBDA n, m : n + Len(EmitTypes(m)), 0, SubSeq(messages, 1, k - 1))

-----------------------------------------------------------------------------
(* What C passes for a parameter that is declared as the scanner declares  *)
(* it: 32 bits or a pointer.                                               *)
emit_type(a) == IF a.type \in {"i", "h", "n"} THEN "word" ELSE "pointer"

Each(Op(_), m) == FlattenSeq([k \in 1 .. Len(m.args) |-> Op(m.args[k])])

(* emit_stubs: what a request's stub passes to wl_proxy_marshal.  There is *)
(* none for a request with two new ids.                                    *)
HasStub(m) == Cardinality({k \in 1 .. Len(m.args) : m.args[k].type = "n"}) <= 1

emit_stubs(m) ==
    Each(LAMBDA a : IF Generic(a) THEN <<"pointer", "word", "pointer">>
                    ELSE IF a.type = "n" THEN <<"pointer">>
                    ELSE <<emit_type(a)>>, m)

(* emit_event_wrappers: what an event's passes to wl_resource_post_event   *)
emit_event_wrappers(m) ==
    Each(LAMBDA a : IF a.type \in {"n", "o"} THEN <<"pointer">>
                    ELSE <<emit_type(a)>>, m)

(* emit_structs: the parameters of the handler, behind the first two       *)
emit_structs(m, side) ==
    Each(LAMBDA a : IF side = "server" /\ Generic(a) THEN <<"pointer", "word", "word">>
                    ELSE IF side = "client" /\ a.type = "n" THEN <<"pointer">>
                    ELSE <<emit_type(a)>>, m)

-----------------------------------------------------------------------------
(* What connection.c makes of an argument with this letter: what           *)
(* wl_argument_from_va_list takes, and what convert_arguments_to_ffi gives.*)
wl_argument_from_va_list(type) == IF type \in {"i", "h"} THEN "word" ELSE "pointer"

convert_arguments_to_ffi(type, side) ==
    IF type \in {"i", "h"} \/ (type = "n" /\ side = "server") THEN "word" ELSE "pointer"

(* The argument that the i-th letter of a signature comes from             *)
Origins(m) ==
    Each(LAMBDA a : IF Generic(a) THEN <<a, a, a>> ELSE <<a>>, m)

(* What a protocol has to observe though the scanner does not ask for it,  *)
(* and wayland.xml does: a generic new id, which is three letters and one  *)
(* entry of types, has no argument with an interface beside it, and the run*)
(* of NULLs happens to be as long as its signature.                        *)
HasGeneric(m) == \E k \in 1 .. Len(m.args) : Generic(m.args[k])

GenericsFit(messages) ==
    \A k \in 1 .. Len(messages) :
        HasGeneric(messages[k]) =>
            /\ all_null(messages[k])
            /\ Len(Origins(messages[k])) <= null_run_length(messages)

(* wl_closure_lookup_objects, create_proxies and wl_closure_print find at  *)
(* types[type_index + i] the interface that the protocol gives the i-th    *)
(* argument, inside the array.                                             *)
TypesFound(messages) ==
    GenericsFit(messages) =>
        \A k \in 1 .. Len(messages) :
            LET d == Details(Signature(messages[k]))
                at(i) == type_index(messages, k) + i
            IN  \A i \in 1 .. Len(d) :
                    d[i].type \in {"o", "n"} =>
                        /\ at(i) <= Len(types(messages))
                        /\ types(messages)[at(i)] = Origins(messages[k])[i].interface

(* A stub passes what is taken off its arguments, a wrapper does, and a    *)
(* handler declares what it is called with; the signature says of which    *)
(* arguments NULL is allowed.  This is not so of events with a generic new *)
(* id and of a generic new id that may be NULL; wayland.xml has neither.   *)
CallsAgree(m) ==
    LET d == Details(Signature(m))
        Taken == [i \in 1 .. Len(d) |-> wl_argument_from_va_list(d[i].type)]
        Given(side) == [i \in 1 .. Len(d) |-> convert_arguments_to_ffi(d[i].type, side)]
    IN  /\ HasStub(m) => emit_stubs(m) = Taken
        /\ emit_structs(m, "server") = Given("server")
        /\ ~HasGeneric(m) =>
              /\ emit_event_wrappers(m) = Taken
              /\ emit_structs(m, "client") = Given("client")
        /\ (\A k \in 1 .. Len(m.args) : Generic(m.args[k]) => ~m.args[k].nullable) =>
              \A i \in 1 .. Len(d) : d[i].nullable = Origins(m)[i].nullable
=============================================================================
