------------------------------ MODULE Closures ------------------------------
(***************************************************************************)
(* Messages in memory and on the wire (connection.c): what                 *)
(* wl_closure_marshal accepts, serialize_closure writes,                   *)
(* wl_connection_demarshal reads back, wl_closure_lookup_objects finds and *)
(* wl_closure_invoke passes on.                                            *)
(*                                                                         *)
(* A signature is a sequence of characters, `i' standing for `u' and `f'   *)
(* too.  A word of the wire has a text and a number: it is the k-th word of*)
(* the bytes of that text, or the number k if the text is NULL.            *)
(***************************************************************************)
EXTENDS WlMap, FiniteSets, SequencesExt

CONSTANTS
    WordSize,            \* bytes of a word (4 in the code)
    WL_CLOSURE_MAX_ARGS,
    Texts,               \* strings and arrays: [bytes : Nat, nul : BOOLEAN]
    Interface,           \* of the objects that entries of a wl_map point to
    NULL

Types == {"i", "s", "o", "n", "a", "h"}

(* get_next_argument and arg_count_for_signature: the since version and    *)
(* what else is no type is skipped, and a `?' makes the next one nullable. *)
Details(sig) ==
    LET Arg(d, c) ==
            IF c \in Types
            THEN [args |-> Append(d.args, [type |-> c, nullable |-> d.nullable]),
                  nullable |-> FALSE]
            ELSE [d EXCEPT !.nullable = @ \/ c = "?"]
    IN  FoldLeft(Arg, [args |-> <<>>, nullable |-> FALSE], sig).args

wl_closure_marshal_accepts(sig, args) ==
    LET d == Details(sig)
    IN  /\ Len(d) <= WL_CLOSURE_MAX_ARGS
        /\ \A i \in 1 .. Len(d) :
              args[i] = NULL => d[i].nullable \/ d[i].type \in {"i", "h"}

DIV_ROUNDUP(n, a) == (n + a - 1) \div a

(* Mutation: the terminating NUL is not counted.                           *)
SizeWithoutNul(type, text) == text.bytes

(* strlen(s) + 1, or the size of the array                                 *)
SizeOf(type, text) == text.bytes + (IF type = "s" THEN 1 ELSE 0)

(* buffer_size_for_closure, of one argument                                *)
WordsFor(type, arg) ==
    CASE type = "h" -> 0
      [] type \in {"i", "o", "n"} -> 1
      [] OTHER -> IF arg = NULL THEN 1
                  ELSE 1 + DIV_ROUNDUP(SizeOf(type, arg), WordSize)

buffer_size_for_closure(sig, args) ==
    FoldLeft(+, 2, [i \in 1 .. Len(args) |-> WordsFor(Details(sig)[i].type, args[i])])

Word(n) == [text |-> NULL, k |-> n]

(* What serialize_closure writes of one argument                           *)
Written(type, arg) ==
    CASE type = "h" -> <<>>
      [] type = "i" -> <<Word(arg)>>
      [] type \in {"o", "n"} -> <<Word(IF arg = NULL THEN 0 ELSE arg.id)>>
      [] OTHER ->
           IF arg = NULL THEN <<Word(0)>>
           ELSE <<Word(SizeOf(type, arg))>>
                \o [k \in 1 .. DIV_ROUNDUP(SizeOf(type, arg), WordSize) |->
                       [text |-> arg, k |-> k]]

(* The two words of the header, and the arguments, if they fit             *)
serialize_closure(sig, args, buffer_count) ==
    LET words == FlattenSeq([i \in 1 .. Len(args) |->
                                Written(Details(sig)[i].type, args[i])])
    IN  [ok    |-> 2 + Len(words) <= buffer_count,
         words |-> <<Word(0), Word(0)>> \o words]

-----------------------------------------------------------------------------
(* wl_connection_demarshal.  p is the next word, far the last one read, and*)
(* objects the reader's map, in which it reserves the new ids.             *)
Reader(objects, fds) ==
    [ok |-> TRUE, p |-> 3, far |-> 2, args |-> <<>>, fds |-> fds, objects |-> objects]

Took(r, n, arg) ==
    [r EXCEPT !.p = @ + n, !.far = @ + n, !.args = Append(@, arg)]

Refused(r) == [r EXCEPT !.ok = FALSE]

(* s[length - 1] == 0.  A text ends where it says; what is elsewhere in the*)
(* words of a message that nobody of this library wrote is taken for a NUL,*)
(* upon which the reader goes on.                                          *)
EndsWithNul(text, length) ==
    text # NULL /\ length = text.bytes + 1 => text.nul

(* Mutation: the length of a string is not compared with the message's.    *)
ReadTextFar(r, type, words) ==
    LET length == words[r.p].k
        n      == DIV_ROUNDUP(length, WordSize)
    IN  IF length = 0 THEN Took(r, 1, NULL)
        ELSE Took(r, 1 + n, IF r.p + n <= Len(words) THEN words[r.p + 1].text ELSE NULL)

(* A string has its length checked and its last byte, an array its length; *)
(* an array of length 0 is an empty one.  DIV_ROUNDUP is computed in a     *)
(* size_t, which is taken to be wider than a length of 32 bits.            *)
ReadText(r, type, words) ==
    LET length == words[r.p].k
        n      == DIV_ROUNDUP(length, WordSize)
        text   == words[r.p + 1].text
    IN  IF length = 0
        THEN Took(r, 1, IF type = "s" THEN NULL ELSE [bytes |-> 0, nul |-> FALSE])
        ELSE IF r.p + n > Len(words) THEN Refused(r)
        ELSE IF type = "s" /\ ~EndsWithNul(text, length) THEN Refused(r)
        ELSE Took(r, 1 + n, text)

ReadId(r, d, id) ==
    IF id = 0 /\ ~d.nullable THEN Refused(r)
    ELSE IF d.type = "o" THEN Took(r, 1, id)
    ELSE IF ~CanReserve(r.objects, id) THEN Refused(r)
    ELSE Took([r EXCEPT !.objects = wl_map_reserve_new(@, id)], 1, id)

ReadFd(r) ==
    IF r.fds = <<>> THEN Refused(r)
    ELSE [r EXCEPT !.args = Append(@, Head(r.fds)), !.fds = Tail(@)]

wl_connection_demarshal(sig, words, fds, objects) ==
    LET Next(r, d) ==
            IF ~r.ok THEN r
            ELSE IF d.type = "h" THEN ReadFd(r)
            ELSE IF r.p > Len(words) THEN Refused(r)
            ELSE CASE d.type = "i" -> Took(r, 1, words[r.p].k)
                   [] d.type \in {"o", "n"} -> ReadId(r, d, words[r.p].k)
                   [] OTHER -> ReadText(r, d.type, words)
    IN  IF Len(Details(sig)) > WL_CLOSURE_MAX_ARGS
        THEN Refused(Reader(objects, fds))
        ELSE FoldLeft(Next, Reader(objects, fds), Details(sig))

-----------------------------------------------------------------------------
(* wl_closure_lookup_objects, of one argument with the interface that the  *)
(* message wants of it, or NULL.                                           *)
Lookup(objects, id, wanted) ==
    LET object == wl_map_lookup(objects, id)
    IN  IF object = Zombie \/ id = 0 THEN [ok |-> TRUE, object |-> NULL]
        ELSE IF object = 0 THEN [ok |-> FALSE, object |-> NULL]
        ELSE [ok     |-> wanted \in {NULL, Interface[object]},
              object |-> [id |-> id, interface |-> Interface[object]]]

(* What the handler is called with: of a new object the id, whose proxy    *)
(* create_proxies has made when it is the client's.                        *)
Invoked(objects, type, arg) ==
    IF type = "o" THEN Lookup(objects, arg, NULL).object ELSE arg

-----------------------------------------------------------------------------
Ids(objects) ==
    UNION {{Base(space) + k - 1 : k \in 1 .. Len(objects[space])} : space \in Sides}

(* The objects that the receiver has, and those it has destroyed though the*)
(* sender may not know.                                                    *)
Known(objects) ==
    {Lookup(objects, id, NULL).object : id \in Ids(objects)} \ {NULL}

Zombies(objects) ==
    {[id |-> id, interface |-> NULL] :
        id \in {z \in Ids(objects) : wl_map_lookup(objects, z) = Zombie}}

(* What can be an argument.  That the sender of a new id knows that it is  *)
(* unused and not beyond the next is shown in ObjectLife.  A string without*)
(* a NUL is not of this library's making.                                  *)
Values(type, ints, news, fds, objects) ==
    CASE type = "i" -> ints
      [] type = "h" -> fds
      [] type = "o" -> Known(objects) \cup Zombies(objects) \cup {NULL}
      [] type = "n" -> {[id |-> id, interface |-> NULL] : id \in news} \cup {NULL}
      [] OTHER -> {t \in Texts : type = "a" => ~t.nul} \cup {NULL}

(* An argument as it arrives: a zombie as NULL, no array as an empty one.  *)
Arrives(objects, type, arg) ==
    CASE type = "o" -> IF arg \in Known(objects) THEN arg ELSE NULL
      [] type = "n" -> IF arg = NULL THEN 0 ELSE arg.id
      [] type = "a" -> IF arg = NULL THEN [bytes |-> 0, nul |-> FALSE] ELSE arg
      [] OTHER -> arg

FdsOfArgs(d, args) ==
    LET Own(i) == IF d[i].type = "h" THEN <<args[i]>> ELSE <<>>
    IN  FlattenSeq([i \in 1 .. Len(d) |-> Own(i)])

Sent(sig, args) ==
    serialize_closure(sig, args, buffer_size_for_closure(sig, args))

StringsEnd(sig, args) ==
    \A i \in 1 .. Len(args) :
        Details(sig)[i].type = "s" /\ args[i] # NULL => args[i].nul

(* An event without its nullable new id: wl_closure_marshal lets it pass,  *)
(* but 0 is an id of the client's own space, and wl_map_reserve_new refuses*)
(* that to the client.  The server has an unused entry for id 0.           *)
NoIdForClient(sig, args, objects) ==
    /\ objects.side = "client"
    /\ \E i \in 1 .. Len(args) : Details(sig)[i].type = "n" /\ args[i] = NULL

(* Whatever wl_closure_marshal accepts fits into the buffer that is        *)
(* allocated for it, is taken apart again word by word and descriptor by   *)
(* descriptor, leaving those of the next message, and reaches the handler  *)
(* as it was, on either side of the connection; but for NoIdForClient,     *)
(* which the reader always refuses.                                        *)
ArrivesAsSent(sig, args, more, objects) ==
    wl_closure_marshal_accepts(sig, args) /\ StringsEnd(sig, args) =>
        LET d == Details(sig)
            w == Sent(sig, args)
            r == wl_connection_demarshal(sig, w.words, FdsOfArgs(d, args) \o more, objects)
        IN  /\ w.ok
            /\ r.ok <=> ~NoIdForClient(sig, args, objects)
            /\ r.ok =>
                  /\ r.p = Len(w.words) + 1 /\ r.fds = more
                  /\ \A i \in 1 .. Len(d) :
                        Invoked(objects, d[i].type, r.args[i])
                            = Arrives(objects, d[i].type, args[i])

(* Of a message whose words may be any, nothing behind the end is read (the*)
(* log message of one that is too short aside, which prints the word there,*)
(* connection.c:667), and no id is reserved that was in use or is of the   *)
(* reader's own space, nor is a gap left in the table, whether the message *)
(* is refused or accepted.                                                 *)
Contained(sig, words, fds, objects) ==
    LET r == wl_connection_demarshal(sig, words, fds, objects)
    IN  /\ r.far <= Len(words)
        /\ r.objects[objects.side] = objects[objects.side]
        /\ \A space \in Sides :
              /\ IsPrefix(objects[space], r.objects[space])
              /\ Len(r.objects[space]) - Len(objects[space])
                    <= Cardinality({i \in DOMAIN Details(sig) : Details(sig)[i].type = "n"})

(* A message that ends before its signature does is refused, and so is one *)
(* with a string that does not end; one with other lengths or ids than it  *)
(* was sent with is contained.                                             *)
NeverReadBeyond(sig, args, numbers, objects) ==
    LET w   == Sent(sig, args).words
        fds == FdsOfArgs(Details(sig), args)
    IN  \A cut \in 2 .. Len(w) :
            LET short == SubSeq(w, 1, cut)
            IN  /\ wl_connection_demarshal(sig, short, fds, objects).ok
                        => cut = Len(w) /\ StringsEnd(sig, args)
                /\ Contained(sig, short, fds, objects)
                /\ cut > 2 => \A n \in numbers :
                      Contained(sig, [w EXCEPT ![cut] = Word(n)], fds, objects)
=============================================================================
