------------------------------ MODULE Resources ------------------------------
(***************************************************************************)
(* The resources of one client (wayland-server.c) and their destruction:   *)
(* wl_resource_destroy, wl_client_destroy and wl_signal_emit call listeners*)
(* and destroy handlers, and those remove listeners and destroy further    *)
(* resources, so that calls are nested over the lists and the id table they*)
(* are changing.  `stack' holds the calls in progress.                     *)
(***************************************************************************)
EXTENDS WlMap, SequencesExt

CONSTANTS
    MaxResources,  \* bound: resources that are ever created
    Listeners,
    NoListener,    \* the head of a list, where a loop over it ends
    Wild,          \* what stands behind the link of a removed listener
    RemovesNext,   \* whether a callback may remove the listener that a loop
                   \* in progress is going to call next
    AddsLate,      \* whether it may add one to a signal being emitted
    CreatesLate    \* whether it may create resources during wl_client_destroy

ASSUME ResourcesAssumption ==
    /\ MaxResources \in Nat \ {0}
    /\ {NoListener, Wild} \cap Listeners = {} /\ NoListener # Wild
    /\ {RemovesNext, AddsLate, CreatesLate} \subseteq BOOLEAN

Client      == 0                   \* as the owner of client->destroy_signal
Display     == Zombie + 1          \* the wl_display resource, always first
ResourceSet == Display .. Display + MaxResources
Signals     == ResourceSet \cup {Client}

VARIABLES
    objects,           \* client->objects
    live,              \* resources and client that are allocated
    made,              \* the last resource created
    ids,               \* ids[r]: resource->object.id
    display_resource,  \* whether client->display_resource is set
    freed_ids,         \* ids whose delete_id has been queued, not used again
    listener_list,     \* listener_list[s]: the list of a destroy signal
    told,              \* ghost: how often a listener was called since linked
    stack              \* calls in progress, the innermost last

tables == <<objects, made, ids, display_resource, freed_ids>>
vars   == <<tables, live, listener_list, told, stack>>

Linked(s) == {listener_list[s][i] : i \in 1 .. Len(listener_list[s])}

(* wl_client_create: entry 0 of the table is NULL, and bind_display puts   *)
(* the display resource at 1.                                              *)
Init ==
    /\ objects = wl_map_insert_at(wl_map_insert_at(wl_map_init("server"), 0, 0),
                                  1, Display)
    /\ live = {Client, Display} /\ made = Display
    /\ ids = [r \in ResourceSet |-> IF r = Display THEN 1 ELSE 0]
    /\ display_resource = TRUE
    /\ freed_ids = {}
    /\ listener_list = [s \in Signals |-> <<>>]
    /\ told = [l \in Listeners |-> 0]
    /\ stack = <<>>

-----------------------------------------------------------------------------
(* The stack.                                                              *)

(* A frame is a function, what it works on and where it is in it; a loop   *)
(* over listeners has its current and its next one.                        *)
Frame(fn, of, at) == [fn |-> fn, of |-> of, at |-> at, l |-> NoListener,
                      next |-> NoListener]

Top       == stack[Len(stack)]
Popped    == SubSeq(stack, 1, Len(stack) - 1)
In(fn)    == stack # <<>> /\ Top.fn = fn
Going(at) == [stack EXCEPT ![Len(stack)].at = at]

Dying(s) == \E i \in 1 .. Len(stack) :
               stack[i].fn \in {"wl_client_destroy", "destroy_resource"}
               /\ stack[i].of = s

(* The compositor's own code: its main loop or a callback.                 *)
Compositor == Client \in live /\ (stack = <<>> \/ In("callback"))

-----------------------------------------------------------------------------
(* wl_signal_emit.                                                         *)

(* wl_list_remove leaves no way on from a listener.                        *)
After(s, l) ==
    IF l = NoListener THEN NoListener
    ELSE IF l \notin Linked(s) THEN Wild
    ELSE LET i == CHOOSE k \in 1 .. Len(listener_list[s]) : listener_list[s][k] = l
         IN  IF i = Len(listener_list[s]) THEN NoListener ELSE listener_list[s][i + 1]

First(s) == IF listener_list[s] = <<>> THEN NoListener ELSE Head(listener_list[s])

EmitFrame(s) == [Frame("wl_signal_emit", s, "loop")
                 EXCEPT !.l = First(s), !.next = After(s, First(s))]

(* Mutation: the next listener is looked up when the current one returns.  *)
AdvanceUnsafe(f) == [f EXCEPT !.l = After(f.of, f.l)]

(* wl_list_for_each_safe: pos = tmp, tmp = pos->next                       *)
Advance(f) == [f EXCEPT !.l = f.next, !.next = After(f.of, f.next)]

Notify ==
    /\ In("wl_signal_emit") /\ Top.l \notin {NoListener, Wild}
    /\ told' = [told EXCEPT ![Top.l] = @ + 1]
    /\ stack' = Append(stack, Frame("callback", Top.l, "notify"))
    /\ UNCHANGED <<tables, live, listener_list>>

EmitReturns ==
    /\ In("wl_signal_emit") /\ Top.l = NoListener
    /\ stack' = Popped
    /\ UNCHANGED <<tables, live, listener_list, told>>

CallbackReturns ==
    /\ In("callback")
    /\ LET n == Len(stack) - 1
       IN  stack' = IF stack[n].fn = "wl_signal_emit"
                    THEN [Popped EXCEPT ![n] = Advance(@)] ELSE Popped
    /\ UNCHANGED <<tables, live, listener_list, told>>

-----------------------------------------------------------------------------
(* What the compositor's code does.                                        *)

(* wl_signal_add appends.                                                  *)
wl_resource_add_destroy_listener(s, l) ==
    /\ Compositor /\ s \in live
    /\ \A t \in Signals : l \notin Linked(t)
    /\ Dying(s) => AddsLate
    /\ listener_list' = [listener_list EXCEPT ![s] = Append(@, l)]
    /\ told' = [told EXCEPT ![l] = 0]
    /\ UNCHANGED <<tables, live, stack>>

wl_list_remove(s, l) ==
    /\ Compositor /\ s \in live /\ l \in Linked(s)
    /\ RemovesNext \/ (\A i \in 1 .. Len(stack) : stack[i].next # l)
    /\ listener_list' = [listener_list EXCEPT ![s] = RemoveFirst(@, l)]
    /\ told' = [told EXCEPT ![l] = 0]
    /\ UNCHANGED <<tables, live, stack>>

(* wl_resource_create for an object the client has made, with an id that it*)
(* has never used or knows to be free, or with id 0 for one of the server's*)
wl_resource_create(id) ==
    /\ Compositor /\ made < Display + MaxResources
    /\ Dying(Client) => CreatesLate
    /\ \/ id = 0
       \/ /\ CanReserve(objects, id)
          /\ Place(id) <= Len(objects.client) => id \in freed_ids
    /\ LET r   == made + 1
           at  == IF id = 0 THEN NewId(objects) ELSE id
           got == IF id = 0 THEN wl_map_insert_new(objects, 0) ELSE objects
       IN  /\ objects' = wl_map_insert_at(got, at, r)
           /\ live' = live \cup {r} /\ made' = r
           /\ ids' = [ids EXCEPT ![r] = at]
           /\ freed_ids' = freed_ids \ {at}
    /\ UNCHANGED <<display_resource, listener_list, told, stack>>

wl_resource_destroy(r) ==
    /\ Compositor
    /\ r \in live \ {Client, Display} /\ ~Dying(r)
    /\ stack' = stack \o <<Frame("wl_resource_destroy", r, "id"),
                           Frame("destroy_resource", r, "handler"), EmitFrame(r)>>
    /\ UNCHANGED <<tables, live, listener_list, told>>

wl_client_destroy ==
    /\ Compositor /\ stack = <<>>
    /\ stack' = <<Frame("wl_client_destroy", Client, 1), EmitFrame(Client)>>
    /\ UNCHANGED <<tables, live, listener_list, told>>

-----------------------------------------------------------------------------
(* destroy_resource, after its signal has been emitted: the destroy        *)
(* handler, then free().  That of the display resource is                  *)
(* destroy_client_display_resource; the others are the compositor's.       *)
CallDestroy ==
    /\ In("destroy_resource") /\ Top.at = "handler"
    /\ IF Top.of = Display
       THEN stack' = Going("free") /\ display_resource' = FALSE
       ELSE /\ stack' = Append(Going("free"), Frame("callback", Top.of, "destroy"))
            /\ UNCHANGED display_resource
    /\ UNCHANGED <<objects, made, ids, freed_ids, live, listener_list, told>>

FreeResource ==
    /\ In("destroy_resource") /\ Top.at = "free"
    /\ live' = live \ {Top.of}
    /\ stack' = Popped
    /\ UNCHANGED <<tables, listener_list, told>>

(* Mutation: the entry keeps pointing at the resource.                     *)
ReturnIdKeepsEntry ==
    /\ In("wl_resource_destroy")
    /\ freed_ids' = freed_ids \cup {ids[Top.of]}
    /\ stack' = Popped
    /\ UNCHANGED <<objects, made, ids, display_resource, live, listener_list, told>>

(* The rest of wl_resource_destroy: a client's id is reported, if there is *)
(* still a display resource to report it with, and its entry becomes NULL; *)
(* the server's own ids go to its free list.                               *)
ReturnId ==
    /\ In("wl_resource_destroy")
    /\ LET id == ids[Top.of]
       IN  IF Space(id) = "client"
           THEN /\ freed_ids' = IF display_resource THEN freed_ids \cup {id} ELSE freed_ids
                /\ objects' = wl_map_insert_at(objects, id, 0)
           ELSE /\ objects' = wl_map_remove(objects, id)
                /\ UNCHANGED freed_ids
    /\ stack' = Popped
    /\ UNCHANGED <<made, ids, display_resource, live, listener_list, told>>

(* The entries of the client's ids, then those of the server's.            *)
Entry(k) ==
    LET n == Len(objects.client)
    IN  IF k <= n THEN objects.client[k] ELSE objects.server[k - n]

(* Mutation: resources go with their client without a signal.              *)
ForEachEntryQuietly ==
    /\ In("wl_client_destroy")
    /\ Top.at <= Len(objects.client) + Len(objects.server)
    /\ LET r == Entry(Top.at)
       IN  stack' = IF r > 0
                    THEN Append(Going(Top.at + 1), Frame("destroy_resource", r, "handler"))
                    ELSE Going(Top.at + 1)
    /\ UNCHANGED <<tables, live, listener_list, told>>

(* wl_map_for_each calls destroy_resource for what it finds in the client's*)
(* and then in the server's entries, `at' being the next place, and leaves *)
(* the entries as they are.                                                *)
ForEachEntry ==
    /\ In("wl_client_destroy")
    /\ Top.at <= Len(objects.client) + Len(objects.server)
    /\ LET r == Entry(Top.at)
       IN  stack' = IF r > 0
                    THEN Going(Top.at + 1)
                         \o <<Frame("destroy_resource", r, "handler"), EmitFrame(r)>>
                    ELSE Going(Top.at + 1)
    /\ UNCHANGED <<tables, live, listener_list, told>>

ClientFreed ==
    /\ In("wl_client_destroy")
    /\ Top.at > Len(objects.client) + Len(objects.server)
    /\ live' = live \ {Client}
    /\ stack' = Popped
    /\ UNCHANGED <<tables, listener_list, told>>

Next ==
    \/ Notify \/ EmitReturns \/ CallbackReturns
    \/ CallDestroy \/ FreeResource \/ ReturnId \/ ForEachEntry \/ ClientFreed
    \/ wl_client_destroy
    \/ \E r \in ResourceSet : wl_resource_destroy(r)
    \/ \E s \in Signals, l \in Listeners :
          wl_resource_add_destroy_listener(s, l) \/ wl_list_remove(s, l)
    \/ \E id \in 0 .. WL_SERVER_ID_START - 1 : wl_resource_create(id)

Spec == Init /\ [][Next]_vars

-----------------------------------------------------------------------------
(* However destructions nest, nothing that has been freed or unlinked is   *)
(* used: calls in progress work on live objects, loops stand at listeners  *)
(* that are linked, wl_map_for_each never finds a freed resource, and no   *)
(* resource outlives its client.                                           *)
NoDangling ==
    /\ \A i \in 1 .. Len(stack) :
          /\ stack[i].fn \in {"wl_client_destroy", "destroy_resource",
                              "wl_signal_emit"} => stack[i].of \in live
          /\ stack[i].fn = "wl_signal_emit" =>
                stack[i].next \in {NoListener} \cup Linked(stack[i].of)
    /\ In("wl_signal_emit") => Top.l \in {NoListener} \cup Linked(Top.of)
    /\ In("wl_client_destroy") =>
          \A k \in Top.at .. Len(objects.client) + Len(objects.server) :
             Entry(k) > 0 => Entry(k) \in live
    /\ live # {} => Client \in live

(* A destroy listener is called once for the death of its object: all that *)
(* are still linked when the object is freed have been, and none twice,    *)
(* whoever removed itself in the middle of the emission.                   *)
ToldOnce ==
    /\ \A l \in Listeners : told[l] <= 1
    /\ \A s \in Signals \ live : \A l \in Linked(s) : told[l] = 1

(* While the client lives, the table has exactly the live resources, each  *)
(* at its id; an id that the client may use again has been given up, and   *)
(* every id it ever used is in use or given up; the free list of the       *)
(* server's ids is sound.                                                  *)
TableAgrees ==
    Client \in live /\ ~Dying(Client) =>
       LET dead == {stack[i].of : i \in {k \in 1 .. Len(stack) :
                                           stack[k].fn = "wl_resource_destroy"}}
           Used(id) == wl_map_lookup(objects, id) \in (live \cup dead) \ {Client}
       IN  /\ \A r \in live \ {Client} : wl_map_lookup(objects, ids[r]) = r
           /\ \A id \in 1 .. Len(objects.client) - 1 : Used(id) # (id \in freed_ids)
           /\ \A id \in freed_ids : wl_map_lookup(objects, id) = 0
           /\ FreeListSound(objects, {})
=============================================================================
