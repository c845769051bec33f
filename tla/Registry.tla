------------------------------ MODULE Registry ------------------------------
(***************************************************************************)
(* Globals and registries of wayland-server.c: wl_global_create and        *)
(* wl_global_destroy tell every registry of every client, clients bind     *)
(* what they have been told of, and both directions take their time.       *)
(* wl_display.sync is modelled since clients rely on it to know that they  *)
(* have been told everything.  A client is destroyed resource by resource, *)
(* and destroy handlers may create and destroy globals in between.         *)
(***************************************************************************)
EXTENDS Integers, SequencesExt

CONSTANTS
    Clients,
    Registries,   \* the wl_registry objects that clients may ask for
    Owner,        \* Owner[r]: the client that asks for r
    Careful,      \* clients that bind only what they know, in a version of it
    NoClient,
    MaxGlobals,   \* bound: globals created in a behaviour
    MaxVersion,   \* the version of the interface
    MaxRequests,  \* bound: requests of each client
    MaxDown       \* events that fit into a client's out buffer and socket

ASSUME RegistryAssumption ==
    /\ IsFiniteSet(Clients) /\ IsFiniteSet(Registries)
    /\ Owner \in [Registries -> Clients]
    /\ Careful \subseteq Clients
    /\ NoClient \notin Clients
    /\ MaxGlobals \in Nat /\ MaxVersion \in Nat \ {0}
    /\ MaxRequests \in [Clients -> Nat] /\ MaxDown \in Nat \ {0}

VARIABLES
    global_list,             \* display->global_list; `data' tells globals apart
    id,                      \* display->id, the next name
    created,                 \* ghost: globals created so far
    registry_resource_list,  \* resources as they are linked, latest first
    resources,               \* registry resources that are allocated
    connected,               \* clients that the server has
    dying,                   \* the client inside wl_client_destroy
    error,                   \* clients with client->error
    requests,                \* up to here the server, from here the clients:
                             \* requests sent and not yet handled
    events,                  \* events posted and not yet read
    known,                   \* known[r]: the globals that r's listener has seen
    budget,                  \* requests a client may still send
    bound,                   \* ghost: what a bind reached and what it meant
    refused                  \* ghost: what careful clients were refused

serverVars == <<global_list, id, created, registry_resource_list, resources>>
clientVars == <<connected, dying, error>>
ghostVars  == <<bound, refused>>
vars == <<serverVars, clientVars, requests, events, known, budget, ghostVars>>

Globals  == [name : Nat, version : 1 .. MaxVersion, data : Nat]
NoGlobal   == [name |-> 0, version |-> 1, data |-> 0]
GlobalsNow == {global_list[i] : i \in 1 .. Len(global_list)}
Listed     == {registry_resource_list[i] : i \in 1 .. Len(registry_resource_list)}

Init ==
    /\ global_list = <<>> /\ id = 1 /\ created = 0
    /\ registry_resource_list = <<>> /\ resources = {}
    /\ connected = Clients /\ dying = NoClient /\ error = {}
    /\ requests = [c \in Clients |-> <<>>]
    /\ events = [c \in Clients |-> <<>>]
    /\ known = [r \in Registries |-> {}]
    /\ budget = MaxRequests
    /\ bound = {} /\ refused = {}

-----------------------------------------------------------------------------
(* Posting events.                                                         *)

(* wl_resource_post_event: an event that finds the out buffer and the      *)
(* socket full is lost, and its client is in error.  What is posted to a   *)
(* client after the flush of wl_client_destroy stays in the buffer.        *)
Sent(c, evs) ==
    IF c = dying THEN events[c]
    ELSE events[c] \o
         SubSeq(evs, 1, IF Len(evs) < MaxDown - Len(events[c]) THEN Len(evs)
                        ELSE MaxDown - Len(events[c]))

Lost(c, evs) == c # dying /\ Len(events[c]) + Len(evs) > MaxDown

(* The registries of client c in a list, in the order of the list.         *)
OwnedBy(c, list) ==
    LET upto[i \in 0 .. Len(list)] ==
            IF i = 0 THEN <<>>
            ELSE IF Owner[list[i]] = c THEN Append(upto[i - 1], list[i])
            ELSE upto[i - 1]
    IN  upto[Len(list)]

(* One event for each listed registry of c.                                *)
ForEachRegistry(c, op, g) ==
    LET mine == OwnedBy(c, registry_resource_list)
    IN  [i \in 1 .. Len(mine) |-> [op |-> op, reg |-> mine[i], global |-> g]]

Broadcast(op, g) ==
    /\ events' = [c \in Clients |-> Sent(c, ForEachRegistry(c, op, g))]
    /\ error' = error \cup {c \in Clients : Lost(c, ForEachRegistry(c, op, g))}

Post(c, evs) ==
    /\ events' = [events EXCEPT ![c] = Sent(c, evs)]
    /\ error' = IF Lost(c, evs) THEN error \cup {c} ELSE error

-----------------------------------------------------------------------------
(* The compositor, from its main loop or from a destroy handler.           *)

(* Mutation: names are given out by position and so given out again.       *)
wl_global_create_by_position(v) ==
    /\ created < MaxGlobals
    /\ LET g == [name |-> Len(global_list) + 1, version |-> v, data |-> created + 1]
       IN  /\ global_list' = Append(global_list, g)
           /\ Broadcast("global", g)
    /\ id' = id + 1 /\ created' = created + 1
    /\ UNCHANGED <<registry_resource_list, resources, connected, dying,
                   requests, known, budget, ghostVars>>

(* Versions below 1 or above the interface's are refused without effect.   *)
wl_global_create(v) ==
    /\ created < MaxGlobals
    /\ LET g == [name |-> id, version |-> v, data |-> created + 1]
       IN  /\ global_list' = Append(global_list, g)
           /\ Broadcast("global", g)
    /\ id' = id + 1 /\ created' = created + 1
    /\ UNCHANGED <<registry_resource_list, resources, connected, dying,
                   requests, known, budget, ghostVars>>

wl_global_destroy(g) ==
    /\ g \in GlobalsNow
    /\ Broadcast("remove", g)
    /\ global_list' = RemoveFirst(global_list, g)
    /\ UNCHANGED <<id, created, registry_resource_list, resources, connected,
                   dying, requests, known, budget, ghostVars>>

(* wl_client_destroy, after a hang-up, after an error or because the       *)
(* compositor wants it; its flush has left the events to the socket.  What *)
(* the client still sends is not read.                                     *)
Dismiss(c) ==
    /\ dying' = c
    /\ requests' = [requests EXCEPT ![c] = <<>>]

wl_client_destroy(c) ==
    /\ dying = NoClient /\ c \in connected
    /\ Dismiss(c)
    /\ UNCHANGED <<serverVars, connected, error, events, known, budget, ghostVars>>

(* Mutation: the destroy handler forgets to unlink the resource.           *)
DestroyRegistryLinked(r) ==
    /\ r \in resources /\ Owner[r] = dying
    /\ resources' = resources \ {r}
    /\ UNCHANGED <<global_list, id, created, registry_resource_list, clientVars,
                   requests, events, known, budget, ghostVars>>

(* destroy_resource: the listeners have run as steps of their own; then    *)
(* unbind_resource, and the memory is freed.                               *)
DestroyRegistry(r) ==
    /\ r \in resources /\ Owner[r] = dying
    /\ registry_resource_list' = RemoveFirst(registry_resource_list, r)
    /\ resources' = resources \ {r}
    /\ UNCHANGED <<global_list, id, created, clientVars, requests, events,
                   known, budget, ghostVars>>

ClientDestroyed ==
    /\ dying # NoClient
    /\ \A r \in resources : Owner[r] # dying
    /\ connected' = connected \ {dying}
    /\ dying' = NoClient
    /\ UNCHANGED <<serverVars, error, requests, events, known, budget, ghostVars>>

-----------------------------------------------------------------------------
(* Request handlers, as wl_client_connection_data calls them: one request, *)
(* and the client is destroyed if it, or anything before it, left an       *)
(* error.                                                                  *)
Handle(c, op) ==
    /\ dying = NoClient /\ c \in connected
    /\ requests[c] # <<>> /\ Head(requests[c]).op = op

Handled(c) ==
    IF c \in error' THEN Dismiss(c)
    ELSE /\ requests' = [requests EXCEPT ![c] = Tail(@)]
         /\ UNCHANGED dying

(* wl_resource_post_error, also for memory that cannot be had              *)
PostError(c) ==
    /\ error' = error \cup {c}
    /\ events' = [events EXCEPT ![c] = Sent(c, <<[op |-> "error"]>>)]

NoMemory(c, op) ==
    /\ Handle(c, op) /\ op \in {"get_registry", "sync"}
    /\ PostError(c) /\ Handled(c)
    /\ UNCHANGED <<serverVars, connected, known, budget, ghostVars>>

(* Mutation: only the first global is announced.                           *)
display_get_registry_short(c) ==
    /\ Handle(c, "get_registry")
    /\ LET r == Head(requests[c]).reg
       IN  /\ registry_resource_list' = <<r>> \o registry_resource_list
           /\ resources' = resources \cup {r}
           /\ Post(c, [i \in 1 .. (IF global_list = <<>> THEN 0 ELSE 1) |->
                        [op |-> "global", reg |-> r, global |-> global_list[i]]])
    /\ Handled(c)
    /\ UNCHANGED <<global_list, id, created, connected, known, budget, ghostVars>>

display_get_registry(c) ==
    /\ Handle(c, "get_registry")
    /\ LET r == Head(requests[c]).reg
       IN  /\ registry_resource_list' = <<r>> \o registry_resource_list
           /\ resources' = resources \cup {r}
           /\ Post(c, [i \in 1 .. Len(global_list) |->
                        [op |-> "global", reg |-> r, global |-> global_list[i]]])
    /\ Handled(c)
    /\ UNCHANGED <<global_list, id, created, connected, known, budget, ghostVars>>

(* The callback is created, answered and destroyed, which queues its       *)
(* delete_id.  `told' and `at' are ghosts: the registries that c had asked *)
(* for when it sent the request, unless some event to it was lost, and the *)
(* globals of this moment.                                                 *)
display_sync(c) ==
    /\ Handle(c, "sync")
    /\ Post(c, <<[op |-> "done", at |-> GlobalsNow,
                  told |-> IF c \in error THEN {} ELSE Head(requests[c]).told],
                 [op |-> "delete_id"]>>)
    /\ Handled(c)
    /\ UNCHANGED <<serverVars, connected, known, budget, ghostVars>>

(* The bind handler creates the resource of the object.                    *)
Binds(q, g) == g.name = q.name /\ q.version \in 1 .. g.version

registry_bind(c) ==
    /\ Handle(c, "bind")
    /\ LET q == Head(requests[c])
       IN  \/ \E g \in GlobalsNow :
                /\ Binds(q, g)
                /\ bound' = bound \cup {[client |-> c, meant |-> q.meant,
                                         got |-> g, version |-> q.version]}
                /\ UNCHANGED <<events, error, refused>>
           \/ /\ \A g \in GlobalsNow : ~Binds(q, g)
              /\ PostError(c)
              /\ refused' = IF c \in Careful THEN refused \cup {q.meant}
                            ELSE refused
              /\ UNCHANGED bound
    /\ Handled(c)
    /\ UNCHANGED <<serverVars, connected, known, budget>>

-----------------------------------------------------------------------------
(* Clients.                                                                *)

Send(c, q) ==
    /\ budget[c] > 0
    /\ budget' = [budget EXCEPT ![c] = @ - 1]
    /\ requests' = IF c \in connected \ {dying}
                   THEN [requests EXCEPT ![c] = Append(@, q)] ELSE requests
    /\ UNCHANGED <<serverVars, clientVars, events, known, ghostVars>>

Asked(r) ==
    \/ r \in resources \/ known[r] # {}
    \/ \E i \in 1 .. Len(requests[Owner[r]]) :
          LET q == requests[Owner[r]][i] IN q.op = "get_registry" /\ q.reg = r

GetRegistry(r) ==
    /\ ~Asked(r)
    /\ Send(Owner[r], [op |-> "get_registry", reg |-> r])

Sync(c) ==
    Send(c, [op |-> "sync", told |-> {r \in Registries : Owner[r] = c /\ Asked(r)}])

Bind(r) ==
    \E g \in known[r] : \E v \in 1 .. g.version :
        Send(Owner[r], [op |-> "bind", name |-> g.name, version |-> v, meant |-> g])

(* A client that makes up names and versions.                              *)
BindAnything(r) ==
    /\ Owner[r] \notin Careful /\ Asked(r)
    /\ \E n \in 1 .. MaxGlobals, v \in {0, MaxVersion + 1} :
          Send(Owner[r], [op |-> "bind", name |-> n, version |-> v,
                          meant |-> NoGlobal])

ReadEvent(c) ==
    /\ events[c] # <<>>
    /\ LET e == Head(events[c])
       IN  known' = CASE e.op = "global" -> [known EXCEPT ![e.reg] = @ \cup {e.global}]
                      [] e.op = "remove" -> [known EXCEPT ![e.reg] = @ \ {e.global}]
                      [] OTHER -> known
    /\ events' = [events EXCEPT ![c] = Tail(@)]
    /\ UNCHANGED <<serverVars, clientVars, requests, budget, ghostVars>>

Next ==
    \/ \E v \in 1 .. MaxVersion : wl_global_create(v)
    \/ \E g \in GlobalsNow : wl_global_destroy(g)
    \/ \E c \in Clients :
         \/ wl_client_destroy(c) \/ display_get_registry(c) \/ display_sync(c)
         \/ registry_bind(c) \/ Sync(c) \/ ReadEvent(c)
         \/ \E op \in {"get_registry", "sync"} : NoMemory(c, op)
    \/ \E r \in Registries :
         DestroyRegistry(r) \/ GetRegistry(r) \/ Bind(r) \/ BindAnything(r)
    \/ ClientDestroyed

Spec == Init /\ [][Next]_vars

-----------------------------------------------------------------------------
(* What a registry that knows K will know when its client has read s.      *)
Knows(K, s, r) ==
    LET Removed(g, i) == \E j \in i .. Len(s) :
                            s[j].op = "remove" /\ s[j].reg = r /\ s[j].global = g
    IN  {g \in K : ~Removed(g, 1)}
        \cup {s[i].global : i \in {k \in 1 .. Len(s) :
                /\ s[k].op = "global" /\ s[k].reg = r
                /\ ~Removed(s[k].global, k)}}

WillKnow(r) == Knows(known[r], events[Owner[r]], r)

(* Whenever a registry was created, before, between or after globals come  *)
(* and go, and whoever else is told at the same time or is being destroyed:*)
(* with the events under way it knows the globals there are, unless an     *)
(* event to its client was lost.  And no loop over the list meets a        *)
(* resource that has been freed.                                           *)
RegistriesAgree ==
    /\ Listed = resources
    /\ \A r \in resources :
          Owner[r] \notin error \cup {dying} => WillKnow(r) = GlobalsNow

(* A bind reaches the very global that its client was told of, in a        *)
(* version that global has, although names travel and globals go; and a    *)
(* careful client is refused only what no longer exists.                   *)
BindFindsItsGlobal ==
    /\ \A b \in bound :
          /\ b.client \in Careful => b.got = b.meant
          /\ b.version \in 1 .. b.got.version
    /\ refused \cap GlobalsNow = {}

(* wl_display.sync: "since requests are handled in-order and events are    *)
(* delivered in-order, this can be used as a barrier": a client that reads *)
(* wl_callback.done knows all globals that there were when it was sent.    *)
SyncIsBarrier ==
    [][\A c \in Clients :
          Len(events'[c]) < Len(events[c]) /\ Head(events[c]).op = "done" =>
             \A r \in Head(events[c]).told : known[r] = Head(events[c]).at]_vars
=============================================================================
