----------------------------- MODULE ObjectLife -----------------------------
(***************************************************************************)
(* The life of protocol objects at both ends of one connection: proxies of *)
(* the client (wayland-client.c), resources of the server                  *)
(* (wayland-server.c), the two id tables (WlMap) and the two streams of    *)
(* messages between them.                                                  *)
(*                                                                         *)
(* Objects are numbered in the order they are created, whichever end       *)
(* creates them, from 3 on: 1 is WL_ZOMBIE_OBJECT, 2 the wl_display and 3  *)
(* a `device', which announces server-created objects in its events.  A    *)
(* message carries ids, which the code looks up, and the numbers its       *)
(* sender meant by them, which only the properties look at.                *)
(*                                                                         *)
(* A client call is one critical section of display->mutex.  Reading an    *)
(* event (queue_event), dispatching it and handling wl_display.delete_id   *)
(* are steps of their own, made by any thread at any time in between.      *)
(***************************************************************************)
EXTENDS WlMap, FiniteSets, SequencesExt

CONSTANTS
    MaxObjects,   \* bound: number of the last object created
    MaxWire,      \* bound: messages under way in each direction
    MaxQueue,     \* bound: closures in the event queue
    NamesOffers,  \* the server's events name server-created objects
    SplitKinds    \* kinds of object whose destructor may be interrupted
                  \* between sending the request and wl_proxy_destroy

Kinds   == {"plain", "callback", "offer"}
display == 2
device  == 3

ASSUME LifeAssumption ==
    /\ MaxObjects \in Nat /\ MaxObjects >= device
    /\ MaxWire \in Nat /\ MaxQueue \in Nat
    /\ NamesOffers \in BOOLEAN
    /\ SplitKinds \subseteq Kinds

VARIABLES
    cmap,      \* display->objects of the client
    smap,      \* client->objects of the server
    c2s, s2c,  \* messages under way
    queue,     \* the client's event queue: a sequence of closures
    display_queue, \* ids of the delete_id events in the display's own queue
    deleting,  \* ids of the delete_id events some thread is handling
    last,      \* number of the last object created
    kind, id,  \* of every object created so far
    cst,       \* the client's side of an object
    iddel,     \* proxies with WL_PROXY_FLAG_ID_DELETED
    refcount,  \* proxy->refcount; a proxy whose count is 0 has been freed
    failed,    \* the client's display has a fatal error
    serror     \* client->error in the server

tables == <<cmap, smap>>
clientVars == <<queue, display_queue, deleting, cst, iddel, refcount>>
objectVars == <<last, kind, id>>
vars == <<tables, c2s, s2c, clientVars, objectVars, failed, serror>>

Numbers == display .. MaxObjects
Created == display .. last

(* none: not known to the client (yet).  unseen: its proxy exists and the  *)
(* event that brings it has not been dispatched.  over: a callback whose   *)
(* done event has been dispatched.  leaving: its destructor request has    *)
(* been sent.                                                              *)
ClientStates == {"none", "unseen", "live", "over", "leaving", "destroyed"}

Destroyed(x) == cst[x] = "destroyed"

Resource(x) == x \in Created /\ wl_map_lookup(smap, id[x]) = x

-----------------------------------------------------------------------------
TypeOK ==
    /\ last \in Numbers
    /\ \A m \in {cmap, smap} : \A s \in Sides : m[s] \in Seq(Int)
    /\ kind \in [Created -> Kinds \cup {"display"}]
    /\ id \in [Created -> Nat]
    /\ cst \in [Numbers -> ClientStates]
    /\ iddel \subseteq Numbers
    /\ refcount \in [Numbers -> Nat]
    /\ failed \in BOOLEAN /\ serror \in BOOLEAN

(* The display has id 1 and the device id 2 in both tables.                *)
Init ==
    /\ cmap = [wl_map_init("client") EXCEPT !["client"] = <<0, display, device>>]
    /\ smap = [wl_map_init("server") EXCEPT !["client"] = <<0, display, device>>]
    /\ c2s = <<>> /\ s2c = <<>>
    /\ queue = <<>> /\ display_queue = <<>> /\ deleting = {}
    /\ last = device
    /\ kind = [x \in {display, device} |-> IF x = display THEN "display" ELSE "plain"]
    /\ id = [x \in {display, device} |-> x - 1]
    /\ cst = [x \in Numbers |-> IF x <= device THEN "live" ELSE "none"]
    /\ iddel = {}
    /\ refcount = [x \in Numbers |-> IF x <= device THEN 1 ELSE 0]
    /\ failed = FALSE /\ serror = FALSE

(* The next object, of kind k, gets id i.                                  *)
NewObject(k, i) ==
    /\ last < MaxObjects
    /\ last' = last + 1
    /\ kind' = [x \in display .. last' |-> IF x = last' THEN k ELSE kind[x]]
    /\ id' = [x \in display .. last' |-> IF x = last' THEN i ELSE id[x]]

Message(op, x, i, y) ==
    [op |-> op, id |-> id[x], obj |-> x, arg |-> i, argobj |-> y]

NoObject == 0   \* a null argument

SendRequest(m) == Len(c2s) < MaxWire /\ c2s' = Append(c2s, m)
SendEvents(ms) == Len(s2c) + Len(ms) <= MaxWire /\ s2c' = s2c \o ms

ClientUp == ~failed
ServerUp == ~serror

-----------------------------------------------------------------------------
(* The client program.                                                     *)

(* wl_proxy_marshal_constructor: a new proxy and the request that tells the*)
(* server its id, under one lock.                                          *)
CreateObject(k) ==
    /\ ClientUp
    /\ NewObject(k, NewId(cmap))
    /\ cmap' = wl_map_insert_new(cmap, last')
    /\ SendRequest([op |-> "create", id |-> id[display], obj |-> display,
                    arg |-> NewId(cmap), argobj |-> last'])
    /\ cst' = [cst EXCEPT ![last'] = "live"]
    /\ refcount' = [refcount EXCEPT ![last'] = 1]
    /\ UNCHANGED <<smap, s2c, queue, display_queue, deleting, iddel, failed,
                   serror>>

(* Any other request with an object for its argument (not a callback,      *)
(* which the server destroys unasked); the device stands for all targets.  *)
UseObject(y) ==
    /\ ClientUp
    /\ y # device /\ cst[y] = "live" /\ kind[y] # "callback"
    /\ SendRequest(Message("use", device, id[y], y))
    /\ UNCHANGED <<tables, s2c, clientVars, objectVars, failed, serror>>

(* Mutation: every destroyed object leaves a zombie.                       *)
ProxyDestroyLeavesZombie(x, c) ==
    /\ cmap' = IF x \in iddel THEN wl_map_remove(cmap, id[x])
               ELSE wl_map_insert_at(cmap, id[x], Zombie)
    /\ cst' = [c EXCEPT ![x] = "destroyed"]
    /\ refcount' = [refcount EXCEPT ![x] = @ - 1]

(* proxy_destroy; c is the state of the objects before.                    *)
ProxyDestroy(x, c) ==
    /\ cmap' = IF x \in iddel THEN wl_map_remove(cmap, id[x])
               ELSE wl_map_insert_at(cmap, id[x],
                        IF id[x] < WL_SERVER_ID_START THEN Zombie ELSE 0)
    /\ cst' = [c EXCEPT ![x] = "destroyed"]
    /\ refcount' = [refcount EXCEPT ![x] = @ - 1]

(* A destructor of the scanner's code: wl_proxy_marshal, then              *)
(* wl_proxy_destroy, each locking for itself.                              *)
SendDestroy(x) ==
    /\ ClientUp
    /\ x # device /\ kind[x] \in {"plain", "offer"} /\ cst[x] = "live"
    /\ SendRequest(Message("destroy", x, 0, NoObject))
    /\ IF kind[x] \in SplitKinds
       THEN /\ cst' = [cst EXCEPT ![x] = "leaving"]
            /\ UNCHANGED <<cmap, refcount>>
       ELSE ProxyDestroy(x, cst)
    /\ UNCHANGED <<smap, s2c, queue, display_queue, deleting, iddel,
                   objectVars, failed, serror>>

(* wl_proxy_destroy, after the request or for a callback that is over.     *)
FinishDestroy(x) ==
    /\ ClientUp
    /\ cst[x] \in {"leaving", "over"}
    /\ ProxyDestroy(x, cst)
    /\ UNCHANGED <<smap, c2s, s2c, queue, display_queue, deleting, iddel,
                   objectVars, failed, serror>>

-----------------------------------------------------------------------------
(* The client library: queue_event, dispatch_event and                     *)
(* display_handle_delete_id.                                               *)

(* What a closure that holds proxy x twice counts twice.                   *)
AddRefs(f, x, y, d) ==
    [z \in Numbers |-> f[z] + (IF z = x THEN d ELSE 0) + (IF z = y THEN d ELSE 0)]

(* The event's target is gone: it is skipped.                              *)
SkipEvent ==
    /\ ClientUp /\ s2c # <<>>
    /\ wl_map_lookup(cmap, Head(s2c).id) \in {0, Zombie}
    /\ s2c' = Tail(s2c)
    /\ UNCHANGED <<tables, c2s, clientVars, objectVars, failed, serror>>

QueueDeleteId ==
    /\ ClientUp /\ s2c # <<>>
    /\ Head(s2c).op = "delete_id"
    /\ display_queue' = Append(display_queue, Head(s2c).arg)
    /\ s2c' = Tail(s2c)
    /\ UNCHANGED <<tables, c2s, queue, deleting, cst, iddel, refcount,
                   objectVars, failed, serror>>

(* queue_event returns -1: read_events sets last_error to EINVAL.          *)
QueueFails == failed' = TRUE /\ UNCHANGED <<cmap, queue, cst, refcount>>

(* An event for proxy p with an object argument: a zombie becomes NULL, and*)
(* an id without an object is an error.                                    *)
QueueEvent ==
    /\ ClientUp /\ s2c # <<>>
    /\ Len(queue) < MaxQueue
    /\ LET m == Head(s2c)
           p == wl_map_lookup(cmap, m.id)
           y == wl_map_lookup(cmap, m.arg)
           a == IF y = Zombie THEN NoObject ELSE y
       IN  /\ m.op \in {"event", "done"}
           /\ p \notin {0, Zombie}
           /\ IF m.arg # 0 /\ y = 0 THEN QueueFails
              ELSE /\ queue' = Append(queue, [op |-> m.op, proxy |-> p, arg |-> a])
                   /\ refcount' = AddRefs(refcount, p, a, 1)
                   /\ UNCHANGED <<cmap, cst, failed>>
    /\ s2c' = Tail(s2c)
    /\ UNCHANGED <<smap, c2s, display_queue, deleting, iddel, objectVars,
                   serror>>

(* An event that brings a new object: wl_map_reserve_new, then             *)
(* wl_proxy_create_for_id.                                                 *)
QueueOffer ==
    /\ ClientUp /\ s2c # <<>>
    /\ Len(queue) < MaxQueue
    /\ LET m == Head(s2c)
           p == wl_map_lookup(cmap, m.id)
           x == m.argobj
       IN  /\ m.op = "offer"
           /\ p \notin {0, Zombie}
           /\ IF ~CanReserve(cmap, m.arg) THEN QueueFails
              ELSE /\ cmap' = wl_map_insert_at(cmap, m.arg, x)
                   /\ cst' = [cst EXCEPT ![x] = "unseen"]
                   /\ queue' = Append(queue, [op |-> m.op, proxy |-> p, arg |-> x])
                   /\ refcount' = AddRefs([refcount EXCEPT ![x] = 1], p, x, 1)
                   /\ UNCHANGED failed
    /\ s2c' = Tail(s2c)
    /\ UNCHANGED <<smap, c2s, display_queue, deleting, iddel, objectVars,
                   serror>>

(* Mutation: an event that is dropped keeps its arguments.                 *)
DispatchEventDrops ==
    /\ ClientUp /\ queue # <<>>
    /\ LET e == Head(queue)
       IN  /\ cst' = IF Destroyed(e.proxy) THEN cst
                     ELSE IF e.op = "done" THEN [cst EXCEPT ![e.proxy] = "over"]
                     ELSE IF e.op = "offer" THEN [cst EXCEPT ![e.arg] = "live"]
                     ELSE cst
           /\ refcount' = AddRefs(refcount, e.proxy,
                             IF Destroyed(e.proxy) THEN NoObject ELSE e.arg, -1)
    /\ queue' = Tail(queue)
    /\ UNCHANGED <<tables, c2s, s2c, display_queue, deleting, iddel,
                   objectVars, failed, serror>>

(* dispatch_event: the closure gives its references back; the handler runs *)
(* unless the target has been destroyed, and learns of a new object unless *)
(* that has been destroyed.                                                *)
DispatchEvent ==
    /\ ClientUp /\ queue # <<>>
    /\ LET e == Head(queue)
       IN  /\ cst' = IF Destroyed(e.proxy) THEN cst
                     ELSE IF e.op = "done" THEN [cst EXCEPT ![e.proxy] = "over"]
                     ELSE IF e.op = "offer" THEN [cst EXCEPT ![e.arg] = "live"]
                     ELSE cst
           /\ refcount' = AddRefs(refcount, e.proxy, e.arg, -1)
    /\ queue' = Tail(queue)
    /\ UNCHANGED <<tables, c2s, s2c, display_queue, deleting, iddel,
                   objectVars, failed, serror>>

(* wl_event_queue_release, when the application destroys the queue: it has *)
(* moved its proxies to another one before, and the closures that are left *)
(* give their references back without having been dispatched.              *)
ReleaseQueue ==
    /\ ClientUp /\ queue # <<>>
    /\ LET GiveBack(f, e) == AddRefs(f, e.proxy, e.arg, -1)
       IN  refcount' = FoldLeft(GiveBack, refcount, queue)
    /\ queue' = <<>>
    /\ UNCHANGED <<tables, c2s, s2c, display_queue, deleting, cst, iddel,
                   objectVars, failed, serror>>

DispatchDeleteId ==
    /\ ClientUp /\ display_queue # <<>>
    /\ deleting' = deleting \cup {Head(display_queue)}
    /\ display_queue' = Tail(display_queue)
    /\ UNCHANGED <<tables, c2s, s2c, queue, cst, iddel, refcount, objectVars,
                   failed, serror>>

(* Mutation: the id of a live proxy is freed, too.                         *)
HandleDeleteIdAlways(i) ==
    /\ ClientUp /\ i \in deleting
    /\ LET p == wl_map_lookup(cmap, i)
       IN  /\ iddel' = IF p \notin {0, Zombie} THEN iddel \cup {p} ELSE iddel
           /\ cmap' = wl_map_remove(cmap, i)
    /\ deleting' = deleting \ {i}
    /\ UNCHANGED <<smap, c2s, s2c, queue, display_queue, cst, refcount,
                   objectVars, failed, serror>>

(* Mutation: a zombie's id is not freed.                                   *)
HandleDeleteIdForNobody(i) ==
    /\ ClientUp /\ i \in deleting
    /\ LET p == wl_map_lookup(cmap, i)
       IN  iddel' = IF p \notin {0, Zombie} THEN iddel \cup {p} ELSE iddel
    /\ deleting' = deleting \ {i}
    /\ UNCHANGED <<tables, c2s, s2c, queue, display_queue, cst, refcount,
                   objectVars, failed, serror>>

(* display_handle_delete_id                                                *)
HandleDeleteId(i) ==
    /\ ClientUp /\ i \in deleting
    /\ LET p == wl_map_lookup(cmap, i)
       IN  IF p \notin {0, Zombie}
           THEN iddel' = iddel \cup {p} /\ UNCHANGED cmap
           ELSE cmap' = wl_map_remove(cmap, i) /\ UNCHANGED iddel
    /\ deleting' = deleting \ {i}
    /\ UNCHANGED <<smap, c2s, s2c, queue, display_queue, cst, refcount,
                   objectVars, failed, serror>>

-----------------------------------------------------------------------------
(* The server.                                                             *)

(* wl_resource_destroy, after the events `before'.                         *)
DestroyResource(x, before) ==
    IF id[x] < WL_SERVER_ID_START
    THEN /\ SendEvents(before \o <<Message("delete_id", display, id[x], NoObject)>>)
         /\ smap' = wl_map_insert_at(smap, id[x], 0)
    ELSE /\ smap' = wl_map_remove(smap, id[x])
         /\ SendEvents(before)

(* A request the server does not accept: wl_resource_post_error.           *)
BadRequest(m) ==
    \/ wl_map_lookup(smap, m.id) = 0
    \/ m.op = "create" /\ ~CanReserve(smap, m.arg)
    \/ m.op = "use" /\ m.arg # 0 /\ wl_map_lookup(smap, m.arg) = 0

(* wl_client_connection_data, for one request.                             *)
HandleRequest ==
    /\ ServerUp /\ c2s # <<>>
    /\ c2s' = Tail(c2s)
    /\ LET m == Head(c2s)
           r == wl_map_lookup(smap, m.id)
       IN  IF BadRequest(m) THEN serror' = TRUE /\ UNCHANGED <<smap, s2c>>
           ELSE /\ UNCHANGED serror
                /\ \/ /\ m.op = "create"
                      /\ smap' = wl_map_insert_at(smap, m.arg, m.argobj)
                      /\ UNCHANGED s2c
                   \/ m.op = "destroy" /\ DestroyResource(r, <<>>)
                   \/ m.op = "use" /\ UNCHANGED <<smap, s2c>>
    /\ UNCHANGED <<cmap, clientVars, objectVars, failed>>

Named == {"plain"} \cup (IF NamesOffers THEN {"offer"} ELSE {})

(* An event without arguments, or one that names an object.                *)
PostEvent(x, y) ==
    /\ ServerUp
    /\ Resource(x) /\ kind[x] \in {"plain", "offer"}
    /\ \/ y = x /\ x # device /\ SendEvents(<<Message("event", x, 0, NoObject)>>)
       \/ /\ y # x /\ y # device
          /\ Resource(y) /\ kind[y] \in Named
          /\ SendEvents(<<Message("event", x, id[y], y)>>)
    /\ UNCHANGED <<tables, c2s, clientVars, objectVars, failed, serror>>

(* wl_resource_create with id 0, and the event that announces the object.  *)
PostOffer ==
    /\ ServerUp
    /\ Resource(device)
    /\ NewObject("offer", NewId(smap))
    /\ smap' = wl_map_insert_at(wl_map_insert_new(smap, 0), NewId(smap), last')
    /\ SendEvents(<<Message("offer", device, NewId(smap), last')>>)
    /\ UNCHANGED <<cmap, c2s, clientVars, failed, serror>>

(* wl_callback.done, after which the server destroys the callback itself.  *)
PostDone(x) ==
    /\ ServerUp
    /\ Resource(x) /\ kind[x] = "callback"
    /\ DestroyResource(x, <<Message("done", x, 0, NoObject)>>)
    /\ UNCHANGED <<cmap, c2s, clientVars, objectVars, failed, serror>>

-----------------------------------------------------------------------------
ReadEvent == SkipEvent \/ QueueDeleteId \/ QueueEvent \/ QueueOffer

Client ==
    \/ \E k \in {"plain", "callback"} : CreateObject(k)
    \/ \E x \in Created \ {display} :
          SendDestroy(x) \/ FinishDestroy(x) \/ UseObject(x)
    \/ ReadEvent \/ DispatchEvent \/ ReleaseQueue \/ DispatchDeleteId
    \/ \E i \in deleting : HandleDeleteId(i)

Server ==
    \/ HandleRequest \/ PostOffer
    \/ \E x \in Created \ {display} : PostDone(x)
    \/ \E x, y \in Created \ {display} : PostEvent(x, y)

Next == Client \/ Server

Spec == Init /\ [][Next]_vars

(* The delete_id of object x is behind all events that have been posted.   *)
(* wl_connection_queue does not set want_flush, so that it may never be    *)
(* sent; wl_connection_write does, and then all that is before is sent too.*)
LeftInBuffer(x) ==
    \E i \in 1 .. Len(s2c) :
        /\ s2c[i].op = "delete_id" /\ s2c[i].arg = id[x]
        /\ \A j \in i + 1 .. Len(s2c) : s2c[j].op = "delete_id"

Posted == \E i \in 1 .. Len(s2c) : s2c[i].op # "delete_id"

(* What the server posts is sent and read, with what is before it; both    *)
(* ends keep dispatching, a destructor that has begun ends, and the client *)
(* program destroys a callback when it is over.                            *)
Fairness ==
    /\ WF_vars(Posted /\ ReadEvent) /\ WF_vars(DispatchEvent) /\ WF_vars(DispatchDeleteId)
    /\ WF_vars(\E i \in deleting : HandleDeleteId(i))
    /\ SF_vars(HandleRequest)
    /\ \A x \in Numbers : WF_vars(x \in Created /\ FinishDestroy(x))

FairSpec == Spec /\ Fairness

-----------------------------------------------------------------------------
(* No event reaches another object than the one it was sent for, although  *)
(* ids are used again: when it is read, its id leads to the proxy of the   *)
(* resource that sent it, or to none, and then that proxy is destroyed (or,*)
(* for an object the event of which was skipped, was never made).          *)
EventFindsItsObject ==
    s2c # <<>> =>
        LET m == Head(s2c)
            p == wl_map_lookup(cmap, m.id)
        IN  p = m.obj \/ (p \in {0, Zombie} /\ cst[m.obj] \in {"destroyed", "none"})

(* No request reaches another resource than the one its proxy stands for,  *)
(* and a request that makes an object finds the id free.                   *)
RequestFindsItsObject ==
    c2s # <<>> =>
        LET m == Head(c2s)
        IN  /\ wl_map_lookup(smap, m.id) = m.obj
            /\ m.op = "create" => CanReserve(smap, m.arg)
            /\ m.op = "use" => wl_map_lookup(smap, m.arg) = m.argobj

(* Neither direction mixes up objects, however late a message is.          *)
MessagesFindTheirObjects == EventFindsItsObject /\ RequestFindsItsObject

(* proxy->refcount is one for the application, until it destroys the proxy,*)
(* and one for each place of a queued closure: no closure holds a freed    *)
(* proxy, and a destroyed one that no closure holds is freed.              *)
ProxyRefs ==
    \A x \in Created \ {display} :
        refcount[x] = (IF cst[x] \in {"none", "destroyed"} THEN 0 ELSE 1)
                      + Cardinality({i \in 1 .. Len(queue) : queue[i].proxy = x})
                      + Cardinality({i \in 1 .. Len(queue) : queue[i].arg = x})

(* Each end's free list holds every id that is not in use once (id 0 never *)
(* is), although a client's id is put there by a delete_id that finds the  *)
(* proxy destroyed, or by a destructor that finds the delete_id handled.   *)
FreeLists == FreeListSound(cmap, {1}) /\ FreeListSound(smap, {})

(* The free lists of the wl_map of each end, and the types of everything   *)
TablesInv == TypeOK /\ FreeLists

(* Two ends that keep the rules never fail: the client finds no event      *)
(* malformed and no delete_id "for unknown id", the server no request.     *)
NoFailure ==
    /\ ~failed /\ ~serror
    /\ \A i \in deleting : wl_map_lookup(cmap, i) # 0

(* An id the client has given up can be used again some time, unless the   *)
(* server posts nothing more after its delete_id (wl_connection_queue).    *)
IdComesBack ==
    \A x \in Numbers :
        [](cst[x] = "destroyed" =>
              <>(\/ x \in Created /\ wl_map_lookup(cmap, id[x]) # Zombie
                 \/ [](x \in Created /\ LeftInBuffer(x))))
=============================================================================
