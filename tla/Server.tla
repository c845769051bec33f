------------------------------- MODULE Server -------------------------------
(***************************************************************************)
(* A compositor's main loop, wl_display_run (wayland-server.c): it flushes *)
(* the clients, then dispatches the event loop, in which clients connect,  *)
(* their requests are handled and clients are destroyed.  The event loop is*)
(* that of EventLoop, each client and the listening socket having a source.*)
(*                                                                         *)
(* Events are counted, in the out buffer of a client's connection and in   *)
(* its socket, and so are requests, in the socket and in the in buffer.    *)
(* What a request makes its handler do is chosen when it is handled.       *)
(*                                                                         *)
(* A handler does not destroy its own client, nor does a destroy listener  *)
(* destroy another client: the code uses both afterwards.  What epoll would*)
(* report follows from the sockets, so `ready' is not used.               *)
(***************************************************************************)
EXTENDS EventLoop

CONSTANTS
    Clients,        \* memory for clients, and for their sources
    listener,       \* the source of the listening socket
    later,          \* the idle source of the compositor
    MaxOut,         \* events that fit into an out buffer
    Room,           \* events that fit into a socket
    MaxIn,          \* bound: requests of a client under way
    ListenersPost   \* whether the compositor, when it hears that a client is
                    \* destroyed, posts events to the others

ASSUME ServerAssumption ==
    /\ listener \notin Clients
    /\ Fds = Clients \cup {listener} /\ Idles = {later}
    /\ MaxOut \in Nat \ {0} /\ Room \in Nat \ {0} /\ MaxIn \in Nat \ {0}
    /\ ListenersPost \in BOOLEAN

VARIABLES
    client_list,    \* display->client_list
    conn,           \* of each client: out buffer, want_flush, socket
    error,          \* clients with client->error
    writable,       \* clients whose source is also watched for WRITABLE
    insock,         \* requests in the socket of a client
    pending,        \* requests in connection->in
    peer,           \* the process at the other end
    events,         \* what epoll_wait reported of each client
    at,             \* wl_display_flush_clients' client; Head_ when it is done
    where           \* where wl_client_connection_data is

clients == <<client_list, conn, error, writable, pending>>
world   == <<insock, peer>>
frame   == <<events, at, where>>
serverVars == <<clients, world, frame>>
allVars    == <<vars, serverVars>>

Alive == {c \in Clients : Contains(client_list, c)}

NoConnection == [out |-> 0, want |-> FALSE, sock |-> 0]

wl_connection == [out : 0 .. MaxOut, want : BOOLEAN, sock : 0 .. Room]

ServerTypeOK ==
    /\ TypeOK
    /\ client_list \in Seq(Clients)
    /\ conn \in [Clients -> wl_connection]
    /\ error \subseteq Alive /\ writable \subseteq Alive
    /\ insock \in [Clients -> 0 .. MaxIn]
    /\ pending \in [Clients -> 0 .. MaxIn]
    /\ peer \in [Clients -> {"away", "connecting", "open", "closed"}]
    /\ events \in [Clients -> SUBSET {"R", "W", "H"}]
    /\ at \in Clients \cup {Head_}
    /\ where \in {"start", "requests", "end"}

(* The loop with the socket of wl_display_add_socket, before               *)
(* wl_display_run.                                                         *)
ServerInit ==
    /\ status = [s \in Sources |-> IF s = listener THEN "active" ELSE "free"]
    /\ interest = {listener} /\ ready = {} /\ armed = {}
    /\ check_list = <<>> /\ idle_list = <<>> /\ destroy_list = <<>>
    /\ phase = "out" /\ batch = <<>> /\ pos = Head_ /\ next = Head_
    /\ running = NoSource /\ reported = {}
    /\ client_list = <<>>
    /\ conn = [c \in Clients |-> NoConnection]
    /\ error = {} /\ writable = {}
    /\ insock = [c \in Clients |-> 0] /\ pending = [c \in Clients |-> 0]
    /\ peer = [c \in Clients |-> "away"]
    /\ events = [c \in Clients |-> {}]
    /\ at = Head_
    /\ where = "start"

-----------------------------------------------------------------------------
(* wl_connection_flush: it sends what the socket has room for, and fails,  *)
(* leaving want_flush set, with EAGAIN if that is not all or with EPIPE if *)
(* the peer has gone.                                                      *)
Flushed(c, k) ==
    LET room == IF peer[c] = "open" THEN Room - k.sock ELSE 0
        n    == IF k.out <= room THEN k.out ELSE room
    IN  IF k.want
        THEN [out |-> k.out - n, want |-> n < k.out, sock |-> k.sock + n]
        ELSE k

(* wl_connection_write and wl_connection_queue: a full buffer is flushed   *)
(* first, and when that fails so does the call, even if some of it went.   *)
MadeRoom(c) ==
    IF conn[c].out = MaxOut
    THEN Flushed(c, [conn[c] EXCEPT !.want = TRUE]) ELSE conn[c]

WriteFails(c) == conn[c].out = MaxOut /\ MadeRoom(c).want

Written(c, want) ==
    IF WriteFails(c) THEN MadeRoom(c)
    ELSE [MadeRoom(c) EXCEPT !.out = @ + 1, !.want = @ \/ want]

(* wl_resource_post_event for each client of S.                            *)
Posted(S) == [c \in Clients |-> IF c \in S THEN Written(c, TRUE) ELSE conn[c]]

Failed(S) == {c \in S : WriteFails(c)}

(* Mutation: epoll goes on looking at the client.                          *)
DestroyKeepsSource(c) ==
    /\ client_list' = RemoveFirst(client_list, c)
    /\ conn' = [conn EXCEPT ![c] = NoConnection]
    /\ error' = error \ {c} /\ writable' = writable \ {c}
    /\ insock' = [insock EXCEPT ![c] = 0]
    /\ peer' = [peer EXCEPT ![c] = "away"]
    /\ UNCHANGED <<status, epoll, lists, reported>>

(* wl_client_destroy.  Its last flush and close leave what was sent to the *)
(* peer, of which the model says no more.                                  *)
DestroyClient(c) ==
    /\ \E S \in IF ListenersPost THEN SUBSET (Alive \ {c}) ELSE {{}} :
          /\ conn' = [Posted(S) EXCEPT ![c] = NoConnection]
          /\ error' = (error \cup Failed(S)) \ {c}
    /\ client_list' = RemoveFirst(client_list, c)
    /\ writable' = writable \ {c}
    /\ insock' = [insock EXCEPT ![c] = 0]
    /\ peer' = [peer EXCEPT ![c] = "away"]
    /\ RemoveSource(c)

-----------------------------------------------------------------------------
(* The peers, of which epoll learns through the flags it is asked for.     *)
PeerConnects(c) ==
    /\ peer[c] = "away" /\ status[c] = "free"
    /\ peer' = [peer EXCEPT ![c] = "connecting"]
    /\ UNCHANGED <<vars, clients, insock, frame>>

PeerSends(c) ==
    /\ peer[c] = "open"
    /\ insock[c] + pending[c] < MaxIn
    /\ insock' = [insock EXCEPT ![c] = @ + 1]
    /\ UNCHANGED <<vars, clients, peer, frame>>

PeerReads(c) ==
    /\ peer[c] = "open"
    /\ conn[c].sock > 0
    /\ conn' = [conn EXCEPT ![c].sock = @ - 1]
    /\ UNCHANGED <<vars, client_list, error, writable, pending, world, frame>>

PeerCloses(c) ==
    /\ peer[c] = "open"
    /\ peer' = [peer EXCEPT ![c] = "closed"]
    /\ UNCHANGED <<vars, clients, insock, frame>>

(* Mutation: while output is watched for, input is not.                    *)
WatchedInstead(c) == IF c \in writable THEN {"W"} ELSE {"R"}

Watched(c) == {"R"} \cup (IF c \in writable THEN {"W"} ELSE {})

Flags(c) ==
    LET readable == insock[c] > 0 \/ peer[c] = "closed"
        room     == conn[c].sock < Room \/ peer[c] = "closed"
    IN  {f \in Watched(c) : IF f = "R" THEN readable ELSE room}
        \cup (IF peer[c] = "closed" THEN {"H"} ELSE {})

Connecting == {c \in Clients : peer[c] = "connecting"}

Reportable ==
    {c \in interest \cap Clients : Flags(c) # {}}
    \cup {s \in {listener} : Connecting # {}}

-----------------------------------------------------------------------------
(* wl_display_flush_clients                                                *)
FirstClient == IF client_list = <<>> THEN Head_ ELSE Head(client_list)

NextClient(c) ==
    LET i == CHOOSE j \in 1 .. Len(client_list) : client_list[j] = c
    IN  IF i < Len(client_list) THEN client_list[i + 1] ELSE Head_

(* Mutation: what does not fit into the socket waits for the next turn.    *)
FlushNotWatching(c) ==
    /\ conn' = [conn EXCEPT ![c] = Flushed(c, @)]
    /\ UNCHANGED <<vars, client_list, error, writable, pending, world>>

FlushesClient(c) ==
    LET k == Flushed(c, conn[c])
    IN  IF k.want /\ peer[c] # "open"
        THEN /\ DestroyClient(c)
             /\ UNCHANGED <<pending, phase, batch, pos, next, running>>
        ELSE /\ conn' = [conn EXCEPT ![c] = k]
             /\ writable' = IF k.want THEN writable \cup {c} ELSE writable
             /\ UNCHANGED <<vars, client_list, error, pending, world>>

(* Mutation: the loop ends at a client that cannot be flushed.             *)
FlushStopsAtFailure ==
    /\ phase = "out" /\ at # Head_
    /\ at' = IF Flushed(at, conn[at]).want THEN Head_ ELSE NextClient(at)
    /\ FlushesClient(at)
    /\ UNCHANGED <<events, where>>

FlushClient ==
    /\ phase = "out" /\ at # Head_
    /\ at' = NextClient(at)
    /\ FlushesClient(at)
    /\ UNCHANGED <<events, where>>

-----------------------------------------------------------------------------
(* wl_display_run and wl_event_loop_dispatch, with no timeout              *)
Dispatch ==
    /\ at = Head_
    /\ DispatchCalled
    /\ UNCHANGED serverVars

Wait ==
    /\ Reportable # {}
    /\ EpollReturns(Reportable)
    /\ events' = [c \in Clients |-> IF c \in reported' THEN Flags(c) ELSE {}]
    /\ UNCHANGED <<clients, world, at, where>>

Turn ==
    /\ EpollFails \/ DispatchReturns
    /\ at' = FirstClient
    /\ events' = [c \in Clients |-> {}]
    /\ UNCHANGED <<clients, world, where>>

LoopStep ==
    /\ CallIdle \/ IdleOver \/ CallSource \/ ProcessDestroyList \/ StartChecks
    /\ UNCHANGED serverVars

RunIdle ==
    /\ IdleReturns
    /\ \E S \in SUBSET Alive :
          /\ conn' = Posted(S)
          /\ error' = error \cup Failed(S)
    /\ UNCHANGED <<client_list, writable, pending, world, frame>>

-----------------------------------------------------------------------------
(* socket_data and wl_client_create, which may fail before it has a source *)
(* or after.                                                               *)
Accept(c) ==
    /\ running = listener /\ running' = NoSource
    /\ c \in Connecting
    /\ peer' = [peer EXCEPT ![c] = "open"]
    /\ status' = [status EXCEPT ![c] = "active"]
    /\ interest' = interest \cup {c}
    /\ client_list' = Append(client_list, c)
    /\ UNCHANGED <<ready, armed, lists, phase, batch, pos, next, reported,
                   conn, error, writable, pending, insock, frame>>

Refuse(c) ==
    /\ running = listener /\ running' = NoSource
    /\ c \in Connecting
    /\ peer' = [peer EXCEPT ![c] = "away"]
    /\ \/ RemoveSource(c)
       \/ UNCHANGED <<status, epoll, lists, reported>>
    /\ UNCHANGED <<phase, batch, pos, next, clients, insock, frame>>

AcceptFails ==
    /\ running = listener
    /\ SourceReturns
    /\ UNCHANGED serverVars

-----------------------------------------------------------------------------
(* wl_client_connection_data                                               *)
Returns(c) ==
    /\ running' = NoSource
    /\ where' = "start"
    /\ events' = [events EXCEPT ![c] = {}]
    /\ UNCHANGED <<phase, batch, pos, next, at>>

DestroyAndReturn(c) ==
    /\ DestroyClient(c)
    /\ pending' = [pending EXCEPT ![c] = 0]
    /\ Returns(c)

(* What it does of the flags, before the first request: it destroys the    *)
(* client, or flushes and reads.                                           *)
ConnectionData(c) ==
    LET mask   == events[c]
        k      == IF "W" \in mask THEN Flushed(c, conn[c]) ELSE conn[c]
        broken == "W" \in mask /\ k.want /\ peer[c] # "open"
        eof    == "R" \in mask /\ insock[c] = 0 /\ peer[c] = "closed"
    IN  /\ running = c /\ where = "start"
        /\ IF "H" \in mask \/ broken \/ eof
           THEN DestroyAndReturn(c)
           ELSE /\ conn' = [conn EXCEPT ![c] = k]
                /\ writable' = IF "W" \in mask /\ ~k.want
                               THEN writable \ {c} ELSE writable
                /\ IF "R" \in mask
                   THEN /\ pending' = [pending EXCEPT ![c] = @ + insock[c]]
                        /\ insock' = [insock EXCEPT ![c] = 0]
                        /\ where' = IF pending'[c] > 0 THEN "requests" ELSE "end"
                   ELSE /\ where' = "end"
                        /\ UNCHANGED <<pending, insock>>
                /\ UNCHANGED <<vars, client_list, error, peer, events, at>>

(* A request has been handled.  The error flag is looked at only now.      *)
Handled(c) ==
    /\ running = c /\ where = "requests"
    /\ pending' = [pending EXCEPT ![c] = @ - 1]
    /\ where' = IF c \in error' \/ pending'[c] = 0 THEN "end" ELSE "requests"
    /\ UNCHANGED <<events, at>>

HandlerPosts(c) ==
    /\ \E S \in SUBSET Alive :
          /\ conn' = Posted(S)
          /\ error' = error \cup Failed(S)
    /\ Handled(c)
    /\ UNCHANGED <<vars, client_list, writable, world>>

(* wl_resource_destroy queues a delete_id, which is sent with what is      *)
(* posted next.                                                            *)
HandlerQueues(c) ==
    /\ conn' = [conn EXCEPT ![c] = Written(c, FALSE)]
    /\ error' = error \cup Failed({c})
    /\ Handled(c)
    /\ UNCHANGED <<vars, client_list, writable, world>>

(* wl_resource_post_error, by the handler or for a malformed request.      *)
PostsError(c) ==
    /\ conn' = Posted({c})
    /\ error' = error \cup {c}
    /\ Handled(c)
    /\ UNCHANGED <<vars, client_list, writable, world>>

HandlerAddsIdle(c) ==
    /\ wl_event_loop_add_idle(later)
    /\ UNCHANGED <<client_list, conn, error, writable, world>>
    /\ Handled(c)

(* The handler destroys another client.                                    *)
HandlerDestroys(c, d) ==
    /\ d \in Alive \ {c}
    /\ DestroyClient(d)
    /\ Handled(c)
    /\ UNCHANGED <<phase, batch, pos, next, running>>

(* Mutation: the error flag is not looked at.                              *)
ConnectionDataKeeps(c) ==
    /\ running = c /\ where = "end"
    /\ Returns(c)
    /\ UNCHANGED <<status, epoll, lists, reported, clients, world>>

ConnectionDataReturns(c) ==
    /\ running = c /\ where = "end"
    /\ IF c \in error THEN DestroyAndReturn(c)
       ELSE Returns(c) /\ UNCHANGED <<status, epoll, lists, reported, clients, world>>

-----------------------------------------------------------------------------
Peers(c) == PeerConnects(c) \/ PeerSends(c) \/ PeerReads(c) \/ PeerCloses(c)

Requests(c) ==
    \/ HandlerPosts(c) \/ HandlerQueues(c) \/ PostsError(c) \/ HandlerAddsIdle(c)
    \/ \E d \in Clients : HandlerDestroys(c, d)

Source ==
    \/ AcceptFails
    \/ \E c \in Clients :
          \/ Accept(c) \/ Refuse(c)
          \/ ConnectionData(c) \/ Requests(c) \/ ConnectionDataReturns(c)

ServerNext ==
    \/ \E c \in Clients : Peers(c)
    \/ FlushClient \/ Dispatch \/ Wait \/ Turn \/ LoopStep \/ RunIdle
    \/ Source

ServerSpec == ServerInit /\ [][ServerNext]_allVars

(* Callbacks return, the loop goes round, and epoll_wait, which returns    *)
(* some of what is ready each time, gets to every source that stays ready. *)
(* Nothing is asked of the peers.                                          *)
Progress ==
    \/ FlushClient \/ Dispatch \/ LoopStep \/ RunIdle \/ Source
    \/ Turn /\ phase = "check"

ServerFairness ==
    /\ WF_allVars(Progress)
    /\ \A s \in Fds : SF_allVars(Wait /\ s \in reported')

ServerFairSpec == ServerSpec /\ ServerFairness

-----------------------------------------------------------------------------
(* wl_client_destroy and wl_client_create keep the client list, the sources*)
(* and the callbacks together: wl_client_connection_data runs for a client *)
(* that is there, and wl_display_flush_clients stands at one.              *)
ClientOwnsSource ==
    /\ IsInjective(client_list)
    /\ \A c \in Clients : c \in Alive <=> status[c] = "active"
    /\ interest = Alive \cup {listener}
    /\ running \in Clients => running \in Alive
    /\ at \in Alive \cup {Head_}

(* One callback runs at a time, where the loop calls it: the display's     *)
(* loop is at its clients or in wl_event_loop_dispatch, and has run all    *)
(* idle sources when it leaves that; a client that has no source yet has no*)
(* part in it, and wl_client_connection_data takes no more requests than   *)
(* it has read.                                                            *)
CallbackInv ==
    /\ status[listener] = "active" /\ check_list = <<>>
    /\ \A c \in Clients :
          /\ peer[c] = "connecting" => status[c] = "free"
          /\ insock[c] + pending[c] <= MaxIn
    /\ phase \notin {"batch", "idle_again"} => running = NoSource /\ idle_list = <<>>
    /\ running \in Fds => phase = "batch"
    /\ running \in Idles => phase = "idle_again"
    /\ phase # "out" => at = Head_
    /\ where # "start" => running \in Clients
    /\ where = "requests" => pending[running] > 0

(* The values that the fields take, the lists of the loop, and the books of*)
(* wl_client_create and wl_client_destroy                                  *)
ServerInv ==
    ServerTypeOK /\ ListsInv /\ PlaceInv /\ ClientOwnsSource /\ CallbackInv

(* wl_resource_post_event: "Events ... written to the socket later -       *)
(* typically when the compositor has handled all requests and goes back to *)
(* block in the event loop."  When it does block, each event posted is in  *)
(* the socket or waits for the socket to become writable.                  *)
FlushedBeforeBlocking ==
    phase = "wait" =>
        \A c \in Alive : conn[c].want /\ conn[c].out > 0 => c \in writable

(* Events do not get stuck behind a full socket: when the peer has read    *)
(* what is in it, the rest follows.                                        *)
EventsFlow ==
    \A c \in Clients :
        c \in Alive /\ conn[c].want /\ conn[c].out > 0 ~>
            conn[c].sock > 0 \/ conn[c].out = 0 \/ c \notin Alive

(* The server reads the requests of a client that does not read its events.*)
RequestsRead ==
    \A c \in Clients : insock[c] > 0 ~> pending[c] > 0 \/ c \notin Alive

(* A client whose error flag is set, by whichever callback, is destroyed   *)
(* once it sends something.                                                *)
ErroredClientGone ==
    \A c \in Clients : c \in error /\ insock[c] > 0 ~> c \notin error
=============================================================================
