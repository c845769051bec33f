# Wayland in TLA+

A verification project for libwayland (`src/src`): TLA+ models of its state
machines, TLC configurations that check them on small instances, and TLAPS
proofs about them for every instance.

    tlc -workers 2 -config ClientReadOrder.cfg MCClientReadOrder.tla
    tlapm ClientProofs.tla

Contents: 1 the system; 2 modules and what they stand for; 3 runs; 4 bounds;
5 fairness; 6 proofs; 7 disagreements between code and documents; 8 limits;
9 plan.

## 1. The system

libwayland connects a compositor (server) with its clients over one Unix
socket per client. Both ends exchange messages that carry object ids, and file
descriptors as ancillary data. What the repository contains:

| Component | Source | State | Operations | Who it talks to |
|---|---|---|---|---|
| Client, reading events | `wayland-client.c` | `wl_display`: mutex, `reader_count`, `read_serial`, `reader_cond`, `last_error`, `protocol_error`; event queues | prepare_read, read_events, cancel_read, dispatch_queue, dispatch_queue_pending, flush, proxy_set_queue | connection (read), all threads of the client |
| Client, roundtrip | `wayland-client.c` | `done` on the caller's stack, the callback proxy | roundtrip_queue, sync_callback | event reading, the server |
| Proxies and resources | `wayland-client.c`, `wayland-server.c` | `wl_proxy` (flags, refcount), `wl_resource`, the two `wl_map`s | create, destroy, delete_id, queue_event, dispatch_event | both ends through messages |
| Object ids | `wayland-util.c` | `wl_map`: two arrays, a free list threaded through one | insert_new, insert_at, reserve_new, remove, lookup | client and server |
| Connection | `connection.c` | four 4096-byte ring buffers (bytes and fds, in and out), `want_flush` | write, queue, put_fd, flush, read, consume | socket, closures |
| Closures | `connection.c` | a message in memory | marshal, demarshal, lookup_objects, send, queue, invoke | connection, objects |
| Server: clients and requests | `wayland-server.c` | `wl_client` (objects, error, event source), resources | connection_data, post_event, post_error, create, destroy, flush | event loop, connection |
| Server: globals, registry, display | `wayland-server.c` | global list, registry resources, client list, serial | global_create, global_destroy, bind, run, terminate, flush_clients | clients, event loop |
| Event loop | `event-loop.c` | epoll fd, check, idle and destroy lists | add_*, remove, check, dispatch, dispatch_idle | server |
| Server: socket files | `wayland-server.c` | socket, lock file and its lock, per name | add_socket, lock, destroy | other compositors, through the file system |
| Lists, arrays, signals | `wayland-util.c`, `wayland-server-core.h` | doubly linked lists | insert, remove, for_each, emit | everything |
| Shared memory | `wayland-shm.c` | pools with a reference count, buffers, per-thread SIGBUS data | create_pool, create_buffer, resize, destroy, begin/end_access | resources |
| Cursor library | `cursor/*` | themes, a client shm pool | theme_load, get_cursor, frame | shm protocol |
| Scanner | `scanner.c` | none (code generator) | emit_* | its output runs in client and server, over `connection.c` |
| OS wrappers, EGL headers | `wayland-os.c`, `wayland-egl*.h` | none | dup, socket, epoll with CLOEXEC | connection, event loop |

What is hard in it, and what makes each component correct:

* **Reading events** is the only multi-threaded part. Threads read one socket
  for each other, sleep on a condition variable and drop the mutex around
  handlers and `poll`. Correct means: the count of announced readers is right,
  a sleeper is always woken, nobody's queue fills behind its back, each
  object's events are handled in order and once, and an error stops all.
* **Roundtrips** are correct if they return, and not before their own answer.
* **Objects** live at both ends and die at one end first. Ids are used again.
  Correct means that no message reaches an object it was not meant for, that
  neither end mistakes a crossing message for an error, that reference counts
  match the references, and that ids are neither lost nor given out twice.
* **Connection**: partial writes, wrapping rings, descriptors that travel
  ahead of their bytes. Correct means a stream of whole messages with their own
  descriptors, as the abstract `Channel` says.
* **Event loop**: callbacks that change the very lists the loop runs over.
  Correct means that nothing removed is called, nothing in use is freed, and
  nothing is forgotten.
* **Server**: clients that do not read, that hang up, or that are destroyed
  while other clients are served. Correct means that events are written or the
  socket is watched whenever the server blocks, and that clients with errors
  go.
* **Globals**: a bind crosses the removal of its global, and a registry is asked
  for while globals come and go. Correct means that every registry knows, with
  what is under way, the globals there are, and that a name means one global.
* **Resources**: destroy listeners and handlers change the lists and the id table
  that the calls around them are in the middle of.
* **Shared memory**: the memory outlives pool, buffers and accesses; the client
  chooses the numbers, and can shorten the file. Correct means that buffers stay
  inside, that memory lasts as long as it is used, and that no client ends the
  compositor. The **cursor library** is one such client, which must never be
  refused.
* **Socket files**: compositors start, end and crash around one name. Correct
  means that a name leads to one running compositor and is never lost.
* **Closures and scanner**: two computations each of the same size, and two
  programs that have to agree on every message.

## 2. Modules

| Module | Models | Uses |
|---|---|---|
| `ClientRead` | thread-safe reading and dispatching, `wayland-client.c` | |
| `OrderedDelivery` | *abstract*: what a client is promised about its events | |
| `ClientReadOrder` | the refinement mapping from `ClientRead` to `OrderedDelivery` | both |
| `ClientRoundtrip` | `wl_display_roundtrip_queue` by several threads | `ClientRead` |
| `WlMap` | `struct wl_map` as pure operators | |
| `ObjectLife` | proxies, resources and both message streams | `WlMap` |
| `Channel` | *abstract*: what a connection promises | |
| `Connection` | ring buffers, descriptors, flush, read of `connection.c` | `Channel` by INSTANCE |
| `Closures` | messages in memory and on the wire, as pure operators | `WlMap` |
| `Scanner` | what `scanner.c` emits for a message, as pure operators | `Closures` |
| `EventLoop` | `event-loop.c` | |
| `Server` | `wl_display_run`, clients, requests | `EventLoop` |
| `Registry` | globals, registries, bind and sync | |
| `Resources` | the destruction of a client's resources, with signals | `WlMap` |
| `Shm` | `wayland-shm.c` | |
| `Cursor` | themes of the cursor library, served by `Shm`; animations | `Shm` |
| `Sockets` | socket files and their locks | |
| `ClientProofs` | theorems about `ClientRead`, its refinement of `OrderedDelivery`, and roundtrips | `ClientReadOrder`, `ClientRoundtrip` |
| `ConnectionProofs` | theorems about the rings, the connection and its refinement of `Channel` | `Connection`, `ListProofs` |
| `ServerProofs` | theorems about the loop, the server and its sockets | `Server`, `Sockets`, `ListProofs` |
| `ObjectLifeProofs` | theorems about `ObjectLife` | `ObjectLife`, `ListProofs` |
| `ResourcesProofs` | theorems about `Resources` and its table of ids | `Resources`, `ListProofs` |
| `RegistryProofs` | theorems about `Registry` | `Registry`, `ListProofs` |
| `ShmProofs` | theorems about `Shm` and about `Cursor` | `Cursor`, `ListProofs` |
| `ListProofs` | lemmas about sequences used as lists, and about `wl_map` | `WlMap` |
| `MC...` | values for TLC | |

**ClientRead.** One action is one critical section of `display->mutex`. Only
the reader, which keeps the mutex while it sorts what it has read, takes one
step per message (`QueueEvent` is `queue_event`); `mutex` names the thread
meanwhile. Each thread has a place `pc` and the API function `fn` it is in:
`dispatch_queue` is wl_display_dispatch_queue with its prepare, flush, poll,
read and dispatch; `manual` is a caller of the separate functions. `reader_count`
and `read_serial` are the code's; `waiting` is a thread in pthread_cond_wait and
`woken` one that was signalled or woke spuriously and has not got the mutex
yet. `wire` is the socket together with the bytes not yet sorted; `rem` counts
the messages of the current read. A message is malformed, for an unknown object,
a wl_display.error or an ordinary event. The handler of wl_display.error
(display_protocol_error) has two steps, since it tests `last_error` before it
takes the mutex.

**ClientRoundtrip** adds wl_display_sync, the move of the callback to the
caller's queue, the listener and the loop on `done`, and a server that answers.

**WlMap** keeps each of the two arrays as a sequence; an entry is an object's
number or, with its lowest bit set in C, a link of the free list, which is a
negative number here. `wl_map_remove`, `wl_map_insert_new`, `wl_map_insert_at`
and `wl_map_reserve_new` return new maps.

**ObjectLife** numbers objects as they are created at either end, and messages
carry both the ids that the code looks up and the objects that the sender meant,
which only the properties look at. Client calls are critical sections; reading,
dispatching and handling wl_display.delete_id are separate steps, since threads
dispatch separately; `ReleaseQueue` is wl_event_queue_destroy. A destructor is two calls, wl_proxy_marshal and
wl_proxy_destroy (that is what `scanner.c` emits), and `SplitKinds` says for
which kinds of object another thread may come in between.

**Connection** counts in words, and a word says of which message it is the how
manieth; the ring buffers are arrays with `head` and `tail` modulo `Mod` exactly
as in `struct wl_buffer`, and the get_iov and put_iov cases are the code's. The
socket takes and gives any number of words, and a recvmsg stops at the
descriptors of the next sendmsg. `Closure` yields the set of outcomes of one
wl_closure_send or wl_closure_queue, with all the flushes that happen inside.

**EventLoop** treats a source as memory that is free, active or removed, and
that malloc may hand out again at once. `phase` is the line wl_event_loop_dispatch
is at; callbacks do whatever they like in any order. A timer is `armed` until the
kernel makes it ready; the loop reads the descriptors of timers and signals
before the callback, as their dispatch functions do.

**Server** composes `EventLoop` with the client list, the flush loop
(`at` is its client) and wl_client_connection_data (`where`).
Events and requests are counted.

**Closures** has wl_closure_marshal's checks, buffer_size_for_closure,
serialize_closure, wl_connection_demarshal and wl_closure_lookup_objects as
operators. A word of the wire is a number or the k-th word of a text, a text is a
number of bytes with or without a terminating NUL. The reader of a message has its
`wl_map`, in which wl_connection_demarshal reserves every new id with
wl_map_reserve_new of `WlMap`, and in which wl_closure_lookup_objects looks up
the others. **Scanner** has the
signature, the array of types with its shared run of NULLs, stubs, event
wrappers and handlers, each as the sequence of what is passed: a word or a
pointer.

**Registry** keeps the list of globals and the list of registry resources as
sequences, requests and events as queues per client. An event that finds no room
is lost, and the client is in error until its connection is looked at again.
wl_client_destroy goes on resource by resource (`dying`), with globals created
and destroyed in between.

**Resources** makes the C stack explicit: a frame is a function, what it works
on, and for wl_list_for_each_safe the current and the next listener. The
compositor's callbacks call wl_resource_destroy, wl_list_remove and
wl_resource_add_destroy_listener at any depth; wl_client_destroy is called from
outside, when no other function is under way. `Wild` is what
stands behind the link of a removed listener.

**Shm** counts in pages and keeps integers at a width: `Wrap` is the conversion
to int32_t. `Touch` is a memory access, which continues, faults and is repaired
by sigbus_handler, or kills. **Cursor** gives Shm its client: the library of
`cursor/wayland-cursor.c` with the requests it has sent and the compositor has
not yet read, or else any client at all. wl_cursor_frame_and_duration is an
operator on sequences of delays, with unsigned differences.

**Sockets** has one action per system call. A lock file is an inode, a lock
belongs to an inode, and a crash leaves paths and drops locks. Whether the file of
a socket has one of the two write bits that wl_socket_lock asks for before it
unlinks a leftover depends on who bound it (`Writable`).

`PROJECT.json` maps each definition to the lines it stands for. Operators whose
comment begins "Mutation" are plausible bugs that the properties must catch;
they are not part of any specification.

## 3. Runs

| Run | Shows |
|---|---|
| `ClientReadOrder` | two threads, one of them calling the read API by hand, two queues, a proxy that moves, local faults: the whole inductive invariant `ReadInv` (counting, mutex, sleeping, empty queues), and refinement of `OrderedDelivery` |
| `ClientRoundtrip` | three looping threads, one of which also does roundtrips: no roundtrip returns before its own answer, and one on the default queue returns; sleepers return, events are dispatched, all stop after an error |
| `ObjectLife` | events and requests find their objects, reference counts, both free lists, no false protocol error; an id comes back unless nothing is posted behind its delete_id |
| `Connection` | no ring overflows, what is in rings and socket is what was accepted, with its own descriptors (`ConnectionInv`); refinement of `Channel`; what was sent arrives; closures of up to four arguments arrive as sent (`ClosuresArrive`), and messages with other lengths or ids are contained (`MessagesContained`); emitted code agrees with `connection.c` (`EmittedCodeAgrees`) |
| `EventLoop` | a descriptor, a signal, a timer and idle sources: no use after free, no call after removal, and nothing forgotten |
| `Server` | two clients: list, sources and callbacks agree, and the server never blocks with events neither written nor watched |
| `ServerLive` | one client: events follow when there is room, requests are read, a client with an error goes |
| `Registry` | two clients, one of which binds anything: registries agree with the globals, binds find theirs, a sync is a barrier |
| `Resources` | nothing freed or unlinked is used, every listener is told once, table and free list agree with what lives |
| `Shm` | two threads of a compositor against the cursor library or any client: references, bounds in 32 bits, faults; the library is never refused; animations |
| `Sockets` | two compositors, three sockets, two names, crashes at every system call: names are exclusive, and one that a crash has left is recovered, at the latest by the second attempt |
| `FindRoundtripHangs` | a disagreement, section 7 |

Each property of a passing run has a mutant in `PROJECT.json`: a plausible bug in
a mapped definition that makes TLC report that property. Type invariants are
conjuncts of the invariants they belong to: `ConnectionInv`, `EventLoopInv`,
`ServerInv`, `TablesInv`, `PoolInv`, `CursorInv`, `NameInv`.

The properties that took most thought:

* `NoLostWakeup` (ClientRead): a thread sleeps only while some other thread is
  announced, so that somebody will read or withdraw and wake it, and a signalled
  one sees a `read_serial` other than its copy.
* `PreparedQueueEmpty`: from wl_display_prepare_read_queue until the read, the
  caller's queue is empty, which is why it may sleep in `poll`. No thread may
  read in the meantime, although the mutex is released.
* `MessagesFindTheirObjects` (ObjectLife): with ids used again, a lookup yields
  the object the sender meant or a destroyed one.
* `AllOnTheWay` (in `ConnectionInv`): bytes and descriptors in the four rings and
  the socket are, in order, those of the accepted messages.
* `CalledUntilRemoved` (EventLoop): also if the memory of a removed source is
  handed out again within the batch.
* `FlushedBeforeBlocking` (Server).
* `RegistriesAgree` and `SyncIsBarrier` (Registry): whatever a registry will know
  once everything under way is read.
* `NoDangling` and `ToldOnce` (Resources): under any nesting of callbacks.
* `FaultsContained` (Shm): no page fault ends the compositor, and the client that
  made a read fault is told so.
* `LibraryRespected` (in `CursorInv`): the library's idea of its pool and the
  compositor's stay compatible, however far apart they are in time.
* `IdComesBack` (ObjectLife): what wl_resource_destroy promises is less than it
  seems, see section 7.
* `Contained` (in `MessagesContained`): whatever lengths and ids a message says
  it has, nothing behind its end is read and no id in use is reserved.
* `TypesFound` (in `EmittedCodeAgrees`): connection.c indexes the array of types
  by the letters of a signature, the scanner fills it by arguments.

## 4. Bounds

* **ClientRead**: `MaxEvents` messages from the server; `SerialMod` is the width
  of `read_serial`. Since a signalled thread that has not run could miss exactly
  one full turn of the counter, `LapBound` keeps a new read from being announced
  while a signalled sleeper lags `SerialMod - 2` behind. In the code this is 2^32 - 2
  reads while one thread waits for the processor. Two threads with different
  queues and two messages meet in every place of the code; a third thread
  matters for liveness (one reads, one sleeps, one comes late), which
  `ClientRoundtrip` has, without local faults.
* **ObjectLife**: two objects beyond the display and the device, two messages
  under way in each direction, two closures queued. One object and its
  successor with the same id are what id reuse needs; bounds on the wires only
  delay senders.
* **Connection**: rings of 4 words, 3 messages of 2, 4 (full) and 5 words
  (too big) with 0 to 2 descriptors, `MaxFdsOut` = 2, a socket of 3 words.
  Buffers start at `head` = `tail` = 7 modulo 8, so that every run wraps in
  the array and in the counter. Up to 6 descriptors exist, so that `fds_in` can
  overflow: each sendmsg takes descriptors ahead of the words they belong to, and
  a message needs them only when it is complete. In the code `fds_in` holds 1024,
  and filling it takes a kernel that accepts a few bytes at a time some forty
  times during one message. `ReceiverServed` allows this failure and no other. Closures: all pairs
  of argument types and some triples, one too many arguments, texts of 0, 4 and 5
  bytes around a word of 4. Two readers, a client and a server, with objects of
  both id spaces, a zombie and free entries; WL_SERVER_ID_START is 8. For
  `MessagesContained` each word of a message is replaced by each of 0, 1, 3, 4, 5,
  8, 10, 11 and 1000000: lengths within and beyond the message, ids in use, free,
  next, beyond the next and of the wrong side. Protocols: three messages of up to two arguments, or
  with a run of four NULLs.
* **EventLoop**: two idle sources, so that one's callback adds or removes the
  other; `MaxBatch` = 2 events per epoll_wait (32 in the code), enough
  for one callback to remove the source reported next; three sources, so that a
  freed one can be handed out again while two are reported.
* **Server**: an out buffer of two events and sockets of one (`Server`) or two
  (`ServerLive`). `Server` identifies the two clients by symmetry; `ServerLive`,
  which has temporal properties, has no symmetry and one client: what each client's
  liveness depends on is its own sockets and the turns of the loop.
* **Registry**: two globals in a behaviour, one registry per client, three
  requests of the careful client and two of the other, three events of room. Two
  globals are what it takes for one to go while another comes; names are never
  used again, so more of them repeat the case.
* **Resources**: three resources beside the display's and three listeners:
  one that is being told, one that is next, and one that comes late.
  WL_SERVER_ID_START is 4, so that both id spaces fill up.
* **Shm**: two pools, two buffers, two threads, INT32_MAX = 15, so that 4 * 4
  wraps to the most negative integer; sizes -1, 0, 2, 4, nested accesses of two.
  Delays of animations are 0, 1, 3, 15 and 16 of 32, two or three to an
  animation, at all times.
* **Sockets**: a compositor with two sockets and one with one, two names; the files
  of one compositor have a write bit, those of the other have not; a lock file of three generations is what the worst interleaving needs.

`CHECK_DEADLOCK FALSE` is set where the system may stop: when all threads have
failed, when no more messages are allowed, when all objects, globals or requests
are used up, or when a compositor has been killed. Deadlock is checked for
`EventLoop`, `Server` and `ServerLive`, whose loop never stops.

## 5. Fairness

* **ClientRead**: a thread inside the library goes on, `poll` returns when there
  is something to return for, handlers return, whoever has announced a read reads
  or withdraws (as the documentation of wl_display_prepare_read demands), and
  loopers call again. Strongly fair are FlushGoesOn, since sendmsg does not say
  EAGAIN for ever, and SleepOver, since it needs the mutex, which others
  take and leave. The server need not send anything, and spurious wakeups need not
  happen.
* **ObjectLife**: both ends read and dispatch; a destructor that has begun goes
  on. HandleRequest is strongly fair, since it waits for room on the wire,
  which comes again and again. A delete_id is queued without `want_flush`, so
  that nothing sends it but what is posted later: a message is read only if one
  that is posted stands at or behind it (`Posted`). That one is flushed, for
  wl_connection_write sets `want_flush`.
* **Connection**: both ends poll, so that a flush is tried again while
  `want_flush` is set, and what arrives is read.
* **EventLoop**: the application dispatches again and again, and its callbacks
  return; an armed timer expires, and epoll_wait gets to it, the kernel's list of
  ready descriptors being a queue. EpollWait and DispatchReturns are strongly fair: the application's own
  calls may disable them for a moment, and checked sources do not ask for another
  pass for ever.
* **Server**: the loop goes round; `Wait` reports each source that is ready
  again and again. Nothing is asked of the clients.

Registry, Resources, Shm and Sockets are safety only: nothing in them waits.

## 6. Proofs

The theorems hold for every value of the constants that the modules' assumptions
allow: any finite set of threads, clients, sources, sockets, pools, any bound on
messages, any width of integers. Where a theorem has a premise, a constant of the
model says so and section 7 shows what the code does without it. `PROJECT.json`
lists the theorems; each inductive invariant was first checked by TLC on the
instance of its run.

| Module | Theorem | States | Premise |
|---|---|---|---|
| `ClientProofs` | `Typing`, `CountedReaders`, `ReadInvariant`, `NoWakeupIsLost`, `AnnouncedQueueStaysEmpty`, `LastReaderReads` | `ReadInv` and its parts | |
| | `DeliveryInOrder` | `ClientRead` implements `OrderedDelivery` | |
| | `RoundtripWaits` | `ReturnsAfterAnswer` | |
| `ConnectionProofs` | `Connected` | `ConnectionInv` | `~SkipsFds` |
| | `PromiseKept` | `Connection` implements `Channel` (`DeliversWhole`) | `~SkipsFds` |
| `ServerProofs` | `LoopIsSound`, `NoCallAfterRemoval` | `EventLoopInv`; `CalledUntilRemoved`, an action property | `~ChecksRemove` |
| | `ServerIsSound` | `ServerInv` | |
| | `FlushedWhenBlocked` | `FlushedBeforeBlocking` | `~ListenersPost` |
| | `NamesInvariant`, `NamesAreExclusive`, `NamesAreRecovered` | `NameInv`, `NameRecovered` | `~QuitsMeet` |
| `ObjectLifeProofs` | `IdsNeverMixedUp` | `MessagesFindTheirObjects` | `Premises` |
| | `TablesSound` | `TablesInv` | `Premises` |
| | `ProxiesCounted` | `ProxyRefs` | `Premises` |
| | `RulesSuffice` | `NoFailure` | `Premises` |
| `RegistryProofs` | `RegistryInvariant`, `RegistriesAlwaysAgree`, `BindsFindTheirGlobals` | `RegistryInv`, `RegistriesAgree`, `BindFindsItsGlobal` | |
| | `SyncIsAlwaysBarrier` | `SyncIsBarrier`, an action property | |
| `ResourcesProofs` | `TableSound` | `TableAgrees` | `~CreatesLate` |
| | `NothingDangles` | `NoDangling` | `~CreatesLate`, `~RemovesNext` |
| | `EachIsToldOnce` | `ToldOnce` | `~CreatesLate`, `~RemovesNext`, `~AddsLate` |
| `ShmProofs` | `PoolsLiveAsLongAsReferred`, `BuffersStayInPool` | `PoolInv`, `BuffersInPool` of `Spec` | |
| | `NoFaultKills` | `FaultsContained` of `Spec` | `~ResizesHeld` |
| | `PoolsServeTheLibrary` | the same three of `CursorSpec`, the last with its premise | |
| | `LibraryIsNeverRefused` | `CursorInv` | `~MmapFails` |

**Reading.** `ReadInv` is the conjunction of `TypeOK`, `ReadersCounted`,
`MutexInv`, `PreparedQueueEmpty`, `NoLostWakeup` and `SerialInv`. The parts need
each other:

* that a queue stays empty needs that only a thread that found `reader_count = 0`
  sorts messages (`MutexInv`), and that this count is right (`ReadersCounted`);
* that nobody sleeps for ever needs, when the last announced thread leaves, that
  it increments `read_serial` and broadcasts; and that a signalled sleeper sees
  a different serial needs a bound on how far the serial can run ahead, which is
  what `SerialInv` counts: the lap bound when the read was announced, one step
  when that read is over and one for the only fatal error.

The argument is by lemmas of one kind each: type lemmas per group of actions;
`ReaderMoves`, which says that each step of a thread leaves the set of announced
threads alone, adds the thread or removes it, with the matching change of the
count; and `SleepMoves`, which says that each step leaves sleepers alone, wakes
all of them, or puts one to sleep. The invariant steps then look only at
these few cases.

**Delivery.** Messages are numbered as the server sends them. `OrderInv` says
that along the way of an object's messages, from its handlers over the queue it is
assigned to and to the socket, numbers grow, and that no number is in
two places. A proxy that moves leaves messages in its old queue, which is why
OrderedDelivery promises nothing of objects that move. Each
step then maps to a step of OrderedDelivery or to a stutter: sending, dropping
and calling a handler change the pending messages of the objects, and sorting
and taking do not. `RoundtripWaits` rests on `RoundtripInv`: as long as
the sync of a roundtrip is not answered, no message for its callback is
anywhere (`NoAnswer`), so that nothing can have set `done`.

**Connection.** First what the ring operators do, for every size `N` of a ring and
every `Mod` that is a multiple of it: `Content` is a queue to which wl_buffer_put
and the pieces of put_iov append (`PutIs`, `ScatteredIs`), from which `Dropped`
takes (`DroppedIs`), and of which wl_buffer_copy is a prefix and the pieces of
get_iov the whole (`CopyIsPrefix`, `GatheredIs`), wherever `head` and `tail` wrap.
Then the sender: a flush moves words and descriptors along (`FlushIs`), and so
wl_closure_send puts all words of a message behind those on the way or none
(`ClosureIs`), with as many flushes inside as it needs. The inductive invariant
`Inv` has, beside what is on the way (`WordsWay`, `FdsWay`), that a descriptor never
comes behind a word of its own message (`FdsAhead`: hence none is missing when the
last word is there, `NoneMissing`), and that in `fds_out` descriptors wait only for
words that wait, without which more than MAX_FDS_OUT could gather (`Roomy`). The
receiver's side is one lemma for the words and one for the descriptors of the
first message (`TakenWords`, `TakenFds`).

**Objects.** `Premises` are three: events name no object that the server has created
(`~NamesOffers`), no destructor of such an object is interrupted (`SplitKinds`; see
section 7 for both), and the client makes fewer objects than there are ids in its
half (`MaxObjects <= WL_SERVER_ID_START`, which is 0xff000000 in the code:
wl_map_insert_new has no test of it, and one id more would be an id of the server).
The invariant `LifeInv` says what each end may believe of an object while the other end
has gone on:

* `ClientTable` and `ServerTable` give the entries of the two tables a meaning, and
  relate them: what the server has, the client has as a proxy or a zombie (`Held`),
  and while it has it, the client does not get the id back (`Back`).
* `IdsInv` says that an id on its way to be freed (`Pending`) or used (`Making`) is on
  its way once and to one end only, and that the other end has nothing at it. This is what
  makes it right that display_handle_delete_id frees the id of a zombie and only
  marks the proxy otherwise.
* `RequestGrowth` and `EventGrowth` order the messages that make an array longer,
  since wl_map_insert_at and wl_map_reserve_new accept an id only if it is at most
  the next one.
* `RequestsInv` and `EventsInv` say of the message at each place what will be true
  when it is read, in terms of what is before it and behind it: an object that a
  request is for is there, or the request that makes it is in front and none that
  destroys it (`Ready`); what an event mentions is held by the client, and by the
  server too unless its delete_id is behind (`Mention`). `Taken` and `Added` say what a
  step does to "before" and "behind" for all kinds of message at once, so that
  no proof looks into the queues.
* `QueueInv` and `RefsInv` are about closures that are read and not dispatched.
  That wl_event_queue_release gives all references back is an induction over the
  closures (`GiveBackIs`).

Most steps change little, so the proofs have one lemma for each way of doing so:
the client's program and library with the tables as they are (`Calm`), a proxy that goes
(`ProxyGoesKeeps`), a server that only sends (`EventsLonger`), a resource that goes
(`ResourceGone`), a request that is taken (`RequestTaken`).

**Event loop and server.** `LoopInv` = `TypeOK /\ ListsInv /\ PlaceInv`: which
list holds a source of which status, and where `wl_event_loop_dispatch` and its
callees may stand while a callback runs. That freed memory is unused follows
from it (`FreedIsUnused`). The server composes the loop, so `ServerProofs` uses
the lemmas about each action of the loop again, with the invariants of the client
list. `FlushInv` says where in the flush loop which clients may have events that
are neither written nor watched; destroy listeners that post (`ListenersPost`)
falsify it, and with it the property.

**Registry.** `RegistryInv` has eight parts. A registry agrees with the globals
once everything that is queued is read (`AgreeInv`); the prefix of the stream
up to a `done` is what was known when its sync was handled (`StreamInv`);
requests are in the order of the sync requests that caused them (`AskInv`); a name means the global it meant when
the client heard of it, however long ago (`NameInv`, with `InUse` for the names that
anything under way still mentions), which is what a bind needs (`BindInv`).

**Resources.** The calls in progress are a stack of any depth. `CallInv` says what
it may look like: which function calls which (`Calls`), and that no object is
being destroyed twice (`Apart`); so an emission belongs to one destruction, of an
object that is live. `TableInv` ties the table to that: each live resource is in
the table at its id, what else is there has been destroyed and is either about to
return its id or behind the place that `wl_map_for_each` has come to
(`PlaceInv`), which is why the iteration finds no freed resource although it
leaves the entries as they are. `FreeInv` is the free list of the server's ids: some
sequence of places, without repetition, has all free entries, each with the link
to the next (`Chained` in ListProofs). Taking an id pops the sequence, giving one
back pushes it, so nothing has to be shown of `FreeChain`, which follows the links,
before the very end (`FreeChainIs`, by `SetInduction`). `EmitInv` says that every
loop over listeners stands at one that is linked, and `ToldInv` that it has told
those before that place once and those behind it not at all; what is not dying
has told nobody, and what is dead has told all.

**Shared memory.** `ShmInv` relates each pool's reference counts to the set of
buffers and accesses that refer to it. `FitsMeansFits` is the arithmetic: what
`shm_pool_create_buffer` accepts lies in the pool, with products and differences
that wrap at any width. Three theorems are about `Spec` of Shm, where clients ask
for anything. In `CursorSpec`, which the run checks, the client may be the cursor
library, whose requests wait in `wire`: `LibraryInv` adds what the library knows.
`ThemeInv` is about the library: its images lie side by side in the part of
its pool that is used, and the pool, which at most doubles, stays below INT32_MAX
by `CursorAssumption`. `RequestInv` is about the wire: sizes never decrease along
it, the last of them is the one the library knows, none is more than the length of
the file, and no size follows the request of a buffer, so that each request finds
the pool, the size and the pages it needs at whatever time it is read. A failing mmap (`MmapFails`)
falsifies it. What is left of `CursorInv` is about animations, of any number of
images and any delays of 32 bits: the loop of wl_cursor_frame_and_duration is a fold,
`FramesAre` says what it has after each image, and `ImageShown`, by induction
on the images, that it stops at the one whose turn it is; `TotalAtMost` is why
a total that has wrapped does no harm, and `ModShift` why the next image follows.

**Sockets.** `LockInv` says whose lock an inode carries, `PathOf` what each socket
may know of the paths from the step it has reached. Two sockets cannot
both pass the test of the lock on one inode, and a path keeps its inode while
somebody holds it, unless one quits while another has opened the lock file
(`QuitsMeet`). `InodeLeft` says that
the model's inodes never run out.

**Lists.** `ListProofs` has the lemmas on wl_list as a sequence: what inserting,
removing and appending do to its elements. Its `SetInduction` is induction on
natural numbers with a set in the place of the predicate, so that something can
be proved of functions that the model defines by recursion (`OwnedByElements` in
RegistryProofs), of folds (`FoldPlaces` in ShmProofs), of `copy_fds_to_connection` (`CopyFdsIs`), and of `FlattenSeq`
(`FlattenConcat`), in which `AllOnTheWay` is stated. For `wl_map` it says what each
operation does to the entry at an id (`InsertNewIs`, `InsertAtIs`, `RemoveIs`,
`InsertTwice`) and that it keeps the free list, which ObjectLife and
Resources both use.

Only model-checked:

* all liveness, which is beyond the prover, and ENABLED;
* Closures and Scanner, which are computations over finite inputs and not
  behaviours.

## 7. Disagreements between code and documents

`FindRoundtripHangs`: wl_display_roundtrip_queue moves its callback to the
caller's queue after the request may have been sent and answered; then the
answer is in the default queue and the caller waits for ever. In TLC's behaviour
another thread flushes the request and reads the answer before the move, and
dispatches it from the default queue when the listener is already set: `done`
becomes 1 while the caller is in `poll` for an event that has come. The display
has no error; a roundtrip that returns -1 counts as ended (`RoundtripEnds`).

The following appear when a constant of the passing run is changed, or a
premise of a property dropped; the passing runs assume the other case.

| Change | Fails | What the code does |
|---|---|---|
| `SkipsFds` TRUE | `ConnectionInv` | an event with a descriptor for a destroyed proxy is dropped without its descriptor, which the next event with a descriptor gets (`wayland-client.c:1196`) |
| `NamesOffers` TRUE | `NoFailure` | a destroyed server-created object leaves no zombie, so an event argument that names it cannot be found (`connection.c:838`) |
| `SplitKinds` with `"offer"` | `NoFailure` | between the request of a destructor and wl_proxy_destroy (`scanner.c:1082`) the server can give the id to a new object, whose event the client then takes for malformed (`wayland-client.c:413`) |
| `ErrorEventHeard` as a property of ClientRead | it | the comment on wl_display_flush (`wayland-client.c:1827`) wants the compositor's error event to be heard after the socket is closed; a thread that reads end of file before another dispatches the event makes the display fail with EPIPE |
| `ListenersPost` TRUE | `FlushedBeforeBlocking` | what a destroy listener posts while wl_display_flush_clients destroys a client reaches clients that were already flushed |
| `ChecksRemove` TRUE | `CalledUntilRemoved` | post_dispatch_check has looked up the next source before it calls one |
| `RemovesNext` TRUE | `NoDangling` | wl_list_for_each_safe has looked up the next listener, whose links wl_list_remove then clears |
| `AddsLate` or `CreatesLate` TRUE | `ToldOnce`, `NoDangling` | a listener added by the last callback of an emission is not told; a resource created behind the iteration outlives its client |
| `ResizesHeld` TRUE | `FaultsContained` | mremap may move a mapping while a thread reads it (`wayland-shm.c:209`) |
| `MmapFails` TRUE | `CursorInv` | shm_pool_resize of the library has told the compositor of the new size when mmap fails, and then asks for less, or writes to MAP_FAILED (`wayland-cursor.c:98`) |
| `QuitsMeet` TRUE | `NameInv` | a compositor that ends unlinks a lock file that another has opened and not locked; a third locks a new one and takes the socket of the second, which the documentation of wl_display_add_socket excludes (`wayland-server.c:1312`) |
| without `GenericsFit` | `EmittedCodeAgrees` | a new_id without interface is three letters and one entry of types: beside an argument with an interface, or in a protocol whose run of NULLs is short, connection.c reads the interface of another argument or behind the array (`scanner.c:1469`). In wayland.xml the run is eight long |
| delays that sum up to 0 | `CursorInv` | wl_cursor_frame_and_duration divides by the sum |

Four more are in the models as they are in the code:

* A NULL `?n` in an event. wl_closure_marshal lets it pass, but the client's
  wl_connection_demarshal calls wl_map_reserve_new for id 0, which is of the
  client's own space (`wayland-util.c:247`), and the message is refused. A server
  with an unused entry for id 0 accepts the same in a request. `ClosuresArrive` says
  that this is the only message that is refused (`NoIdForClient`).
* A delete_id that nothing follows. wl_resource_destroy queues it by
  wl_connection_queue, which does not set `want_flush` (`connection.c:382`), and
  wl_connection_flush returns without it: the id stays in use at the client until
  the server has something else to say. `IdComesBack` allows this and nothing
  else (`LeftInBuffer`).
* A leftover socket with neither S_IWUSR nor S_IWGRP. wl_socket_lock does not unlink
  it (`wayland-server.c:1122`), bind finds the path taken, and wl_socket_destroy
  then unlinks what it did not bind: the name costs one failed attempt.
  `NameRecovered` says so.
* The log line for a message that is too short prints the word behind its end
  (`connection.c:667`); `Contained` leaves that line aside.

A fifth is allowed by the models: when two threads dispatch two wl_display.error
events, the second error can replace the first (`last_error` is tested without
the mutex at `wayland-client.c:176`).

## 8. Limits

Abstractions that a reader should know of:

* ClientRead: a read returns whole messages (the partial rest, `size == 0` in
  read_events, is in `Connection`); handlers do not call the API again; the
  socket error is one of a few.
* ObjectLife: the device is never destroyed, the reference count of the display
  is left out, the LEGACY flag has no effect.
* Connection: message lengths are in words, so a header that is split between
  words of four bytes is not; after a message that could not be sent nothing is
  claimed about descriptors, since those of the failed message stay in `fds_out`.
* Closures and Scanner: integers are not converted, int, uint and fixed are one
  type; enums, XML parsing and the text of headers are left out. DIV_ROUNDUP of a
  length is computed in a size_t, which is taken to be wider than the 32 bits of
  the length. What stands inside the words of a message that this library did not
  write is not modelled: a string with a false length is taken to end with a NUL,
  upon which the reader goes on.
* EventLoop: callbacks do not dispatch the loop; memory for idle sources is
  bounded; a piece of memory always becomes a source of the same kind again. A
  timer that an earlier callback of the batch disarms or re-arms still has its
  callback called, since the dispatch function accepts EAGAIN; no property denies
  it.
* Server: a handler does not destroy its own client, and destroy listeners
  destroy no other client (the code would use freed memory);
  wl_display_terminate and explicit calls of wl_client_flush are left out.
* Registry: wl_display_destroy, which frees globals without telling anybody, is
  left out. A client in error has one more request handled before it goes, as
  in the code.
* Resources: one client, which no callback destroys; what a destroy handler does
  is bounded by the objects there are.
* Shm: a failing mmap inside the signal handler, a failing zalloc of a thread's
  first wl_shm_buffer_begin_access (`wayland-shm.c:540`), upon which the access goes
  on unprotected, the formats that shm_pool_create_buffer checks, and the deprecated
  wl_shm_buffer_create are left out; shm_create_pool with a size of 0 or less
  leaves the descriptor open (`wayland-shm.c:239`), which is not in the state.
* Cursor: what is in an image or a theme file is left out.
* Sockets: path names and the client's connect_to_socket are left out. open, flock,
  stat, socket, bind and listen may fail; unlink and close do not. A
  process keeps its umask, and nobody else changes the mode of a socket's file.

Not modelled: formatting of messages and libffi itself, cursor file parsing
(`xcursor.c`) and the built-in images, the wrappers of system calls
(`wayland-os.c`), wl_display_connect and wl_display_disconnect, wl_array: data
conversion or system calls without a state of their own that any interleaving
could disturb.

## 9. Plan

1. *(done)* ClientRead, OrderedDelivery, ClientRoundtrip and the proofs.
2. *(done)* WlMap, ObjectLife, Resources.
3. *(done)* EventLoop with timers and signals, Server.
4. *(done)* Connection as an implementation of Channel, Closures, Scanner.
5. *(done)* Registry, Shm with Cursor, Sockets.
6. *(done)* Theorems about ClientRead with its refinement of OrderedDelivery,
   ClientRoundtrip, Connection with its refinement of Channel, EventLoop, Server,
   ObjectLife, Registry, Resources, Shm with the library of Cursor, and Sockets.
7. Left to model: wl_display_disconnect and connection destruction with the
   descriptors that are still in the rings; wl_display_destroy.
