----------------------------- MODULE ClientRead -----------------------------
(***************************************************************************)
(* The thread-safe event reading of libwayland-client (wayland-client.c).  *)
(*                                                                         *)
(* Several threads share one wl_display.  A thread announces that it is    *)
(* going to read (wl_display_prepare_read_queue), and then either reads    *)
(* (wl_display_read_events) or withdraws (wl_display_cancel_read).  The    *)
(* last announced thread to arrive reads the socket for everybody and      *)
(* sorts the messages into event queues; the others sleep on a condition   *)
(* variable until `read_serial' moves.  Queued events are dispatched by    *)
(* calling their handlers with the display mutex released.                 *)
(*                                                                         *)
(* One action is one critical section of display->mutex, except that the   *)
(* reader, which keeps the mutex while it sorts what it has read, takes    *)
(* one step per message (queue_event); `mutex' names it meanwhile.         *)
(***************************************************************************)
EXTENDS Integers, Sequences, FiniteSets

CONSTANTS
    Threads,       \* client threads
    Loopers,       \* those that only ever loop on wl_display_dispatch_queue
    Queues,        \* event queues other than the display's own one
    Proxies,       \* protocol objects other than the wl_display
    Home,          \* Home[t]: the queue that thread t dispatches
    FirstQueue,    \* FirstQueue[p]: the queue proxy p is created with
    Movable,       \* proxies on which wl_proxy_set_queue is called
    display,       \* the wl_display object
    display_queue, \* the queue of the display's own events
    NoThread,      \* nobody holds the mutex
    MaxEvents,     \* bound: messages the server sends
    SerialMod,     \* bound: read_serial counts modulo SerialMod
    LocalFaults    \* whether recvmsg, sendmsg and poll may fail for good

ASSUME ThreadAssumption ==
    /\ IsFiniteSet(Threads)
    /\ NoThread \notin Threads
    /\ Loopers \subseteq Threads

ASSUME QueueAssumption ==
    /\ display \notin Proxies
    /\ display_queue \notin Queues
    /\ Home \in [Threads -> Queues]
    /\ FirstQueue \in [Proxies -> Queues]
    /\ Movable \subseteq Proxies

ASSUME BoundAssumption ==
    /\ MaxEvents \in Nat
    /\ SerialMod \in Nat /\ SerialMod >= 4
    /\ LocalFaults \in BOOLEAN

VARIABLES
    mutex,          \* the thread that is sorting a read, or NoThread
    reader_count,   \* display->reader_count
    read_serial,    \* display->read_serial
    last_error,     \* display->last_error
    protocol_error, \* id of the event stored in display->protocol_error, or 0
    proxy_queue,    \* proxy->queue
    queue,          \* queue->event_list
    wire,           \* messages the server sent that are not sorted yet
    sent,           \* number of messages sent so far
    hup,            \* the server has closed the connection
    rem,            \* messages read and still to be sorted (read_events' rem)
    pc,             \* where each thread is
    fn,             \* the API function the thread is in
    serial,         \* read_events' local copy of read_serial
    cur             \* the event whose handler the thread is running

readVars == <<mutex, reader_count, read_serial, rem>>
errVars  == <<last_error, protocol_error>>
netVars  == <<wire, sent, hup>>
thrVars  == <<fn, serial, cur>>
vars == <<readVars, errVars, netVars, thrVars, proxy_queue, queue, pc>>

-----------------------------------------------------------------------------
Objects   == Proxies \cup {display}
AllQueues == Queues \cup {display_queue}

(* What a message does to queue_event: "event" and "error" are queued, the *)
(* latter a wl_display.error; an "unknown" one has a zombie or NULL as its *)
(* target and is skipped; a "malformed" one cannot be demarshalled.        *)
Kinds == {"event", "error", "unknown", "malformed"}

Events  == [obj : Objects, kind : Kinds, id : Nat]
NoEvent == [obj |-> display, kind |-> "unknown", id |-> 0]

Errors == {"none", "EPIPE", "EINVAL", "EIO", "EPROTO"}

(* Places where a thread has announced a read and has not yet read or      *)
(* withdrawn: in the caller's own code, or inside wl_display_dispatch_queue*)
Announced == {"prepared", "flush", "pollout", "pollin", "read", "cancel"}

Sleeping == {"waiting", "woken"}

Places == Announced \cup Sleeping \cup
          {"idle", "reading", "dispatch", "dispatch_own", "handler", "perr",
           "failed"}

Prepared == {t \in Threads : pc[t] \in Announced}

Free     == mutex = NoThread
HasInput == wire # <<>> \/ hup

Destination(e) == IF e.obj = display THEN display_queue ELSE proxy_queue[e.obj]

(* How far read_serial has moved since a sleeper copied it.                *)
Lag(t) == IF read_serial >= serial[t]
          THEN read_serial - serial[t]
          ELSE read_serial - serial[t] + SerialMod

(* Bound that stands for "read_serial, 32 bits wide, does not go once round*)
(* while a thread that was signalled waits to run": no new read is         *)
(* announced while a sleeper is that far behind.                           *)
LapBound == \A t \in Threads : pc[t] = "woken" => Lag(t) < SerialMod - 2

-----------------------------------------------------------------------------
TypeOK ==
    /\ mutex \in Threads \cup {NoThread}
    /\ reader_count \in Int
    /\ read_serial \in 0 .. SerialMod - 1
    /\ last_error \in Errors
    /\ protocol_error \in Nat
    /\ proxy_queue \in [Proxies -> Queues]
    /\ queue \in [AllQueues -> Seq(Events)]
    /\ wire \in Seq(Events)
    /\ sent \in Nat
    /\ hup \in BOOLEAN
    /\ rem \in 0 .. Len(wire)
    /\ pc \in [Threads -> Places]
    /\ fn \in [Threads -> {"manual", "dispatch_queue"}]
    /\ serial \in [Threads -> 0 .. SerialMod - 1]
    /\ cur \in [Threads -> Events]

Init ==
    /\ mutex = NoThread
    /\ reader_count = 0
    /\ read_serial = 0
    /\ last_error = "none"
    /\ protocol_error = 0
    /\ proxy_queue = FirstQueue
    /\ queue = [q \in AllQueues |-> <<>>]
    /\ wire = <<>>
    /\ sent = 0
    /\ hup = FALSE
    /\ rem = 0
    /\ pc = [t \in Threads |-> "idle"]
    /\ fn = [t \in Threads |-> "manual"]
    /\ serial = [t \in Threads |-> 0]
    /\ cur = [t \in Threads |-> NoEvent]

-----------------------------------------------------------------------------
(* The server, as far as the client sees it.                               *)

ServerSends(o, k) ==
    /\ sent < MaxEvents
    /\ ~hup
    /\ k = "error" => o = display
    /\ sent' = sent + 1
    /\ wire' = Append(wire, [obj |-> o, kind |-> k, id |-> sent'])
    /\ UNCHANGED <<readVars, errVars, thrVars, hup, proxy_queue, queue, pc>>

ServerCloses ==
    /\ ~hup
    /\ hup' = TRUE
    /\ UNCHANGED <<readVars, errVars, thrVars, wire, sent, proxy_queue, queue,
                   pc>>

-----------------------------------------------------------------------------
(* Helpers called with the mutex held.                                     *)

NextSerial == IF read_serial = SerialMod - 1 THEN 0 ELSE read_serial + 1

(* pthread_cond_broadcast, applied to where the threads are.               *)
Broadcast(f) == [t \in Threads |-> IF f[t] = "waiting" THEN "woken" ELSE f[t]]

(* display_wakeup_threads; f is where the caller leaves the threads.       *)
WakeupThreads(f) ==
    /\ read_serial' = NextSerial
    /\ pc' = Broadcast(f)

(* Mutation: a fatal error does not wake the sleepers.                     *)
FatalErrorQuiet(err, f) ==
    /\ pc' = f
    /\ last_error' = IF last_error = "none" THEN err ELSE last_error
    /\ UNCHANGED read_serial

(* display_fatal_error                                                     *)
FatalError(err, f) ==
    IF last_error # "none"
    THEN /\ pc' = f
         /\ UNCHANGED <<last_error, read_serial>>
    ELSE /\ last_error' = err
         /\ WakeupThreads(f)

(* Where thread t goes when wl_display_read_events returns.                *)
AfterRead(t, ok) ==
    [pc EXCEPT ![t] = IF ~ok THEN "failed"
                      ELSE IF fn[t] = "dispatch_queue" THEN "dispatch"
                      ELSE "idle"]

(* Mutation: cancel_read does not wake the sleepers.                       *)
WithdrawQuietly(f) ==
    /\ reader_count' = reader_count - 1
    /\ pc' = f
    /\ UNCHANGED read_serial

(* cancel_read; f is where the caller leaves the threads.                  *)
Withdraw(f) ==
    /\ reader_count' = reader_count - 1
    /\ IF reader_count' = 0
       THEN WakeupThreads(f)
       ELSE pc' = f /\ UNCHANGED read_serial

-----------------------------------------------------------------------------
(* Calls made by a thread that is not inside wl_display_dispatch_queue.    *)

(* Mutation: the queue is not looked at.                                   *)
PrepareReadQueueBlindly(t) ==
    /\ pc[t] = "idle" /\ t \notin Loopers
    /\ Free /\ LapBound
    /\ reader_count' = reader_count + 1
    /\ pc' = [pc EXCEPT ![t] = "prepared"]
    /\ UNCHANGED <<mutex, read_serial, rem, errVars, netVars, thrVars,
                   proxy_queue, queue>>

(* wl_display_prepare_read_queue, called directly.  With events in the     *)
(* queue it returns -1 and changes nothing.                                *)
PrepareReadQueue(t) ==
    /\ pc[t] = "idle" /\ t \notin Loopers
    /\ Free /\ LapBound
    /\ queue[Home[t]] = <<>>
    /\ reader_count' = reader_count + 1
    /\ pc' = [pc EXCEPT ![t] = "prepared"]
    /\ UNCHANGED <<mutex, read_serial, rem, errVars, netVars, thrVars,
                   proxy_queue, queue>>

(* Mutation: it goes to poll without looking at the queue.                 *)
DispatchQueueBlindly(t) ==
    /\ pc[t] = "idle"
    /\ Free /\ LapBound
    /\ pc' = [pc EXCEPT ![t] = "flush"]
    /\ reader_count' = reader_count + 1
    /\ fn' = [fn EXCEPT ![t] = "dispatch_queue"]
    /\ UNCHANGED <<mutex, read_serial, rem, errVars, netVars, serial, cur,
                   proxy_queue, queue>>

(* wl_display_dispatch_queue up to its first step.                         *)
DispatchQueue(t) ==
    /\ pc[t] = "idle"
    /\ Free
    /\ IF queue[Home[t]] # <<>>
       THEN /\ pc' = [pc EXCEPT ![t] = "dispatch"]
            /\ UNCHANGED <<reader_count, fn>>
       ELSE /\ LapBound
            /\ pc' = [pc EXCEPT ![t] = "flush"]
            /\ reader_count' = reader_count + 1
            /\ fn' = [fn EXCEPT ![t] = "dispatch_queue"]
    /\ UNCHANGED <<mutex, read_serial, rem, errVars, netVars, serial, cur,
                   proxy_queue, queue>>

(* wl_display_dispatch_queue_pending, called directly.                     *)
DispatchQueuePending(t) ==
    /\ pc[t] = "idle" /\ t \notin Loopers
    /\ pc' = [pc EXCEPT ![t] = "dispatch"]
    /\ UNCHANGED <<readVars, errVars, netVars, thrVars, proxy_queue, queue>>

(* wl_proxy_set_queue: a plain store, no mutex.                            *)
SetQueue(t, p, q) ==
    /\ pc[t] \in {"idle", "prepared", "handler"}
    /\ p \in Movable
    /\ proxy_queue[p] # q
    /\ proxy_queue' = [proxy_queue EXCEPT ![p] = q]
    /\ UNCHANGED <<readVars, errVars, netVars, thrVars, queue, pc>>

(* wl_display_flush, called directly, when it fails for good.              *)
FlushBreaks(t) ==
    /\ LocalFaults
    /\ pc[t] \in {"idle", "prepared"} /\ t \notin Loopers
    /\ Free
    /\ last_error = "none"
    /\ FatalError("EIO", pc)
    /\ UNCHANGED <<mutex, reader_count, rem, protocol_error, netVars, thrVars,
                   proxy_queue, queue>>

-----------------------------------------------------------------------------
(* The rest of wl_display_dispatch_queue before it reads.                  *)

(* wl_display_flush with nothing wrong, or with an EPIPE: the sticky error *)
(* EPIPE, or the one sendmsg gives on a closed connection, goes on.        *)
FlushGoesOn(t) ==
    /\ pc[t] = "flush" /\ Free
    /\ last_error \in {"none", "EPIPE"}
    /\ pc' = [pc EXCEPT ![t] = "pollin"]
    /\ UNCHANGED <<readVars, errVars, netVars, thrVars, proxy_queue, queue>>

FlushWouldBlock(t) ==
    /\ pc[t] = "flush" /\ Free
    /\ last_error = "none" /\ ~hup
    /\ pc' = [pc EXCEPT ![t] = "pollout"]
    /\ UNCHANGED <<readVars, errVars, netVars, thrVars, proxy_queue, queue>>

(* Mutation: it returns -1 without cancelling the read.                    *)
FlushFailsAnnounced(t) ==
    /\ pc[t] = "flush" /\ Free
    /\ \/ /\ last_error \notin {"none", "EPIPE"}
          /\ pc' = [pc EXCEPT ![t] = "failed"]
          /\ UNCHANGED <<last_error, read_serial>>
       \/ /\ LocalFaults /\ last_error = "none"
          /\ FatalError("EIO", [pc EXCEPT ![t] = "failed"])
    /\ UNCHANGED <<mutex, reader_count, rem, protocol_error, netVars, thrVars,
                   proxy_queue, queue>>

FlushFails(t) ==
    /\ pc[t] = "flush" /\ Free
    /\ \/ /\ last_error \notin {"none", "EPIPE"}
          /\ pc' = [pc EXCEPT ![t] = "cancel"]
          /\ UNCHANGED <<last_error, read_serial>>
       \/ /\ LocalFaults /\ last_error = "none"
          /\ FatalError("EIO", [pc EXCEPT ![t] = "cancel"])
    /\ UNCHANGED <<mutex, reader_count, rem, protocol_error, netVars, thrVars,
                   proxy_queue, queue>>

PollOut(t) ==
    /\ pc[t] = "pollout"
    /\ pc' = [pc EXCEPT ![t] = "flush"]
    /\ UNCHANGED <<readVars, errVars, netVars, thrVars, proxy_queue, queue>>

PollIn(t) ==
    /\ pc[t] = "pollin"
    /\ HasInput
    /\ pc' = [pc EXCEPT ![t] = "read"]
    /\ UNCHANGED <<readVars, errVars, netVars, thrVars, proxy_queue, queue>>

PollFails(t) ==
    /\ LocalFaults
    /\ pc[t] \in {"pollout", "pollin"}
    /\ pc' = [pc EXCEPT ![t] = "cancel"]
    /\ UNCHANGED <<readVars, errVars, netVars, thrVars, proxy_queue, queue>>

(* wl_display_cancel_read, called directly or by wl_display_dispatch_queue *)
(* which then returns -1.                                                  *)
CancelRead(t) ==
    /\ pc[t] \in {"prepared", "cancel"} /\ Free
    /\ Withdraw([pc EXCEPT ![t] = IF pc[t] = "cancel" THEN "failed" ELSE "idle"])
    /\ UNCHANGED <<mutex, rem, errVars, netVars, thrVars, proxy_queue, queue>>

-----------------------------------------------------------------------------
(* wl_display_read_events                                                  *)

ReadCalled(t) == pc[t] \in {"prepared", "read"} /\ Free

(* An earlier error: withdraw and return -1.                               *)
ReadAfterError(t) ==
    /\ ReadCalled(t)
    /\ last_error # "none"
    /\ Withdraw(AfterRead(t, FALSE))
    /\ UNCHANGED <<mutex, rem, errVars, netVars, thrVars, proxy_queue, queue>>

(* Others are still announced: sleep until read_serial moves.              *)
ReadSleeps(t) ==
    /\ ReadCalled(t)
    /\ last_error = "none"
    /\ reader_count' = reader_count - 1
    /\ reader_count' # 0
    /\ serial' = [serial EXCEPT ![t] = read_serial]
    /\ pc' = [pc EXCEPT ![t] = "waiting"]
    /\ UNCHANGED <<mutex, read_serial, rem, errVars, netVars, fn, cur,
                   proxy_queue, queue>>

LastReader(t) ==
    /\ ReadCalled(t)
    /\ last_error = "none"
    /\ reader_count' = reader_count - 1
    /\ reader_count' = 0

(* wl_connection_read returned data: keep the mutex and sort it.           *)
ReadData(t) ==
    /\ LastReader(t)
    /\ wire # <<>>
    /\ \E k \in 1 .. Len(wire) : rem' = k
    /\ mutex' = t
    /\ pc' = [pc EXCEPT ![t] = "reading"]
    /\ UNCHANGED <<read_serial, errVars, netVars, thrVars, proxy_queue, queue>>

(* EAGAIN: wake everybody, return 0.                                       *)
ReadNothing(t) ==
    /\ LastReader(t)
    /\ ~HasInput
    /\ WakeupThreads(AfterRead(t, TRUE))
    /\ UNCHANGED <<mutex, rem, errVars, netVars, thrVars, proxy_queue, queue>>

(* End of file, or an error of recvmsg.                                    *)
ReadFails(t) ==
    /\ LastReader(t)
    /\ \/ hup /\ wire = <<>> /\ FatalError("EPIPE", AfterRead(t, FALSE))
       \/ LocalFaults /\ FatalError("EIO", AfterRead(t, FALSE))
    /\ UNCHANGED <<mutex, rem, protocol_error, netVars, thrVars, proxy_queue,
                   queue>>

(* Mutation: the event is inserted at the head of the list.                *)
QueueEventAtHead(t) ==
    /\ pc[t] = "reading" /\ mutex = t
    /\ rem > 0
    /\ LET e == Head(wire)
       IN  /\ e.kind # "malformed"
           /\ queue' = IF e.kind = "unknown" THEN queue
                       ELSE [queue EXCEPT ![Destination(e)] = <<e>> \o @]
    /\ wire' = Tail(wire)
    /\ rem' = rem - 1
    /\ UNCHANGED <<mutex, reader_count, read_serial, errVars, sent, hup,
                   thrVars, proxy_queue, pc>>

(* queue_event, for a message that is queued or skipped.                   *)
QueueEvent(t) ==
    /\ pc[t] = "reading" /\ mutex = t
    /\ rem > 0
    /\ LET e == Head(wire)
       IN  /\ e.kind # "malformed"
           /\ queue' = IF e.kind = "unknown" THEN queue
                       ELSE [queue EXCEPT ![Destination(e)] = Append(@, e)]
    /\ wire' = Tail(wire)
    /\ rem' = rem - 1
    /\ UNCHANGED <<mutex, reader_count, read_serial, errVars, sent, hup,
                   thrVars, proxy_queue, pc>>

(* queue_event returned -1.                                                *)
QueueEventFails(t) ==
    /\ pc[t] = "reading" /\ mutex = t
    /\ rem > 0
    /\ Head(wire).kind = "malformed"
    /\ FatalError("EINVAL", AfterRead(t, FALSE))
    /\ wire' = Tail(wire)
    /\ rem' = 0
    /\ mutex' = NoThread
    /\ UNCHANGED <<reader_count, protocol_error, sent, hup, thrVars,
                   proxy_queue, queue>>

(* Mutation: the sleepers are not woken after a successful read.           *)
ReadDoneQuietly(t) ==
    /\ pc[t] = "reading" /\ mutex = t
    /\ rem = 0
    /\ pc' = AfterRead(t, TRUE)
    /\ mutex' = NoThread
    /\ UNCHANGED <<reader_count, read_serial, rem, errVars, netVars, thrVars,
                   proxy_queue, queue>>

ReadDone(t) ==
    /\ pc[t] = "reading" /\ mutex = t
    /\ rem = 0
    /\ WakeupThreads(AfterRead(t, TRUE))
    /\ mutex' = NoThread
    /\ UNCHANGED <<reader_count, rem, errVars, netVars, thrVars, proxy_queue,
                   queue>>

(* pthread_cond_wait may return without a broadcast.                       *)
SpuriousWakeup(t) ==
    /\ pc[t] = "waiting" /\ Free
    /\ pc' = [pc EXCEPT ![t] = "woken"]
    /\ UNCHANGED <<readVars, errVars, netVars, thrVars, proxy_queue, queue>>

(* The while loop around pthread_cond_wait, and what follows it.           *)
SleepAgain(t) ==
    /\ pc[t] = "woken" /\ Free
    /\ read_serial = serial[t]
    /\ pc' = [pc EXCEPT ![t] = "waiting"]
    /\ UNCHANGED <<readVars, errVars, netVars, thrVars, proxy_queue, queue>>

SleepOver(t) ==
    /\ pc[t] = "woken" /\ Free
    /\ read_serial # serial[t]
    /\ pc' = AfterRead(t, last_error = "none")
    /\ serial' = [serial EXCEPT ![t] = 0]
    /\ UNCHANGED <<readVars, errVars, netVars, fn, cur, proxy_queue, queue>>

-----------------------------------------------------------------------------
(* dispatch_queue and dispatch_event                                       *)

AtDispatch(t) ==
    /\ pc[t] \in {"dispatch", "dispatch_own"}
    /\ mutex \in {NoThread, t}

(* The queue the next event comes from: the display's own one first, then  *)
(* the caller's; once in the second loop the first is not looked at again. *)
Pending(t) ==
    {q \in AllQueues :
        /\ queue[q] # <<>>
        /\ \/ q = display_queue /\ pc[t] = "dispatch"
           \/ q = Home[t] /\ (pc[t] = "dispatch" => queue[display_queue] = <<>>)}

(* Where dispatch_queue goes on after an event of queue q.                 *)
LoopOf(e) == IF e.obj = display THEN "dispatch" ELSE "dispatch_own"

DispatchEvent(t) ==
    /\ AtDispatch(t)
    /\ last_error = "none"
    /\ \E q \in Pending(t) :
          /\ queue' = [queue EXCEPT ![q] = Tail(@)]
          /\ cur' = [cur EXCEPT ![t] = Head(queue[q])]
    /\ mutex' = NoThread
    /\ pc' = [pc EXCEPT ![t] = "handler"]
    /\ UNCHANGED <<reader_count, read_serial, rem, errVars, netVars, fn,
                   serial, proxy_queue>>

(* dispatch_event when the proxy has been destroyed meanwhile: the event is*)
(* dropped and the loop goes on without releasing the mutex.               *)
DiscardEvent(t) ==
    /\ AtDispatch(t)
    /\ last_error = "none"
    /\ \E q \in Pending(t) \ {display_queue} :
          queue' = [queue EXCEPT ![q] = Tail(@)]
    /\ mutex' = t
    /\ pc' = [pc EXCEPT ![t] = "dispatch_own"]
    /\ UNCHANGED <<reader_count, read_serial, rem, errVars, netVars, thrVars,
                   proxy_queue>>

(* dispatch_queue returns: -1 after an error, else when nothing is left.   *)
DispatchReturns(t) ==
    /\ AtDispatch(t)
    /\ last_error = "none" => Pending(t) = {}
    /\ mutex' = NoThread
    /\ pc' = [pc EXCEPT ![t] = IF last_error = "none" THEN "idle" ELSE "failed"]
    /\ fn' = [fn EXCEPT ![t] = "manual"]
    /\ UNCHANGED <<reader_count, read_serial, rem, errVars, netVars, serial,
                   cur, proxy_queue, queue>>

(* The handler runs without the mutex.  wl_display.error calls             *)
(* display_protocol_error, which looks at last_error before it locks.      *)
HandlerReturns(t) ==
    /\ pc[t] = "handler"
    /\ cur[t].kind = "error" => last_error # "none"
    /\ pc' = [pc EXCEPT ![t] = LoopOf(cur[t])]
    /\ cur' = [cur EXCEPT ![t] = NoEvent]
    /\ UNCHANGED <<readVars, errVars, netVars, fn, serial, proxy_queue, queue>>

HandlerSeesError(t) ==
    /\ pc[t] = "handler"
    /\ cur[t].kind = "error" /\ last_error = "none"
    /\ pc' = [pc EXCEPT ![t] = "perr"]
    /\ UNCHANGED <<readVars, errVars, netVars, thrVars, proxy_queue, queue>>

(* The rest of display_protocol_error, with the mutex.                     *)
ProtocolError(t) ==
    /\ pc[t] = "perr" /\ Free
    /\ last_error' = "EPROTO"
    /\ protocol_error' = cur[t].id
    /\ pc' = [pc EXCEPT ![t] = LoopOf(cur[t])]
    /\ cur' = [cur EXCEPT ![t] = NoEvent]
    /\ UNCHANGED <<readVars, netVars, fn, serial, proxy_queue, queue>>

-----------------------------------------------------------------------------
Server == ServerCloses \/ \E o \in Objects, k \in Kinds : ServerSends(o, k)

Call(t) ==
    \/ PrepareReadQueue(t) \/ DispatchQueue(t) \/ DispatchQueuePending(t)
    \/ FlushBreaks(t) \/ \E p \in Proxies, q \in Queues : SetQueue(t, p, q)

Flush(t) == FlushGoesOn(t) \/ FlushWouldBlock(t) \/ FlushFails(t)

ReadEvents(t) ==
    ReadAfterError(t) \/ ReadSleeps(t) \/ ReadData(t) \/ ReadNothing(t)
    \/ ReadFails(t)

Sort(t) == QueueEvent(t) \/ QueueEventFails(t) \/ ReadDone(t)

Sleep(t) == SleepAgain(t) \/ SleepOver(t)

Dispatch(t) ==
    DispatchEvent(t) \/ DiscardEvent(t) \/ DispatchReturns(t)
    \/ HandlerReturns(t) \/ HandlerSeesError(t) \/ ProtocolError(t)

Thread(t) ==
    \/ Call(t) \/ Flush(t) \/ PollOut(t) \/ PollIn(t) \/ PollFails(t)
    \/ CancelRead(t) \/ ReadEvents(t) \/ Sort(t) \/ SpuriousWakeup(t)
    \/ Sleep(t) \/ Dispatch(t)

Next == Server \/ \E t \in Threads : Thread(t)

Spec == Init /\ [][Next]_vars

(* A thread that is inside the library keeps running, poll returns once    *)
(* there is something to return for, a handler returns, a caller that has  *)
(* announced a read reads or withdraws, and a looper calls again.  sendmsg *)
(* does not say EAGAIN for ever.                                           *)
Fairness ==
    \A t \in Threads :
        /\ WF_vars(PollOut(t)) /\ WF_vars(PollIn(t))
        /\ SF_vars(FlushGoesOn(t)) /\ WF_vars(FlushFails(t))
        /\ WF_vars(CancelRead(t) \/ ReadEvents(t))
        /\ WF_vars(Sort(t))
        /\ SF_vars(SleepOver(t))
        /\ WF_vars(Dispatch(t))
        /\ t \in Loopers => WF_vars(DispatchQueue(t))

FairSpec == Spec /\ Fairness

-----------------------------------------------------------------------------
(* Safety                                                                  *)

(* display->reader_count is the number of announced reads: every path out  *)
(* of an announcement, the error paths too, gives it back exactly once.    *)
ReadersCounted == reader_count = Cardinality(Prepared)

(* Somebody is going to move read_serial: a read is announced, or the last *)
(* reader is at work.                                                      *)
ReadUnderWay == reader_count > 0 \/ \E t \in Threads : pc[t] = "reading"

(* No thread sleeps in read_events() with nobody left to wake it: while a  *)
(* sleeper's serial is current a read is under way.  A sleeper that has    *)
(* been signalled finds read_serial moved, however late it runs.           *)
NoLostWakeup ==
    \A t \in Threads :
        pc[t] = "waiting" \/ (pc[t] = "woken" /\ serial[t] = read_serial)
        => serial[t] = read_serial /\ ReadUnderWay

(* wl_display_prepare_read_queue: until the announced thread reads, no     *)
(* other thread reads from the fd ...                                      *)
OnlyLastReaderReads ==
    (\E t \in Threads : pc[t] = "reading") => Prepared = {}

(* ... and nobody queues events in its queue, so that it cannot block in   *)
(* poll with an event already waiting for it.                              *)
PreparedQueueEmpty == \A t \in Prepared : queue[Home[t]] = <<>>

(* wl_display_flush: EPIPE "is not a fatal error here, so that we may try  *)
(* to read events after the failed flush", and the reason the compositor   *)
(* gave for closing the connection is not lost: the display does not fail  *)
(* with EPIPE while a wl_display.error is still unread or unhandled.  It   *)
(* does when one thread has queued the error and, before it dispatches it, *)
(* another reads the end of file: the code does not keep this promise.     *)
ErrorEventHeard ==
    [][last_error = "none" /\ last_error' = "EPIPE" =>
          /\ \A i \in 1 .. Len(wire) : wire[i].kind # "error"
          /\ \A i \in 1 .. Len(queue[display_queue]) :
                queue[display_queue][i].kind # "error"
          /\ \A t \in Threads : cur[t].kind # "error"]_vars

-----------------------------------------------------------------------------
(* The inductive invariant behind ReadersCounted, NoLostWakeup,            *)
(* OnlyLastReaderReads and PreparedQueueEmpty.                             *)

(* The mutex is kept over a step by the reader and by a thread that drops  *)
(* the events of destroyed proxies.  The reader found no error, and none   *)
(* can be set under its hands, so that its own fatal error does wake.      *)
MutexInv ==
    /\ mutex # NoThread => pc[mutex] \in {"reading", "dispatch_own"}
    /\ \A t \in Threads : pc[t] = "reading" =>
          t = mutex /\ reader_count = 0 /\ last_error = "none"

(* How far read_serial can run ahead of a signalled sleeper: LapBound when *)
(* a read was last announced, then one step when that read is over, and    *)
(* one for the display's only fatal error.                                 *)
SerialInv ==
    \A t \in Threads : pc[t] = "woken" =>
        Lag(t) <= SerialMod - 3 + (IF ReadUnderWay THEN 0 ELSE 1)
                                + (IF last_error = "none" THEN 0 ELSE 1)

ReadInv ==
    /\ TypeOK
    /\ ReadersCounted
    /\ MutexInv
    /\ PreparedQueueEmpty
    /\ NoLostWakeup
    /\ SerialInv

-----------------------------------------------------------------------------
(* Liveness                                                                *)

(* A thread sleeping in read_events() returns once there is something to   *)
(* read.                                                                   *)
SleeperReturns ==
    \A t \in Threads :
        pc[t] = "waiting" /\ HasInput ~> pc[t] \notin Sleeping

(* Events do not stay in a queue that some looper dispatches, unless the   *)
(* display fails; in the display's own queue neither if all threads loop (a*)
(* thread that reads and does not dispatch leaves them there, and the other*)
(* threads, who announce reads on queues of their own, do not see them).   *)
EventsDispatched ==
    \A q \in {Home[t] : t \in Loopers}
            \cup (IF Loopers = Threads THEN {display_queue} ELSE {}) :
        queue[q] # <<>> ~> queue[q] = <<>> \/ last_error # "none"

(* After an error and a hang-up every looper gets -1 and stops.            *)
LoopersStop ==
    last_error # "none" /\ hup ~> \A t \in Loopers : pc[t] = "failed"

=============================================================================
