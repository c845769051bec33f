--------------------------- MODULE ClientRoundtrip ---------------------------
(***************************************************************************)
(* wl_display_roundtrip_queue (wayland-client.c) among threads that read   *)
(* events as in ClientRead.  A roundtrip sends wl_display.sync, moves the  *)
(* new wl_callback to its queue, gives it a listener and dispatches the    *)
(* queue until the listener has run.                                       *)
(***************************************************************************)
EXTENDS ClientRead

CONSTANTS
    Roundtrippers,  \* threads that make one roundtrip on their own queue
    Callback        \* Callback[t]: the wl_callback of t's wl_display.sync

ASSUME RoundtripAssumption ==
    /\ Roundtrippers \subseteq Loopers
    /\ Callback \in [Roundtrippers -> Proxies]
    /\ \A t, u \in Roundtrippers : Callback[t] = Callback[u] => t = u

VARIABLES
    rt,         \* progress of each roundtrip: before, synced (wl_display_sync
                \* done), moved (its queue set), loop (the loop's test is
                \* next), again (the next dispatch is), returned or failed
    listening,  \* threads whose callback has its listener
    done,       \* threads whose listener has run (the local `done')
    unsent,     \* threads whose sync is in the connection's out buffer
    asked       \* threads whose sync the server has received, not answered

rtVars  == <<rt, listening, done, unsent, asked>>
allVars == <<vars, rtVars>>

RInit ==
    /\ Init
    /\ rt = [t \in Roundtrippers |-> "before"]
    /\ listening = {}
    /\ done = {}
    /\ unsent = {}
    /\ asked = {}

-----------------------------------------------------------------------------
(* wl_display_sync: the callback is created with the display's queue, and  *)
(* the request goes into the out buffer, where anyone may flush it.        *)
Sync(t) ==
    /\ rt[t] = "before" /\ pc[t] = "idle" /\ Free
    /\ unsent' = unsent \cup {t}
    /\ rt' = [rt EXCEPT ![t] = "synced"]
    /\ UNCHANGED <<vars, listening, done, asked>>

(* wl_proxy_set_queue(callback, queue), without the mutex.                 *)
MoveCallback(t) ==
    /\ rt[t] = "synced"
    /\ proxy_queue' = [proxy_queue EXCEPT ![Callback[t]] = Home[t]]
    /\ rt' = [rt EXCEPT ![t] = "moved"]
    /\ UNCHANGED <<readVars, errVars, netVars, thrVars, queue, pc, listening,
                   done, unsent, asked>>

(* wl_callback_add_listener                                                *)
AddListener(t) ==
    /\ rt[t] = "moved"
    /\ listening' = listening \cup {t}
    /\ rt' = [rt EXCEPT ![t] = "loop"]
    /\ UNCHANGED <<vars, done, unsent, asked>>

(* while (!done && ret >= 0) ret = wl_display_dispatch_queue(...); the test*)
(* is made without the mutex.                                              *)
TestDone(t) ==
    /\ rt[t] = "loop" /\ pc[t] = "idle" /\ t \notin done
    /\ rt' = [rt EXCEPT ![t] = "again"]
    /\ UNCHANGED <<vars, listening, done, unsent, asked>>

LoopAgain(t) ==
    /\ rt[t] = "again"
    /\ DispatchQueue(t)
    /\ rt' = [rt EXCEPT ![t] = "loop"]
    /\ UNCHANGED <<listening, done, unsent, asked>>

RoundtripReturns(t) ==
    /\ rt[t] = "loop"
    /\ \/ pc[t] = "idle" /\ t \in done /\ rt' = [rt EXCEPT ![t] = "returned"]
       \/ pc[t] = "failed" /\ rt' = [rt EXCEPT ![t] = "failed"]
    /\ UNCHANGED <<vars, listening, done, unsent, asked>>

Roundtrip(t) ==
    Sync(t) \/ MoveCallback(t) \/ AddListener(t) \/ TestDone(t)
    \/ LoopAgain(t) \/ RoundtripReturns(t)

-----------------------------------------------------------------------------
(* The steps of ClientRead inside the library.                             *)

(* A flush sends what every thread has put into the out buffer.            *)
RFlush(t) ==
    \/ /\ FlushGoesOn(t)
       /\ asked' = asked \cup unsent
       /\ unsent' = {}
       /\ UNCHANGED <<rt, listening, done>>
    \/ (FlushWouldBlock(t) \/ FlushFails(t)) /\ UNCHANGED rtVars

(* Mutation: any callback's event completes every roundtrip.               *)
RHandlerForAll(t) ==
    /\ HandlerReturns(t)
    /\ done' = done \cup listening
    /\ UNCHANGED <<rt, listening, unsent, asked>>

(* sync_callback runs if the callback has its listener by now; without one *)
(* dispatch_event calls nothing.                                           *)
RHandler(t) ==
    /\ HandlerReturns(t)
    /\ done' = done \cup {u \in listening : Callback[u] = cur[t].obj}
    /\ UNCHANGED <<rt, listening, unsent, asked>>

RDispatch(t) ==
    \/ RHandler(t)
    \/ /\ DispatchEvent(t) \/ DispatchReturns(t) \/ HandlerSeesError(t)
          \/ ProtocolError(t)
       /\ UNCHANGED rtVars

RInside(t) ==
    /\ \/ PollOut(t) \/ PollIn(t) \/ PollFails(t) \/ CancelRead(t)
       \/ ReadEvents(t) \/ Sort(t) \/ SpuriousWakeup(t) \/ Sleep(t)
    /\ UNCHANGED rtVars

(* A thread that makes no roundtrip, or has made it, loops on              *)
(* wl_display_dispatch_queue.                                              *)
Loops(t) ==
    /\ t \in Roundtrippers => rt[t] = "returned"
    /\ DispatchQueue(t)
    /\ UNCHANGED rtVars

(* The server answers a sync with wl_callback.done, and may send an event  *)
(* of its own or an error and hang up.  What else a message can be is in   *)
(* ClientRead's runs.                                                      *)
Reply(t) ==
    /\ t \in asked
    /\ ServerSends(Callback[t], "event")
    /\ asked' = asked \ {t}
    /\ UNCHANGED <<rt, listening, done, unsent>>

OtherEvent(o, k) ==
    /\ \/ k = "event" /\ o \in Proxies \ {Callback[t] : t \in Roundtrippers}
       \/ k = "error"
    /\ sent + Cardinality(Roundtrippers) < MaxEvents
    /\ ServerSends(o, k)
    /\ UNCHANGED rtVars

HangUp == ServerCloses /\ UNCHANGED rtVars

RNext ==
    \/ \E t \in Roundtrippers : Roundtrip(t) \/ Reply(t)
    \/ HangUp \/ \E o \in Objects, k \in Kinds : OtherEvent(o, k)
    \/ \E t \in Threads : RFlush(t) \/ RDispatch(t) \/ RInside(t) \/ Loops(t)

(* As in ClientRead; the thread that makes a roundtrip goes on with it and *)
(* the server answers.                                                     *)
RFairness ==
    /\ \A t \in Threads :
        /\ WF_allVars(PollOut(t) /\ UNCHANGED rtVars)
        /\ WF_allVars(PollIn(t) /\ UNCHANGED rtVars)
        /\ SF_allVars(RFlush(t) /\ pc'[t] = "pollin")
        /\ WF_allVars(FlushFails(t) /\ UNCHANGED rtVars)
        /\ WF_allVars((CancelRead(t) \/ ReadEvents(t)) /\ UNCHANGED rtVars)
        /\ WF_allVars(Sort(t) /\ UNCHANGED rtVars)
        /\ SF_allVars(SleepOver(t) /\ UNCHANGED rtVars)
        /\ WF_allVars(RDispatch(t))
        /\ WF_allVars(Loops(t))
    /\ \A t \in Roundtrippers : WF_allVars(Roundtrip(t)) /\ WF_allVars(Reply(t))

RSpec == RInit /\ [][RNext]_allVars /\ RFairness

-----------------------------------------------------------------------------
RoundtripEnds(t) ==
    \/ rt[t] = "returned"
    \/ rt[t] = "failed" /\ last_error # "none"

(* wl_display_roundtrip_queue "blocks until the server has processed all   *)
(* currently issued requests": with a server that answers, it returns,     *)
(* unless the connection fails, of which it tells.                         *)
EveryRoundtripReturns ==
    \A t \in Roundtrippers : rt[t] = "moved" ~> RoundtripEnds(t)

(* ... and so it does as the code is, on the queue that new objects are    *)
(* given: there the answer is found whenever it is queued.                 *)
DefaultRoundtripReturns ==
    \A t \in Roundtrippers :
        FirstQueue[Callback[t]] = Home[t] => (rt[t] = "moved" ~> RoundtripEnds(t))

(* A roundtrip does not return before the server has answered: the answer  *)
(* a thread waits for is its own, not another thread's.                    *)
ReturnsAfterAnswer ==
    \A t \in Roundtrippers :
        rt[t] = "returned" => t \notin unsent \cup asked
=============================================================================
