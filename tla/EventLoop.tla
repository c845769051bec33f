----------------------------- MODULE EventLoop ------------------------------
(***************************************************************************)
(* wl_event_loop (event-loop.c): file descriptor sources watched by epoll, *)
(* idle sources, sources to be checked after each dispatch, and the list of*)
(* removed sources that wait to be freed.                                  *)
(*                                                                         *)
(* A source is a piece of memory: it is `free', in use (`active') or       *)
(* `removed' and not yet freed, and once freed malloc may hand it out      *)
(* again.  A timer has a descriptor that the kernel makes readable once,   *)
(* when it is armed and its time has come.  The loop reads the descriptors *)
(* of timers and signals before it calls the callback, whether or not there*)
(* is anything to read.                                                    *)
(*                                                                         *)
(* Callbacks are the application's: they add, remove and check sources as  *)
(* they like, themselves included.  They do not dispatch the loop.         *)
(***************************************************************************)
EXTENDS Integers, Sequences, FiniteSets, SequencesExt

CONSTANTS
    Fds,           \* memory for sources with a file descriptor
    Timers,        \* those of them for timers
    Signals,       \* and for signals
    Idles,         \* memory for idle sources
    Head_,         \* the head of the list that a loop runs over
    NoSource,      \* no callback is running
    MaxBatch,      \* events one epoll_wait returns at most
    ChecksRemove   \* whether the callback of a checked source removes
                   \* other checked sources

Sources == Fds \cup Idles

ASSUME LoopAssumption ==
    /\ IsFiniteSet(Fds) /\ Fds \cap Idles = {}
    /\ Timers \cup Signals \subseteq Fds
    /\ Timers \cap Signals = {}
    /\ Head_ \notin Sources /\ NoSource \notin Sources
    /\ MaxBatch \in Nat \ {0}
    /\ ChecksRemove \in BOOLEAN

VARIABLES
    status,        \* of each source: "free", "active" or "removed"
    interest,      \* sources that epoll points at
    ready,         \* those with something to report
    armed,         \* timers whose time has not come
    check_list, idle_list, destroy_list,
    phase,         \* where wl_event_loop_dispatch is; "out" when it is not
    batch,         \* the events of epoll_wait still to be looked at
    pos, next,     \* post_dispatch_check's source and next
    running,       \* the source whose callback is running
    reported       \* sources of the batch not removed since epoll_wait

lists == <<check_list, idle_list, destroy_list>>
epoll == <<interest, ready, armed>>
loop  == <<phase, batch, pos, next, running, reported>>
vars  == <<status, epoll, lists, loop>>

-----------------------------------------------------------------------------
Phases == {"out", "idle", "wait", "batch", "idle_again", "check"}

TypeOK ==
    /\ status \in [Sources -> {"free", "active", "removed"}]
    /\ interest \subseteq Fds /\ ready \subseteq interest
    /\ armed \subseteq interest \cap Timers
    /\ check_list \in Seq(Fds) /\ idle_list \in Seq(Idles)
    /\ destroy_list \in Seq(Sources)
    /\ phase \in Phases
    /\ batch \in Seq(Fds)
    /\ pos \in Fds \cup {Head_} /\ next \in Fds \cup {Head_}
    /\ running \in Sources \cup {NoSource}
    /\ reported \subseteq Fds

Init ==
    /\ status = [s \in Sources |-> "free"]
    /\ interest = {} /\ ready = {} /\ armed = {}
    /\ check_list = <<>> /\ idle_list = <<>> /\ destroy_list = <<>>
    /\ phase = "out"
    /\ batch = <<>>
    /\ pos = Head_ /\ next = Head_
    /\ running = NoSource
    /\ reported = {}

-----------------------------------------------------------------------------
(* The calls of the application: in a callback or outside of               *)
(* wl_event_loop_dispatch.                                                 *)

MayCall == running # NoSource \/ phase = "out"

add_source(s) ==
    /\ MayCall
    /\ status[s] = "free"
    /\ status' = [status EXCEPT ![s] = "active"]
    /\ interest' = interest \cup {s}
    /\ UNCHANGED <<ready, armed, lists, loop>>

wl_event_loop_add_fd(s) == s \notin Timers \cup Signals /\ add_source(s)

wl_event_loop_add_timer(s) == s \in Timers /\ add_source(s)

wl_event_loop_add_signal(s) == s \in Signals /\ add_source(s)

(* timerfd_settime, with a delay or with none, forgets an expiration that  *)
(* has not been read.                                                      *)
wl_event_source_timer_update(s, delay) ==
    /\ MayCall
    /\ status[s] = "active"
    /\ ready' = ready \ {s}
    /\ armed' = IF delay = 0 THEN armed \ {s} ELSE armed \cup {s}
    /\ UNCHANGED <<status, interest, lists, loop>>

wl_event_loop_add_idle(s) ==
    /\ MayCall
    /\ status[s] = "free"
    /\ status' = [status EXCEPT ![s] = "active"]
    /\ idle_list' = Append(idle_list, s)
    /\ UNCHANGED <<epoll, check_list, destroy_list, loop>>

wl_event_source_check(s) ==
    /\ MayCall
    /\ status[s] = "active" /\ ~Contains(check_list, s)
    /\ check_list' = Append(check_list, s)
    /\ UNCHANGED <<status, epoll, idle_list, destroy_list, loop>>

(* Mutation: closing the fd is thought to be enough for epoll.             *)
RemoveLeavesEpoll(s) ==
    /\ status' = [status EXCEPT ![s] = "removed"]
    /\ check_list' = RemoveFirst(check_list, s)
    /\ idle_list' = RemoveFirst(idle_list, s)
    /\ destroy_list' = <<s>> \o RemoveFirst(destroy_list, s)
    /\ reported' = reported \ {s}
    /\ UNCHANGED epoll

(* wl_event_source_remove: out of epoll, and from whatever list it is in to*)
(* the destroy list, which may be the list it is in already.               *)
RemoveSource(s) ==
    /\ status' = [status EXCEPT ![s] = "removed"]
    /\ interest' = interest \ {s} /\ ready' = ready \ {s}
    /\ armed' = armed \ {s}
    /\ check_list' = RemoveFirst(check_list, s)
    /\ idle_list' = RemoveFirst(idle_list, s)
    /\ destroy_list' = <<s>> \o RemoveFirst(destroy_list, s)
    /\ reported' = reported \ {s}

wl_event_source_remove(s) ==
    /\ MayCall
    /\ status[s] = "active"
    /\ phase = "check" /\ Contains(check_list, s) => s = running \/ ChecksRemove
    /\ RemoveSource(s)
    /\ UNCHANGED <<phase, batch, pos, next, running>>

-----------------------------------------------------------------------------
(* The kernel: something happens on a descriptor, or is consumed by the    *)
(* application, or the time of a timer has come.                           *)
FdReady(s) ==
    /\ s \in interest \ ready
    /\ s \in Timers => s \in armed
    /\ ready' = ready \cup {s}
    /\ armed' = armed \ {s}
    /\ UNCHANGED <<status, interest, lists, loop>>

FdDrained(s) ==
    /\ MayCall
    /\ s \in ready \ (Timers \cup Signals)
    /\ ready' = ready \ {s}
    /\ UNCHANGED <<status, interest, armed, lists, loop>>

-----------------------------------------------------------------------------
(* wl_event_loop_dispatch                                                  *)
DispatchCalled ==
    /\ phase = "out"
    /\ phase' = "idle"
    /\ UNCHANGED <<status, epoll, lists, batch, pos, next, running, reported>>

(* wl_event_loop_dispatch_idle: the source stays in the list while its     *)
(* callback runs.                                                          *)
IdlePhase == phase \in {"idle", "idle_again"}

CallIdle ==
    /\ IdlePhase /\ running = NoSource
    /\ idle_list # <<>>
    /\ running' = Head(idle_list)
    /\ UNCHANGED <<status, epoll, lists, phase, batch, pos, next, reported>>

(* Mutation: the source is not removed after its callback.                 *)
IdleStays ==
    /\ IdlePhase /\ running # NoSource
    /\ running' = NoSource
    /\ UNCHANGED <<status, epoll, lists, phase, batch, pos, next, reported>>

IdleReturns ==
    /\ IdlePhase /\ running # NoSource
    /\ RemoveSource(running)
    /\ running' = NoSource
    /\ UNCHANGED <<phase, batch, pos, next>>

IdleOver ==
    /\ phase = "idle" /\ running = NoSource
    /\ idle_list = <<>>
    /\ phase' = "wait"
    /\ UNCHANGED <<status, epoll, lists, batch, pos, next, running, reported>>

(* epoll_wait returns some of the sources that are ready, in any order;    *)
(* none at a timeout.                                                      *)
EpollReturns(readable) ==
    /\ phase = "wait"
    /\ \E S \in SUBSET readable :
          /\ Cardinality(S) <= MaxBatch
          /\ S = {} => readable = {}
          /\ batch' \in SetToSeqs(S)
          /\ reported' = S
    /\ phase' = "batch"
    /\ UNCHANGED <<status, epoll, lists, pos, next, running>>

EpollWait == EpollReturns(ready)

(* It is interrupted, and -1 is returned.                                  *)
EpollFails ==
    /\ phase = "wait"
    /\ phase' = "out"
    /\ UNCHANGED <<status, epoll, lists, batch, pos, next, running, reported>>

(* Mutation: the source may have been removed meanwhile.                   *)
CallAnySource ==
    /\ phase = "batch" /\ running = NoSource
    /\ batch # <<>>
    /\ running' = Head(batch)
    /\ batch' = Tail(batch)
    /\ UNCHANGED <<status, epoll, lists, phase, pos, next, reported>>

(* source->interface->dispatch: that of a timer or a signal reads the      *)
(* descriptor, and calls the callback also if that yields nothing.         *)
Call(s) ==
    /\ running' = s
    /\ ready' = ready \ ({s} \cap (Timers \cup Signals))
    /\ UNCHANGED <<interest, armed>>

(* fd is -1 in a source that has been removed.                             *)
CallSource ==
    /\ phase = "batch" /\ running = NoSource
    /\ batch # <<>>
    /\ IF status[Head(batch)] # "removed"
       THEN Call(Head(batch)) ELSE UNCHANGED <<running, epoll>>
    /\ batch' = Tail(batch)
    /\ UNCHANGED <<status, lists, phase, pos, next, reported>>

SourceReturns ==
    /\ phase = "batch" /\ running # NoSource
    /\ running' = NoSource
    /\ UNCHANGED <<status, epoll, lists, phase, batch, pos, next, reported>>

(* wl_event_loop_process_destroy_list, after the last event of the batch.  *)
ProcessDestroyList ==
    /\ phase = "batch" /\ running = NoSource
    /\ batch = <<>>
    /\ status' = [s \in Sources |->
                     IF Contains(destroy_list, s) THEN "free" ELSE status[s]]
    /\ destroy_list' = <<>>
    /\ phase' = "idle_again"
    /\ reported' = {}
    /\ UNCHANGED <<epoll, check_list, idle_list, batch, pos, next, running>>

(* What follows s in the list it is in now.  (Behind the last source of the*)
(* destroy list the code would take the head of that list for a source; the*)
(* run that gets there has gone wrong before.)                             *)
After(s) ==
    LET list == IF Contains(check_list, s) THEN check_list ELSE destroy_list
        i    == CHOOSE j \in 1 .. Len(list) : list[j] = s
    IN  IF i < Len(list) THEN list[i + 1] ELSE Head_

StartPass ==
    pos' = IF check_list = <<>> THEN Head_ ELSE Head(check_list)

(* post_dispatch_check: wl_list_for_each_safe looks up what comes next     *)
(* before it calls a source.                                               *)
StartChecks ==
    /\ phase = "idle_again" /\ running = NoSource
    /\ idle_list = <<>>
    /\ phase' = "check"
    /\ StartPass
    /\ UNCHANGED <<status, epoll, lists, batch, next, running, reported>>

CheckSource ==
    /\ phase = "check" /\ running = NoSource
    /\ pos # Head_
    /\ Call(pos)
    /\ next' = After(pos)
    /\ UNCHANGED <<status, lists, phase, batch, pos, reported>>

CheckReturns ==
    /\ phase = "check" /\ running # NoSource
    /\ running' = NoSource
    /\ pos' = next /\ next' = Head_
    /\ UNCHANGED <<status, epoll, lists, phase, batch, reported>>

(* Another pass if some callback said so in this one.                      *)
ChecksAgain ==
    /\ phase = "check" /\ running = NoSource
    /\ pos = Head_
    /\ check_list # <<>>
    /\ StartPass
    /\ UNCHANGED <<status, epoll, lists, phase, batch, next, running, reported>>

DispatchReturns ==
    /\ phase = "check" /\ running = NoSource
    /\ pos = Head_
    /\ phase' = "out"
    /\ UNCHANGED <<status, epoll, lists, batch, pos, next, running, reported>>

-----------------------------------------------------------------------------
Application ==
    \/ \E s \in Fds :
          \/ wl_event_loop_add_fd(s) \/ wl_event_loop_add_timer(s)
          \/ wl_event_loop_add_signal(s)
          \/ wl_event_source_check(s) \/ FdDrained(s)
    \/ \E s \in Timers, delay \in {0, 1} : wl_event_source_timer_update(s, delay)
    \/ \E s \in Idles : wl_event_loop_add_idle(s)
    \/ \E s \in Sources : wl_event_source_remove(s)

Idle == CallIdle \/ IdleReturns \/ IdleOver

Batch == CallSource \/ SourceReturns \/ ProcessDestroyList

Check == StartChecks \/ CheckSource \/ CheckReturns

Next ==
    \/ Application
    \/ \E s \in Fds : FdReady(s)
    \/ DispatchCalled \/ Idle \/ EpollWait \/ EpollFails \/ Batch
    \/ Check \/ ChecksAgain \/ DispatchReturns

Spec == Init /\ [][Next]_vars

(* The loop is dispatched again and again, callbacks return, those of      *)
(* checked sources do not ask for another pass for ever, and epoll_wait,   *)
(* which may be called without a timeout, returns what is ready and is not *)
(* interrupted for ever.  An armed timer expires, and epoll_wait, whose    *)
(* list of ready descriptors is a queue, gets to it.                       *)
Fairness ==
    /\ WF_vars(DispatchCalled) /\ WF_vars(Idle) /\ WF_vars(Batch)
    /\ WF_vars(Check) /\ SF_vars(DispatchReturns)
    /\ SF_vars(EpollWait /\ ready # {})
    /\ \A s \in Timers : WF_vars(FdReady(s)) /\ SF_vars(EpollWait /\ s \in reported')

FairSpec == Spec /\ Fairness

-----------------------------------------------------------------------------
(* Nothing the loop or the kernel still points at has been freed: neither  *)
(* the rest of the batch, nor the source whose callback is running, nor the*)
(* source that the check loop goes to next.                                *)
NothingFreedInUse ==
    \A s \in Sources :
        status[s] = "free" =>
            /\ s \notin interest \cup {pos, next, running}
            /\ ~Contains(batch, s)
            /\ ~Contains(check_list \o idle_list \o destroy_list, s)

(* A removed source is in the destroy list once, to be freed once, and in  *)
(* no other; an idle source that has not been removed is going to be run.  *)
EachInItsList ==
    \A s \in Sources :
        LET times(list) == Cardinality({i \in 1 .. Len(list) : list[i] = s})
        IN  /\ times(destroy_list) = (IF status[s] = "removed" THEN 1 ELSE 0)
            /\ s \in Idles =>
                  times(idle_list) = (IF status[s] = "active" THEN 1 ELSE 0)
            /\ times(check_list) <= (IF status[s] = "active" THEN 1 ELSE 0)

(* Where a source is linked says what has become of it, and epoll points at *)
(* those with a descriptor that have not been removed.                     *)
ListsInv ==
    /\ \A list \in {check_list, idle_list, destroy_list} : IsInjective(list)
    /\ \A s \in Sources :
          /\ Contains(destroy_list, s) <=> status[s] = "removed"
          /\ Contains(check_list, s) => status[s] = "active"
    /\ \A s \in Idles : Contains(idle_list, s) <=> status[s] = "active"
    /\ interest = {s \in Fds : status[s] = "active"}

(* What is left of the batch has not been removed or can be seen to have   *)
(* been; the check loop runs from one source that asked to be checked to   *)
(* another, and only the one it calls may be removed.                      *)
PlaceInv ==
    /\ reported \subseteq interest
    /\ \A s \in Fds : Contains(batch, s) => s \in reported \/ status[s] = "removed"
    /\ phase # "batch" => batch = <<>>
    /\ running # NoSource => status[running] # "free"
    /\ pos # Head_ =>
          /\ phase = "check"
          /\ IF running = NoSource THEN Contains(check_list, pos) ELSE pos = running
    /\ next # Head_ =>
          /\ phase = "check" /\ running # NoSource /\ running = pos
          /\ Contains(check_list, next) /\ next # pos

(* What wl_event_source_remove and wl_event_loop_process_destroy_list owe  *)
(* to the loop, with the values that its fields take                       *)
EventLoopInv ==
    TypeOK /\ NothingFreedInUse /\ EachInItsList /\ ListsInv /\ PlaceInv

(* event-loop-test.c: "We want to have one source free the other ... and   *)
(* check that only one of them run": no callback is called for a source    *)
(* that has been removed, nor for one that has taken over the memory of a  *)
(* source reported before.                                                 *)
CalledUntilRemoved ==
    [][running = NoSource /\ running' # NoSource =>
          /\ status[running'] = "active"
          /\ phase = "batch" => running' \in reported]_vars

(* Nothing is forgotten.  What the application asked to be called is called*)
(* - an idle source, and a timer that has been armed - unless it is removed*)
(* first, or the timer is disarmed or put off again and again; and what it *)
(* removed is freed, unless the loop waits for input.                      *)
NothingForgotten ==
    /\ \A s \in Idles : status[s] = "active" ~> status[s] # "active"
    /\ \A s \in Timers :
          \/ s \in armed ~> running = s \/ s \notin armed \cup ready
          \/ []<><<wl_event_source_timer_update(s, 1)>>_vars
    /\ \A s \in Sources :
          status[s] = "removed" ~>
              status[s] = "free" \/ (phase = "wait" /\ ready = {})
=============================================================================
