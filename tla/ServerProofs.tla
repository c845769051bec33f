---------------------------- MODULE ServerProofs ----------------------------
(***************************************************************************)
(* Proofs about EventLoop, for any number of sources and any size of a     *)
(* batch: nothing that the loop or the kernel points at has been freed, and*)
(* no callback is called for a source that has been removed.  Then proofs  *)
(* about Server, whose event loop it is: the clients, their sources and the*)
(* callbacks under way stay together, and nothing that was posted is left  *)
(* behind when the loop blocks.  The last part is about Sockets, where the *)
(* display listens, for any number of compositors, sockets and names: a    *)
(* name belongs to one socket, and is not lost with a crash.               *)
(***************************************************************************)
EXTENDS Server, Sockets, ListProofs

LoopInv == TypeOK /\ ListsInv /\ PlaceInv

LEMMA NotSources == /\ Fds \subseteq Sources /\ Idles \subseteq Sources
                    /\ Head_ \notin Sources /\ NoSource \notin Sources
                    /\ \A s \in Sources : s \in Idles <=> s \notin Fds
  BY LoopAssumption DEF Sources

-----------------------------------------------------------------------------
\* What the inductive invariant says of memory that has been freed.
LEMMA FreedIsUnused == LoopInv => NothingFreedInUse
  <1> SUFFICES ASSUME LoopInv, NEW s \in Sources, status[s] = "free"
               PROVE  /\ s \notin interest \cup {pos, next, running}
                      /\ ~Contains(batch, s)
                      /\ ~Contains(check_list \o idle_list \o destroy_list, s)
    BY DEF NothingFreedInUse
  <1> USE NotSources DEF LoopInv, ListsInv, PlaceInv
  <1>1. s \notin interest
    OBVIOUS
  <1>2. s # running
    OBVIOUS
  <1>3. s # pos /\ s # next
    BY <1>2
  <1>4. ~Contains(batch, s)
    <2>1. SUFFICES ASSUME Contains(batch, s) PROVE FALSE
      OBVIOUS
    <2>2. s \in Fds
      BY <2>1, ContainsElement DEF TypeOK
    <2> QED BY <1>1, <2>1, <2>2
  <1>5. ~Contains(check_list \o idle_list \o destroy_list, s)
    <2>1. ~Contains(check_list, s) /\ ~Contains(destroy_list, s)
      OBVIOUS
    <2>2. ~Contains(idle_list, s)
      BY ContainsElement DEF TypeOK
    <2>3. /\ check_list \in Seq(Sources) /\ idle_list \in Seq(Sources)
          /\ destroy_list \in Seq(Sources)
      BY SeqMonotonic DEF TypeOK
    <2>4. check_list \o idle_list \in Seq(Sources)
      BY <2>3, ConcatProperties
    <2>5. \A l1, l2 \in Seq(Sources) :
             Contains(l1 \o l2, s) => Contains(l1, s) \/ Contains(l2, s)
      BY ContainsConcat
    <2>6. ~Contains(check_list \o idle_list, s)
      BY <2>1, <2>2, <2>3, <2>5
    <2> QED BY <2>1, <2>3, <2>4, <2>5, <2>6
  <1> QED BY <1>1, <1>2, <1>3, <1>4, <1>5

LEMMA ListedOnce == LoopInv => EachInItsList
  <1> SUFFICES ASSUME LoopInv PROVE EachInItsList
    OBVIOUS
  <1> DEFINE times(list, s) == Cardinality({i \in 1 .. Len(list) : list[i] = s})
  <1>1. ASSUME NEW s \in Sources
        PROVE  /\ times(destroy_list, s) = (IF status[s] = "removed" THEN 1 ELSE 0)
               /\ s \in Idles =>
                     times(idle_list, s) = (IF status[s] = "active" THEN 1 ELSE 0)
               /\ times(check_list, s) <= (IF status[s] = "active" THEN 1 ELSE 0)
    <2>1. /\ IsInjective(destroy_list) /\ IsInjective(idle_list) /\ IsInjective(check_list)
          /\ destroy_list \in Seq(Sources) /\ idle_list \in Seq(Idles)
          /\ check_list \in Seq(Fds)
      BY DEF LoopInv, ListsInv, TypeOK
    <2>2. /\ times(destroy_list, s) = IF Contains(destroy_list, s) THEN 1 ELSE 0
          /\ times(idle_list, s) = IF Contains(idle_list, s) THEN 1 ELSE 0
          /\ times(check_list, s) = IF Contains(check_list, s) THEN 1 ELSE 0
      BY <2>1, TimesInList
    <2>3. /\ Contains(destroy_list, s) <=> status[s] = "removed"
          /\ s \in Idles => (Contains(idle_list, s) <=> status[s] = "active")
          /\ Contains(check_list, s) => status[s] = "active"
      BY DEF LoopInv, ListsInv
    <2> HIDE DEF times
    <2> QED BY <2>2, <2>3
  <1> QED BY <1>1 DEF EachInItsList

LEMMA InitLoop == Init => LoopInv
  BY NotSources, ContainsEmpty, EmptySeq
     DEF Init, LoopInv, TypeOK, ListsInv, PlaceInv, Phases

-----------------------------------------------------------------------------
\* The calls of the application.

LEMMA AddSourceKeeps ==
  ASSUME LoopInv, NEW s \in Fds, add_source(s)
  PROVE  LoopInv'
  <1> USE NotSources DEF LoopInv, add_source, lists, loop
  <1>1. TypeOK'
    BY DEF TypeOK
  <1>2. ListsInv'
    BY DEF TypeOK, ListsInv
  <1>3. PlaceInv'
    BY DEF TypeOK, ListsInv, PlaceInv
  <1> QED BY <1>1, <1>2, <1>3

LEMMA TimerUpdateKeeps ==
  ASSUME LoopInv, NEW s \in Timers, NEW delay, wl_event_source_timer_update(s, delay)
  PROVE  LoopInv'
  <1>1. s \in Fds /\ s \in interest
    BY NotSources, LoopAssumption DEF LoopInv, ListsInv, wl_event_source_timer_update
  <1> QED BY <1>1 DEF LoopInv, TypeOK, ListsInv, PlaceInv, wl_event_source_timer_update,
                      lists, loop

LEMMA AddIdleKeeps ==
  ASSUME LoopInv, NEW s \in Idles, wl_event_loop_add_idle(s)
  PROVE  LoopInv'
  <1> USE NotSources DEF LoopInv, wl_event_loop_add_idle, epoll, loop
  <1>1. /\ idle_list' \in Seq(Idles) /\ IsInjective(idle_list')
        /\ \A t : Contains(idle_list', t) <=> Contains(idle_list, t) \/ t = s
    BY ContainsAppend DEF TypeOK, ListsInv
  <1>2. TypeOK'
    BY <1>1 DEF TypeOK
  <1>3. ListsInv'
    BY <1>1 DEF TypeOK, ListsInv
  <1>4. PlaceInv'
    BY DEF TypeOK, ListsInv, PlaceInv
  <1> QED BY <1>2, <1>3, <1>4

LEMMA CheckKeeps ==
  ASSUME LoopInv, NEW s \in Fds, wl_event_source_check(s)
  PROVE  LoopInv'
  <1> USE NotSources DEF LoopInv, wl_event_source_check, epoll, loop
  <1>1. /\ check_list' \in Seq(Fds) /\ IsInjective(check_list')
        /\ \A t : Contains(check_list', t) <=> Contains(check_list, t) \/ t = s
    BY ContainsAppend DEF TypeOK, ListsInv
  <1>2. TypeOK'
    BY <1>1 DEF TypeOK
  <1>3. ListsInv'
    BY <1>1 DEF ListsInv
  <1>4. PlaceInv'
    BY <1>1 DEF PlaceInv
  <1> QED BY <1>2, <1>3, <1>4

\* wl_event_source_remove, and the removal of an idle source after its
\* callback: the check loop must not be about to go to the source.
LEMMA RemoveKeeps ==
  ASSUME LoopInv, NEW s \in Sources, RemoveSource(s),
         phase = "check" => running # NoSource /\ (Contains(check_list, s) => s = running),
         UNCHANGED <<phase, batch, pos, next>>,
         running' = running \/ (running' = NoSource /\ phase # "check")
  PROVE  LoopInv'
  <1> USE NotSources DEF LoopInv, RemoveSource
  <1>1. /\ check_list' \in Seq(Fds) /\ IsInjective(check_list')
        /\ \A t : Contains(check_list', t) <=> Contains(check_list, t) /\ t # s
    BY ContainsRemove DEF TypeOK, ListsInv
  <1>2. /\ idle_list' \in Seq(Idles) /\ IsInjective(idle_list')
        /\ \A t : Contains(idle_list', t) <=> Contains(idle_list, t) /\ t # s
    BY ContainsRemove DEF TypeOK, ListsInv
  <1>3. /\ destroy_list' \in Seq(Sources) /\ IsInjective(destroy_list')
        /\ \A t : Contains(destroy_list', t) <=> Contains(destroy_list, t) \/ t = s
    <2> DEFINE rest == RemoveFirst(destroy_list, s)
    <2>1. /\ rest \in Seq(Sources) /\ IsInjective(rest)
          /\ \A t : Contains(rest, t) <=> Contains(destroy_list, t) /\ t # s
      BY ContainsRemove DEF TypeOK, ListsInv
    <2> HIDE DEF rest
    <2>2. destroy_list' = <<s>> \o rest
      BY DEF rest
    <2>3. /\ <<s>> \o rest \in Seq(Sources) /\ IsInjective(<<s>> \o rest)
          /\ \A t : Contains(<<s>> \o rest, t) <=> Contains(rest, t) \/ t = s
      BY <2>1, ContainsPrepend
    <2> QED BY <2>1, <2>2, <2>3
  <1>4. /\ status' \in [Sources -> {"free", "active", "removed"}]
        /\ status'[s] = "removed" /\ \A t \in Sources \ {s} : status'[t] = status[t]
    BY DEF TypeOK
  <1>5. TypeOK'
    BY <1>1, <1>2, <1>3, <1>4 DEF TypeOK
  <1>6. ListsInv'
    <2>1. interest' = {t \in Fds : status'[t] = "active"}
      BY <1>4 DEF ListsInv
    <2> QED BY <1>1, <1>2, <1>3, <1>4, <2>1 DEF ListsInv
  <1>7. PlaceInv'
    <2>1. reported' \subseteq interest'
      BY DEF PlaceInv
    <2>2. \A t \in Fds : Contains(batch, t) => t \in reported' \/ status'[t] = "removed"
      BY <1>4 DEF PlaceInv
    <2>3. running # NoSource => running \in Sources /\ status'[running] # "free"
      BY <1>4 DEF TypeOK, PlaceInv
    <2>4. pos # Head_ => phase = "check" /\ running' # NoSource /\ pos = running'
      BY DEF PlaceInv
    <2>5. next # Head_ =>
            /\ phase = "check" /\ running' # NoSource /\ running' = pos
            /\ Contains(check_list', next) /\ next # pos
      BY <1>1 DEF PlaceInv
    <2> QED BY <2>1, <2>2, <2>3, <2>4, <2>5 DEF PlaceInv
  <1> QED BY <1>5, <1>6, <1>7

-----------------------------------------------------------------------------
\* wl_event_loop_dispatch.

\* The steps that only go on to another place, or call a callback.
LEMMA IdlePhaseKeeps ==
  ASSUME LoopInv, DispatchCalled \/ CallIdle \/ IdleOver \/ EpollFails
  PROVE  LoopInv'
  <1> USE NotSources DEF LoopInv, TypeOK, ListsInv, PlaceInv, Phases, lists, epoll
  <1>1. CASE DispatchCalled
    BY <1>1 DEF DispatchCalled
  <1>2. CASE CallIdle
    <2>1. Head(idle_list) \in Idles /\ Contains(idle_list, Head(idle_list))
      BY <1>2, ContainsHead DEF CallIdle
    <2> QED BY <1>2, <2>1 DEF CallIdle, IdlePhase
  <1>3. CASE IdleOver
    BY <1>3 DEF IdleOver
  <1>4. CASE EpollFails
    BY <1>4 DEF EpollFails
  <1> QED BY <1>1, <1>2, <1>3, <1>4

LEMMA IdleReturnsKeeps ==
  ASSUME LoopInv, IdleReturns
  PROVE  LoopInv'
  <1>1. running \in Sources /\ phase # "check" /\ RemoveSource(running)
    BY DEF LoopInv, TypeOK, IdleReturns, IdlePhase
  <1> QED BY <1>1, RemoveKeeps DEF IdleReturns

\* epoll_wait, of descriptors that it was asked to watch.
LEMMA EpollReturnsKeeps ==
  ASSUME LoopInv, NEW readable \in SUBSET interest, EpollReturns(readable)
  PROVE  LoopInv'
  <1> USE NotSources DEF LoopInv, EpollReturns, lists, epoll
  <1>1. PICK S \in SUBSET readable : batch' \in SetToSeqs(S) /\ reported' = S
    OBVIOUS
  <1>2. S \subseteq interest /\ S \subseteq Fds /\ Cardinality(S) \in Nat
    <2>1. S \subseteq interest /\ S \in SUBSET Fds /\ IsFiniteSet(Fds)
      BY LoopAssumption DEF TypeOK
    <2> QED BY <2>1, FS_Subset, FS_CardinalityType
  <1>3. batch' \in Seq(Fds) /\ \A s \in Fds : Contains(batch', s) => s \in S
    <2>1. batch' \in [1 .. Cardinality(S) -> S]
      BY <1>1 DEF SetToSeqs
    <2>2. batch' \in Seq(S) /\ Len(batch') = Cardinality(S)
      BY <1>2, <2>1
    <2> QED BY <1>2, <2>2, SeqMonotonic, ContainsElement
  <1>4. TypeOK'
    BY <1>1, <1>2, <1>3 DEF TypeOK, Phases
  <1>5. ListsInv'
    BY DEF ListsInv
  <1>6. PlaceInv'
    BY <1>1, <1>2, <1>3 DEF TypeOK, PlaceInv
  <1> QED BY <1>4, <1>5, <1>6

LEMMA CallSourceKeeps ==
  ASSUME LoopInv, CallSource
  PROVE  LoopInv'
  <1> USE NotSources DEF LoopInv, CallSource, Call, lists
  <1>1. /\ Head(batch) \in Fds /\ Contains(batch, Head(batch))
        /\ batch' \in Seq(Fds) /\ \A s : Contains(batch', s) => Contains(batch, s)
    BY ContainsHead, ContainsTail DEF TypeOK
  <1>2. /\ running' \in Sources \cup {NoSource} /\ ready' \subseteq ready
        /\ running' # NoSource => status[running'] # "free"
        /\ UNCHANGED <<interest, armed>>
    <2>1. CASE status[Head(batch)] # "removed"
      <3>1. Head(batch) \in reported /\ reported \subseteq interest
        BY <1>1, <2>1 DEF PlaceInv
      <3>2. status[Head(batch)] = "active"
        BY <3>1 DEF ListsInv
      <3> QED BY <1>1, <2>1, <3>2
    <2>2. CASE status[Head(batch)] = "removed"
      BY <2>2 DEF epoll
    <2> QED BY <2>1, <2>2
  <1>3. TypeOK'
    BY <1>1, <1>2 DEF TypeOK
  <1>4. ListsInv'
    BY <1>2 DEF ListsInv
  <1>5. PlaceInv'
    BY <1>1, <1>2 DEF PlaceInv
  <1> QED BY <1>3, <1>4, <1>5

LEMMA SourceReturnsKeeps ==
  ASSUME LoopInv, SourceReturns
  PROVE  LoopInv'
  BY DEF LoopInv, TypeOK, ListsInv, PlaceInv, SourceReturns, lists, epoll

LEMMA ProcessDestroyListKeeps ==
  ASSUME LoopInv, ProcessDestroyList
  PROVE  LoopInv'
  <1> USE NotSources DEF LoopInv, ProcessDestroyList, epoll
  <1>1. /\ status' \in [Sources -> {"free", "active", "removed"}]
        /\ \A s \in Sources : status'[s] = IF status[s] = "removed" THEN "free" ELSE status[s]
    BY DEF TypeOK, ListsInv
  <1>2. TypeOK'
    BY <1>1, EmptySeq DEF TypeOK, Phases
  <1>3. ListsInv'
    <2>1. interest' = {s \in Fds : status'[s] = "active"}
      BY <1>1 DEF ListsInv
    <2>2. IsInjective(destroy_list') /\ \A s : ~Contains(destroy_list', s)
      BY ContainsEmpty
    <2> QED BY <1>1, <2>1, <2>2 DEF ListsInv
  <1>4. PlaceInv'
    BY ContainsEmpty DEF TypeOK, PlaceInv
  <1> QED BY <1>2, <1>3, <1>4

-----------------------------------------------------------------------------
\* post_dispatch_check.

\* A pass begins at the first source of the list.
LEMMA PassStarts ==
  ASSUME LoopInv, StartPass, check_list' = check_list
  PROVE  pos' \in Fds \cup {Head_} /\ (pos' # Head_ => Contains(check_list, pos'))
  BY ContainsHead DEF LoopInv, TypeOK, StartPass

\* What comes next is another source that asked to be checked.
LEMMA AfterIsListed ==
  ASSUME LoopInv, NEW s \in Fds, Contains(check_list, s)
  PROVE  /\ After(s) \in Fds \cup {Head_}
         /\ After(s) # Head_ => Contains(check_list, After(s)) /\ After(s) # s
  <1> DEFINE i == CHOOSE j \in 1 .. Len(check_list) : check_list[j] = s
  <1>1. i \in 1 .. Len(check_list) /\ check_list[i] = s
    BY DEF Contains
  <1>2. After(s) = IF i < Len(check_list) THEN check_list[i + 1] ELSE Head_
    BY DEF After
  <1> HIDE DEF i
  <1>3. CASE i < Len(check_list)
    <2>1. i + 1 \in 1 .. Len(check_list) /\ i + 1 # i
      BY <1>1, <1>3
    <2>2. check_list[i + 1] \in Fds /\ check_list[i + 1] # s
      BY <1>1, <2>1 DEF LoopInv, TypeOK, ListsInv, IsInjective
    <2> QED BY <1>2, <1>3, <2>1, <2>2 DEF Contains
  <1> QED BY <1>2, <1>3

LEMMA CheckKeepsLoop ==
  ASSUME LoopInv, Check \/ ChecksAgain \/ DispatchReturns
  PROVE  LoopInv'
  <1> USE NotSources DEF LoopInv, lists, epoll
  <1>1. CASE StartChecks \/ ChecksAgain
    <2>1. pos' \in Fds \cup {Head_} /\ (pos' # Head_ => Contains(check_list, pos'))
      BY <1>1, PassStarts DEF StartChecks, ChecksAgain
    <2> QED BY <1>1, <2>1 DEF StartChecks, ChecksAgain, TypeOK, ListsInv, PlaceInv, Phases
  <1>2. CASE CheckSource
    <2>1. pos \in Fds /\ Contains(check_list, pos) /\ status[pos] = "active"
      BY <1>2 DEF CheckSource, TypeOK, ListsInv, PlaceInv
    <2>2. /\ next' \in Fds \cup {Head_}
          /\ next' # Head_ => Contains(check_list, next') /\ next' # pos
      BY <1>2, <2>1, AfterIsListed DEF CheckSource
    <2> QED BY <1>2, <2>1, <2>2 DEF CheckSource, Call, TypeOK, ListsInv, PlaceInv
  <1>3. CASE CheckReturns
    BY <1>3 DEF CheckReturns, TypeOK, ListsInv, PlaceInv
  <1>4. CASE DispatchReturns
    BY <1>4 DEF DispatchReturns, TypeOK, ListsInv, PlaceInv, Phases
  <1> QED BY <1>1, <1>2, <1>3, <1>4 DEF Check

-----------------------------------------------------------------------------
\* The premise: callbacks of checked sources remove no other checked source.
LEMMA ApplicationKeeps ==
  ASSUME ~ChecksRemove, LoopInv, Application
  PROVE  LoopInv'
  <1>1. ASSUME NEW s \in Fds,
               wl_event_loop_add_fd(s) \/ wl_event_loop_add_timer(s) \/ wl_event_loop_add_signal(s)
        PROVE  LoopInv'
    BY <1>1, AddSourceKeeps
       DEF wl_event_loop_add_fd, wl_event_loop_add_timer, wl_event_loop_add_signal
  <1>2. ASSUME NEW s \in Fds, FdDrained(s) PROVE LoopInv'
    BY <1>2 DEF FdDrained, LoopInv, TypeOK, ListsInv, PlaceInv, lists, loop
  <1>3. ASSUME NEW s \in Sources, wl_event_source_remove(s) PROVE LoopInv'
    <2>1. phase = "check" => running # NoSource /\ (Contains(check_list, s) => s = running)
      BY <1>3 DEF wl_event_source_remove, MayCall
    <2> QED BY <1>3, <2>1, RemoveKeeps DEF wl_event_source_remove
  <1> QED BY <1>1, <1>2, <1>3, CheckKeeps, TimerUpdateKeeps, AddIdleKeeps DEF Application

LEMMA LoopKeeps ==
  ASSUME ~ChecksRemove, LoopInv, [Next]_vars
  PROVE  LoopInv'
  <1>1. ASSUME NEW s \in Fds, FdReady(s) PROVE LoopInv'
    BY <1>1 DEF FdReady, LoopInv, TypeOK, ListsInv, PlaceInv, lists, loop
  <1>2. CASE EpollWait
    <2>1. ready \in SUBSET interest
      BY DEF LoopInv, TypeOK
    <2> QED BY <1>2, <2>1, EpollReturnsKeeps DEF EpollWait
  <1>3. CASE UNCHANGED vars
    BY <1>3 DEF vars, epoll, lists, loop, LoopInv, TypeOK, ListsInv, PlaceInv
  <1> QED BY <1>1, <1>2, <1>3, ApplicationKeeps, IdlePhaseKeeps, IdleReturnsKeeps,
             CallSourceKeeps, SourceReturnsKeeps, ProcessDestroyListKeeps, CheckKeepsLoop
          DEF Next, Idle, Batch

LEMMA LoopAlways == ASSUME ~ChecksRemove PROVE Spec => []LoopInv
  <1> QED BY InitLoop, LoopKeeps, PTL DEF Spec

\* Nothing freed is in use, a removed source is in the destroy list once and
\* in no other, and the loop stands only at what it may use
\* (wl_event_source_remove, wl_event_loop_process_destroy_list).
THEOREM LoopIsSound == ASSUME ~ChecksRemove PROVE Spec => []EventLoopInv
  <1>1. LoopInv => EventLoopInv
    BY FreedIsUnused, ListedOnce DEF LoopInv, EventLoopInv
  <1> QED BY <1>1, LoopAlways, PTL

\* No callback is called for a source that has been removed, nor for one that
\* has taken over its memory (wl_event_loop_dispatch looks at source->fd).
THEOREM NoCallAfterRemoval == ASSUME ~ChecksRemove PROVE Spec => CalledUntilRemoved
  <1> DEFINE Called == running = NoSource /\ running' # NoSource =>
                          /\ status[running'] = "active"
                          /\ phase = "batch" => running' \in reported
  <1>1. LoopInv /\ [Next]_vars => [Called]_vars
    <2> SUFFICES ASSUME LoopInv, Next, running = NoSource, running' # NoSource
                 PROVE  /\ status[running'] = "active"
                        /\ phase = "batch" => running' \in reported
      OBVIOUS
    <2>1. CASE CallIdle
      <3>1. Head(idle_list) \in Idles /\ Contains(idle_list, Head(idle_list))
        BY <2>1, ContainsHead DEF CallIdle, LoopInv, TypeOK
      <3> QED BY <2>1, <3>1 DEF CallIdle, IdlePhase, LoopInv, ListsInv
    <2>2. CASE CallSource
      <3>1. running' = Head(batch) /\ status[Head(batch)] # "removed" /\ batch # <<>>
        BY <2>2 DEF CallSource, Call
      <3>2. Head(batch) \in Fds /\ Contains(batch, Head(batch))
        BY <3>1, ContainsHead DEF LoopInv, TypeOK
      <3>3. Head(batch) \in reported /\ Head(batch) \in interest
        BY <3>1, <3>2 DEF LoopInv, PlaceInv
      <3> QED BY <3>1, <3>3 DEF LoopInv, ListsInv
    <2>3. CASE CheckSource
      <3>1. running' = pos /\ phase = "check" /\ Contains(check_list, pos) /\ pos \in Fds
        BY <2>3 DEF CheckSource, Call, LoopInv, PlaceInv, TypeOK
      <3> QED BY <3>1, NotSources DEF LoopInv, ListsInv
    <2>4. CASE ~(CallIdle \/ CallSource \/ CheckSource)
      <3>1. running' = running \/ running' = NoSource
        BY <2>4 DEF Next, Application, Idle, Batch, Check, EpollWait, EpollReturns,
             add_source, wl_event_loop_add_fd, wl_event_loop_add_timer,
             wl_event_loop_add_signal, wl_event_source_timer_update,
             wl_event_loop_add_idle, wl_event_source_check, wl_event_source_remove,
             FdReady, FdDrained, DispatchCalled, IdleReturns, IdleOver, EpollFails,
             SourceReturns, ProcessDestroyList, StartChecks, CheckReturns, ChecksAgain,
             DispatchReturns, loop
      <3> QED BY <3>1
    <2> QED BY <2>1, <2>2, <2>3, <2>4
  <1> QED BY <1>1, LoopAlways, PTL DEF Spec, CalledUntilRemoved

-----------------------------------------------------------------------------
LEMMA ServerSources ==
  /\ Clients \subseteq Fds /\ listener \in Fds /\ listener \notin Clients
  /\ Fds \subseteq Clients \cup {listener}
  /\ Fds \subseteq Sources /\ later \in Idles /\ later \in Sources
  /\ later \notin Fds /\ Head_ \notin Sources /\ NoSource \notin Sources
  /\ MaxOut \in Nat \ {0} /\ Room \in Nat \ {0} /\ MaxIn \in Nat \ {0}
  BY ServerAssumption, LoopAssumption DEF Sources

-----------------------------------------------------------------------------
\* wl_connection_flush, wl_connection_write

LEMMA FlushedTyped ==
  ASSUME NEW c \in Clients, NEW k \in wl_connection
  PROVE  /\ Flushed(c, k) \in wl_connection
         /\ ~k.want => Flushed(c, k) = k
         /\ k.want /\ ~Flushed(c, k).want => Flushed(c, k).out = 0
  <1> DEFINE room == IF peer[c] = "open" THEN Room - k.sock ELSE 0
             n == IF k.out <= room THEN k.out ELSE room
  <1>1. /\ k.out \in 0 .. MaxOut /\ k.sock \in 0 .. Room
        /\ MaxOut \in Nat /\ Room \in Nat
    BY ServerSources DEF wl_connection
  <1>2. room \in 0 .. Room - k.sock
    BY <1>1
  <1> HIDE DEF room
  <1>3. n \in 0 .. k.out /\ n <= Room - k.sock
    BY <1>1, <1>2
  <1>4. CASE ~k.want
    BY <1>4 DEF Flushed
  <1>5. CASE k.want
    <2>1. Flushed(c, k) = [out |-> k.out - n, want |-> n < k.out, sock |-> k.sock + n]
      BY <1>5 DEF Flushed, room
    <2> HIDE DEF n
    <2>2. k.out - n \in 0 .. MaxOut /\ k.sock + n \in 0 .. Room
      BY <1>1, <1>3
    <2>3. ~(n < k.out) => k.out - n = 0
      BY <1>1, <1>3
    <2>4. (n < k.out) \in BOOLEAN
      OBVIOUS
    <2> QED BY <1>5, <2>1, <2>2, <2>3, <2>4 DEF wl_connection
  <1> QED BY <1>4, <1>5

LEMMA WrittenTyped ==
  ASSUME NEW c \in Clients, conn \in [Clients -> wl_connection], NEW want \in BOOLEAN
  PROVE  Written(c, want) \in wl_connection
  <1>1. conn[c] \in wl_connection
    OBVIOUS
  <1>2. [conn[c] EXCEPT !.want = TRUE] \in wl_connection
    BY <1>1 DEF wl_connection
  <1>3. MadeRoom(c) \in wl_connection
    BY <1>1, <1>2, FlushedTyped DEF MadeRoom
  <1>4. CASE WriteFails(c)
    BY <1>3, <1>4 DEF Written
  <1>5. CASE ~WriteFails(c)
    <2>1. MadeRoom(c).out + 1 \in 0 .. MaxOut
      <3>1. conn[c].out \in 0 .. MaxOut /\ MaxOut \in Nat \ {0}
        BY <1>1, ServerSources DEF wl_connection
      <3>2. CASE conn[c].out = MaxOut
        <4> DEFINE k == [conn[c] EXCEPT !.want = TRUE]
        <4>1. MadeRoom(c) = Flushed(c, k) /\ k.want /\ ~Flushed(c, k).want
          BY <1>1, <1>5, <3>2 DEF MadeRoom, WriteFails, wl_connection
        <4> HIDE DEF k
        <4>2. MadeRoom(c).out = 0
          BY <1>2, <4>1, FlushedTyped DEF k
        <4> QED BY <3>1, <4>2
      <3>3. CASE conn[c].out # MaxOut
        BY <3>1, <3>3 DEF MadeRoom
      <3> QED BY <3>2, <3>3
    <2> DEFINE m == MadeRoom(c)
    <2>2. Written(c, want) = [m EXCEPT !.out = @ + 1, !.want = @ \/ want]
      BY <1>5 DEF Written
    <2> HIDE DEF m
    <2>3. m \in wl_connection /\ m.out + 1 \in 0 .. MaxOut
      BY <1>3, <2>1 DEF m
    <2>4. PICK w \in BOOLEAN : w = (m.want \/ want)
      OBVIOUS
    <2>5. [m EXCEPT !.out = m.out + 1, !.want = w] \in wl_connection
      BY <2>3 DEF wl_connection
    <2> QED BY <2>2, <2>4, <2>5
  <1> QED BY <1>4, <1>5

LEMMA PostedTyped ==
  ASSUME conn \in [Clients -> wl_connection], NEW S \in SUBSET Clients
  PROVE  Posted(S) \in [Clients -> wl_connection] /\ Failed(S) \subseteq S
  BY WrittenTyped DEF Posted, Failed

-----------------------------------------------------------------------------
\* wl_client_destroy, with what it does to the loop, and the client list after it.
LEMMA ClientDestroyed ==
  ASSUME ServerInv, NEW c \in Alive, DestroyClient(c), phase # "check",
         UNCHANGED <<phase, batch, pos, next>>, running' \in {running, NoSource}
  PROVE  /\ LoopInv'
         /\ client_list' \in Seq(Clients) /\ IsInjective(client_list')
         /\ client_list' = RemoveFirst(client_list, c)
         /\ Alive' = Alive \ {c}
         /\ conn' \in [Clients -> wl_connection]
         /\ error' \subseteq Alive' /\ writable' = writable \ {c}
         /\ insock' \in [Clients -> 0 .. MaxIn]
         /\ \A d \in Clients : insock'[d] <= insock[d]
         /\ peer' \in [Clients -> {"away", "connecting", "open", "closed"}]
         /\ \A d \in Clients : peer'[d] = "connecting" => peer[d] = "connecting" /\ d # c
         /\ status'[c] = "removed" /\ \A s \in Sources \ {c} : status'[s] = status[s]
         /\ interest' = interest \ {c}
         /\ check_list' = <<>> /\ (idle_list = <<>> => idle_list' = <<>>)
         /\ ~ListenersPost => \A d \in Clients \ {c} : conn'[d] = conn[d]
  <1>1. /\ LoopInv /\ ServerTypeOK /\ ClientOwnsSource /\ CallbackInv
        /\ c \in Clients /\ c \in Fds /\ c \in Sources
    BY ServerSources DEF ServerInv, ServerTypeOK, LoopInv, Alive
  <1>2. RemoveSource(c)
    BY DEF DestroyClient
  <1>3. LoopInv'
    BY <1>1, <1>2, RemoveKeeps
  <1>4. /\ client_list' = RemoveFirst(client_list, c)
        /\ client_list' \in Seq(Clients) /\ IsInjective(client_list')
        /\ Alive' = Alive \ {c}
    BY <1>1, ContainsRemove DEF DestroyClient, ServerTypeOK, ClientOwnsSource, Alive
  <1>5. PICK S \in SUBSET (Alive \ {c}) :
             /\ conn' = [Posted(S) EXCEPT ![c] = NoConnection]
             /\ error' = (error \cup Failed(S)) \ {c}
             /\ ~ListenersPost => S = {}
    BY DEF DestroyClient
  <1>6. conn \in [Clients -> wl_connection] /\ S \in SUBSET Clients
    BY <1>1, <1>5 DEF ServerTypeOK, Alive
  <1>7. NoConnection \in wl_connection
    BY ServerSources DEF NoConnection, wl_connection
  <1>8. Posted(S) \in [Clients -> wl_connection] /\ Failed(S) \subseteq S
    BY <1>6, PostedTyped
  <1>9. conn' \in [Clients -> wl_connection]
    BY <1>5, <1>7, <1>8
  <1>10. error' \subseteq Alive' /\ writable' = writable \ {c}
    BY <1>1, <1>4, <1>5, <1>8 DEF DestroyClient, ServerTypeOK
  <1>11. ~ListenersPost => \A d \in Clients \ {c} : conn'[d] = conn[d]
    BY <1>5, <1>8 DEF Posted
  <1>12. /\ insock' \in [Clients -> 0 .. MaxIn]
         /\ \A d \in Clients : insock'[d] <= insock[d]
    BY <1>1, ServerSources DEF DestroyClient, ServerTypeOK
  <1>13. /\ peer' \in [Clients -> {"away", "connecting", "open", "closed"}]
         /\ \A d \in Clients : peer'[d] = "connecting" => peer[d] = "connecting" /\ d # c
    BY <1>1 DEF DestroyClient, ServerTypeOK
  <1>14. /\ status'[c] = "removed" /\ \A s \in Sources \ {c} : status'[s] = status[s]
         /\ interest' = interest \ {c}
    BY <1>1, <1>2 DEF RemoveSource, LoopInv, TypeOK
  <1>15. RemoveFirst(<<>>, c) = <<>>
    BY DEF RemoveFirst
  <1>16. check_list' = <<>> /\ (idle_list = <<>> => idle_list' = <<>>)
    BY <1>1, <1>2, <1>15 DEF RemoveSource, CallbackInv
  <1> QED BY <1>3, <1>4, <1>9, <1>10, <1>11, <1>12, <1>13, <1>14, <1>16
-----------------------------------------------------------------------------
\* wl_display_flush_clients has still to come to client c.
AtOrAfter(c) ==
  at # Head_ /\ \E i, j \in 1 .. Len(client_list) :
                   i <= j /\ client_list[i] = at /\ client_list[j] = c

\* On the way from the callbacks back to epoll_wait, what has been posted to a
\* client is flushed, is watched for, or is yet to be come to.
FlushInv ==
  phase \in {"out", "idle", "wait"} =>
     \A c \in Alive : conn[c].want /\ conn[c].out > 0 =>
        c \in writable \/ (phase = "out" /\ AtOrAfter(c))

\* The inductive invariant
DisplayInv == ServerInv /\ (~ListenersPost => FlushInv)

LEMMA InitDisplay == ServerInit => DisplayInv
  <1> SUFFICES ASSUME ServerInit PROVE DisplayInv
    OBVIOUS
  <1> USE ServerSources
  <1>1. client_list = <<>> /\ client_list \in Seq(Clients) /\ Alive = {}
    BY ContainsEmpty DEF ServerInit, Alive
  <1>2. TypeOK
    BY EmptySeq DEF ServerInit, TypeOK, Phases
  <1>3. ServerTypeOK
    <2>1. NoConnection \in wl_connection
      BY DEF NoConnection, wl_connection
    <2>2. conn \in [Clients -> wl_connection]
      BY <2>1 DEF ServerInit
    <2> QED BY <1>1, <1>2, <2>2 DEF ServerInit, ServerTypeOK
  <1>4. ListsInv /\ PlaceInv
    <2>1. /\ check_list = <<>> /\ idle_list = <<>> /\ destroy_list = <<>> /\ batch = <<>>
          /\ status = [s \in Sources |-> IF s = listener THEN "active" ELSE "free"]
          /\ interest = {listener} /\ pos = Head_ /\ next = Head_ /\ running = NoSource
          /\ reported = {}
      BY DEF ServerInit
    <2>2. interest = {s \in Fds : status[s] = "active"}
      BY <2>1
    <2>3. ListsInv
      BY <2>1, <2>2, ContainsEmpty, NotSources DEF ListsInv
    <2> QED BY <2>1, <2>3, ContainsEmpty DEF PlaceInv
  <1>5. ClientOwnsSource
    BY <1>1, ContainsEmpty DEF ServerInit, ClientOwnsSource
  <1>6. CallbackInv
    <2>1. status[listener] = "active"
      BY DEF ServerInit
    <2>2. \A c \in Clients : peer[c] # "connecting" /\ insock[c] = 0 /\ pending[c] = 0
      BY DEF ServerInit
    <2>3. \A c \in Clients : insock[c] + pending[c] <= MaxIn
      BY <2>2
    <2> QED BY <2>1, <2>2, <2>3, NotSources DEF ServerInit, CallbackInv
  <1>7. FlushInv
    BY <1>1 DEF FlushInv
  <1> QED BY <1>3, <1>4, <1>5, <1>6, <1>7 DEF DisplayInv, ServerInv

LEMMA PeersKeep ==
  ASSUME DisplayInv, NEW c \in Clients, Peers(c)
  PROVE  DisplayInv'
  <1> USE ServerSources DEF vars, clients, frame, world, lists, epoll, loop
  <1>0. /\ ServerTypeOK /\ TypeOK /\ ListsInv /\ PlaceInv /\ ClientOwnsSource /\ CallbackInv
        /\ UNCHANGED <<status, interest, ready, armed, check_list, idle_list, destroy_list,
                       phase, batch, pos, next, running, reported>>
        /\ UNCHANGED <<client_list, error, writable, pending, events, at, where>>
    BY DEF DisplayInv, ServerInv, ServerTypeOK, Peers, PeerConnects, PeerSends, PeerReads,
           PeerCloses
  <1>1. TypeOK' /\ ListsInv' /\ PlaceInv'
    BY <1>0 DEF TypeOK, ListsInv, PlaceInv
  <1>2. Alive' = Alive /\ ClientOwnsSource'
    BY <1>0 DEF Alive, ClientOwnsSource
  <1>3. /\ conn' \in [Clients -> wl_connection]
        /\ \A d \in Clients : conn'[d].want = conn[d].want /\ conn'[d].out = conn[d].out
    <2>1. conn \in [Clients -> wl_connection]
      BY <1>0 DEF ServerTypeOK
    <2>2. CASE UNCHANGED conn
      BY <2>1, <2>2
    <2>3. CASE PeerReads(c)
      <3>1. conn[c].sock - 1 \in 0 .. Room /\ conn' = [conn EXCEPT ![c].sock = @ - 1]
        BY <2>1, <2>3 DEF PeerReads, wl_connection
      <3>2. conn' \in [Clients -> wl_connection]
        BY <2>1, <3>1 DEF wl_connection
      <3> QED BY <2>1, <3>1, <3>2 DEF wl_connection
    <2> QED BY <2>2, <2>3 DEF Peers, PeerConnects, PeerSends, PeerCloses
  <1>4. /\ insock' \in [Clients -> 0 .. MaxIn]
        /\ \A d \in Clients : insock'[d] + pending[d] <= MaxIn
    <2>1. /\ insock \in [Clients -> 0 .. MaxIn] /\ pending \in [Clients -> 0 .. MaxIn]
          /\ \A d \in Clients : insock[d] + pending[d] <= MaxIn
      BY <1>0 DEF ServerTypeOK, CallbackInv
    <2>2. CASE UNCHANGED insock
      BY <2>1, <2>2
    <2>3. CASE PeerSends(c)
      BY <2>1, <2>3 DEF PeerSends
    <2> QED BY <2>2, <2>3 DEF Peers, PeerConnects, PeerReads, PeerCloses
  <1>5. /\ peer' \in [Clients -> {"away", "connecting", "open", "closed"}]
        /\ \A d \in Clients : peer'[d] = "connecting" => status[d] = "free"
    BY <1>0 DEF ServerTypeOK, CallbackInv, Peers, PeerConnects, PeerSends, PeerReads, PeerCloses
  <1>6. ServerTypeOK'
    BY <1>0, <1>1, <1>2, <1>3, <1>4, <1>5 DEF ServerTypeOK
  <1>7. CallbackInv'
    BY <1>0, <1>4, <1>5 DEF CallbackInv
  <1>8. FlushInv => FlushInv'
    BY <1>0, <1>2, <1>3 DEF FlushInv, AtOrAfter, Alive
  <1> QED BY <1>1, <1>2, <1>6, <1>7, <1>8 DEF DisplayInv, ServerInv

-----------------------------------------------------------------------------
\* wl_display_flush_clients

\* The next client, in the list without the one that has been flushed, has all
\* those behind it.
LEMMA NextKeepsOrder ==
  ASSUME ServerInv, NEW c \in Alive, NEW i \in 1 .. Len(client_list),
         NEW j \in 1 .. Len(client_list),
         client_list[i] = at, client_list[j] = c, i < j
  PROVE  /\ NextClient(at) \in Alive
         /\ i + 1 \in 1 .. Len(client_list) /\ client_list[i + 1] = NextClient(at)
         /\ LET r == RemoveFirst(client_list, at)
            IN  /\ i \in 1 .. Len(r) /\ j - 1 \in 1 .. Len(r) /\ i <= j - 1
                /\ r[i] = NextClient(at) /\ r[j - 1] = c
  <1> DEFINE k == CHOOSE n \in 1 .. Len(client_list) : client_list[n] = at
             r == RemoveFirst(client_list, at)
  <1>1. client_list \in Seq(Clients) /\ IsInjective(client_list)
    BY DEF ServerInv, ServerTypeOK, ClientOwnsSource
  <1>2. k = i
    <2>1. k \in 1 .. Len(client_list) /\ client_list[k] = at
      OBVIOUS
    <2> HIDE DEF k
    <2> QED BY <1>1, <2>1 DEF IsInjective
  <1>3. i + 1 \in 1 .. Len(client_list) /\ i < Len(client_list)
    BY <1>1
  <1>4. NextClient(at) = client_list[i + 1]
    BY <1>2, <1>3 DEF NextClient
  <1>5. NextClient(at) \in Alive
    BY <1>1, <1>3, <1>4 DEF Alive, Contains
  <1>6. /\ Len(r) = Len(client_list) - 1
        /\ \A n \in 1 .. Len(client_list) - 1 :
              r[n] = client_list[IF n < i THEN n ELSE n + 1]
    BY <1>1, RemoveShape
  <1> HIDE DEF r, k
  <1>7. /\ i \in 1 .. Len(r) /\ j - 1 \in 1 .. Len(r) /\ i <= j - 1
        /\ r[i] = client_list[i + 1] /\ r[j - 1] = client_list[j]
    <2>1. Len(client_list) \in Nat
      BY <1>1
    <2>2. i \in 1 .. Len(client_list) - 1 /\ j - 1 \in 1 .. Len(client_list) - 1 /\ i <= j - 1
          /\ j - 1 + 1 = j /\ ~(i < i) /\ ~(j - 1 < i)
      BY <2>1
    <2>3. r[i] = client_list[i + 1]
      BY <1>6, <2>2
    <2>4. r[j - 1] = client_list[j - 1 + 1]
      BY <1>6, <2>2
    <2> QED BY <1>6, <2>2, <2>3, <2>4
  <1> QED BY <1>3, <1>4, <1>5, <1>7 DEF r

LEMMA FlushClientKeeps ==
  ASSUME DisplayInv, FlushClient
  PROVE  DisplayInv'
  <1> DEFINE c == at
             k == Flushed(c, conn[c])
  <1>1. /\ ServerInv /\ ServerTypeOK /\ TypeOK /\ ListsInv /\ PlaceInv /\ ClientOwnsSource
        /\ CallbackInv
    BY DEF DisplayInv, ServerInv, ServerTypeOK
  <1>2. /\ phase = "out" /\ c \in Alive /\ c \in Clients /\ running = NoSource
        /\ idle_list = <<>> /\ UNCHANGED <<events, where>> /\ at' = NextClient(c)
        /\ FlushesClient(c)
    BY <1>1 DEF FlushClient, ClientOwnsSource, Alive, CallbackInv
  <1>3. client_list \in Seq(Clients) /\ IsInjective(client_list)
    BY <1>1 DEF ServerTypeOK, ClientOwnsSource
  <1>4. PICK i \in 1 .. Len(client_list) : client_list[i] = c
    BY <1>2 DEF Alive, Contains
  <1>5. conn \in [Clients -> wl_connection] /\ conn[c] \in wl_connection /\ k \in wl_connection
        /\ (k.want => conn[c].want)
        /\ (conn[c].want /\ ~k.want => k.out = 0)
    <2>1. conn \in [Clients -> wl_connection]
      BY <1>1 DEF ServerTypeOK
    <2> QED BY <1>2, <2>1, FlushedTyped
  \* Where the loop goes on
  <1>6. NextClient(c) \in Clients \cup {Head_}
        /\ (NextClient(c) # Head_ => NextClient(c) \in Alive \ {c})
    <2> DEFINE n == CHOOSE j \in 1 .. Len(client_list) : client_list[j] = c
    <2>1. n \in 1 .. Len(client_list) /\ client_list[n] = c
      BY <1>4
    <2>2. NextClient(c) = IF n < Len(client_list) THEN client_list[n + 1] ELSE Head_
      BY DEF NextClient
    <2> HIDE DEF n
    <2>3. CASE n < Len(client_list)
      <3>1. n + 1 \in 1 .. Len(client_list) /\ n + 1 # n /\ DOMAIN client_list = 1 .. Len(client_list)
        BY <1>3, <2>1, <2>3
      <3>2. client_list[n + 1] # c /\ client_list[n + 1] \in Clients
        BY <1>3, <2>1, <3>1 DEF IsInjective
      <3> QED BY <2>2, <2>3, <3>1, <3>2 DEF Alive, Contains
    <2>4. CASE ~(n < Len(client_list))
      BY <2>2, <2>4
    <2> QED BY <2>3, <2>4
  <1>7. ASSUME NEW d \in Alive, AtOrAfter(d), d # c
        PROVE  /\ NextClient(c) # Head_
               /\ \E m, n \in 1 .. Len(client_list) :
                     m <= n /\ client_list[m] = NextClient(c) /\ client_list[n] = d
               /\ LET r == RemoveFirst(client_list, c)
                  IN  \E m, n \in 1 .. Len(r) :
                         m <= n /\ r[m] = NextClient(c) /\ r[n] = d
    <2>1. PICK m \in 1 .. Len(client_list), n \in 1 .. Len(client_list) :
                  m <= n /\ client_list[m] = c /\ client_list[n] = d
      BY <1>7 DEF AtOrAfter
    <2>2. m < n /\ m + 1 <= n
      BY <1>3, <1>7, <2>1
    <2>3. /\ NextClient(c) \in Alive
          /\ m + 1 \in 1 .. Len(client_list) /\ client_list[m + 1] = NextClient(c)
          /\ LET r == RemoveFirst(client_list, c)
             IN  /\ m \in 1 .. Len(r) /\ n - 1 \in 1 .. Len(r) /\ m <= n - 1
                 /\ r[m] = NextClient(c) /\ r[n - 1] = d
      BY <1>1, <2>1, <2>2, NextKeepsOrder
    <2>4. NextClient(c) # Head_
      BY <2>3, ServerSources DEF Alive
    <2> QED BY <2>1, <2>2, <2>3, <2>4
  <1>8. CASE k.want /\ peer[c] # "open"
    <2>1. /\ DestroyClient(c) /\ UNCHANGED <<pending, phase, batch, pos, next, running>>
      BY <1>2, <1>8 DEF FlushesClient
    <2>2. phase # "check" /\ running' \in {running, NoSource}
      BY <1>2, <2>1
    <2>3. /\ LoopInv'
          /\ client_list' \in Seq(Clients) /\ IsInjective(client_list')
          /\ client_list' = RemoveFirst(client_list, c)
          /\ Alive' = Alive \ {c}
          /\ conn' \in [Clients -> wl_connection]
          /\ error' \subseteq Alive' /\ writable' = writable \ {c}
          /\ insock' \in [Clients -> 0 .. MaxIn]
          /\ \A d \in Clients : insock'[d] <= insock[d]
          /\ peer' \in [Clients -> {"away", "connecting", "open", "closed"}]
          /\ \A d \in Clients : peer'[d] = "connecting" => peer[d] = "connecting" /\ d # c
          /\ status'[c] = "removed" /\ \A s \in Sources \ {c} : status'[s] = status[s]
          /\ interest' = interest \ {c}
          /\ check_list' = <<>> /\ (idle_list = <<>> => idle_list' = <<>>)
          /\ ~ListenersPost => \A d \in Clients \ {c} : conn'[d] = conn[d]
      BY <1>1, <1>2, <2>1, <2>2, ClientDestroyed
    <2> HIDE DEF c, k
    <2>4. ServerTypeOK'
      BY <1>1, <1>2, <1>6, <2>1, <2>3 DEF ServerTypeOK, LoopInv
    <2>5. ClientOwnsSource'
      BY <1>1, <1>2, <1>6, <2>1, <2>3, ServerSources DEF ClientOwnsSource, CallbackInv, Alive
    <2>6. CallbackInv'
      <3>1. \A d \in Clients : insock'[d] + pending'[d] <= MaxIn
        BY <1>1, <2>1, <2>3, ServerSources DEF ServerTypeOK, CallbackInv
      <3> QED BY <1>1, <1>2, <2>1, <2>3, <3>1, ServerSources DEF CallbackInv
    <2>7. ASSUME ~ListenersPost, FlushInv PROVE FlushInv'
      <3> SUFFICES ASSUME NEW d \in Alive', conn'[d].want, conn'[d].out > 0, d \notin writable'
                   PROVE  AtOrAfter(d)'
        BY <1>2, <2>1 DEF FlushInv
      <3>1. d \in Alive /\ d # c /\ d \in Clients /\ conn'[d] = conn[d] /\ d \notin writable
        BY <2>3, <2>7 DEF Alive
      <3>2. AtOrAfter(d)
        BY <1>2, <2>7, <3>1 DEF FlushInv
      <3> QED BY <1>2, <1>7, <2>3, <3>1, <3>2 DEF AtOrAfter
    <2> QED BY <2>3, <2>4, <2>5, <2>6, <2>7 DEF DisplayInv, ServerInv, LoopInv
  <1>9. CASE ~(k.want /\ peer[c] # "open")
    <2>1. /\ conn' = [conn EXCEPT ![c] = k]
          /\ writable' = (IF k.want THEN writable \cup {c} ELSE writable)
          /\ UNCHANGED <<status, interest, ready, armed, check_list, idle_list, destroy_list,
                         phase, batch, pos, next, running, reported>>
          /\ UNCHANGED <<client_list, error, pending, insock, peer>>
      BY <1>2, <1>9 DEF FlushesClient, vars, lists, epoll, loop, world
    <2> HIDE DEF c, k
    <2>2. Alive' = Alive
      BY <2>1 DEF Alive
    <2>3. TypeOK' /\ ListsInv' /\ PlaceInv'
      BY <1>1, <2>1 DEF TypeOK, ListsInv, PlaceInv
    <2>4. conn' \in [Clients -> wl_connection]
      BY <1>5, <2>1
    <2>5. ServerTypeOK'
      BY <1>1, <1>2, <1>6, <2>1, <2>2, <2>3, <2>4 DEF ServerTypeOK
    <2>6. ClientOwnsSource'
      BY <1>1, <1>2, <1>6, <2>1, <2>2 DEF ClientOwnsSource
    <2>7. CallbackInv'
      BY <1>1, <1>2, <2>1 DEF CallbackInv
    <2>8. ASSUME ~ListenersPost, FlushInv PROVE FlushInv'
      <3> SUFFICES ASSUME NEW d \in Alive, conn'[d].want, conn'[d].out > 0, d \notin writable'
                   PROVE  AtOrAfter(d)'
        BY <1>2, <2>1, <2>2 DEF FlushInv
      <3>1. d # c
        <4> SUFFICES ASSUME d = c PROVE FALSE
          OBVIOUS
        <4>1. conn'[d] = k
          BY <1>2, <1>5, <2>1
        <4>2. k.want
          BY <4>1
        <4> QED BY <2>1, <4>2
      <3>2. d \in Clients /\ conn'[d] = conn[d] /\ d \notin writable
        BY <1>5, <2>1, <3>1 DEF Alive
      <3>3. AtOrAfter(d)
        BY <1>2, <2>8, <3>2 DEF FlushInv
      <3> QED BY <1>2, <1>7, <2>1, <3>1, <3>3 DEF AtOrAfter
    <2> QED BY <2>3, <2>5, <2>6, <2>7, <2>8 DEF DisplayInv, ServerInv
  <1> QED BY <1>8, <1>9
-----------------------------------------------------------------------------
\* wl_event_loop_dispatch

\* The loop's own steps leave the clients to the callbacks.
LEMMA LoopStepKeeps ==
  ASSUME DisplayInv, LoopStep
  PROVE  DisplayInv'
  <1>1. /\ LoopInv /\ ServerTypeOK /\ TypeOK /\ PlaceInv /\ ClientOwnsSource /\ CallbackInv
        /\ UNCHANGED <<client_list, conn, error, writable, pending, insock, peer,
                       events, at, where>>
    BY DEF DisplayInv, ServerInv, ServerTypeOK, LoopInv, LoopStep, serverVars, clients, world,
           frame
  <1>2. LoopInv'
    BY <1>1, IdlePhaseKeeps, CallSourceKeeps, ProcessDestroyListKeeps, CheckKeepsLoop
       DEF LoopStep, Check
  <1>3. Alive' = Alive
    BY <1>1 DEF Alive
  <1>4. ServerTypeOK'
    BY <1>1, <1>2, <1>3 DEF ServerTypeOK, LoopInv
  \* What the loop changes
  <1>5. /\ interest' = interest /\ check_list' = <<>>
        /\ idle_list' = idle_list
        /\ \A s \in Sources : status'[s] = IF status[s] = "removed" THEN status'[s] ELSE status[s]
        /\ \A s \in Sources : status[s] = "removed" => status'[s] \in {"removed", "free"}
    <2>1. CASE ProcessDestroyList
      BY <1>1, <2>1 DEF ProcessDestroyList, epoll, CallbackInv, LoopInv, ListsInv, TypeOK
    <2>2. CASE CallIdle \/ IdleOver \/ CallSource \/ StartChecks
      BY <1>1, <2>2 DEF CallIdle, IdleOver, CallSource, StartChecks, Call, lists, epoll,
                        CallbackInv
    <2> QED BY <2>1, <2>2 DEF LoopStep
  <1>6. /\ running' \in Clients => running' \in Alive /\ where = "start"
        /\ phase' \notin {"batch", "idle_again"} => running' = NoSource /\ idle_list = <<>>
        /\ running' \in Fds => phase' = "batch"
        /\ running' \in Idles => phase' = "idle_again"
        /\ phase' # "out" => at = Head_
        /\ where = "start" \/ running' = running
    <2> USE <1>1, ServerSources, NotSources DEF CallbackInv
    <2>1. CASE CallIdle
      <3>1. Head(idle_list) \in Idles
        BY <2>1, ContainsHead DEF CallIdle, TypeOK
      <3> QED BY <2>1, <3>1 DEF CallIdle, IdlePhase
    <2>2. CASE IdleOver
      BY <2>2 DEF IdleOver
    <2>3. CASE CallSource
      <3>1. Head(batch) \in Fds /\ Contains(batch, Head(batch))
        BY <2>3, ContainsHead DEF CallSource, TypeOK
      <3>2. /\ running' = NoSource \/ (running' = Head(batch) /\ status[Head(batch)] # "removed")
            /\ phase' = "batch" /\ phase = "batch" /\ running = NoSource
        BY <2>3 DEF CallSource, Call
      <3>3. running' # NoSource => running' \in Alive \cup {listener}
        BY <3>1, <3>2 DEF PlaceInv, ClientOwnsSource
      <3> QED BY <3>1, <3>2, <3>3
    <2>4. CASE ProcessDestroyList
      BY <2>4 DEF ProcessDestroyList
    <2>5. CASE StartChecks
      BY <2>5 DEF StartChecks
    <2> QED BY <2>1, <2>2, <2>3, <2>4, <2>5 DEF LoopStep
  <1>7. ClientOwnsSource'
    <2>1. \A c \in Clients : status'[c] = "active" <=> status[c] = "active"
      BY <1>5, ServerSources
    <2> QED BY <1>1, <1>3, <1>5, <1>6, <2>1 DEF ClientOwnsSource
  <1>8. CallbackInv'
    <2>1. status'[listener] = "active" /\ \A c \in Clients : status[c] = "free" => status'[c] = "free"
      BY <1>1, <1>5, ServerSources DEF CallbackInv
    <2> QED BY <1>1, <1>5, <1>6, <2>1, ServerSources DEF CallbackInv
  <1>9. FlushInv => FlushInv'
    <2>1. phase' \in {"out", "idle", "wait"} =>
             phase \in {"idle", "wait"} /\ phase' # "out"
      BY DEF LoopStep, CallIdle, IdlePhase, IdleOver, CallSource, ProcessDestroyList, StartChecks
    <2> QED BY <1>1, <1>3, <2>1 DEF FlushInv
  <1> QED BY <1>2, <1>4, <1>7, <1>8, <1>9 DEF DisplayInv, ServerInv, LoopInv

LEMMA DispatchKeeps ==
  ASSUME DisplayInv, Dispatch
  PROVE  DisplayInv'
  <1>1. /\ LoopInv /\ ServerTypeOK /\ ClientOwnsSource /\ CallbackInv
        /\ UNCHANGED <<client_list, conn, error, writable, pending, insock, peer,
                       events, at, where>>
        /\ UNCHANGED <<status, interest, check_list, idle_list, running>>
        /\ phase = "out" /\ phase' = "idle" /\ at = Head_
    BY DEF DisplayInv, ServerInv, ServerTypeOK, LoopInv, Dispatch, DispatchCalled, serverVars,
           clients, world, frame, lists, epoll
  <1>2. LoopInv'
    BY <1>1, IdlePhaseKeeps DEF Dispatch
  <1>3. Alive' = Alive
    BY <1>1 DEF Alive
  <1>4. ServerTypeOK' /\ ClientOwnsSource' /\ CallbackInv'
    BY <1>1, <1>2, <1>3, ServerSources, NotSources
       DEF ServerTypeOK, LoopInv, ClientOwnsSource, CallbackInv
  <1>5. FlushInv => FlushInv'
    BY <1>1, <1>3 DEF FlushInv, AtOrAfter
  <1> QED BY <1>2, <1>4, <1>5 DEF DisplayInv, ServerInv, LoopInv

LEMMA WaitKeeps ==
  ASSUME DisplayInv, Wait
  PROVE  DisplayInv'
  <1>1. /\ LoopInv /\ ServerTypeOK /\ ClientOwnsSource /\ CallbackInv
        /\ UNCHANGED <<client_list, conn, error, writable, pending, insock, peer, at, where>>
        /\ UNCHANGED <<status, interest, check_list, idle_list, running>>
        /\ phase = "wait" /\ phase' = "batch"
    BY DEF DisplayInv, ServerInv, ServerTypeOK, LoopInv, Wait, EpollReturns, serverVars,
           clients, world, frame, lists, epoll
  <1>2. LoopInv'
    <2>1. Reportable \in SUBSET interest
      BY <1>1 DEF Reportable, ClientOwnsSource
    <2> QED BY <1>1, <2>1, EpollReturnsKeeps DEF Wait
  <1>3. Alive' = Alive
    BY <1>1 DEF Alive
  <1>4. events' \in [Clients -> SUBSET {"R", "W", "H"}]
    BY DEF Wait, Flags, Watched
  <1>5. ServerTypeOK' /\ ClientOwnsSource' /\ CallbackInv'
    BY <1>1, <1>2, <1>3, <1>4, ServerSources, NotSources
       DEF ServerTypeOK, LoopInv, ClientOwnsSource, CallbackInv
  <1>6. FlushInv'
    BY <1>1 DEF FlushInv
  <1> QED BY <1>2, <1>5, <1>6 DEF DisplayInv, ServerInv, LoopInv

LEMMA TurnKeeps ==
  ASSUME DisplayInv, Turn
  PROVE  DisplayInv'
  <1>1. /\ LoopInv /\ ServerTypeOK /\ ClientOwnsSource /\ CallbackInv
        /\ UNCHANGED <<client_list, conn, error, writable, pending, insock, peer, where>>
        /\ UNCHANGED <<status, interest, check_list, idle_list, running>>
        /\ phase \in {"wait", "check"} /\ phase' = "out"
        /\ at' = FirstClient /\ events' = [c \in Clients |-> {}]
    BY DEF DisplayInv, ServerInv, ServerTypeOK, LoopInv, Turn, EpollFails, DispatchReturns,
           serverVars, clients, world, frame, lists, epoll
  <1>2. LoopInv'
    BY <1>1, IdlePhaseKeeps, CheckKeepsLoop DEF Turn
  <1>3. Alive' = Alive
    BY <1>1 DEF Alive
  <1>4. client_list \in Seq(Clients)
    BY <1>1 DEF ServerTypeOK
  <1>5. at' \in Alive \cup {Head_} /\ at' \in Clients \cup {Head_}
    BY <1>1, <1>4, ContainsHead DEF FirstClient, Alive
  <1>6. ServerTypeOK' /\ ClientOwnsSource' /\ CallbackInv'
    BY <1>1, <1>2, <1>3, <1>5, ServerSources, NotSources
       DEF ServerTypeOK, LoopInv, ClientOwnsSource, CallbackInv
  <1>7. FlushInv'
    <2> SUFFICES ASSUME NEW c \in Alive PROVE AtOrAfter(c)'
      BY <1>1, <1>3 DEF FlushInv
    <2>1. PICK j \in 1 .. Len(client_list) : client_list[j] = c
      BY DEF Alive, Contains
    <2>2. 1 \in 1 .. Len(client_list) /\ 1 <= j /\ client_list # <<>>
      BY <1>4, <2>1
    <2>3. at' = client_list[1] /\ at' # Head_
      BY <1>1, <1>4, <2>2, ServerSources DEF FirstClient
    <2> QED BY <1>1, <2>1, <2>2, <2>3 DEF AtOrAfter
  <1> QED BY <1>2, <1>6, <1>7 DEF DisplayInv, ServerInv, LoopInv

\* An idle callback, and a callback of any client, may post to all clients.
LEMMA PostsKept ==
  ASSUME ServerTypeOK, NEW S \in SUBSET Alive,
         conn' = Posted(S), error' = error \cup Failed(S), client_list' = client_list
  PROVE  conn' \in [Clients -> wl_connection] /\ error' \subseteq Alive' /\ Alive' = Alive
  BY PostedTyped DEF ServerTypeOK, Alive

LEMMA RunIdleKeeps ==
  ASSUME DisplayInv, RunIdle
  PROVE  DisplayInv'
  <1>1. /\ LoopInv /\ ServerTypeOK /\ ClientOwnsSource /\ CallbackInv
        /\ UNCHANGED <<client_list, writable, pending, insock, peer, events, at, where>>
        /\ phase = "idle_again" /\ UNCHANGED phase
        /\ running \in Sources /\ running # NoSource /\ running' = NoSource
        /\ RemoveSource(running)
    BY DEF DisplayInv, ServerInv, ServerTypeOK, LoopInv, TypeOK, RunIdle, IdleReturns, IdlePhase,
           CallbackInv, world, frame
  <1>2. running = later /\ running \notin Fds
    BY <1>1, ServerAssumption DEF CallbackInv, Sources
  <1>3. LoopInv'
    BY <1>1, IdleReturnsKeeps DEF RunIdle
  <1>4. PICK S \in SUBSET Alive : conn' = Posted(S) /\ error' = error \cup Failed(S)
    BY DEF RunIdle
  <1>5. conn' \in [Clients -> wl_connection] /\ error' \subseteq Alive' /\ Alive' = Alive
    BY <1>1, <1>4, PostsKept
  <1>6. /\ \A s \in Fds : status'[s] = status[s]
        /\ check_list' = <<>> /\ interest' = interest
    <2>1. interest \subseteq Fds
      BY <1>1 DEF LoopInv, TypeOK
    <2>2. RemoveFirst(<<>>, running) = <<>>
      BY DEF RemoveFirst
    <2> QED BY <1>1, <1>2, <2>1, <2>2, ServerSources DEF RemoveSource, LoopInv, TypeOK, CallbackInv
  <1>7. ServerTypeOK'
    BY <1>1, <1>3, <1>5 DEF ServerTypeOK, LoopInv
  <1>8. ClientOwnsSource' /\ CallbackInv'
    BY <1>1, <1>2, <1>5, <1>6, ServerSources, NotSources DEF ClientOwnsSource, CallbackInv
  <1>9. FlushInv'
    BY <1>1 DEF FlushInv
  <1> QED BY <1>3, <1>7, <1>8, <1>9 DEF DisplayInv, ServerInv, LoopInv
-----------------------------------------------------------------------------
\* socket_data and wl_client_create

LEMMA AcceptKeeps ==
  ASSUME DisplayInv, NEW c \in Clients, Accept(c)
  PROVE  DisplayInv'
  <1>1. /\ LoopInv /\ TypeOK /\ ListsInv /\ PlaceInv /\ ServerTypeOK /\ ClientOwnsSource
        /\ CallbackInv
        /\ UNCHANGED <<ready, armed, check_list, idle_list, destroy_list, phase, batch, pos, next,
                       reported>>
        /\ UNCHANGED <<conn, error, writable, pending, insock, events, at, where>>
        /\ running = listener /\ running' = NoSource
        /\ c \in Fds /\ c \in Sources /\ status[c] = "free" /\ c \notin Alive
        /\ status' = [status EXCEPT ![c] = "active"]
        /\ interest' = interest \cup {c}
    BY ServerSources DEF DisplayInv, ServerInv, ServerTypeOK, LoopInv, Accept, Connecting,
                         CallbackInv, ClientOwnsSource, frame, lists
  <1>2. phase = "batch" /\ pos = Head_ /\ next = Head_ /\ where = "start"
    BY <1>1, ServerSources DEF CallbackInv, PlaceInv
  <1>3. TypeOK'
    BY <1>1 DEF TypeOK
  <1>4. ListsInv'
    BY <1>1, NotSources DEF TypeOK, ListsInv
  <1>5. PlaceInv'
    BY <1>1, <1>2, NotSources DEF TypeOK, PlaceInv
  <1>6. /\ client_list' \in Seq(Clients) /\ IsInjective(client_list')
        /\ Alive' = Alive \cup {c}
    BY <1>1, ContainsAppend DEF Accept, ServerTypeOK, ClientOwnsSource, Alive
  <1>7. /\ peer' \in [Clients -> {"away", "connecting", "open", "closed"}]
        /\ \A d \in Clients : peer'[d] = "connecting" => peer[d] = "connecting" /\ d # c
    BY <1>1 DEF Accept, ServerTypeOK
  <1>8. ServerTypeOK'
    BY <1>1, <1>3, <1>6, <1>7 DEF ServerTypeOK
  <1>9. /\ \A s \in Sources \ {c} : status'[s] = status[s]
        /\ status'[c] = "active"
    BY <1>1 DEF TypeOK
  <1>10. ClientOwnsSource'
    BY <1>1, <1>2, <1>6, <1>9, ServerSources DEF ClientOwnsSource
  <1>11. CallbackInv'
    BY <1>1, <1>2, <1>7, <1>9, ServerSources, NotSources DEF CallbackInv
  <1>12. FlushInv'
    BY <1>1, <1>2 DEF FlushInv
  <1> QED BY <1>3, <1>4, <1>5, <1>8, <1>10, <1>11, <1>12 DEF DisplayInv, ServerInv

LEMMA RefuseKeeps ==
  ASSUME DisplayInv, NEW c \in Clients, Refuse(c)
  PROVE  DisplayInv'
  <1>1. /\ LoopInv /\ TypeOK /\ ListsInv /\ PlaceInv /\ ServerTypeOK /\ ClientOwnsSource
        /\ CallbackInv
        /\ UNCHANGED <<phase, batch, pos, next>>
        /\ UNCHANGED <<client_list, conn, error, writable, pending, insock, events, at, where>>
        /\ running = listener /\ running' = NoSource
        /\ c \in Fds /\ c \in Sources /\ status[c] = "free" /\ c \notin Alive
        /\ RemoveSource(c) \/ UNCHANGED <<status, epoll, lists, reported>>
    BY ServerSources DEF DisplayInv, ServerInv, ServerTypeOK, LoopInv, Refuse, Connecting,
                         CallbackInv, ClientOwnsSource, frame, clients
  <1>2. phase = "batch" /\ where = "start" /\ c \notin interest
    BY <1>1, ServerSources DEF CallbackInv, ClientOwnsSource
  <1>3. /\ LoopInv' /\ interest' = interest /\ check_list' = <<>>
        /\ \A s \in Sources \ {c} : status'[s] = status[s]
        /\ status'[c] # "active" /\ (status'[c] # "free" => status'[c] = "removed")
    <2>1. CASE RemoveSource(c)
      <3>1. RemoveFirst(<<>>, c) = <<>>
        BY DEF RemoveFirst
      <3>2. LoopInv'
        BY <1>1, <1>2, <2>1, RemoveKeeps
      <3> QED BY <1>1, <1>2, <2>1, <3>1, <3>2 DEF RemoveSource, CallbackInv, TypeOK
    <2>2. CASE UNCHANGED <<status, epoll, lists, reported>>
      <3>1. LoopInv'
        BY <1>1, <1>2, <2>2, SourceReturnsKeeps, ServerSources DEF SourceReturns
      <3> QED BY <1>1, <2>2, <3>1 DEF CallbackInv, epoll, lists
    <2> QED BY <1>1, <2>1, <2>2
  <1>4. Alive' = Alive
    BY <1>1 DEF Alive
  <1>5. /\ peer' \in [Clients -> {"away", "connecting", "open", "closed"}]
        /\ \A d \in Clients : peer'[d] = "connecting" => peer[d] = "connecting" /\ d # c
    BY <1>1 DEF Refuse, ServerTypeOK
  <1>6. ServerTypeOK'
    BY <1>1, <1>3, <1>4, <1>5 DEF ServerTypeOK, LoopInv
  <1>7. ClientOwnsSource'
    BY <1>1, <1>2, <1>3, <1>4, ServerSources DEF ClientOwnsSource
  <1>8. CallbackInv'
    BY <1>1, <1>2, <1>3, <1>5, ServerSources, NotSources DEF CallbackInv
  <1>9. FlushInv'
    BY <1>1, <1>2 DEF FlushInv
  <1> QED BY <1>3, <1>6, <1>7, <1>8, <1>9 DEF DisplayInv, ServerInv, LoopInv

LEMMA AcceptFailsKeeps ==
  ASSUME DisplayInv, AcceptFails
  PROVE  DisplayInv'
  <1>1. /\ LoopInv /\ ServerTypeOK /\ ClientOwnsSource /\ CallbackInv
        /\ UNCHANGED <<client_list, conn, error, writable, pending, insock, peer,
                       events, at, where>>
        /\ UNCHANGED <<status, interest, check_list, idle_list, phase>>
        /\ phase = "batch" /\ running = listener /\ running' = NoSource
    BY DEF DisplayInv, ServerInv, ServerTypeOK, LoopInv, AcceptFails, SourceReturns, serverVars,
           clients, world, frame, lists, epoll
  <1>2. LoopInv'
    BY <1>1, SourceReturnsKeeps DEF AcceptFails
  <1>3. Alive' = Alive
    BY <1>1 DEF Alive
  <1>4. ServerTypeOK' /\ ClientOwnsSource' /\ CallbackInv'
    BY <1>1, <1>2, <1>3, ServerSources, NotSources
       DEF ServerTypeOK, LoopInv, ClientOwnsSource, CallbackInv
  <1>5. FlushInv'
    BY <1>1 DEF FlushInv
  <1> QED BY <1>2, <1>4, <1>5 DEF DisplayInv, ServerInv, LoopInv

-----------------------------------------------------------------------------
\* wl_client_connection_data

LEMMA ReturnsKeep ==
  ASSUME DisplayInv, NEW c \in Clients, running = c, Returns(c),
         UNCHANGED <<status, epoll, lists, reported, clients, world>>
  PROVE  DisplayInv'
  <1>1. /\ LoopInv /\ ServerTypeOK /\ ClientOwnsSource /\ CallbackInv
        /\ UNCHANGED <<client_list, conn, error, writable, pending, insock, peer, at>>
        /\ UNCHANGED <<status, interest, check_list, idle_list, phase>>
        /\ phase = "batch" /\ running' = NoSource /\ where' = "start"
        /\ events' = [events EXCEPT ![c] = {}]
    BY ServerSources DEF DisplayInv, ServerInv, ServerTypeOK, LoopInv, Returns, CallbackInv,
                         clients, world, lists, epoll
  <1>2. LoopInv'
    <2>1. SourceReturns
      BY <1>1, ServerSources DEF SourceReturns, Returns
    <2> QED BY <1>1, <2>1, SourceReturnsKeeps
  <1>3. Alive' = Alive
    BY <1>1 DEF Alive
  <1>4. ServerTypeOK' /\ ClientOwnsSource' /\ CallbackInv'
    BY <1>1, <1>2, <1>3, ServerSources, NotSources
       DEF ServerTypeOK, LoopInv, ClientOwnsSource, CallbackInv
  <1>5. FlushInv'
    BY <1>1 DEF FlushInv
  <1> QED BY <1>2, <1>4, <1>5 DEF DisplayInv, ServerInv, LoopInv

LEMMA DestroyAndReturnKeeps ==
  ASSUME DisplayInv, NEW c \in Clients, running = c, DestroyAndReturn(c)
  PROVE  DisplayInv'
  <1>1. /\ ServerInv /\ ServerTypeOK /\ ClientOwnsSource /\ CallbackInv
        /\ UNCHANGED <<phase, batch, pos, next, at>>
        /\ phase = "batch" /\ running' = NoSource /\ where' = "start"
        /\ events' = [events EXCEPT ![c] = {}] /\ pending' = [pending EXCEPT ![c] = 0]
        /\ c \in Alive /\ DestroyClient(c)
    BY ServerSources DEF DisplayInv, ServerInv, DestroyAndReturn, Returns, CallbackInv,
                         ClientOwnsSource
  <1>2. /\ LoopInv'
        /\ client_list' \in Seq(Clients) /\ IsInjective(client_list')
        /\ Alive' = Alive \ {c}
        /\ conn' \in [Clients -> wl_connection]
        /\ error' \subseteq Alive' /\ writable' = writable \ {c}
        /\ insock' \in [Clients -> 0 .. MaxIn]
        /\ \A d \in Clients : insock'[d] <= insock[d]
        /\ peer' \in [Clients -> {"away", "connecting", "open", "closed"}]
        /\ \A d \in Clients : peer'[d] = "connecting" => peer[d] = "connecting" /\ d # c
        /\ status'[c] = "removed" /\ \A s \in Sources \ {c} : status'[s] = status[s]
        /\ interest' = interest \ {c}
        /\ check_list' = <<>> /\ (idle_list = <<>> => idle_list' = <<>>)
    BY <1>1, ClientDestroyed
  <1>3. /\ pending' \in [Clients -> 0 .. MaxIn]
        /\ \A d \in Clients : insock'[d] + pending'[d] <= MaxIn
    <2>1. /\ pending \in [Clients -> 0 .. MaxIn] /\ insock \in [Clients -> 0 .. MaxIn]
          /\ MaxIn \in Nat /\ \A d \in Clients : insock[d] + pending[d] <= MaxIn
      BY <1>1, ServerSources DEF ServerTypeOK, CallbackInv
    <2>2. /\ pending' \in [Clients -> 0 .. MaxIn]
          /\ \A d \in Clients : pending'[d] <= pending[d]
      BY <1>1, <2>1
    <2>3. ASSUME NEW d \in Clients PROVE insock'[d] + pending'[d] <= MaxIn
      <3>1. /\ pending'[d] \in Nat /\ pending[d] \in Nat /\ pending'[d] <= pending[d]
            /\ insock'[d] \in Nat /\ insock[d] \in Nat /\ insock'[d] <= insock[d]
            /\ insock[d] + pending[d] <= MaxIn
        BY <1>2, <2>1, <2>2
      <3> QED BY <2>1, <3>1
    <2> QED BY <2>2, <2>3
  <1>4. ServerTypeOK'
    BY <1>1, <1>2, <1>3 DEF ServerTypeOK, LoopInv
  <1>5. ClientOwnsSource'
    BY <1>1, <1>2, ServerSources, SMTT(30) DEF ClientOwnsSource, CallbackInv, Alive
  <1>6. CallbackInv'
    BY <1>1, <1>2, <1>3, ServerSources, NotSources DEF CallbackInv
  <1>7. FlushInv'
    BY <1>1 DEF FlushInv
  <1> QED BY <1>2, <1>4, <1>5, <1>6, <1>7 DEF DisplayInv, ServerInv, LoopInv

LEMMA ConnectionDataReturnsKeeps ==
  ASSUME DisplayInv, NEW c \in Clients, ConnectionDataReturns(c)
  PROVE  DisplayInv'
  BY DestroyAndReturnKeeps, ReturnsKeep DEF ConnectionDataReturns

LEMMA ReadingKeeps ==
  ASSUME DisplayInv, NEW c \in Clients, ConnectionData(c)
  PROVE  DisplayInv'
  <1> DEFINE mask == events[c]
             k == IF "W" \in mask THEN Flushed(c, conn[c]) ELSE conn[c]
  <1>1. running = c /\ where = "start"
    BY DEF ConnectionData
  <1>2. CASE DestroyAndReturn(c)
    BY <1>1, <1>2, DestroyAndReturnKeeps
  <1>3. CASE ~DestroyAndReturn(c)
    <2>1. /\ conn' = [conn EXCEPT ![c] = k]
          /\ writable' \in {writable, writable \ {c}}
          /\ IF "R" \in mask
             THEN /\ pending' = [pending EXCEPT ![c] = @ + insock[c]]
                  /\ insock' = [insock EXCEPT ![c] = 0]
                  /\ where' = IF pending'[c] > 0 THEN "requests" ELSE "end"
             ELSE where' = "end" /\ UNCHANGED <<pending, insock>>
          /\ UNCHANGED <<vars, client_list, error, peer, events, at>>
      BY <1>3 DEF ConnectionData
    <2>2. /\ LoopInv /\ TypeOK /\ ListsInv /\ PlaceInv /\ ServerTypeOK /\ ClientOwnsSource
          /\ CallbackInv /\ phase = "batch"
          /\ UNCHANGED <<status, interest, ready, armed, check_list, idle_list, destroy_list,
                         phase, batch, pos, next, running, reported>>
      BY <1>1, <2>1, ServerSources DEF DisplayInv, ServerInv, ServerTypeOK, LoopInv, CallbackInv,
                                       vars, lists, epoll, loop
    <2>3. conn \in [Clients -> wl_connection] /\ k \in wl_connection
      BY <2>2, FlushedTyped DEF ServerTypeOK
    <2> HIDE DEF k
    <2>4. conn' \in [Clients -> wl_connection]
      BY <2>1, <2>3
    <2>5. /\ pending' \in [Clients -> 0 .. MaxIn] /\ insock' \in [Clients -> 0 .. MaxIn]
          /\ \A d \in Clients : insock'[d] + pending'[d] <= MaxIn
          /\ where' \in {"requests", "end"} /\ (where' = "requests" => pending'[c] > 0)
      <3>1. /\ pending \in [Clients -> 0 .. MaxIn] /\ insock \in [Clients -> 0 .. MaxIn]
            /\ MaxIn \in Nat /\ \A d \in Clients : insock[d] + pending[d] <= MaxIn
        BY <2>2, ServerSources DEF ServerTypeOK, CallbackInv
      <3>2. CASE "R" \in mask
        <4>1. pending[c] + insock[c] \in 0 .. MaxIn
          BY <3>1
        <4> QED BY <2>1, <3>1, <3>2, <4>1
      <3>3. CASE "R" \notin mask
        BY <2>1, <3>1, <3>3
      <3> QED BY <3>2, <3>3
    <2>6. TypeOK' /\ ListsInv' /\ PlaceInv' /\ Alive' = Alive
      BY <2>1, <2>2 DEF TypeOK, ListsInv, PlaceInv, Alive
    <2>7. ServerTypeOK'
      BY <2>1, <2>2, <2>4, <2>5, <2>6 DEF ServerTypeOK
    <2>8. ClientOwnsSource'
      BY <2>1, <2>2, <2>6 DEF ClientOwnsSource
    <2>9. CallbackInv'
      BY <1>1, <2>1, <2>2, <2>5 DEF CallbackInv
    <2>10. FlushInv'
      BY <2>2 DEF FlushInv
    <2> QED BY <2>6, <2>7, <2>8, <2>9, <2>10 DEF DisplayInv, ServerInv
  <1> QED BY <1>2, <1>3

\* Whatever a request makes its handler do to its or other clients' connections
LEMMA HandledKeeps ==
  ASSUME DisplayInv, NEW c \in Clients, Handled(c),
         UNCHANGED <<vars, client_list, writable, world>>,
         conn' \in [Clients -> wl_connection], error' \subseteq Alive
  PROVE  DisplayInv'
  <1>1. /\ LoopInv /\ TypeOK /\ ListsInv /\ PlaceInv /\ ServerTypeOK /\ ClientOwnsSource
        /\ CallbackInv /\ phase = "batch" /\ running = c /\ where = "requests"
        /\ UNCHANGED <<status, interest, ready, armed, check_list, idle_list, destroy_list,
                       phase, batch, pos, next, running, reported>>
        /\ UNCHANGED <<client_list, writable, insock, peer, events, at>>
    BY ServerSources DEF DisplayInv, ServerInv, ServerTypeOK, LoopInv, CallbackInv, Handled,
                         vars, lists, epoll, loop, world
  <1>2. /\ pending' \in [Clients -> 0 .. MaxIn]
        /\ \A d \in Clients : insock[d] + pending'[d] <= MaxIn
        /\ where' \in {"requests", "end"} /\ (where' = "requests" => pending'[c] > 0)
    <2>1. /\ pending \in [Clients -> 0 .. MaxIn] /\ insock \in [Clients -> 0 .. MaxIn]
          /\ MaxIn \in Nat /\ \A d \in Clients : insock[d] + pending[d] <= MaxIn
          /\ pending[c] > 0
      BY <1>1, ServerSources DEF ServerTypeOK, CallbackInv
    <2>2. /\ pending' = [pending EXCEPT ![c] = @ - 1]
          /\ where' = IF c \in error' \/ pending'[c] = 0 THEN "end" ELSE "requests"
      BY DEF Handled
    <2>3. pending'[c] = pending[c] - 1 /\ pending[c] - 1 \in 0 .. MaxIn
          /\ \A d \in Clients \ {c} : pending'[d] = pending[d]
      BY <2>1, <2>2
    <2> QED BY <2>1, <2>2, <2>3
  <1>3. TypeOK' /\ ListsInv' /\ PlaceInv' /\ Alive' = Alive
    BY <1>1 DEF TypeOK, ListsInv, PlaceInv, Alive
  <1>4. ServerTypeOK'
    BY <1>1, <1>2, <1>3 DEF ServerTypeOK
  <1>5. ClientOwnsSource'
    BY <1>1, <1>3 DEF ClientOwnsSource
  <1>6. CallbackInv'
    BY <1>1, <1>2 DEF CallbackInv
  <1>7. FlushInv'
    BY <1>1 DEF FlushInv
  <1> QED BY <1>3, <1>4, <1>5, <1>6, <1>7 DEF DisplayInv, ServerInv

LEMMA HandlersKeep ==
  ASSUME DisplayInv, NEW c \in Clients, HandlerPosts(c) \/ HandlerQueues(c) \/ PostsError(c)
  PROVE  DisplayInv'
  <1>1. /\ ServerTypeOK /\ conn \in [Clients -> wl_connection] /\ error \subseteq Alive
        /\ running = c /\ c \in Alive /\ Alive \subseteq Clients
    BY DEF DisplayInv, ServerInv, ServerTypeOK, ClientOwnsSource, HandlerPosts, HandlerQueues,
           PostsError, Handled, Alive
  <1>2. CASE HandlerPosts(c)
    <2>1. PICK S \in SUBSET Alive : conn' = Posted(S) /\ error' = error \cup Failed(S)
      BY <1>2 DEF HandlerPosts
    <2>2. conn' \in [Clients -> wl_connection] /\ error' \subseteq Alive
      BY <1>1, <2>1, PostedTyped
    <2> QED BY <1>2, <2>2, HandledKeeps DEF HandlerPosts
  <1>3. CASE HandlerQueues(c)
    <2>1. /\ conn' = [conn EXCEPT ![c] = Written(c, FALSE)]
          /\ error' = error \cup Failed({c})
      BY <1>3 DEF HandlerQueues
    <2>2. Written(c, FALSE) \in wl_connection
      BY <1>1, WrittenTyped
    <2>3. conn' \in [Clients -> wl_connection] /\ error' \subseteq Alive
      BY <1>1, <2>1, <2>2 DEF Failed
    <2> QED BY <1>3, <2>3, HandledKeeps DEF HandlerQueues
  <1>4. CASE PostsError(c)
    <2>1. conn' = Posted({c}) /\ error' = error \cup {c}
      BY <1>4 DEF PostsError
    <2>2. conn' \in [Clients -> wl_connection] /\ error' \subseteq Alive
      BY <1>1, <2>1, PostedTyped
    <2> QED BY <1>4, <2>2, HandledKeeps DEF PostsError
  <1> QED BY <1>2, <1>3, <1>4

\* What Handled does to the requests, when insock does not grow
LEMMA RequestsLeft ==
  ASSUME DisplayInv, NEW c \in Clients, Handled(c), insock' \in [Clients -> 0 .. MaxIn],
         \A d \in Clients : insock'[d] <= insock[d]
  PROVE  /\ pending' \in [Clients -> 0 .. MaxIn]
         /\ \A d \in Clients : insock'[d] + pending'[d] <= MaxIn
         /\ where' \in {"requests", "end"} /\ (where' = "requests" => pending'[c] > 0)
  <1>1. /\ pending \in [Clients -> 0 .. MaxIn] /\ insock \in [Clients -> 0 .. MaxIn]
        /\ MaxIn \in Nat /\ \A d \in Clients : insock[d] + pending[d] <= MaxIn
        /\ pending[c] > 0
    BY ServerSources DEF DisplayInv, ServerInv, ServerTypeOK, CallbackInv, Handled
  <1>2. /\ pending' = [pending EXCEPT ![c] = @ - 1]
        /\ where' = IF c \in error' \/ pending'[c] = 0 THEN "end" ELSE "requests"
    BY DEF Handled
  <1>3. pending'[c] = pending[c] - 1 /\ pending[c] - 1 \in 0 .. MaxIn
        /\ \A d \in Clients \ {c} : pending'[d] = pending[d]
    BY <1>1, <1>2
  <1>4. pending' \in [Clients -> 0 .. MaxIn]
    BY <1>1, <1>2, <1>3
  <1>5. ASSUME NEW d \in Clients PROVE insock'[d] + pending'[d] <= MaxIn
    <2>1. /\ insock'[d] \in Nat /\ insock[d] \in Nat /\ insock'[d] <= insock[d]
          /\ pending'[d] \in Nat /\ pending[d] \in Nat /\ pending'[d] <= pending[d]
          /\ insock[d] + pending[d] <= MaxIn
      BY <1>1, <1>3, <1>4
    <2> QED BY <1>1, <2>1
  <1> QED BY <1>1, <1>2, <1>3, <1>4, <1>5

LEMMA HandlerAddsIdleKeeps ==
  ASSUME DisplayInv, NEW c \in Clients, HandlerAddsIdle(c)
  PROVE  DisplayInv'
  <1>1. /\ LoopInv /\ TypeOK /\ ServerTypeOK /\ ClientOwnsSource /\ CallbackInv
        /\ phase = "batch" /\ running = c /\ where = "requests"
        /\ UNCHANGED <<interest, check_list, destroy_list, phase, batch, pos, next, running,
                       reported>>
        /\ UNCHANGED <<client_list, conn, error, writable, insock, peer, events, at>>
        /\ status[later] = "free" /\ status' = [status EXCEPT ![later] = "active"]
        /\ Handled(c)
    BY ServerSources DEF DisplayInv, ServerInv, ServerTypeOK, LoopInv, CallbackInv, Handled,
                         HandlerAddsIdle, wl_event_loop_add_idle, epoll, loop, world
  <1>2. /\ pending' \in [Clients -> 0 .. MaxIn]
        /\ \A d \in Clients : insock[d] + pending'[d] <= MaxIn
        /\ where' \in {"requests", "end"} /\ (where' = "requests" => pending'[c] > 0)
    <2>1. insock \in [Clients -> 0 .. MaxIn] /\ \A d \in Clients : insock[d] <= insock[d]
      BY <1>1, ServerSources DEF ServerTypeOK
    <2> QED BY <1>1, <2>1, RequestsLeft
  <1>3. LoopInv'
    BY <1>1, ServerSources, AddIdleKeeps DEF HandlerAddsIdle
  <1>4. Alive' = Alive /\ \A s \in Sources \ {later} : status'[s] = status[s]
    BY <1>1 DEF Alive, TypeOK
  <1>5. ServerTypeOK'
    BY <1>1, <1>2, <1>3, <1>4 DEF ServerTypeOK, LoopInv
  <1>6. ClientOwnsSource'
    BY <1>1, <1>4, ServerSources DEF ClientOwnsSource
  <1>7. CallbackInv'
    BY <1>1, <1>2, <1>4, ServerSources, NotSources DEF CallbackInv
  <1>8. FlushInv'
    BY <1>1 DEF FlushInv
  <1> QED BY <1>3, <1>5, <1>6, <1>7, <1>8 DEF DisplayInv, ServerInv, LoopInv

LEMMA HandlerDestroysKeeps ==
  ASSUME DisplayInv, NEW c \in Clients, NEW d \in Clients, HandlerDestroys(c, d)
  PROVE  DisplayInv'
  <1>1. /\ ServerInv /\ ServerTypeOK /\ ClientOwnsSource /\ CallbackInv
        /\ UNCHANGED <<phase, batch, pos, next, running, events, at>>
        /\ phase = "batch" /\ running = c /\ where = "requests"
        /\ d \in Alive /\ d # c /\ c \in Alive /\ DestroyClient(d) /\ Handled(c)
        /\ at = Head_
    BY ServerSources DEF DisplayInv, ServerInv, HandlerDestroys, Handled, CallbackInv,
                         ClientOwnsSource
  <1>2. /\ LoopInv'
        /\ client_list' \in Seq(Clients) /\ IsInjective(client_list')
        /\ Alive' = Alive \ {d}
        /\ conn' \in [Clients -> wl_connection]
        /\ error' \subseteq Alive' /\ writable' = writable \ {d}
        /\ insock' \in [Clients -> 0 .. MaxIn]
        /\ \A e \in Clients : insock'[e] <= insock[e]
        /\ peer' \in [Clients -> {"away", "connecting", "open", "closed"}]
        /\ \A e \in Clients : peer'[e] = "connecting" => peer[e] = "connecting" /\ e # d
        /\ status'[d] = "removed" /\ \A s \in Sources \ {d} : status'[s] = status[s]
        /\ interest' = interest \ {d}
        /\ check_list' = <<>> /\ (idle_list = <<>> => idle_list' = <<>>)
    BY <1>1, ClientDestroyed
  <1>3. /\ pending' \in [Clients -> 0 .. MaxIn]
        /\ \A e \in Clients : insock'[e] + pending'[e] <= MaxIn
        /\ where' \in {"requests", "end"} /\ (where' = "requests" => pending'[c] > 0)
    BY <1>1, <1>2, RequestsLeft
  <1>4. ServerTypeOK'
    BY <1>1, <1>2, <1>3 DEF ServerTypeOK, LoopInv
  <1>5. ClientOwnsSource'
    <2>1. \A e \in Clients : e \in Alive' <=> status'[e] = "active"
      BY <1>1, <1>2, ServerSources DEF ClientOwnsSource
    <2>2. interest' = Alive' \cup {listener}
      BY <1>1, <1>2, ServerSources DEF ClientOwnsSource
    <2>3. running' \in Alive' /\ at' \in Alive' \cup {Head_}
      BY <1>1, <1>2
    <2> QED BY <1>2, <2>1, <2>2, <2>3 DEF ClientOwnsSource
  <1>6. CallbackInv'
    BY <1>1, <1>2, <1>3, ServerSources, NotSources DEF CallbackInv
  <1>7. FlushInv'
    BY <1>1 DEF FlushInv
  <1> QED BY <1>2, <1>4, <1>5, <1>6, <1>7 DEF DisplayInv, ServerInv, LoopInv

-----------------------------------------------------------------------------
LEMMA ServerKeeps == DisplayInv /\ [ServerNext]_allVars => DisplayInv'
  <1> SUFFICES ASSUME DisplayInv, [ServerNext]_allVars PROVE DisplayInv'
    OBVIOUS
  <1>1. CASE UNCHANGED allVars
    <2>1. /\ UNCHANGED <<status, interest, ready, armed, check_list, idle_list, destroy_list,
                         phase, batch, pos, next, running, reported>>
          /\ UNCHANGED <<client_list, conn, error, writable, pending, insock, peer,
                         events, at, where>>
      BY <1>1 DEF allVars, vars, serverVars, epoll, lists, loop, clients, world, frame
    <2>2. Alive' = Alive /\ (TypeOK /\ ListsInv /\ PlaceInv => TypeOK' /\ ListsInv' /\ PlaceInv')
      BY <2>1 DEF Alive, TypeOK, ListsInv, PlaceInv
    <2>3. FlushInv => FlushInv'
      BY <2>1, <2>2 DEF FlushInv, AtOrAfter
    <2> QED BY <2>1, <2>2, <2>3
            DEF DisplayInv, ServerInv, ServerTypeOK, ClientOwnsSource, CallbackInv
  <1>2. ASSUME NEW c \in Clients, Requests(c) PROVE DisplayInv'
    BY <1>2, HandlersKeep, HandlerAddsIdleKeeps, HandlerDestroysKeeps DEF Requests
  <1>3. CASE Source
    BY <1>2, <1>3, AcceptFailsKeeps, AcceptKeeps, RefuseKeeps, ReadingKeeps,
       ConnectionDataReturnsKeeps DEF Source
  <1> QED BY <1>1, <1>3, PeersKeep, FlushClientKeeps, DispatchKeeps, WaitKeeps, TurnKeeps,
             LoopStepKeeps, RunIdleKeeps DEF ServerNext

LEMMA DisplayAlways == ServerSpec => []DisplayInv
  <1> QED BY InitDisplay, ServerKeeps, PTL DEF ServerSpec

\* wl_client_create and wl_client_destroy keep the client list, the sources of
\* the event loop and the callbacks under way together, whichever callback
\* destroys which client.
THEOREM ServerIsSound == ServerSpec => []ServerInv
  <1>1. DisplayInv => ServerInv
    BY DEF DisplayInv
  <1> QED BY <1>1, DisplayAlways, PTL

\* wl_display_flush_clients leaves no posted event behind when the loop goes to
\* block.  The premise: no destroy listener posts events, which
\* wl_display_flush_clients, when it destroys a client, would not look at again.
THEOREM FlushedWhenBlocked ==
  ASSUME ~ListenersPost PROVE ServerSpec => []FlushedBeforeBlocking
  <1>1. DisplayInv => FlushedBeforeBlocking
    BY DEF DisplayInv, FlushInv, FlushedBeforeBlocking
  <1> QED BY <1>1, DisplayAlways, PTL

-----------------------------------------------------------------------------
\* The values of a function are not more than its arguments.
LEMMA ValuesOfFunction ==
  ASSUME NEW S, IsFiniteSet(S), NEW f
  PROVE  LET T == {f[x] : x \in S}
         IN  IsFiniteSet(T) /\ Cardinality(T) \in Nat /\ Cardinality(T) <= Cardinality(S)
  <1> DEFINE T == {f[x] : x \in S}
             g == [x \in S |-> f[x]]
  <1>1. g \in Surjection(S, T)
    BY DEF Surjection
  <1> HIDE DEF g, T
  <1>2. IsFiniteSet(T) /\ Cardinality(T) <= Cardinality(S)
    BY <1>1, FS_Surjection
  <1>3. Cardinality(T) \in Nat
    BY <1>2, FS_CardinalityType
  <1> QED BY <1>2, <1>3 DEF T

LEMMA NamesAndSocketsFinite ==
  /\ IsFiniteSet(Names) /\ Cardinality(Names) \in Nat
  /\ IsFiniteSet(Sockets) /\ Cardinality(Sockets) \in Nat
  <1>1. 0 \in Int /\ MAX_DISPLAYNO \in Int /\ IsFiniteSet(Sockets)
    BY SocketsAssumption
  <1> QED BY <1>1, FS_Interval, FS_CardinalityType DEF Names

LEMMA InodesAreNumbers == NoFile \notin Inodes
  BY NamesAndSocketsFinite, SocketsAssumption DEF Inodes

\* There is always an inode to be had for a name without a lock file: each of
\* the others, and each open file, uses one at most.
LEMMA InodeLeft ==
  ASSUME SocketsTypeOK, NEW n \in Names, lockfile[n] = NoFile
  PROVE  FreshInode \in Inodes
  <1> DEFINE N == Names \ {n}
             fd_lock == [s \in Sockets |-> socket[s].fd_lock]
             AtPaths == {lockfile[m] : m \in N}
             Open == {fd_lock[s] : s \in Sockets}
  <1>1. /\ IsFiniteSet(Names) /\ Cardinality(Names) \in Nat
        /\ IsFiniteSet(Sockets) /\ Cardinality(Sockets) \in Nat
    BY NamesAndSocketsFinite
  <1>2. IsFiniteSet(N) /\ Cardinality(N) = Cardinality(Names) - 1 /\ Cardinality(N) \in Nat
    BY <1>1, FS_RemoveElement, FS_CardinalityType
  <1> HIDE DEF N, fd_lock
  <1>3. /\ IsFiniteSet(AtPaths) /\ Cardinality(AtPaths) \in Nat
        /\ Cardinality(AtPaths) <= Cardinality(N)
    BY <1>2, ValuesOfFunction
  <1>4. /\ IsFiniteSet(Open) /\ Cardinality(Open) \in Nat
        /\ Cardinality(Open) <= Cardinality(Sockets)
    BY <1>1, ValuesOfFunction
  <1> HIDE DEF AtPaths, Open
  <1>5. /\ IsFiniteSet(AtPaths \cup Open)
        /\ Cardinality(AtPaths \cup Open) < Cardinality(Sockets) + Cardinality(Names)
    <2>1. IsFiniteSet(AtPaths \cap Open) /\ Cardinality(AtPaths \cap Open) \in Nat
      <3>1. AtPaths \cap Open \in SUBSET Open
        OBVIOUS
      <3> QED BY <1>4, <3>1, FS_Subset, FS_CardinalityType
    <2>2. /\ IsFiniteSet(AtPaths \cup Open)
          /\ Cardinality(AtPaths \cup Open)
                = Cardinality(AtPaths) + Cardinality(Open) - Cardinality(AtPaths \cap Open)
      BY <1>3, <1>4, FS_Union
    <2> QED BY <1>1, <1>2, <1>3, <1>4, <2>1, <2>2
  <1>6. Cardinality(Inodes) = Cardinality(Sockets) + Cardinality(Names)
    <2> DEFINE c == Cardinality(Sockets) + Cardinality(Names)
    <2>1. c \in Nat
      BY <1>1
    <2> HIDE DEF c
    <2>2. Cardinality(1 .. c) = c
      BY <2>1, FS_Interval
    <2> QED BY <2>2 DEF Inodes, c
  <1>7. PICK i \in Inodes : i \notin AtPaths \cup Open
    <2>1. SUFFICES ASSUME Inodes \subseteq AtPaths \cup Open PROVE FALSE
      OBVIOUS
    <2>2. Cardinality(Inodes) <= Cardinality(AtPaths \cup Open)
      BY <1>5, <2>1, FS_Subset
    <2>3. Cardinality(AtPaths \cup Open) \in Nat
      BY <1>5, FS_CardinalityType
    <2> QED BY <1>1, <1>5, <1>6, <2>2, <2>3
  <1>8. i # NoFile
    BY <1>1, SocketsAssumption DEF Inodes
  <1>9. /\ \A m \in Names : lockfile[m] # i
        /\ \A s \in Sockets : socket[s].fd_lock # i
    BY <1>7, <1>8 DEF AtPaths, Open, N, fd_lock
  <1> QED BY <1>9 DEF FreshInode

-----------------------------------------------------------------------------
\* The error path of wl_socket_lock: the next name, or none.
LEMMA LockFailsTypes ==
  ASSUME SocketsTypeOK, NEW s \in Sockets, socket[s].name \in Names, LockFails(s)
  PROVE  /\ socket'[s] = NoSocket \/ (socket'[s].at = "open" /\ socket'[s].name \in Names)
         /\ \A t \in Sockets \ {s} : socket'[t] = socket[t]
         /\ socket' \in [Sockets -> wl_socket]
  <1>1. socket[s].name < MAX_DISPLAYNO => socket[s].name + 1 \in Names
    BY SocketsAssumption DEF Names
  <1>2. CASE socket[s].auto /\ socket[s].name < MAX_DISPLAYNO
    <2>1. socket' = [socket EXCEPT ![s] = [at |-> "open", auto |-> TRUE,
                       name |-> socket[s].name + 1, fd_lock |-> NoFile]]
      BY <1>2 DEF LockFails
    <2> QED BY <1>1, <1>2, <2>1 DEF SocketsTypeOK, wl_socket
  <1>3. CASE ~(socket[s].auto /\ socket[s].name < MAX_DISPLAYNO)
    <2>1. socket' = [socket EXCEPT ![s] = NoSocket]
      BY <1>3 DEF LockFails
    <2> QED BY <2>1 DEF SocketsTypeOK, NoSocket, wl_socket
  <1> QED BY <1>2, <1>3

\* The actions of a socket, with what each leaves of the other sockets.
LEMMA SocketSteps ==
  ASSUME SocketsTypeOK, LockInv, NEW s \in Sockets, WlSocket(s)
  PROVE  /\ SocketsTypeOK'
         /\ \A t \in Sockets \ {s} : socket'[t] = socket[t]
         /\ locked' \subseteq locked \cup {s} /\ locked \ {s} \subseteq locked'
         /\ display' = display
  <1> USE DEF SocketsTypeOK, At, Goes, NoSocket, wl_socket
  <1> DEFINE Goal == /\ SocketsTypeOK'
                     /\ \A t \in Sockets \ {s} : socket'[t] = socket[t]
                     /\ locked' \subseteq locked \cup {s} /\ locked \ {s} \subseteq locked'
                     /\ display' = display
  <1>1. ASSUME NEW auto \in BOOLEAN, NEW n \in Names, Adds(s, auto, n)
        PROVE  Goal
    BY <1>1 DEF Adds
  <1>2. CASE wl_display_add_socket_fd(s)
    BY <1>2 DEF wl_display_add_socket_fd
  <1>3. CASE OpenLock(s)
    BY <1>3, InodeLeft, LockFailsTypes DEF OpenLock, LockInv, LockOf
  <1>4. CASE Flock(s)
    BY <1>4, LockFailsTypes DEF Flock, LockInv, LockOf
  <1>5. CASE Stat(s)
    BY <1>5, LockFailsTypes DEF Stat, LockInv, LockOf, Holds
  <1>6. CASE UnlinkStale(s)
    BY <1>6 DEF UnlinkStale
  <1>7. CASE Bind(s)
    BY <1>7 DEF Bind
  <1>8. CASE Listen(s)
    BY <1>8 DEF Listen
  <1>9. CASE DestroyNext(s)
    <2>1. CASE socket[s].name = NoFile
      <3>1. socket' = [socket EXCEPT ![s] = NoSocket]
        BY <1>9, <2>1 DEF DestroyNext
      <3> QED BY <1>9, <3>1 DEF DestroyNext
    <2>2. CASE socket[s].name # NoFile
      BY <1>9, <2>2 DEF DestroyNext
    <2> QED BY <2>1, <2>2
  <1>10. CASE UnlinkSocket(s)
    BY <1>10 DEF UnlinkSocket
  <1>11. CASE UnlinkLock(s)
    BY <1>11 DEF UnlinkLock
  <1>12. CASE CloseLock(s)
    BY <1>12 DEF CloseLock
  <1>13. 0 \in Names
    BY SocketsAssumption DEF Names
  <1> QED BY <1>1, <1>2, <1>3, <1>4, <1>5, <1>6, <1>7, <1>8, <1>9, <1>10, <1>11, <1>12, <1>13
          DEF WlSocket, wl_display_add_socket, wl_display_add_socket_auto

-----------------------------------------------------------------------------
\* Whoever holds the lock of a name is alone, until it has unlinked the lock
\* file; and then it is not in the way of the name's next holder.
LEMMA HolderIsAlone ==
  ASSUME LockInv, NEW s \in Sockets, NEW t \in Sockets, Holds(s), Holds(t),
         socket[s].name = socket[t].name, ~At(s, "unlock"), ~At(t, "unlock")
  PROVE  s = t
  BY DEF LockInv, LockOf, Holds, At

\* A step that keeps the lock keeps LockInv.
LEMMA LockStays ==
  ASSUME SocketsTypeOK, LockInv, NEW s \in Sockets, Holds(s), ~At(s, "unlock"),
         NEW w \in {"stat", "unlink", "bind", "listen", "added", "destroy", "close"},
         Goes(s, w), UNCHANGED <<lockfile, locked>>
  PROVE  LockInv'
  <1> USE DEF LockInv, LockOf, Holds, At, Goes, SocketsTypeOK, NoSocket, wl_socket
  <1>1. /\ socket' \in [Sockets -> wl_socket]
        /\ \A t \in Sockets \ {s} : socket'[t] = socket[t]
        /\ socket'[s].at = w /\ socket'[s].name = socket[s].name
        /\ socket'[s].fd_lock = socket[s].fd_lock
    OBVIOUS
  <1>2. \A t \in Sockets : /\ Holds(t)' <=> Holds(t)
                           /\ socket'[t].name = socket[t].name
                           /\ socket'[t].fd_lock = socket[t].fd_lock
    BY <1>1
  <1>3. ASSUME NEW t \in Sockets PROVE LockOf(t)'
    <2>1. CASE t = s
      BY <1>1, <2>1
    <2>2. CASE t # s
      <3>1. socket'[t] = socket[t] /\ LockOf(t)
        BY <1>1, <2>2
      <3> QED BY <3>1
    <2> QED BY <2>1, <2>2
  <1>4. \A t, u \in locked' : socket'[t].fd_lock = socket'[u].fd_lock => t = u
    BY <1>2
  <1> QED BY <1>1, <1>2, <1>3, <1>4

LEMMA LockFailsKeeps ==
  ASSUME SocketsTypeOK, LockInv, NEW s \in Sockets,
         socket[s].at \in {"open", "flock", "stat"},
         LockFails(s), UNCHANGED lockfile, locked' = locked \ {s}
  PROVE  LockInv'
  <1> USE DEF LockInv, LockOf, Holds, At, SocketsTypeOK, wl_socket
  <1>1. s \notin locked' /\ socket[s].name \in Names
    OBVIOUS
  <1>2. /\ socket'[s] = NoSocket \/ (socket'[s].at = "open" /\ socket'[s].name \in Names)
        /\ \A t \in Sockets \ {s} : socket'[t] = socket[t]
    BY <1>1, LockFailsTypes
  <1>3. LockOf(s)'
    BY <1>1, <1>2, SocketsAssumption DEF NoSocket, Names
  <1>4. ASSUME NEW t \in Sockets, t # s PROVE LockOf(t)'
    <2>1. socket'[t] = socket[t] /\ LockOf(t)
      BY <1>2, <1>4
    <2>2. t \in locked' <=> t \in locked
      BY <1>4
    <2> QED BY <2>1, <2>2
  <1>5. \A t \in locked' : t \in locked /\ socket'[t] = socket[t]
    BY <1>1, <1>2
  <1> QED BY <1>3, <1>4, <1>5

\* LockInv, action by action.
LEMMA LocksKept ==
  ASSUME SocketsTypeOK, LockInv, ~QuitsMeet, NEW s \in Sockets, WlSocket(s)
  PROVE  LockInv'
  <1> USE DEF LockInv, LockOf, Holds, At, SocketsTypeOK, wl_socket
  <1>0. /\ socket' \in [Sockets -> wl_socket]
        /\ \A t \in Sockets \ {s} : socket'[t] = socket[t]
    BY SocketSteps
  <1>1. ASSUME NEW auto \in BOOLEAN, NEW n \in Names, Adds(s, auto, n)
        PROVE  LockInv'
    <2>1. /\ socket'[s].at = "open" /\ socket'[s].name = n /\ n # NoFile
          /\ socket[s].at = "none" /\ lockfile' = lockfile /\ locked' = locked
      BY <1>1, SocketsAssumption DEF Adds, Names
    <2> QED BY <1>0, <2>1
  <1>2. CASE wl_display_add_socket_fd(s)
    <2>1. /\ socket[s] = NoSocket /\ lockfile' = lockfile /\ locked' = locked
          /\ socket'[s].at = "added" /\ socket'[s].name = NoFile
      BY <1>2 DEF wl_display_add_socket_fd, Goes, NoSocket
    <2> QED BY <1>0, <2>1 DEF NoSocket
  <1>3. CASE OpenLock(s)
    <2> DEFINE n == socket[s].name
    <2>1. n \in Names /\ socket[s].at = "open" /\ locked' = locked /\ s \notin locked
      BY <1>3 DEF OpenLock
    <2>2. CASE LockFails(s) /\ UNCHANGED lockfile
      <3>1. locked' = locked \ {s}
        BY <2>1
      <3> QED BY <2>1, <2>2, <3>1, LockFailsKeeps
    <2>3. CASE ~(LockFails(s) /\ UNCHANGED lockfile)
      <3> DEFINE i == IF lockfile[n] = NoFile THEN FreshInode ELSE lockfile[n]
      <3>1. i \in Inodes /\ i # NoFile
        BY <2>1, InodeLeft, InodesAreNumbers
      <3>2. /\ lockfile' = [lockfile EXCEPT ![n] = i]
            /\ socket' = [socket EXCEPT ![s].at = "flock", ![s].fd_lock = i]
        BY <1>3, <2>3 DEF OpenLock
      <3> HIDE DEF i
      <3>3. /\ socket'[s].at = "flock" /\ socket'[s].name = n /\ socket'[s].fd_lock = i
            /\ lockfile'[n] = i
        BY <2>1, <3>2
      <3>4. \A m \in Names : lockfile[m] # NoFile => lockfile'[m] = lockfile[m]
        BY <3>2 DEF i
      <3> QED BY <1>0, <2>1, <3>1, <3>3, <3>4
    <2> QED BY <2>2, <2>3
  <1>4. CASE Flock(s)
    <2>1. socket[s].at = "flock" /\ s \notin locked /\ lockfile' = lockfile
          /\ socket[s].name \in Names
      BY <1>4 DEF Flock
    <2>2. CASE \E t \in locked : socket[t].fd_lock = socket[s].fd_lock
      <3>1. LockFails(s) /\ locked' = locked \ {s}
        BY <1>4, <2>1, <2>2 DEF Flock
      <3> QED BY <2>1, <3>1, LockFailsKeeps
    <2>3. CASE \A t \in locked : socket[t].fd_lock # socket[s].fd_lock
      <3>1. /\ locked' = locked \cup {s}
            /\ socket'[s].at = "stat" /\ socket'[s].name = socket[s].name
            /\ socket'[s].fd_lock = socket[s].fd_lock
        BY <1>4, <2>3 DEF Flock, Goes
      <3> QED BY <1>0, <2>1, <2>3, <3>1
    <2> QED BY <2>2, <2>3
  <1>10. CASE Stat(s) /\ LockFails(s) /\ locked' = locked \ {s}
    <2>1. socket[s].at = "stat" /\ lockfile' = lockfile
      BY <1>10 DEF Stat
    <2> QED BY <1>10, <2>1, LockFailsKeeps
  <1>5. CASE \/ Stat(s) /\ ~(LockFails(s) /\ locked' = locked \ {s})
             \/ UnlinkStale(s) \/ Bind(s) \/ Listen(s) \/ UnlinkSocket(s)
    <2>1. /\ socket[s].at \in {"stat", "unlink", "bind", "listen", "destroy"}
          /\ UNCHANGED <<lockfile, locked>>
      BY <1>5 DEF Stat, UnlinkStale, Bind, Listen, UnlinkSocket
    <2>2. \E w \in {"unlink", "bind", "listen", "added", "destroy", "close"} : Goes(s, w)
      BY <1>5 DEF Stat, UnlinkStale, Bind, Listen, UnlinkSocket
    <2> QED BY <2>1, <2>2, LockStays
  <1>6. CASE DestroyNext(s)
    <2>1. CASE socket[s].name = NoFile
      <3>1. /\ socket'[s] = NoSocket /\ lockfile' = lockfile /\ locked' = locked
            /\ s \notin locked
        BY <1>6, <2>1 DEF DestroyNext
      <3> QED BY <1>0, <3>1 DEF NoSocket
    <2>2. CASE socket[s].name # NoFile
      <3>1. At(s, "added") /\ Goes(s, "destroy") /\ UNCHANGED <<lockfile, locked>>
        BY <1>6, <2>2 DEF DestroyNext
      <3> QED BY <2>2, <3>1, LockStays
    <2> QED BY <2>1, <2>2
  <1>7. CASE UnlinkLock(s)
    <2> DEFINE n == socket[s].name
    <2>1. /\ socket[s].at = "close" /\ n \in Names /\ s \in locked /\ locked' = locked
          /\ \A t \in Sockets : socket[t].at = "flock" => socket[t].name # n
      BY <1>7 DEF UnlinkLock
    <2>2. /\ socket'[s].at = "unlock" /\ socket'[s].name = n
          /\ socket'[s].fd_lock = socket[s].fd_lock
          /\ \A m \in Names \ {n} : lockfile'[m] = lockfile[m]
      BY <1>7 DEF UnlinkLock, Goes
    <2>3. ASSUME NEW t \in Sockets, t # s, Holds(t), ~At(t, "unlock")
          PROVE  socket[t].name # n
      BY <2>1, <2>3, HolderIsAlone
    <2> QED BY <1>0, <2>1, <2>2, <2>3
  <1>8. CASE CloseLock(s)
    <2>1. socket'[s] = NoSocket /\ lockfile' = lockfile /\ locked' = locked \ {s}
      BY <1>8 DEF CloseLock
    <2> QED BY <1>0, <2>1 DEF NoSocket
  <1>9. 0 \in Names
    BY SocketsAssumption DEF Names
  <1> QED BY <1>1, <1>2, <1>3, <1>4, <1>5, <1>6, <1>7, <1>8, <1>9, <1>10
          DEF WlSocket, wl_display_add_socket, wl_display_add_socket_auto

-----------------------------------------------------------------------------
\* The path of s, from wl_socket_lock on.
PathOf(s) ==
    /\ At(s, "bind") => \/ sockfile[socket[s].name] = NoFile
                        \/ ~HasWriteBit(sockfile[socket[s].name])
    /\ At(s, "close") => sockfile[socket[s].name] = NoFile
    /\ At(s, "listen") \/ (At(s, "added") /\ socket[s].name # NoFile)
          => sockfile[socket[s].name] = s

Paths == \A s \in Sockets : PathOf(s)

LEMMA PathsAreNames ==
  ASSUME LockInv
  PROVE  PathInv /\ NameExclusive /\ NameRecovered <=> Paths
  BY DEF LockInv, LockOf, Holds, At, PathInv, NameExclusive, NameRecovered, Paths, PathOf

\* Only the one who holds the lock touches the path.
LEMMA PathsKept ==
  ASSUME SocketsTypeOK, LockInv, Paths, NEW s \in Sockets, WlSocket(s)
  PROVE  Paths'
  <1> USE DEF LockInv, LockOf, Holds, At, Goes, SocketsTypeOK, wl_socket, PathOf
  <1>0. /\ socket' \in [Sockets -> wl_socket]
        /\ \A t \in Sockets \ {s} : socket'[t] = socket[t]
    BY SocketSteps
  \* Who changes the path holds the lock, and nobody else does
  <1>1. \/ sockfile' = sockfile
        \/ /\ socket[s].at \in {"unlink", "bind", "destroy"}
           /\ \A n \in Names \ {socket[s].name} : sockfile'[n] = sockfile[n]
    <2>1. CASE UnlinkStale(s) \/ Bind(s) \/ UnlinkSocket(s)
      BY <2>1 DEF UnlinkStale, Bind, UnlinkSocket
    <2>2. CASE ~(UnlinkStale(s) \/ Bind(s) \/ UnlinkSocket(s))
      BY <2>2 DEF WlSocket, wl_display_add_socket, wl_display_add_socket_auto, Adds,
                  wl_display_add_socket_fd, OpenLock, Flock, Stat, Listen, DestroyNext,
                  UnlinkLock, CloseLock
    <2> QED BY <2>1, <2>2
  <1>2. ASSUME NEW t \in Sockets, t # s PROVE PathOf(t)'
    <2>1. socket'[t] = socket[t] /\ PathOf(t)
      BY <1>0, <1>2 DEF Paths
    <2>2. SUFFICES ASSUME \/ At(t, "bind") \/ At(t, "listen") \/ At(t, "close")
                          \/ At(t, "added") /\ socket[t].name # NoFile
                   PROVE  sockfile'[socket[t].name] = sockfile[socket[t].name]
      BY <2>1
    <2>3. Holds(t) /\ ~At(t, "unlock") /\ socket[t].name \in Names
      BY <2>2
    <2>4. CASE sockfile' = sockfile
      BY <2>4
    <2>5. CASE socket[s].at \in {"unlink", "bind", "destroy"}
      <3>1. Holds(s) /\ ~At(s, "unlock")
        BY <2>5
      <3>2. socket[t].name # socket[s].name
        BY <1>2, <2>3, <3>1, HolderIsAlone
      <3> QED BY <1>1, <2>3, <3>2
    <2> QED BY <1>1, <2>4, <2>5
  <1>3. PathOf(s)'
    <2>1. CASE Stat(s)
      <3>1. socket[s].name \in Names
        BY <2>1 DEF Stat
      <3>2. CASE LockFails(s)
        BY <3>1, <3>2, LockFailsTypes DEF NoSocket
      <3>3. CASE ~LockFails(s)
        BY <2>1, <3>1, <3>3 DEF Stat, Paths
      <3> QED BY <3>2, <3>3
    <2>2. CASE UnlinkStale(s)
      <3>1. socket[s].name \in Names
        BY <2>2 DEF UnlinkStale
      <3> QED BY <2>2, <3>1 DEF UnlinkStale
    <2>3. CASE Bind(s)
      <3>1. socket[s].name \in Names
        BY <2>3 DEF Bind
      <3> QED BY <2>3, <3>1 DEF Bind
    <2>4. CASE Listen(s)
      <3>1. socket[s].name \in Names /\ sockfile[socket[s].name] = s
        BY <2>4 DEF Listen, Paths
      <3> QED BY <2>4, <3>1 DEF Listen
    <2>5. CASE wl_display_add_socket_fd(s)
      <3>1. socket'[s].at = "added" /\ socket'[s].name = NoFile
        BY <2>5 DEF wl_display_add_socket_fd, NoSocket
      <3> QED BY <3>1
    <2>6. CASE UnlinkSocket(s)
      <3>1. socket[s].name \in Names
        BY <2>6 DEF UnlinkSocket
      <3> QED BY <2>6, <3>1 DEF UnlinkSocket
    <2>7. CASE ~(\/ Stat(s) \/ UnlinkStale(s) \/ Bind(s) \/ Listen(s) \/ UnlinkSocket(s)
                 \/ wl_display_add_socket_fd(s))
      <3>1. socket'[s].at \notin {"bind", "listen", "added", "close"}
        <4>1. CASE OpenLock(s) \/ Flock(s)
          <5>1. socket[s].name \in Names
            BY <4>1 DEF OpenLock, Flock
          <5> QED BY <4>1, <5>1, LockFailsTypes DEF OpenLock, Flock, NoSocket
        <4>2. CASE ~(OpenLock(s) \/ Flock(s))
          BY <2>7, <4>2 DEF WlSocket, wl_display_add_socket, wl_display_add_socket_auto, Adds,
                DestroyNext, UnlinkLock, CloseLock, NoSocket
        <4> QED BY <4>1, <4>2
      <3> QED BY <3>1
    <2> QED BY <2>1, <2>2, <2>3, <2>4, <2>5, <2>6, <2>7
  <1> QED BY <1>2, <1>3 DEF Paths

-----------------------------------------------------------------------------
\* The steps of whole processes.
LEMMA ProcessSteps ==
  ASSUME SocketsTypeOK, LockInv, Paths, NEW p \in Procs,
         wl_display_create(p) \/ Quit(p) \/ Gone(p) \/ Crash(p)
  PROVE  SocketsTypeOK' /\ LockInv' /\ Paths'
  <1> USE DEF LockInv, LockOf, Holds, At, SocketsTypeOK, wl_socket, Paths, PathOf
  <1>1. CASE wl_display_create(p) \/ Quit(p) \/ Gone(p)
    <2>1. /\ display' \in [Procs -> {"none", "up", "quits"}]
          /\ UNCHANGED <<lockfile, sockfile, socket, locked>>
      BY <1>1 DEF wl_display_create, Quit, Gone
    <2> QED BY <2>1
  <1>2. CASE Crash(p)
    <2>1. SocketsTypeOK'
      BY <1>2 DEF Crash, NoSocket
    <2>2. ASSUME NEW s \in Sockets PROVE LockOf(s)' /\ PathOf(s)'
      BY <1>2 DEF Crash, NoSocket
    <2>3. \A s \in locked' : s \in locked /\ socket'[s] = socket[s]
      BY <1>2 DEF Crash
    <2> QED BY <2>1, <2>2, <2>3
  <1> QED BY <1>1, <1>2

\* A compositor that ends does not unlink a lock file between another's
\* opening it and its trying to lock it (QuitsMeet).  Then every lock is that
\* of the file at the path, a name has one socket, and a compositor that
\* crashed does not keep its names (wl_socket_lock, wl_socket_destroy).
THEOREM NamesInvariant ==
  ASSUME ~QuitsMeet
  PROVE  SocketsSpec => [](NameInv /\ NameRecovered)
  <1> DEFINE Inv == SocketsTypeOK /\ LockInv /\ Paths
  <1>1. SocketsInit => Inv
    BY DEF SocketsInit, SocketsTypeOK, LockInv, LockOf, Holds, At, Paths, PathOf, NoSocket, wl_socket
  <1>2. Inv /\ [SocketsNext]_socketVars => Inv'
    <2> SUFFICES ASSUME Inv, [SocketsNext]_socketVars PROVE Inv'
      OBVIOUS
    <2>1. ASSUME NEW s \in Sockets, WlSocket(s) PROVE Inv'
      BY <2>1, SocketSteps, LocksKept, PathsKept
    <2>2. ASSUME NEW p \in Procs, wl_display_create(p) \/ Quit(p) \/ Gone(p) \/ Crash(p)
          PROVE  Inv'
      BY <2>2, ProcessSteps
    <2>3. CASE UNCHANGED socketVars
      BY <2>3 DEF socketVars, SocketsTypeOK, LockInv, LockOf, Holds, At, Paths, PathOf
    <2> QED BY <2>1, <2>2, <2>3 DEF SocketsNext
  <1>3. Inv => NameInv /\ NameRecovered
    BY PathsAreNames DEF NameInv
  <1> HIDE DEF Inv
  <1> QED BY <1>1, <1>2, <1>3, PTL DEF SocketsSpec

\* A name belongs to one socket, whose path and lock file are its own until it
\* is destroyed or its process ends (wl_socket_lock, wl_socket_destroy).
THEOREM NamesAreExclusive == ASSUME ~QuitsMeet PROVE SocketsSpec => []NameInv
  <1>1. NameInv /\ NameRecovered => NameInv
    OBVIOUS
  <1> QED BY <1>1, NamesInvariant, PTL

\* Whoever has the lock finds the path free by the time it calls bind, also
\* after a crash, unless the file there has no write bit; an attempt that fails
\* leaves no file (wl_socket_lock, wl_socket_destroy).
THEOREM NamesAreRecovered == ASSUME ~QuitsMeet PROVE SocketsSpec => []NameRecovered
  <1>1. NameInv /\ NameRecovered => NameRecovered
    OBVIOUS
  <1> QED BY <1>1, NamesInvariant, PTL

=============================================================================
