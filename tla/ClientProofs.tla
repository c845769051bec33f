---------------------------- MODULE ClientProofs ----------------------------
(***************************************************************************)
(* Proofs about ClientRead, for every number of threads, queues and proxies*)
(* and every bound: type correctness, the accounting of announced reads,   *)
(* and that no wakeup is lost.  Then that ClientRead implements            *)
(* OrderedDelivery, and that a roundtrip does not return before its sync is*)
(* answered.                                                               *)
(***************************************************************************)
EXTENDS ClientReadOrder, ClientRoundtrip, FiniteSetTheorems, TLAPS

USE DEF readVars, errVars, netVars, thrVars

LEMMA NoEventType == NoEvent \in Events
  BY DEF NoEvent, Events, Objects, Kinds

LEMMA SerialType ==
  ASSUME read_serial \in 0 .. SerialMod - 1
  PROVE  NextSerial \in 0 .. SerialMod - 1
  BY BoundAssumption DEF NextSerial

LEMMA BroadcastType ==
  ASSUME NEW f \in [Threads -> Places]
  PROVE  Broadcast(f) \in [Threads -> Places]
  BY DEF Broadcast, Places, Sleeping

LEMMA AfterReadType ==
  ASSUME NEW t \in Threads, NEW ok \in BOOLEAN, pc \in [Threads -> Places]
  PROVE  AfterRead(t, ok) \in [Threads -> Places]
  BY DEF AfterRead, Places

\* display_wakeup_threads, and the two ways it is reached conditionally.
LEMMA WakeupType ==
  ASSUME NEW f \in [Threads -> Places], read_serial \in 0 .. SerialMod - 1,
         WakeupThreads(f)
  PROVE  /\ read_serial' \in 0 .. SerialMod - 1
         /\ pc' \in [Threads -> Places]
  BY SerialType, BroadcastType DEF WakeupThreads

LEMMA FatalErrorType ==
  ASSUME NEW f \in [Threads -> Places], read_serial \in 0 .. SerialMod - 1,
         last_error \in Errors, NEW e \in Errors, FatalError(e, f)
  PROVE  /\ read_serial' \in 0 .. SerialMod - 1
         /\ pc' \in [Threads -> Places]
         /\ last_error' \in Errors
  <1>1. CASE last_error # "none"
    BY <1>1 DEF FatalError
  <1>2. CASE last_error = "none"
    BY <1>2, WakeupType DEF FatalError
  <1> QED BY <1>1, <1>2

LEMMA WithdrawType ==
  ASSUME NEW f \in [Threads -> Places], read_serial \in 0 .. SerialMod - 1,
         reader_count \in Int, Withdraw(f)
  PROVE  /\ read_serial' \in 0 .. SerialMod - 1
         /\ pc' \in [Threads -> Places]
         /\ reader_count' \in Int
  <1>1. CASE reader_count' = 0
    BY <1>1, WakeupType DEF Withdraw
  <1>2. CASE reader_count' # 0
    BY <1>2 DEF Withdraw
  <1> QED BY <1>1, <1>2

-----------------------------------------------------------------------------
\* Type correctness: one lemma per group of actions.

LEMMA ServerTypes == TypeOK /\ Server => TypeOK'
  <1> SUFFICES ASSUME TypeOK, Server PROVE TypeOK'
    OBVIOUS
  <1>1. CASE ServerCloses
    BY <1>1 DEF TypeOK, ServerCloses
  <1>2. ASSUME NEW o \in Objects, NEW k \in Kinds, ServerSends(o, k)
        PROVE  TypeOK'
    <2>1. [obj |-> o, kind |-> k, id |-> sent'] \in Events
      BY <1>2 DEF TypeOK, ServerSends, Events
    <2> QED BY <1>2, <2>1 DEF TypeOK, ServerSends
  <1> QED BY <1>1, <1>2 DEF Server

LEMMA CallTypes == ASSUME NEW t \in Threads PROVE TypeOK /\ Call(t) => TypeOK'
  <1> SUFFICES ASSUME TypeOK, Call(t) PROVE TypeOK'
    OBVIOUS
  <1>1. CASE PrepareReadQueue(t)
    BY <1>1 DEF TypeOK, PrepareReadQueue, Places, Announced
  <1>2. CASE DispatchQueue(t)
    <2>1. CASE queue[Home[t]] # <<>>
      <3>1. pc' \in [Threads -> Places]
        BY <1>2, <2>1 DEF TypeOK, DispatchQueue, Places
      <3> QED BY <1>2, <2>1, <3>1 DEF TypeOK, DispatchQueue
    <2>2. CASE queue[Home[t]] = <<>>
      <3>1. pc' \in [Threads -> Places]
        BY <1>2, <2>2 DEF TypeOK, DispatchQueue, Places, Announced
      <3> QED BY <1>2, <2>2, <3>1 DEF TypeOK, DispatchQueue
    <2> QED BY <2>1, <2>2
  <1>3. CASE DispatchQueuePending(t)
    BY <1>3 DEF TypeOK, DispatchQueuePending, Places
  <1>4. CASE FlushBreaks(t)
    <2>1. FatalError("EIO", pc)
      BY <1>4 DEF FlushBreaks
    <2> QED BY <1>4, <2>1, FatalErrorType DEF TypeOK, FlushBreaks, Errors
  <1>5. ASSUME NEW p \in Proxies, NEW q \in Queues, SetQueue(t, p, q)
        PROVE  TypeOK'
    BY <1>5 DEF TypeOK, SetQueue
  <1> QED BY <1>1, <1>2, <1>3, <1>4, <1>5 DEF Call

LEMMA FlushTypes == ASSUME NEW t \in Threads PROVE TypeOK /\ Flush(t) => TypeOK'
  <1> SUFFICES ASSUME TypeOK, Flush(t) PROVE TypeOK'
    OBVIOUS
  <1>1. CASE FlushGoesOn(t)
    BY <1>1 DEF TypeOK, FlushGoesOn, Places, Announced
  <1>2. CASE FlushWouldBlock(t)
    BY <1>2 DEF TypeOK, FlushWouldBlock, Places, Announced
  <1>3. CASE FlushFails(t)
    <2> DEFINE f == [pc EXCEPT ![t] = "cancel"]
    <2>1. f \in [Threads -> Places]
      BY DEF TypeOK, Places, Announced
    <2>2. CASE pc' = f /\ UNCHANGED <<last_error, read_serial>>
      BY <1>3, <2>1, <2>2 DEF TypeOK, FlushFails
    <2>3. CASE FatalError("EIO", f)
      <3> HIDE DEF f
      <3> QED BY <1>3, <2>1, <2>3, FatalErrorType DEF TypeOK, FlushFails, Errors
    <2> QED BY <1>3, <2>2, <2>3 DEF FlushFails
  <1> QED BY <1>1, <1>2, <1>3 DEF Flush

LEMMA PollTypes ==
  ASSUME NEW t \in Threads
  PROVE  TypeOK /\ (PollOut(t) \/ PollIn(t) \/ PollFails(t)) => TypeOK'
  BY DEF TypeOK, PollOut, PollIn, PollFails, Places, Announced

LEMMA CancelTypes ==
  ASSUME NEW t \in Threads PROVE TypeOK /\ CancelRead(t) => TypeOK'
  <1> SUFFICES ASSUME TypeOK, CancelRead(t) PROVE TypeOK'
    OBVIOUS
  <1> DEFINE f == [pc EXCEPT ![t] = IF pc[t] = "cancel" THEN "failed" ELSE "idle"]
  <1>1. f \in [Threads -> Places]
    BY DEF TypeOK, Places
  <1>2. Withdraw(f)
    BY DEF CancelRead
  <1> HIDE DEF f
  <1> QED BY <1>1, <1>2, WithdrawType DEF TypeOK, CancelRead

LEMMA ReadTypes ==
  ASSUME NEW t \in Threads PROVE TypeOK /\ ReadEvents(t) => TypeOK'
  <1> SUFFICES ASSUME TypeOK, ReadEvents(t) PROVE TypeOK'
    OBVIOUS
  <1>0. AfterRead(t, TRUE) \in [Threads -> Places]
        /\ AfterRead(t, FALSE) \in [Threads -> Places]
    BY AfterReadType DEF TypeOK
  <1>1. CASE ReadAfterError(t)
    BY <1>0, <1>1, WithdrawType DEF TypeOK, ReadAfterError
  <1>2. CASE ReadSleeps(t)
    BY <1>2 DEF TypeOK, ReadSleeps, Places, Sleeping
  <1>3. CASE ReadData(t)
    BY <1>3 DEF TypeOK, ReadData, LastReader, Places
  <1>4. CASE ReadNothing(t)
    <2>1. pc' \in [Threads -> Places] /\ read_serial' \in 0 .. SerialMod - 1
      BY <1>0, <1>4, WakeupType DEF TypeOK, ReadNothing
    <2>2. reader_count' \in Int
      BY <1>4 DEF TypeOK, ReadNothing, LastReader
    <2> QED BY <1>4, <2>1, <2>2 DEF TypeOK, ReadNothing
  <1>5. CASE ReadFails(t)
    <2>1. PICK e \in {"EPIPE", "EIO"} : FatalError(e, AfterRead(t, FALSE))
      BY <1>5 DEF ReadFails
    <2>2. /\ read_serial' \in 0 .. SerialMod - 1
          /\ pc' \in [Threads -> Places]
          /\ last_error' \in Errors
      BY <1>0, <2>1, FatalErrorType DEF TypeOK, Errors
    <2>3. reader_count' \in Int
      BY <1>5 DEF TypeOK, ReadFails, LastReader
    <2> QED BY <1>5, <2>2, <2>3 DEF TypeOK, ReadFails
  <1> QED BY <1>1, <1>2, <1>3, <1>4, <1>5 DEF ReadEvents

LEMMA SortTypes == ASSUME NEW t \in Threads PROVE TypeOK /\ Sort(t) => TypeOK'
  <1> SUFFICES ASSUME TypeOK, Sort(t) PROVE TypeOK'
    OBVIOUS
  <1>0. AfterRead(t, TRUE) \in [Threads -> Places]
        /\ AfterRead(t, FALSE) \in [Threads -> Places]
    BY AfterReadType DEF TypeOK
  <1>1. ASSUME rem > 0
        PROVE  Head(wire) \in Events /\ Tail(wire) \in Seq(Events)
               /\ Len(Tail(wire)) = Len(wire) - 1
    BY <1>1 DEF TypeOK
  <1>2. CASE QueueEvent(t)
    <2> DEFINE e == Head(wire)
    <2>1. Destination(e) \in AllQueues
      BY <1>1, <1>2 DEF TypeOK, QueueEvent, Destination, AllQueues, Events, Objects
    <2>2. queue' \in [AllQueues -> Seq(Events)]
      BY <1>1, <1>2, <2>1 DEF TypeOK, QueueEvent
    <2> QED BY <1>1, <1>2, <2>2 DEF TypeOK, QueueEvent
  <1>3. CASE QueueEventFails(t)
    <2>1. FatalError("EINVAL", AfterRead(t, FALSE))
      BY <1>3 DEF QueueEventFails
    <2>2. /\ read_serial' \in 0 .. SerialMod - 1
          /\ pc' \in [Threads -> Places]
          /\ last_error' \in Errors
      BY <1>0, <2>1, FatalErrorType DEF TypeOK, Errors
    <2> QED BY <1>1, <1>3, <2>2 DEF TypeOK, QueueEventFails
  <1>4. CASE ReadDone(t)
    BY <1>0, <1>4, WakeupType DEF TypeOK, ReadDone
  <1> QED BY <1>2, <1>3, <1>4 DEF Sort

LEMMA SleepTypes ==
  ASSUME NEW t \in Threads
  PROVE  TypeOK /\ (SpuriousWakeup(t) \/ Sleep(t)) => TypeOK'
  <1> SUFFICES ASSUME TypeOK, SpuriousWakeup(t) \/ Sleep(t) PROVE TypeOK'
    OBVIOUS
  <1>1. CASE SpuriousWakeup(t)
    BY <1>1 DEF TypeOK, SpuriousWakeup, Places, Sleeping
  <1>2. CASE SleepAgain(t)
    BY <1>2 DEF TypeOK, SleepAgain, Places, Sleeping
  <1>3. CASE SleepOver(t)
    <2>1. pc' \in [Threads -> Places]
      BY <1>3, AfterReadType DEF TypeOK, SleepOver
    <2>2. serial' \in [Threads -> 0 .. SerialMod - 1]
      BY <1>3, BoundAssumption DEF TypeOK, SleepOver
    <2> QED BY <1>3, <2>1, <2>2 DEF TypeOK, SleepOver
  <1> QED BY <1>1, <1>2, <1>3 DEF Sleep

LEMMA DispatchTypes ==
  ASSUME NEW t \in Threads PROVE TypeOK /\ Dispatch(t) => TypeOK'
  <1> SUFFICES ASSUME TypeOK, Dispatch(t) PROVE TypeOK'
    OBVIOUS
  <1>1. ASSUME NEW q \in Pending(t)
        PROVE  q \in AllQueues /\ Head(queue[q]) \in Events
               /\ Tail(queue[q]) \in Seq(Events)
    BY <1>1 DEF TypeOK, Pending
  <1>2. ASSUME NEW e \in Events PROVE LoopOf(e) \in Places
    BY DEF LoopOf, Places
  <1>3. CASE DispatchEvent(t)
    BY <1>1, <1>3 DEF TypeOK, DispatchEvent, Places
  <1>4. CASE DiscardEvent(t)
    BY <1>1, <1>4 DEF TypeOK, DiscardEvent, Places
  <1>5. CASE DispatchReturns(t)
    BY <1>5 DEF TypeOK, DispatchReturns, Places
  <1>6. CASE HandlerReturns(t)
    BY <1>2, <1>6, NoEventType DEF TypeOK, HandlerReturns
  <1>7. CASE HandlerSeesError(t)
    BY <1>7 DEF TypeOK, HandlerSeesError, Places
  <1>8. CASE ProtocolError(t)
    <2>1. cur[t].id \in Nat
      BY DEF TypeOK, Events
    <2> QED BY <1>2, <1>8, <2>1, NoEventType DEF TypeOK, ProtocolError, Errors
  <1> QED BY <1>3, <1>4, <1>5, <1>6, <1>7, <1>8 DEF Dispatch

LEMMA TypeStep == TypeOK /\ [Next]_vars => TypeOK'
  <1> SUFFICES ASSUME TypeOK, [Next]_vars PROVE TypeOK'
    OBVIOUS
  <1>1. CASE UNCHANGED vars
    BY <1>1 DEF TypeOK, vars
  <1>2. CASE Server
    BY <1>2, ServerTypes
  <1>3. ASSUME NEW t \in Threads, Thread(t) PROVE TypeOK'
    BY <1>3, CallTypes, FlushTypes, PollTypes, CancelTypes, ReadTypes,
       SortTypes, SleepTypes, DispatchTypes DEF Thread
  <1> QED BY <1>1, <1>2, <1>3 DEF Next

LEMMA TypeInit == Init => TypeOK
  <1>1. /\ <<>> \in Seq(Events)
        /\ Len(<<>>) = 0
        /\ 0 \in 0 .. SerialMod - 1
    BY BoundAssumption
  <1> SUFFICES ASSUME Init PROVE TypeOK
    OBVIOUS
  <1>2. queue \in [AllQueues -> Seq(Events)] /\ wire \in Seq(Events)
    BY <1>1 DEF Init
  <1>3. /\ pc \in [Threads -> Places]
        /\ fn \in [Threads -> {"manual", "dispatch_queue"}]
        /\ serial \in [Threads -> 0 .. SerialMod - 1]
        /\ cur \in [Threads -> Events]
    BY <1>1, NoEventType DEF Init, Places
  <1>4. rem \in 0 .. Len(wire)
    BY <1>1 DEF Init
  <1>5. /\ mutex \in Threads \cup {NoThread}
        /\ reader_count \in Int
        /\ read_serial \in 0 .. SerialMod - 1
        /\ last_error \in Errors
        /\ protocol_error \in Nat
        /\ proxy_queue \in [Proxies -> Queues]
        /\ sent \in Nat
    BY <1>1, QueueAssumption DEF Init, Errors
  <1>6. hup \in BOOLEAN
    BY Zenon DEF Init
  <1> QED BY <1>2, <1>3, <1>4, <1>5, <1>6 DEF TypeOK

(* Type correctness of the reading protocol.                               *)
THEOREM Typing == Spec => []TypeOK
  BY TypeInit, TypeStep, PTL DEF Spec

-----------------------------------------------------------------------------
\* How announcements are counted: every step of a thread leaves Prepared and
\* reader_count alone, adds the thread to both, or takes it out of both.

Same     == Prepared' = Prepared /\ reader_count' = reader_count
Join(t)  == /\ t \notin Prepared /\ Prepared' = Prepared \cup {t}
            /\ reader_count' = reader_count + 1
            /\ queue[Home[t]] = <<>> /\ queue' = queue
Leave(t) == /\ t \in Prepared /\ Prepared' = Prepared \ {t}
            /\ reader_count' = reader_count - 1

LEMMA PreparedMove ==
  ASSUME TypeOK, NEW t \in Threads, NEW x \in Places,
         \/ pc' = [pc EXCEPT ![t] = x]
         \/ pc' = Broadcast([pc EXCEPT ![t] = x])
  PROVE  Prepared' = IF x \in Announced THEN Prepared \cup {t}
                                        ELSE Prepared \ {t}
  <1> DEFINE f == [pc EXCEPT ![t] = x]
  <1>1. "waiting" \notin Announced /\ "woken" \notin Announced
    BY DEF Announced
  <1>2. ASSUME NEW u \in Threads
        PROVE  pc'[u] \in Announced <=> f[u] \in Announced
    BY <1>1 DEF TypeOK, Broadcast
  <1>3. ASSUME NEW u \in Threads
        PROVE  f[u] = IF u = t THEN x ELSE pc[u]
    BY DEF TypeOK
  <1> HIDE DEF f
  <1> QED BY <1>2, <1>3 DEF Prepared

LEMMA BroadcastOnly ==
  ASSUME TypeOK, pc' = Broadcast(pc)
  PROVE  Prepared' = Prepared
  BY DEF TypeOK, Broadcast, Prepared, Announced

LEMMA ReaderMoves ==
  ASSUME NEW t \in Threads, TypeOK, Thread(t)
  PROVE  Same \/ Join(t) \/ Leave(t)
  <1> USE DEF Same, Join, Leave, Places, Sleeping
  <1>1. CASE PrepareReadQueue(t)
    <2>1. t \notin Prepared
      BY <1>1 DEF PrepareReadQueue, Prepared, Announced
    <2>2. Prepared' = Prepared \cup {t}
      BY <1>1, PreparedMove DEF PrepareReadQueue, Announced
    <2> QED BY <1>1, <2>1, <2>2 DEF PrepareReadQueue
  <1>2. CASE DispatchQueue(t)
    <2>1. t \notin Prepared
      BY <1>2 DEF DispatchQueue, Prepared, Announced
    <2>2. CASE queue[Home[t]] # <<>>
      <3>1. Prepared' = Prepared \ {t}
        BY <1>2, <2>2, PreparedMove DEF DispatchQueue, Announced
      <3> QED BY <1>2, <2>1, <2>2, <3>1 DEF DispatchQueue
    <2>3. CASE queue[Home[t]] = <<>>
      <3>1. Prepared' = Prepared \cup {t}
        BY <1>2, <2>3, PreparedMove DEF DispatchQueue, Announced
      <3> QED BY <1>2, <2>1, <2>3, <3>1 DEF DispatchQueue
    <2> QED BY <2>2, <2>3
  <1>3. CASE DispatchQueuePending(t)
    <2>1. t \notin Prepared /\ Prepared' = Prepared \ {t}
      BY <1>3, PreparedMove DEF DispatchQueuePending, Prepared, Announced
    <2> QED BY <1>3, <2>1 DEF DispatchQueuePending
  <1>4. CASE FlushBreaks(t)
    <2>1. pc' = Broadcast(pc)
      BY <1>4 DEF FlushBreaks, FatalError, WakeupThreads
    <2> QED BY <1>4, <2>1, BroadcastOnly DEF FlushBreaks
  <1>5. ASSUME NEW p \in Proxies, NEW q \in Queues, SetQueue(t, p, q)
        PROVE  Same
    BY <1>5 DEF SetQueue, Prepared
  <1>6. CASE FlushGoesOn(t) \/ FlushWouldBlock(t) \/ PollOut(t) \/ PollIn(t)
             \/ PollFails(t)
    <2>1. PICK x \in Announced : pc' = [pc EXCEPT ![t] = x]
      BY <1>6 DEF FlushGoesOn, FlushWouldBlock, PollOut, PollIn, PollFails,
         Announced
    <2>2. t \in Prepared
      BY <1>6 DEF FlushGoesOn, FlushWouldBlock, PollOut, PollIn, PollFails,
         Announced, Prepared
    <2>3. Prepared' = Prepared \cup {t}
      BY <2>1, PreparedMove
    <2>4. reader_count' = reader_count
      BY <1>6 DEF FlushGoesOn, FlushWouldBlock, PollOut, PollIn, PollFails
    <2> QED BY <2>2, <2>3, <2>4
  <1>7. CASE FlushFails(t)
    <2>1. \/ pc' = [pc EXCEPT ![t] = "cancel"]
          \/ pc' = Broadcast([pc EXCEPT ![t] = "cancel"])
      BY <1>7 DEF FlushFails, FatalError, WakeupThreads
    <2>2. t \in Prepared
      BY <1>7 DEF FlushFails, Announced, Prepared
    <2>3. Prepared' = Prepared \cup {t}
      BY <2>1, PreparedMove DEF Announced
    <2> QED BY <1>7, <2>2, <2>3 DEF FlushFails
  <1>8. CASE CancelRead(t) \/ ReadAfterError(t)
    <2>1. PICK x \in {"failed", "idle"} : Withdraw([pc EXCEPT ![t] = x])
      BY <1>8 DEF CancelRead, ReadAfterError, AfterRead
    <2>2. \/ pc' = [pc EXCEPT ![t] = x]
          \/ pc' = Broadcast([pc EXCEPT ![t] = x])
      BY <2>1 DEF Withdraw, WakeupThreads
    <2>3. t \in Prepared
      BY <1>8 DEF CancelRead, ReadAfterError, ReadCalled, Prepared, Announced
    <2>4. Prepared' = Prepared \ {t}
      BY <2>2, PreparedMove DEF Announced
    <2>5. reader_count' = reader_count - 1
      BY <2>1 DEF Withdraw
    <2> QED BY <2>3, <2>4, <2>5
  <1>9. CASE ReadSleeps(t) \/ ReadData(t) \/ ReadNothing(t) \/ ReadFails(t)
    <2>1. PICK x \in Places \ Announced :
             \/ pc' = [pc EXCEPT ![t] = x]
             \/ pc' = Broadcast([pc EXCEPT ![t] = x])
      BY <1>9 DEF ReadSleeps, ReadData, ReadNothing, ReadFails, FatalError,
         WakeupThreads, AfterRead, Announced
    <2>2. t \in Prepared
      BY <1>9 DEF ReadSleeps, ReadData, ReadNothing, ReadFails, LastReader,
         ReadCalled, Prepared, Announced
    <2>3. Prepared' = Prepared \ {t}
      BY <2>1, PreparedMove
    <2>4. reader_count' = reader_count - 1
      BY <1>9 DEF ReadSleeps, ReadData, ReadNothing, ReadFails, LastReader
    <2> QED BY <2>2, <2>3, <2>4
  <1>10. CASE QueueEvent(t)
    BY <1>10 DEF QueueEvent, Prepared
  <1>11. CASE \/ QueueEventFails(t) \/ ReadDone(t) \/ SpuriousWakeup(t)
              \/ Sleep(t) \/ Dispatch(t)
    <2>1. PICK x \in Places \ Announced :
             \/ pc' = [pc EXCEPT ![t] = x]
             \/ pc' = Broadcast([pc EXCEPT ![t] = x])
      <3>1. CASE QueueEventFails(t) \/ ReadDone(t)
        BY <3>1 DEF QueueEventFails, ReadDone, FatalError, WakeupThreads,
           AfterRead, Announced
      <3>2. CASE SpuriousWakeup(t) \/ Sleep(t)
        BY <3>2 DEF SpuriousWakeup, Sleep, SleepAgain, SleepOver, AfterRead,
           Announced
      <3>3. CASE DispatchEvent(t) \/ DiscardEvent(t) \/ DispatchReturns(t)
        BY <3>3 DEF DispatchEvent, DiscardEvent, DispatchReturns, Announced
      <3>4. CASE HandlerReturns(t) \/ HandlerSeesError(t) \/ ProtocolError(t)
        BY <3>4 DEF HandlerReturns, HandlerSeesError, ProtocolError, LoopOf,
           Announced
      <3> QED BY <1>11, <3>1, <3>2, <3>3, <3>4 DEF Dispatch
    <2>2. t \notin Prepared
      BY <1>11 DEF QueueEventFails, ReadDone, SpuriousWakeup, Sleep,
         SleepAgain, SleepOver, Dispatch, DispatchEvent, DiscardEvent,
         DispatchReturns, AtDispatch, HandlerReturns, HandlerSeesError,
         ProtocolError, Prepared, Announced
    <2>3. Prepared' = Prepared \ {t}
      BY <2>1, PreparedMove
    <2>4. reader_count' = reader_count
      BY <1>11 DEF QueueEventFails, ReadDone, SpuriousWakeup, Sleep,
         SleepAgain, SleepOver, Dispatch, DispatchEvent, DiscardEvent,
         DispatchReturns, HandlerReturns, HandlerSeesError, ProtocolError
    <2> QED BY <2>2, <2>3, <2>4
  <1> QED BY <1>1, <1>2, <1>3, <1>4, <1>5, <1>6, <1>7, <1>8, <1>9, <1>10,
             <1>11 DEF Thread, Call, Flush, ReadEvents, Sort

LEMMA PreparedFinite ==
  /\ IsFiniteSet(Prepared)
  /\ Cardinality(Prepared) \in Nat
  /\ Cardinality(Prepared) = 0 <=> Prepared = {}
  <1>1. IsFiniteSet(Prepared)
    BY FS_Subset, ThreadAssumption DEF Prepared
  <1> QED BY <1>1, FS_CardinalityType, FS_EmptySet

LEMMA CountStep ==
  ASSUME TypeOK, ReadersCounted, [Next]_vars
  PROVE  ReadersCounted'
  <1>1. CASE UNCHANGED vars \/ Server
    BY <1>1 DEF vars, Server, ServerCloses, ServerSends, ReadersCounted, Prepared
  <1>2. ASSUME NEW t \in Threads, Thread(t) PROVE ReadersCounted'
    <2>1. CASE Same
      BY <2>1 DEF Same, ReadersCounted
    <2>2. CASE Join(t)
      <3>1. Cardinality(Prepared \cup {t}) = Cardinality(Prepared) + 1
        BY <2>2, PreparedFinite, FS_AddElement DEF Join
      <3> QED BY <2>2, <3>1 DEF Join, ReadersCounted
    <2>3. CASE Leave(t)
      <3>1. Cardinality(Prepared \ {t}) = Cardinality(Prepared) - 1
        BY <2>3, PreparedFinite, FS_RemoveElement DEF Leave
      <3> QED BY <2>3, <3>1 DEF Leave, ReadersCounted
    <2> QED BY <1>2, <2>1, <2>2, <2>3, ReaderMoves
  <1> QED BY <1>1, <1>2 DEF Next

LEMMA CountInit == Init => ReadersCounted
  <1> SUFFICES ASSUME Init PROVE ReadersCounted
    OBVIOUS
  <1>1. Prepared = {}
    BY DEF Init, Prepared, Announced
  <1> QED BY <1>1, PreparedFinite DEF Init, ReadersCounted

(* display->reader_count counts exactly the announced reads.               *)
THEOREM CountedReaders == Spec => []ReadersCounted
  <1>1. Init => ReadersCounted
    BY CountInit
  <1>2. TypeOK /\ ReadersCounted /\ [Next]_vars => ReadersCounted'
    BY CountStep
  <1> QED BY <1>1, <1>2, Typing, PTL DEF Spec

-----------------------------------------------------------------------------
\* The mutex, and that nobody else's read fills an announced thread's queue.

LEMMA CountFacts ==
  ASSUME ReadersCounted
  PROVE  /\ reader_count \in Nat
         /\ reader_count = 0 <=> Prepared = {}
  BY PreparedFinite DEF ReadersCounted

LEMMA MutexStep ==
  ASSUME TypeOK, ReadersCounted, MutexInv, [Next]_vars
  PROVE  MutexInv'
  <1>1. CASE UNCHANGED vars \/ Server
    BY <1>1 DEF vars, Server, ServerCloses, ServerSends, MutexInv
  <1>2. ASSUME NEW t \in Threads, Thread(t) PROVE MutexInv'
    <2> USE DEF MutexInv
    <2>0. /\ NoThread \notin Threads
          /\ \A f : \A u \in Threads :
                f \in [Threads -> Places] => (Broadcast(f)[u] = "reading"
                                              <=> f[u] = "reading")
      BY ThreadAssumption DEF Broadcast
    <2>1. CASE PrepareReadQueue(t) \/ DispatchQueue(t)
      BY <2>0, <2>1 DEF PrepareReadQueue, DispatchQueue, Free, TypeOK
    <2>2. CASE DispatchQueuePending(t)
               \/ \E p \in Proxies, q \in Queues : SetQueue(t, p, q)
      BY <2>0, <2>2 DEF DispatchQueuePending, SetQueue, TypeOK
    <2>3. CASE FlushGoesOn(t) \/ FlushWouldBlock(t) \/ PollOut(t) \/ PollIn(t)
               \/ PollFails(t)
      BY <2>0, <2>3 DEF FlushGoesOn, FlushWouldBlock, PollOut, PollIn,
         PollFails, TypeOK
    <2>4. CASE \/ FlushBreaks(t) \/ FlushFails(t) \/ CancelRead(t)
               \/ ReadAfterError(t) \/ ReadSleeps(t) \/ ReadNothing(t)
               \/ ReadFails(t) \/ SpuriousWakeup(t) \/ Sleep(t)
               \/ ProtocolError(t)
      <3>1. Free /\ mutex' = mutex
        BY <2>4 DEF FlushBreaks, FlushFails, CancelRead, ReadAfterError,
           ReadSleeps, ReadNothing, ReadFails, SpuriousWakeup, Sleep,
           SleepAgain, SleepOver, ProtocolError, ReadCalled, LastReader
      <3>2. ASSUME NEW u \in Threads PROVE pc'[u] # "reading"
        <4>1. pc[u] # "reading"
          BY <2>0, <3>1 DEF Free
        <4>2. CASE FlushBreaks(t) \/ FlushFails(t)
          BY <4>1, <4>2 DEF FlushBreaks, FlushFails, FatalError,
             WakeupThreads, Broadcast, TypeOK
        <4>3. CASE CancelRead(t) \/ ReadAfterError(t)
          BY <4>1, <4>3 DEF CancelRead, ReadAfterError, AfterRead, Withdraw,
             WakeupThreads, Broadcast, TypeOK
        <4>4. CASE ReadSleeps(t) \/ ReadNothing(t) \/ ReadFails(t)
          BY <4>1, <4>4 DEF ReadSleeps, ReadNothing, ReadFails, AfterRead,
             FatalError, WakeupThreads, Broadcast, TypeOK
        <4>5. CASE SpuriousWakeup(t) \/ Sleep(t) \/ ProtocolError(t)
          BY <4>1, <4>5 DEF SpuriousWakeup, Sleep, SleepAgain, SleepOver,
             AfterRead, ProtocolError, LoopOf, TypeOK
        <4> QED BY <2>4, <4>2, <4>3, <4>4, <4>5
      <3> QED BY <3>1, <3>2 DEF Free
    <2>5. CASE ReadData(t)
      BY <2>0, <2>5 DEF ReadData, LastReader, ReadCalled, Free, TypeOK
    <2>6. CASE QueueEvent(t)
      BY <2>6 DEF QueueEvent
    <2>7. CASE QueueEventFails(t) \/ ReadDone(t)
      <3>1. ASSUME NEW u \in Threads PROVE pc'[u] # "reading"
        BY <2>7 DEF QueueEventFails, ReadDone, AfterRead, FatalError,
           WakeupThreads, Broadcast, TypeOK
      <3> QED BY <2>7, <3>1 DEF QueueEventFails, ReadDone
    <2>8. CASE DispatchEvent(t) \/ DiscardEvent(t) \/ DispatchReturns(t)
      BY <2>0, <2>8 DEF DispatchEvent, DiscardEvent, DispatchReturns,
         AtDispatch, TypeOK
    <2>9. CASE HandlerReturns(t) \/ HandlerSeesError(t)
      BY <2>0, <2>9 DEF HandlerReturns, HandlerSeesError, LoopOf, TypeOK
    <2> QED BY <1>2, <2>1, <2>2, <2>3, <2>4, <2>5, <2>6, <2>7, <2>8, <2>9
            DEF Thread, Call, Flush, ReadEvents, Sort, Dispatch
  <1> QED BY <1>1, <1>2 DEF Next

LEMMA QueueEmptyStep ==
  ASSUME TypeOK, ReadersCounted, MutexInv, PreparedQueueEmpty, [Next]_vars
  PROVE  PreparedQueueEmpty'
  <1>1. CASE UNCHANGED vars \/ Server
    BY <1>1 DEF vars, Server, ServerCloses, ServerSends, PreparedQueueEmpty,
       Prepared
  <1>2. ASSUME NEW t \in Threads, Thread(t) PROVE PreparedQueueEmpty'
    <2>2. CASE Prepared' \subseteq Prepared /\ queue' = queue
      BY <2>2 DEF PreparedQueueEmpty
    <2>3. CASE QueueEvent(t)
      <3>1. Prepared = {}
        BY <2>3, CountFacts DEF QueueEvent, MutexInv
      <3> QED BY <2>3, <3>1 DEF QueueEvent, Prepared, PreparedQueueEmpty
    <2>4. CASE DispatchEvent(t) \/ DiscardEvent(t)
      <3>1. PICK q \in Pending(t) : queue' = [queue EXCEPT ![q] = Tail(@)]
        BY <2>4 DEF DispatchEvent, DiscardEvent
      <3>2. ASSUME NEW u \in Threads PROVE q = Home[u] => queue[Home[u]] # <<>>
        BY DEF Pending
      <3>3. Prepared' \subseteq Prepared
        BY <2>4 DEF DispatchEvent, DiscardEvent, Prepared, Announced, TypeOK
      <3>4. ASSUME NEW u \in Prepared' PROVE queue'[Home[u]] = <<>>
        <4>1. u \in Threads /\ queue[Home[u]] = <<>>
          BY <3>3 DEF PreparedQueueEmpty, Prepared
        <4>2. Home[u] # q /\ Home[u] \in AllQueues
          BY <3>2, <4>1, QueueAssumption DEF AllQueues
        <4> QED BY <3>1, <4>1, <4>2 DEF TypeOK
      <3> QED BY <3>4 DEF PreparedQueueEmpty
    <2>5. \/ queue' = queue
          \/ QueueEvent(t) \/ DispatchEvent(t) \/ DiscardEvent(t)
      BY <1>2 DEF Thread, Call, PrepareReadQueue, DispatchQueue,
         DispatchQueuePending, SetQueue, FlushBreaks, Flush, FlushGoesOn,
         FlushWouldBlock, FlushFails, PollOut, PollIn, PollFails, CancelRead,
         ReadEvents, ReadAfterError, ReadSleeps, ReadData, ReadNothing,
         ReadFails, Sort, QueueEventFails, ReadDone, SpuriousWakeup, Sleep,
         SleepAgain, SleepOver, Dispatch, DispatchReturns, HandlerReturns,
         HandlerSeesError, ProtocolError
    <2>6. CASE Join(t)
      BY <2>6 DEF Join, PreparedQueueEmpty
    <2> QED BY <1>2, <2>2, <2>3, <2>4, <2>5, <2>6, ReaderMoves
            DEF Same, Leave
  <1> QED BY <1>1, <1>2 DEF Next

-----------------------------------------------------------------------------
\* Sleep and wakeup.  With respect to the sleepers a step does one of three
\* things: it leaves them alone, it wakes all of them, or the thread itself
\* goes to sleep on the current serial while a read is under way.

ErrorStays == last_error # "none" => last_error' # "none"

LeavesSleepers ==
  /\ read_serial' = read_serial
  /\ \A u \in Threads : pc'[u] \in Sleeping =>
        pc'[u] = pc[u] /\ serial'[u] = serial[u]
  /\ ReadUnderWay => ReadUnderWay'
  /\ ReadUnderWay' => ReadUnderWay \/ LapBound
  /\ ErrorStays

WakesSleepers ==
  /\ read_serial' = NextSerial
  /\ \A u \in Threads : pc'[u] \in Sleeping =>
        pc'[u] = "woken" /\ pc[u] \in Sleeping /\ serial'[u] = serial[u]
  /\ \/ ReadUnderWay /\ ~ReadUnderWay'
     \/ /\ last_error = "none" /\ last_error' # "none"
        /\ ReadUnderWay' => ReadUnderWay
  /\ ErrorStays

GoesToSleep(t) ==
  /\ read_serial' = read_serial /\ last_error' = last_error
  /\ \A u \in Threads \ {t} : pc'[u] = pc[u] /\ serial'[u] = serial[u]
  /\ serial'[t] = read_serial
  /\ ReadUnderWay /\ ReadUnderWay'

\* Arithmetic of a serial that counts modulo SerialMod.
LEMMA LagFacts ==
  ASSUME TypeOK, NEW t \in Threads
  PROVE  /\ Lag(t) \in 0 .. SerialMod - 1
         /\ Lag(t) = 0 <=> serial[t] = read_serial
  BY BoundAssumption DEF Lag, TypeOK

LEMMA LagStep ==
  ASSUME TypeOK, NEW t \in Threads, Lag(t) < SerialMod - 1,
         read_serial' = NextSerial, serial'[t] = serial[t]
  PROVE  Lag(t)' = Lag(t) + 1
  BY BoundAssumption DEF Lag, TypeOK, NextSerial

LEMMA LeavesStep ==
  ASSUME TypeOK, NoLostWakeup, SerialInv, LeavesSleepers
  PROVE  NoLostWakeup' /\ SerialInv'
  <1> USE DEF LeavesSleepers, ErrorStays
  <1>1. NoLostWakeup'
    BY DEF NoLostWakeup, Sleeping
  <1>2. ASSUME NEW t \in Threads, pc'[t] = "woken"
        PROVE  Lag(t)' <= SerialMod - 3
                          + (IF ReadUnderWay' THEN 0 ELSE 1)
                          + (IF last_error' = "none" THEN 0 ELSE 1)
    <2>1. pc[t] = "woken" /\ Lag(t)' = Lag(t)
      BY <1>2 DEF Lag, Sleeping
    <2>2. Lag(t) \in Int /\ SerialMod \in Int
      BY LagFacts, BoundAssumption
    <2>3. CASE ReadUnderWay' /\ ~ReadUnderWay
      <3>1. Lag(t) < SerialMod - 2
        BY <2>1, <2>3 DEF LapBound
      <3> QED BY <2>1, <2>2, <2>3, <3>1
    <2>4. CASE ReadUnderWay' <=> ReadUnderWay
      BY <2>1, <2>2, <2>4 DEF SerialInv
    <2> QED BY <2>3, <2>4
  <1> QED BY <1>1, <1>2 DEF SerialInv

LEMMA WakesStep ==
  ASSUME TypeOK, NoLostWakeup, SerialInv, WakesSleepers
  PROVE  NoLostWakeup' /\ SerialInv'
  <1> USE DEF WakesSleepers, ErrorStays
  <1> DEFINE U == IF ReadUnderWay THEN 0 ELSE 1
             E == IF last_error = "none" THEN 0 ELSE 1
  <1>1. ASSUME NEW t \in Threads, pc'[t] \in Sleeping
        PROVE  /\ pc'[t] = "woken"
               /\ serial'[t] # read_serial'
               /\ Lag(t)' <= SerialMod - 3 + U' + E'
    <2>1. pc'[t] = "woken" /\ pc[t] \in Sleeping /\ serial'[t] = serial[t]
      BY <1>1
    <2>2. Lag(t) \in 0 .. SerialMod - 1 /\ SerialMod \in Int /\ SerialMod >= 4
      BY LagFacts, BoundAssumption
    <2>3. Lag(t) <= SerialMod - 3 + U + E
      <3>1. CASE pc[t] = "waiting"
        BY <2>2, <3>1, LagFacts DEF NoLostWakeup
      <3>2. CASE pc[t] = "woken"
        BY <3>2 DEF SerialInv
      <3> QED BY <2>1, <3>1, <3>2 DEF Sleeping
    <2>4. U + E + 1 <= U' + E' /\ U + E < 2
      OBVIOUS
    <2>5. Lag(t)' = Lag(t) + 1
      <3>1. U + E \in {0, 1, 2}
        OBVIOUS
      <3>2. Lag(t) < SerialMod - 1
        BY <2>2, <2>3, <2>4, <3>1
      <3> QED BY <2>1, <3>2, LagStep
    <2>6. serial'[t] # read_serial'
      <3>1. read_serial' = serial'[t] => Lag(t)' = 0
        BY BoundAssumption, <2>1 DEF Lag, TypeOK
      <3> QED BY <2>2, <2>5, <3>1
    <2>7. Lag(t)' <= SerialMod - 3 + U' + E'
      BY <2>2, <2>3, <2>4, <2>5
    <2> QED BY <2>1, <2>6, <2>7
  <1> QED BY <1>1 DEF NoLostWakeup, SerialInv, Sleeping

LEMMA GoesToSleepStep ==
  ASSUME TypeOK, NoLostWakeup, SerialInv, NEW t \in Threads, GoesToSleep(t)
  PROVE  NoLostWakeup' /\ SerialInv'
  <1> USE DEF GoesToSleep
  <1>1. NoLostWakeup'
    BY DEF NoLostWakeup
  <1>2. Lag(t)' = 0
    BY BoundAssumption DEF Lag, TypeOK
  <1>3. \A u \in Threads \ {t} : Lag(u)' = Lag(u)
    BY DEF Lag
  <1>4. SerialMod \in Int /\ SerialMod >= 4
    BY BoundAssumption
  <1>5. ASSUME NEW u \in Threads, pc'[u] = "woken"
        PROVE  Lag(u)' <= SerialMod - 3
                          + (IF ReadUnderWay' THEN 0 ELSE 1)
                          + (IF last_error' = "none" THEN 0 ELSE 1)
    <2>1. CASE u = t
      BY <1>2, <1>4, <2>1
    <2>2. CASE u # t
      BY <1>3, <1>5, <2>2 DEF SerialInv
    <2> QED BY <2>1, <2>2
  <1> QED BY <1>1, <1>5 DEF SerialInv

LEMMA SleepMoves ==
  ASSUME NEW t \in Threads, TypeOK, ReadersCounted, MutexInv, NoLostWakeup,
         Thread(t)
  PROVE  LeavesSleepers \/ WakesSleepers \/ GoesToSleep(t)
  <1>0. reader_count \in Nat /\ reader_count' \in Nat
    <2>1. Leave(t) => Prepared # {}
      BY DEF Leave
    <2> QED BY <2>1, CountFacts, ReaderMoves DEF Same, Join, Leave
  <1>1. CASE PrepareReadQueue(t) \/ DispatchQueue(t)
    <2>1. LeavesSleepers
      BY <1>0, <1>1 DEF PrepareReadQueue, DispatchQueue, LeavesSleepers,
         ReadUnderWay, ErrorStays, Sleeping, TypeOK
    <2> QED BY <2>1
  <1>2. CASE DispatchQueuePending(t)
             \/ \E p \in Proxies, q \in Queues : SetQueue(t, p, q)
    <2>1. LeavesSleepers
      BY <1>2 DEF DispatchQueuePending, SetQueue, LeavesSleepers,
         ReadUnderWay, ErrorStays, Sleeping, TypeOK
    <2> QED BY <2>1
  <1>3. CASE FlushGoesOn(t) \/ FlushWouldBlock(t) \/ PollOut(t) \/ PollIn(t)
             \/ PollFails(t)
    <2>1. LeavesSleepers
      BY <1>3 DEF FlushGoesOn, FlushWouldBlock, PollOut, PollIn, PollFails,
         LeavesSleepers, ReadUnderWay, ErrorStays, Sleeping, TypeOK
    <2> QED BY <2>1
  <1>4. CASE FlushBreaks(t)
    <2>1. WakesSleepers
      BY <1>4 DEF FlushBreaks, FatalError, WakeupThreads, Broadcast,
         WakesSleepers, ReadUnderWay, ErrorStays, Sleeping, TypeOK
    <2> QED BY <2>1
  <1>5. CASE FlushFails(t)
    <2> DEFINE f == [pc EXCEPT ![t] = "cancel"]
    <2>0. f \in [Threads -> Places \cup {"cancel"}]
          /\ \A u \in Threads : u # t => f[u] = pc[u]
          /\ f[t] = "cancel"
      BY DEF TypeOK
    <2>1. CASE pc' = f /\ UNCHANGED <<last_error, read_serial>>
      <3>1. LeavesSleepers
        BY <1>5, <2>0, <2>1 DEF FlushFails, LeavesSleepers, ReadUnderWay,
           ErrorStays, Sleeping
      <3> QED BY <3>1
    <2>2. CASE last_error = "none" /\ FatalError("EIO", f)
      <3> HIDE DEF f
      <3>1. WakesSleepers
        BY <1>5, <2>0, <2>2 DEF FlushFails, FatalError, WakeupThreads,
           Broadcast, WakesSleepers, ReadUnderWay, ErrorStays, Sleeping
      <3> QED BY <3>1
    <2> QED BY <1>5, <2>1, <2>2 DEF FlushFails
  <1>6. CASE CancelRead(t) \/ ReadAfterError(t)
    <2>1. PICK x \in {"failed", "idle"} : Withdraw([pc EXCEPT ![t] = x])
      BY <1>6 DEF CancelRead, ReadAfterError, AfterRead
    <2>2. /\ Free /\ UNCHANGED <<last_error, serial>>
          /\ \A u \in Threads : pc[u] # "reading"
      BY <1>6, ThreadAssumption
      DEF CancelRead, ReadAfterError, ReadCalled, MutexInv, Free
    <2>3. CASE reader_count' = 0
      <3>1. WakeupThreads([pc EXCEPT ![t] = x]) /\ reader_count > 0
        BY <1>0, <2>1, <2>3 DEF Withdraw
      <3>2. WakesSleepers
        BY <1>0, <2>2, <2>3, <3>1 DEF WakeupThreads, Broadcast,
           WakesSleepers, ReadUnderWay, ErrorStays, Sleeping, TypeOK
      <3> QED BY <3>2
    <2>4. CASE reader_count' # 0
      <3>1. LeavesSleepers
        BY <1>0, <2>1, <2>2, <2>4 DEF Withdraw, LeavesSleepers, ReadUnderWay,
           ErrorStays, Sleeping, TypeOK
      <3> QED BY <3>1
    <2> QED BY <2>3, <2>4
  <1>7. CASE ReadSleeps(t)
    <2>1. GoesToSleep(t)
      BY <1>0, <1>7 DEF ReadSleeps, GoesToSleep, ReadUnderWay, TypeOK
    <2> QED BY <2>1
  <1>8. CASE ReadData(t)
    <2>1. LeavesSleepers
      BY <1>0, <1>8 DEF ReadData, LastReader, LeavesSleepers, ReadUnderWay,
         ErrorStays, Sleeping, TypeOK
    <2> QED BY <2>1
  <1>9. CASE ReadNothing(t) \/ ReadFails(t)
    <2>1. /\ \A u \in Threads : pc[u] # "reading"
          /\ reader_count' = reader_count - 1 /\ reader_count' = 0
          /\ last_error = "none" /\ serial' = serial
      BY <1>9, ThreadAssumption
      DEF ReadNothing, ReadFails, LastReader, ReadCalled, MutexInv, Free
    <2>2. PICK x \in {"failed", "idle", "dispatch"} :
             WakeupThreads([pc EXCEPT ![t] = x])
      BY <1>9 DEF ReadNothing, ReadFails, LastReader, FatalError, AfterRead
    <2>3. WakesSleepers
      BY <1>0, <2>1, <2>2 DEF WakeupThreads, Broadcast, WakesSleepers,
         ReadUnderWay, ErrorStays, Sleeping, TypeOK
    <2> QED BY <2>3
  <1>10. CASE QueueEvent(t)
    <2>1. LeavesSleepers
      BY <1>10 DEF QueueEvent, LeavesSleepers, ReadUnderWay, ErrorStays
    <2> QED BY <2>1
  <1>11. CASE QueueEventFails(t) \/ ReadDone(t)
    <2>1. /\ pc[t] = "reading" /\ last_error = "none" /\ reader_count' = 0
          /\ \A u \in Threads : pc[u] = "reading" => u = t
          /\ serial' = serial
      BY <1>11 DEF QueueEventFails, ReadDone, MutexInv
    <2>2. PICK x \in {"failed", "idle", "dispatch"} :
             WakeupThreads([pc EXCEPT ![t] = x])
      BY <1>11, <2>1 DEF QueueEventFails, ReadDone, FatalError, AfterRead
    <2>3. WakesSleepers
      BY <2>1, <2>2 DEF WakeupThreads, Broadcast, WakesSleepers,
         ReadUnderWay, ErrorStays, Sleeping, TypeOK
    <2> QED BY <2>3
  <1>12. CASE SpuriousWakeup(t) \/ SleepAgain(t)
    <2>1. serial[t] = read_serial /\ ReadUnderWay
      BY <1>12 DEF SpuriousWakeup, SleepAgain, NoLostWakeup
    <2>2. ReadUnderWay'
      BY <1>12, <2>1 DEF SpuriousWakeup, SleepAgain, ReadUnderWay, TypeOK
    <2>3. GoesToSleep(t)
      BY <1>12, <2>1, <2>2 DEF SpuriousWakeup, SleepAgain, GoesToSleep, TypeOK
    <2> QED BY <2>3
  <1>13. CASE SleepOver(t)
    <2>1. LeavesSleepers
      BY <1>13 DEF SleepOver, AfterRead, LeavesSleepers, ReadUnderWay,
         ErrorStays, Sleeping, TypeOK
    <2> QED BY <2>1
  <1>14. CASE Dispatch(t)
    <2>1. PICK x \in {"handler", "dispatch", "dispatch_own", "idle", "failed",
                      "perr"} :
             /\ pc' = [pc EXCEPT ![t] = x]
             /\ pc[t] # "reading"
             /\ UNCHANGED <<reader_count, read_serial, serial>>
             /\ ErrorStays
      BY <1>14 DEF Dispatch, DispatchEvent, DiscardEvent, DispatchReturns,
         AtDispatch, HandlerReturns, HandlerSeesError, ProtocolError, LoopOf,
         ErrorStays
    <2>2. LeavesSleepers
      BY <2>1 DEF LeavesSleepers, ReadUnderWay, Sleeping, TypeOK
    <2> QED BY <2>2
  <1> QED BY <1>1, <1>2, <1>3, <1>4, <1>5, <1>6, <1>7, <1>8, <1>9, <1>10,
             <1>11, <1>12, <1>13, <1>14
          DEF Thread, Call, Flush, ReadEvents, Sort, Sleep

LEMMA SleepStep ==
  ASSUME TypeOK, ReadersCounted, MutexInv, NoLostWakeup, SerialInv,
         [Next]_vars
  PROVE  NoLostWakeup' /\ SerialInv'
  <1>1. CASE UNCHANGED vars \/ Server
    BY <1>1 DEF vars, Server, ServerCloses, ServerSends, NoLostWakeup,
       SerialInv, Lag, ReadUnderWay
  <1>2. ASSUME NEW t \in Threads, Thread(t) PROVE NoLostWakeup' /\ SerialInv'
    BY <1>2, SleepMoves, LeavesStep, WakesStep, GoesToSleepStep
  <1> QED BY <1>1, <1>2 DEF Next

LEMMA ReadInvStep == ReadInv /\ [Next]_vars => ReadInv'
  <1> SUFFICES ASSUME ReadInv, [Next]_vars PROVE ReadInv'
    OBVIOUS
  <1> USE DEF ReadInv
  <1>1. TypeOK'
    BY TypeStep
  <1>2. ReadersCounted'
    BY CountStep
  <1>3. MutexInv'
    BY MutexStep
  <1>4. PreparedQueueEmpty'
    BY QueueEmptyStep
  <1>5. NoLostWakeup' /\ SerialInv'
    BY SleepStep
  <1> QED BY <1>1, <1>2, <1>3, <1>4, <1>5

LEMMA ReadInvInit == Init => ReadInv
  <1> SUFFICES ASSUME Init PROVE ReadInv
    OBVIOUS
  <1>1. TypeOK
    BY TypeInit
  <1>2. ReadersCounted
    BY CountInit
  <1>3. MutexInv /\ NoLostWakeup /\ SerialInv
    BY DEF Init, MutexInv, NoLostWakeup, SerialInv
  <1>4. PreparedQueueEmpty
    BY DEF Init, PreparedQueueEmpty, Prepared, Announced
  <1> QED BY <1>1, <1>2, <1>3, <1>4 DEF ReadInv

THEOREM ReadInvariant == Spec => []ReadInv
  BY ReadInvInit, ReadInvStep, PTL DEF Spec

(* A thread never sleeps in read_events() unless a read is under way that  *)
(* will wake it: display_wakeup_threads is called on every path on which   *)
(* the reader_count drops to 0.                                            *)
THEOREM NoWakeupIsLost == Spec => []NoLostWakeup
  BY ReadInvariant, PTL DEF ReadInv

(* Between wl_display_prepare_read_queue and the read or the cancellation, *)
(* no event is put into the announced thread's queue ...                   *)
THEOREM AnnouncedQueueStaysEmpty == Spec => []PreparedQueueEmpty
  BY ReadInvariant, PTL DEF ReadInv

(* ... because whoever reads the socket is the last one announced.         *)
THEOREM LastReaderReads == Spec => []OnlyLastReaderReads
  <1>1. ReadInv => OnlyLastReaderReads
    BY CountFacts DEF ReadInv, MutexInv, OnlyLastReaderReads
  <1> QED BY <1>1, ReadInvariant, PTL

USE DEF rtVars

-----------------------------------------------------------------------------
\* Messages in a queue or in the socket

Ids(s) == {s[i].id : i \in 1 .. Len(s)}

Rising(s) == \A i, j \in 1 .. Len(s) : i < j => s[i].id < s[j].id

\* Whether a handler of object o is what message e is for
IsFor(e, o) == e.obj = o /\ e.kind \in {"event", "error"}

LEMMA IdsAreNumbers ==
  ASSUME NEW s \in Seq(Events), NEW o
  PROVE  Ids(s) \subseteq Nat /\ Waiting(o, s) \subseteq Ids(s)
  <1>1. \A i \in 1 .. Len(s) : s[i] \in Events
    OBVIOUS
  <1> QED BY <1>1 DEF Ids, Waiting, Events

LEMMA IdsAppend ==
  ASSUME NEW s \in Seq(Events), NEW e \in Events, NEW o
  PROVE  /\ Ids(Append(s, e)) = Ids(s) \cup {e.id}
         /\ Waiting(o, Append(s, e)) = Waiting(o, s) \cup IF IsFor(e, o) THEN {e.id} ELSE {}
         /\ Rising(s) /\ (\A n \in Ids(s) : n < e.id) => Rising(Append(s, e))
  <1> DEFINE z == Append(s, e)
             n == Len(s)
  <1>1. /\ Len(z) = n + 1 /\ n \in Nat /\ z[n + 1] = e
        /\ \A i \in 1 .. n : z[i] = s[i]
    OBVIOUS
  <1>2. 1 .. Len(z) = (1 .. n) \cup {n + 1} /\ n + 1 \notin 1 .. n
    BY <1>1
  <1> HIDE DEF z, n
  <1>3. Ids(z) = {s[i].id : i \in 1 .. n} \cup {e.id}
    BY <1>1, <1>2 DEF Ids
  <1>4. Waiting(o, z) = {s[i].id : i \in {j \in 1 .. n : IsFor(s[j], o)}}
                        \cup IF IsFor(e, o) THEN {e.id} ELSE {}
    BY <1>1, <1>2 DEF Waiting, IsFor
  <1>5. ASSUME Rising(s), \A m \in Ids(s) : m < e.id PROVE Rising(z)
    <2> SUFFICES ASSUME NEW i \in 1 .. Len(z), NEW j \in 1 .. Len(z), i < j
                 PROVE  z[i].id < z[j].id
      BY DEF Rising
    <2>1. i \in 1 .. n
      BY <1>1, <1>2
    <2>2. CASE j = n + 1
      BY <1>1, <1>5, <2>1, <2>2 DEF Ids, n
    <2>3. CASE j \in 1 .. n
      BY <1>1, <1>5, <2>1, <2>3 DEF Rising, n
    <2> QED BY <1>2, <2>2, <2>3
  <1> QED BY <1>3, <1>4, <1>5 DEF Ids, Waiting, IsFor, z, n

LEMMA IdsTail ==
  ASSUME NEW s \in Seq(Events), s # <<>>, Rising(s), NEW o
  PROVE  /\ Head(s) \in Events /\ Head(s).id \in Ids(s)
         /\ \A m \in Ids(s) : Head(s).id <= m
         /\ Ids(Tail(s)) = Ids(s) \ {Head(s).id}
         /\ Waiting(o, Tail(s)) = Waiting(o, s) \ {Head(s).id}
         /\ Head(s).id \in Waiting(o, s) <=> IsFor(Head(s), o)
         /\ Rising(Tail(s))
  <1> DEFINE z == Tail(s)
             n == Len(s)
             h == Head(s)
  <1>1. /\ n \in Nat \ {0} /\ Len(z) = n - 1 /\ h = s[1]
        /\ \A i \in 1 .. n - 1 : z[i] = s[i + 1]
        /\ \A i \in 1 .. n : s[i] \in Events
    OBVIOUS
  <1>2. \A i \in 1 .. n : s[i].id \in Nat
    BY <1>1 DEF Events
  <1>3. ASSUME NEW i \in 1 .. n, i # 1 PROVE h.id < s[i].id
    BY <1>1, <1>3 DEF Rising
  <1> HIDE DEF z, n, h
  <1>4. h.id \in Ids(s) /\ h \in Events
    BY <1>1 DEF Ids, n
  <1>5. \A m \in Ids(s) : h.id <= m
    BY <1>1, <1>2, <1>3 DEF Ids, n
  <1>6. \A i \in 1 .. n : i # 1 <=> i - 1 \in 1 .. n - 1
    BY <1>1
  <1>7. \A i \in 1 .. n - 1 : i + 1 \in 1 .. n /\ i + 1 # 1
    BY <1>1
  <1>8. \A i \in 1 .. n : i # 1 => s[i].id # h.id
    BY <1>1, <1>2, <1>3
  <1>9. Ids(z) = Ids(s) \ {h.id}
    <2>1. ASSUME NEW m \in Ids(z) PROVE m \in Ids(s) \ {h.id}
      <3>1. PICK i \in 1 .. n - 1 : m = z[i].id
        BY <1>1 DEF Ids
      <3>2. i + 1 \in 1 .. n /\ i + 1 # 1 /\ m = s[i + 1].id
        BY <1>1, <1>7, <3>1
      <3> QED BY <1>8, <3>2 DEF Ids, n
    <2>2. ASSUME NEW m \in Ids(s), m # h.id PROVE m \in Ids(z)
      <3>1. PICK i \in 1 .. n : m = s[i].id
        BY DEF Ids, n
      <3>2. i # 1
        BY <1>1, <2>2, <3>1
      <3>3. i - 1 \in 1 .. n - 1 /\ z[i - 1] = s[i]
        BY <1>1, <1>6, <3>2
      <3> QED BY <1>1, <3>1, <3>3 DEF Ids
    <2> QED BY <2>1, <2>2
  <1>10. Waiting(o, z) = Waiting(o, s) \ {h.id}
    <2>1. ASSUME NEW m \in Waiting(o, z) PROVE m \in Waiting(o, s) \ {h.id}
      <3>1. PICK i \in 1 .. n - 1 : m = z[i].id /\ IsFor(z[i], o)
        BY <1>1 DEF Waiting, IsFor
      <3>2. i + 1 \in 1 .. n /\ i + 1 # 1 /\ m = s[i + 1].id /\ IsFor(s[i + 1], o)
        BY <1>1, <1>7, <3>1
      <3> QED BY <1>8, <3>2 DEF Waiting, IsFor, n
    <2>2. ASSUME NEW m \in Waiting(o, s), m # h.id PROVE m \in Waiting(o, z)
      <3>1. PICK i \in 1 .. n : m = s[i].id /\ IsFor(s[i], o)
        BY DEF Waiting, IsFor, n
      <3>2. i # 1
        BY <1>1, <2>2, <3>1
      <3>3. i - 1 \in 1 .. n - 1 /\ z[i - 1] = s[i]
        BY <1>1, <1>6, <3>2
      <3> QED BY <1>1, <3>1, <3>3 DEF Waiting, IsFor
    <2> QED BY <2>1, <2>2
  <1>11. h.id \in Waiting(o, s) <=> IsFor(h, o)
    <2>1. ASSUME h.id \in Waiting(o, s) PROVE IsFor(h, o)
      <3>1. PICK i \in 1 .. n : h.id = s[i].id /\ IsFor(s[i], o)
        BY <2>1 DEF Waiting, IsFor, n
      <3> QED BY <1>1, <1>8, <3>1
    <2>2. ASSUME IsFor(h, o) PROVE h.id \in Waiting(o, s)
      BY <1>1, <2>2 DEF Waiting, IsFor, n
    <2> QED BY <2>1, <2>2
  <1>12. Rising(z)
    <2> SUFFICES ASSUME NEW i \in 1 .. n - 1, NEW j \in 1 .. n - 1, i < j
                 PROVE  z[i].id < z[j].id
      BY <1>1 DEF Rising
    <2>1. i + 1 \in 1 .. n /\ j + 1 \in 1 .. n /\ i + 1 < j + 1
      BY <1>1
    <2> QED BY <1>1, <2>1 DEF Rising, n
  <1> QED BY <1>4, <1>5, <1>9, <1>10, <1>11, <1>12 DEF z, h

-----------------------------------------------------------------------------
\* The inductive invariant: numbers grow from the queues, and from the handlers
\* that run, to the socket, and no message is in two places.

WireInv == Rising(wire) /\ \A n \in Ids(wire) : n <= sent

QueuedInv ==
  \A q \in AllQueues :
    /\ Rising(queue[q])
    /\ \A i \in 1 .. Len(queue[q]) :
          /\ queue[q][i].kind \in {"event", "error"}
          /\ queue[q][i].obj \in Ordered => QueueOf(queue[q][i].obj) = q
    /\ \A m \in Ids(queue[q]) : m <= sent /\ \A n \in Ids(wire) : m < n
    /\ \A r \in AllQueues \ {q} : Ids(queue[r]) \cap Ids(queue[q]) = {}

HandledInv ==
  \A t \in Running :
    /\ cur[t].id <= sent /\ \A n \in Ids(wire) : cur[t].id < n
    /\ \A q \in AllQueues : cur[t].id \notin Ids(queue[q])
    /\ \A u \in Running \ {t} : cur[u].id # cur[t].id

OrderInv == TypeOK /\ WireInv /\ QueuedInv /\ HandledInv

Handling == {cur[t].id : t \in {u \in Running : cur[u].obj \in Ordered}}

PendingOf == [o \in Ordered |-> PendingFor(o)]

LEMMA InitDelivers == Init => OrderInv /\ Delivery!Init
  <1> SUFFICES ASSUME Init PROVE OrderInv /\ Delivery!Init
    OBVIOUS
  <1>1. TypeOK
    BY TypeInit
  <1>2. /\ wire = <<>> /\ sent = 0 /\ last_error = "none"
        /\ \A q \in AllQueues : queue[q] = <<>>
        /\ Running = {}
    BY DEF Init, Running
  <1>3. /\ Ids(<<>>) = {} /\ Rising(<<>>) /\ \A o : Waiting(o, <<>>) = {}
    BY DEF Ids, Rising, Waiting
  <1>4. WireInv /\ QueuedInv /\ HandledInv
    BY <1>2, <1>3 DEF WireInv, QueuedInv, HandledInv
  <1>5. \A o \in Ordered : QueueOf(o) \in AllQueues
    BY <1>1 DEF TypeOK, Ordered, Objects, QueueOf, AllQueues
  <1>6. \A o \in Ordered : PendingFor(o) = {}
    BY <1>2, <1>3, <1>5 DEF PendingFor
  <1>7. Delivery!Init
    BY <1>2, <1>6 DEF Delivery!Init
  <1> QED BY <1>1, <1>4, <1>7 DEF OrderInv

-----------------------------------------------------------------------------
\* Most steps do nothing that OrderedDelivery tells apart from a failure.

Quiet ==
  /\ UNCHANGED <<wire, queue, sent>>
  /\ Running' = Running /\ \A t \in Running : cur'[t] = cur[t]
  /\ \A o \in Ordered : QueueOf(o)' = QueueOf(o)
  /\ ErrorStays

LEMMA QuietStep ==
  ASSUME OrderInv, Quiet, TypeOK'
  PROVE  OrderInv' /\ [Delivery!Next]_(Delivery!vars)
  <1>1. /\ UNCHANGED <<wire, queue, sent>>
        /\ Running' = Running /\ \A t \in Running : cur'[t] = cur[t]
        /\ \A o \in Ordered : QueueOf(o)' = QueueOf(o)
        /\ last_error # "none" => last_error' # "none"
    BY DEF Quiet, ErrorStays
  <1>2. WireInv'
    BY <1>1 DEF OrderInv, WireInv
  <1>3. QueuedInv'
    BY <1>1 DEF OrderInv, QueuedInv
  <1>4. HandledInv'
    BY <1>1 DEF OrderInv, HandledInv
  <1>5. PendingOf' = PendingOf
    BY <1>1 DEF PendingOf, PendingFor
  <1>6. Handling' = Handling
    BY <1>1 DEF Handling
  <1>7. [Delivery!Next]_(Delivery!vars)
    BY <1>1, <1>5, <1>6 DEF Delivery!Next, Delivery!Fail, Delivery!vars, PendingOf, Handling
  <1> QED BY <1>2, <1>3, <1>4, <1>7 DEF OrderInv

LEMMA RunningMove ==
  ASSUME TypeOK, NEW t \in Threads, NEW x \in Places \ {"handler", "perr"},
         pc[t] \notin {"handler", "perr"},
         \/ pc' = [pc EXCEPT ![t] = x]
         \/ pc' = Broadcast([pc EXCEPT ![t] = x])
         \/ pc' = Broadcast(pc)
  PROVE  Running' = Running
  BY DEF TypeOK, Broadcast, Running

LEMMA QuietMoves ==
  ASSUME TypeOK, NEW t \in Threads, Thread(t),
         ~QueueEvent(t), ~QueueEventFails(t), ~DispatchEvent(t), ~DiscardEvent(t),
         ~HandlerReturns(t), ~ProtocolError(t)
  PROVE  Quiet
  <1>0. /\ QueueOf(display)' = QueueOf(display)
        /\ UNCHANGED proxy_queue => \A o \in Ordered : QueueOf(o)' = QueueOf(o)
    BY DEF QueueOf
  <1>1. CASE \E p \in Proxies, q \in Queues : SetQueue(t, p, q)
    <2>1. PICK p \in Movable, q \in Queues :
             /\ proxy_queue' = [proxy_queue EXCEPT ![p] = q]
             /\ UNCHANGED <<wire, queue, sent, pc, cur, last_error>>
      BY <1>1 DEF SetQueue
    <2>2. \A o \in Ordered : QueueOf(o)' = QueueOf(o)
      BY <2>1 DEF QueueOf, Ordered, Objects, TypeOK
    <2> QED BY <2>1, <2>2 DEF Quiet, Running, ErrorStays
  <1>2. CASE HandlerSeesError(t)
    <2>1. Running' = Running
      BY <1>2 DEF HandlerSeesError, TypeOK, Running
    <2> QED BY <1>0, <1>2, <2>1 DEF HandlerSeesError, Quiet, ErrorStays
  <1>3. ASSUME ~\E p \in Proxies, q \in Queues : SetQueue(t, p, q), ~HandlerSeesError(t)
        PROVE  /\ UNCHANGED <<wire, queue, sent, cur, proxy_queue>> /\ ErrorStays
               /\ Running' = Running
    <2> USE DEF Places, Announced, Sleeping, ErrorStays
    <2>1. CASE PrepareReadQueue(t) \/ DispatchQueue(t) \/ DispatchQueuePending(t)
               \/ Flush(t) \/ PollOut(t) \/ PollIn(t) \/ PollFails(t)
      <3>1. /\ UNCHANGED <<wire, queue, sent, cur, proxy_queue>> /\ ErrorStays
            /\ pc[t] \notin {"handler", "perr"}
        BY <2>1 DEF PrepareReadQueue, DispatchQueue, DispatchQueuePending, Flush, FlushGoesOn,
                    FlushWouldBlock, FlushFails, FatalError, PollOut, PollIn, PollFails
      <3>2. PICK x \in {"prepared", "dispatch", "flush", "pollin", "pollout", "cancel", "read"} :
               \/ pc' = [pc EXCEPT ![t] = x]
               \/ pc' = Broadcast([pc EXCEPT ![t] = x])
        BY <2>1 DEF PrepareReadQueue, DispatchQueue, DispatchQueuePending, Flush, FlushGoesOn,
                    FlushWouldBlock, FlushFails, FatalError, WakeupThreads, PollOut, PollIn,
                    PollFails
      <3> QED BY <3>1, <3>2, RunningMove
    <2>2. CASE FlushBreaks(t)
      <3>1. /\ UNCHANGED <<wire, queue, sent, cur, proxy_queue>> /\ ErrorStays
            /\ pc' = Broadcast(pc) /\ pc[t] \in {"idle", "prepared"}
        BY <2>2 DEF FlushBreaks, FatalError, WakeupThreads
      <3> QED BY <3>1, RunningMove
    <2>3. CASE CancelRead(t) \/ ReadEvents(t)
      <3>1. /\ UNCHANGED <<wire, queue, sent, cur, proxy_queue>> /\ ErrorStays
            /\ pc[t] \notin {"handler", "perr"}
        BY <2>3 DEF CancelRead, ReadEvents, ReadAfterError, ReadSleeps, ReadData, ReadNothing,
                    ReadFails, LastReader, ReadCalled, FatalError
      <3>2. PICK x \in {"failed", "idle", "dispatch", "waiting", "reading"} :
               \/ pc' = [pc EXCEPT ![t] = x]
               \/ pc' = Broadcast([pc EXCEPT ![t] = x])
        BY <2>3 DEF CancelRead, ReadEvents, ReadAfterError, ReadSleeps, ReadData, ReadNothing,
                    ReadFails, LastReader, FatalError, WakeupThreads, Withdraw, AfterRead
      <3> QED BY <3>1, <3>2, RunningMove
    <2>4. CASE ReadDone(t) \/ SpuriousWakeup(t) \/ Sleep(t) \/ DispatchReturns(t)
      <3>1. /\ UNCHANGED <<wire, queue, sent, cur, proxy_queue>> /\ ErrorStays
            /\ pc[t] \notin {"handler", "perr"}
        BY <2>4 DEF ReadDone, SpuriousWakeup, Sleep, SleepAgain, SleepOver, DispatchReturns,
                    AtDispatch
      <3>2. PICK x \in {"failed", "idle", "dispatch", "waiting", "woken"} :
               \/ pc' = [pc EXCEPT ![t] = x]
               \/ pc' = Broadcast([pc EXCEPT ![t] = x])
        BY <2>4 DEF ReadDone, WakeupThreads, SpuriousWakeup, Sleep, SleepAgain, SleepOver,
                    DispatchReturns, AfterRead
      <3> QED BY <3>1, <3>2, RunningMove
    <2> QED BY <1>3, <2>1, <2>2, <2>3, <2>4 DEF Thread, Call, Sort, Dispatch
  <1> QED BY <1>0, <1>1, <1>2, <1>3 DEF Quiet

-----------------------------------------------------------------------------
\* The server sends

LEMMA PendingTyped ==
  ASSUME TypeOK, NEW o \in Ordered
  PROVE  /\ QueueOf(o) \in AllQueues
         /\ PendingOf[o] = Waiting(o, queue[QueueOf(o)]) \cup Waiting(o, wire)
         /\ PendingOf[o] \subseteq Nat
  <1>1. QueueOf(o) \in AllQueues
    BY QueueAssumption DEF TypeOK, Ordered, Objects, QueueOf, AllQueues
  <1>2. queue[QueueOf(o)] \in Seq(Events) /\ wire \in Seq(Events)
    BY <1>1 DEF TypeOK
  <1>3. PendingOf[o] = Waiting(o, queue[QueueOf(o)]) \cup Waiting(o, wire)
    BY DEF PendingOf, PendingFor
  <1> QED BY <1>1, <1>2, <1>3, IdsAreNumbers

LEMMA SendStep ==
  ASSUME OrderInv, TypeOK', NEW o \in Objects, NEW k \in Kinds, ServerSends(o, k)
  PROVE  OrderInv' /\ [Delivery!Next]_(Delivery!vars)
  <1> DEFINE n == sent + 1
             e == [obj |-> o, kind |-> k, id |-> sent']
  <1>0. sent' = n /\ e.id = n /\ e \in Events
    BY DEF OrderInv, TypeOK, ServerSends, Events
  <1>1. /\ TypeOK /\ sent \in Nat /\ sent < MaxEvents /\ sent' = n /\ n \in 1 .. MaxEvents
        /\ wire \in Seq(Events) /\ e \in Events /\ wire' = Append(wire, e)
        /\ UNCHANGED <<queue, cur, pc, proxy_queue, last_error>>
    BY <1>0, BoundAssumption DEF OrderInv, TypeOK, ServerSends
  <1>2. e.id = n /\ e.obj = o /\ e.kind = k
    BY <1>0
  <1> HIDE DEF e
  <1>3. Ids(wire) \subseteq Nat /\ \A m \in Ids(wire) : m < n
    <2>1. Ids(wire) \subseteq Nat
      BY <1>1, IdsAreNumbers
    <2>2. \A m \in Ids(wire) : m <= sent
      BY DEF OrderInv, WireInv
    <2> QED BY <1>1, <2>1, <2>2
  <1>4. Ids(wire') = Ids(wire) \cup {n} /\ Rising(wire')
    BY <1>1, <1>2, <1>3, IdsAppend DEF OrderInv, WireInv
  <1>5. \A x \in Objects : Waiting(x, wire') = Waiting(x, wire)
                                               \cup IF IsFor(e, x) THEN {n} ELSE {}
    BY <1>1, <1>2, IdsAppend
  <1>6. WireInv'
    BY <1>1, <1>3, <1>4 DEF WireInv, OrderInv
  <1>7. ASSUME NEW q \in AllQueues, NEW m \in Ids(queue[q])
        PROVE  m < n /\ m <= n /\ \A w \in Ids(wire') : m < w
    <2>1. m \in Nat /\ m <= sent /\ \A w \in Ids(wire) : m < w
      BY <1>1, IdsAreNumbers DEF OrderInv, QueuedInv, TypeOK
    <2> QED BY <1>1, <1>4, <2>1
  <1>8. \A x \in Ordered : QueueOf(x)' = QueueOf(x)
    BY <1>1 DEF QueueOf
  <1>9. QueuedInv'
    BY <1>1, <1>7, <1>8 DEF OrderInv, QueuedInv
  <1>10. Running' = Running /\ Running \subseteq Threads
    BY <1>1 DEF Running
  <1>11. ASSUME NEW t \in Running
         PROVE  cur[t].id <= n /\ \A w \in Ids(wire') : cur[t].id < w
    <2>1. cur[t].id \in Nat /\ cur[t].id <= sent /\ \A w \in Ids(wire) : cur[t].id < w
      BY <1>1, <1>10 DEF OrderInv, HandledInv, TypeOK, Events
    <2> QED BY <1>1, <1>4, <2>1
  <1>12. HandledInv'
    BY <1>1, <1>10, <1>11 DEF OrderInv, HandledInv
  <1>13. Handling' = Handling
    BY <1>1, <1>10 DEF Handling
  <1>14. ASSUME NEW x \in Ordered
         PROVE  PendingOf[x]' = PendingOf[x] \cup IF IsFor(e, x) THEN {n} ELSE {}
    <2>1. PendingOf[x]' = Waiting(x, queue'[QueueOf(x)]) \cup Waiting(x, wire')
      BY <1>8 DEF PendingOf, PendingFor
    <2>2. PendingOf[x] = Waiting(x, queue[QueueOf(x)]) \cup Waiting(x, wire)
      BY <1>1, PendingTyped
    <2> QED BY <1>1, <1>5, <2>1, <2>2 DEF Ordered
  <1>15. \/ PendingOf' = PendingOf
         \/ \E x \in Ordered : PendingOf' = [PendingOf EXCEPT ![x] = @ \cup {n}]
    <2>1. PendingOf' = [x \in Ordered |-> PendingOf[x]']
      BY DEF PendingOf
    <2>2. CASE o \in Ordered /\ k \in {"event", "error"}
      <3>1. \A x \in Ordered : PendingOf[x]' = PendingOf[x] \cup IF x = o THEN {n} ELSE {}
        BY <1>2, <1>14, <2>2 DEF IsFor
      <3>2. PendingOf = [x \in Ordered |-> PendingOf[x]]
        BY DEF PendingOf
      <3>3. PendingOf' = [PendingOf EXCEPT ![o] = @ \cup {n}]
        BY <2>1, <2>2, <3>1, <3>2
      <3> QED BY <2>2, <3>3
    <2>3. CASE ~(o \in Ordered /\ k \in {"event", "error"})
      <3>1. \A x \in Ordered : PendingOf[x]' = PendingOf[x]
        BY <1>2, <1>14, <2>3 DEF IsFor
      <3> QED BY <2>1, <3>1 DEF PendingOf
    <2> QED BY <2>2, <2>3
  <1>16. Delivery!Send
    <2>1. \E m \in 1 .. MaxEvents :
             /\ m > sent /\ sent' = m
             /\ \/ PendingOf' = PendingOf
                \/ \E x \in Ordered : PendingOf' = [PendingOf EXCEPT ![x] = @ \cup {m}]
      BY <1>1, <1>15
    <2>2. UNCHANGED <<Handling, last_error # "none">>
      BY <1>1, <1>13
    <2> QED BY <2>1, <2>2 DEF Delivery!Send, PendingOf, Handling
  <1> QED BY <1>6, <1>9, <1>12, <1>16 DEF OrderInv, Delivery!Next

-----------------------------------------------------------------------------
\* queue_event

LEMMA QueueEventStep ==
  ASSUME OrderInv, TypeOK', NEW t \in Threads, QueueEvent(t)
  PROVE  OrderInv' /\ [Delivery!Next]_(Delivery!vars)
  <1> DEFINE e == Head(wire)
             d == Destination(e)
  <1>1. /\ TypeOK /\ wire \in Seq(Events) /\ wire # <<>> /\ wire' = Tail(wire)
        /\ e.kind # "malformed"
        /\ queue' = IF e.kind = "unknown" THEN queue ELSE [queue EXCEPT ![d] = Append(@, e)]
        /\ UNCHANGED <<sent, cur, pc, proxy_queue, last_error>>
    BY DEF OrderInv, TypeOK, QueueEvent
  <1>2. /\ e \in Events /\ e.id \in Ids(wire) /\ \A m \in Ids(wire) : e.id <= m
        /\ Ids(wire') = Ids(wire) \ {e.id} /\ Rising(wire')
        /\ \A o : /\ Waiting(o, wire') = Waiting(o, wire) \ {e.id}
                  /\ e.id \in Waiting(o, wire) <=> IsFor(e, o)
    BY <1>1, IdsTail DEF OrderInv, WireInv
  <1>3. /\ e.obj \in Objects /\ e.kind \in Kinds /\ e.id \in Nat
        /\ d \in AllQueues /\ d = QueueOf(e.obj)
    BY <1>1, <1>2 DEF Events, Destination, QueueOf, TypeOK, AllQueues, Objects
  <1> HIDE DEF e, d
  <1>4. Ids(wire) \subseteq Nat /\ sent \in Nat
    BY <1>1, IdsAreNumbers DEF TypeOK
  <1>5. WireInv'
    BY <1>1, <1>2 DEF OrderInv, WireInv
  <1>6. \A o \in Ordered : QueueOf(o)' = QueueOf(o)
    BY <1>1 DEF QueueOf
  <1>7. Running' = Running /\ Running \subseteq Threads
    BY <1>1 DEF Running
  <1>8. Handling' = Handling
    BY <1>1, <1>7 DEF Handling
  <1>9. CASE e.kind = "unknown"
    <2>1. queue' = queue
      BY <1>1, <1>9
    <2>2. QueuedInv'
      BY <1>1, <1>2, <1>6, <2>1 DEF OrderInv, QueuedInv
    <2>3. HandledInv'
      BY <1>1, <1>2, <1>7, <2>1 DEF OrderInv, HandledInv
    <2>4. \A o : Waiting(o, wire') = Waiting(o, wire)
      BY <1>2, <1>9 DEF IsFor
    <2>5. PendingOf' = PendingOf
      BY <1>6, <2>1, <2>4 DEF PendingOf, PendingFor
    <2> QED BY <1>1, <1>5, <1>8, <2>2, <2>3, <2>5
            DEF OrderInv, Delivery!vars, PendingOf, Handling
  <1>10. CASE e.kind # "unknown"
    <2>1. /\ queue \in [AllQueues -> Seq(Events)]
          /\ queue' = [queue EXCEPT ![d] = Append(@, e)]
          /\ e.kind \in {"event", "error"}
      BY <1>1, <1>3, <1>10 DEF TypeOK, Kinds
    <2>2. /\ queue'[d] = Append(queue[d], e) /\ queue[d] \in Seq(Events)
          /\ \A q \in AllQueues \ {d} : queue'[q] = queue[q]
      BY <1>3, <2>1
    <2>3. \A q \in AllQueues : /\ Ids(queue[q]) \subseteq Nat
                               /\ \A m \in Ids(queue[q]) : m < e.id
      BY <1>2, <2>1, IdsAreNumbers DEF OrderInv, QueuedInv
    <2>4. /\ Ids(queue'[d]) = Ids(queue[d]) \cup {e.id} /\ Rising(queue'[d])
          /\ \A o : Waiting(o, queue'[d]) = Waiting(o, queue[d])
                                            \cup IF IsFor(e, o) THEN {e.id} ELSE {}
      BY <1>2, <1>3, <2>2, <2>3, IdsAppend DEF OrderInv, QueuedInv
    <2>5. \A m \in Ids(wire') : e.id < m
      BY <1>2, <1>3, <1>4
    <2>6. e.id <= sent
      BY <1>2 DEF OrderInv, WireInv
    <2>7. ASSUME NEW q \in AllQueues
          PROVE  /\ Rising(queue'[q])
                 /\ \A m \in Ids(queue'[q]) : m <= sent /\ \A n \in Ids(wire') : m < n
                 /\ \A r \in AllQueues \ {q} : Ids(queue'[r]) \cap Ids(queue'[q]) = {}
      <3>1. /\ Rising(queue[q])
            /\ \A m \in Ids(queue[q]) : m <= sent /\ \A n \in Ids(wire) : m < n
            /\ \A r \in AllQueues \ {q} : Ids(queue[r]) \cap Ids(queue[q]) = {}
        BY DEF OrderInv, QueuedInv
      <3>2. \A r \in AllQueues : e.id \notin Ids(queue[r])
        BY <1>3, <2>3
      <3>3. CASE q = d
        <4>1. \A m \in Ids(queue'[q]) : m \in Ids(queue[q]) \/ m = e.id
          BY <2>4, <3>3
        <4>2. \A r \in AllQueues \ {q} : Ids(queue'[r]) = Ids(queue[r])
          BY <2>2, <3>3
        <4> QED BY <1>2, <2>4, <2>5, <2>6, <3>1, <3>2, <3>3, <4>1, <4>2
      <3>4. CASE q # d
        <4>1. queue'[q] = queue[q]
          BY <2>2, <3>4
        <4>2. \A r \in AllQueues \ {q} : \/ Ids(queue'[r]) = Ids(queue[r])
                                         \/ Ids(queue'[r]) = Ids(queue[r]) \cup {e.id}
          BY <2>2, <2>4
        <4> QED BY <1>2, <3>1, <3>2, <4>1, <4>2
      <3> QED BY <3>3, <3>4
    <2>8. ASSUME NEW q \in AllQueues, NEW i \in 1 .. Len(queue'[q])
          PROVE  /\ queue'[q][i].kind \in {"event", "error"}
                 /\ queue'[q][i].obj \in Ordered => QueueOf(queue'[q][i].obj) = q
      <3>1. CASE q # d
        BY <2>2, <2>8, <3>1 DEF OrderInv, QueuedInv
      <3>2. CASE q = d
        <4>1. CASE i = Len(queue[d]) + 1
          BY <1>3, <2>1, <2>2, <3>2, <4>1
        <4>2. CASE i # Len(queue[d]) + 1
          <5>1. i \in 1 .. Len(queue[d]) /\ queue'[d][i] = queue[d][i]
            BY <2>2, <2>8, <3>2, <4>2
          <5> QED BY <1>3, <3>2, <5>1 DEF OrderInv, QueuedInv
        <4> QED BY <4>1, <4>2
      <3> QED BY <3>1, <3>2
    <2>9. QueuedInv'
      BY <1>1, <1>6, <2>7, <2>8 DEF QueuedInv
    <2>10. ASSUME NEW u \in Running
           PROVE  /\ cur[u].id <= sent /\ \A n \in Ids(wire') : cur[u].id < n
                  /\ \A q \in AllQueues : cur[u].id \notin Ids(queue'[q])
      <3>1. /\ cur[u].id \in Nat /\ cur[u].id <= sent
            /\ \A n \in Ids(wire) : cur[u].id < n
            /\ \A q \in AllQueues : cur[u].id \notin Ids(queue[q])
        BY <1>1, <1>7 DEF OrderInv, HandledInv, TypeOK, Events
      <3>2. cur[u].id # e.id
        BY <1>2, <1>3, <3>1
      <3> QED BY <1>2, <2>2, <2>4, <3>1, <3>2
    <2>11. HandledInv'
      BY <1>1, <1>7, <2>10 DEF OrderInv, HandledInv
    <2>12. ASSUME NEW o \in Ordered PROVE PendingFor(o)' = PendingFor(o)
      <3>1. PendingFor(o)' = Waiting(o, queue'[QueueOf(o)]) \cup Waiting(o, wire')
        BY <1>6 DEF PendingFor
      <3>2. QueueOf(o) \in AllQueues
        BY <1>1, PendingTyped
      <3>3. CASE IsFor(e, o)
        <4>1. QueueOf(o) = d
          BY <1>3, <3>3 DEF IsFor
        <4> QED BY <1>2, <2>4, <3>1, <3>3, <4>1 DEF PendingFor
      <3>4. CASE ~IsFor(e, o)
        <4>1. Waiting(o, wire') = Waiting(o, wire)
          BY <1>2, <3>4
        <4>2. Waiting(o, queue'[QueueOf(o)]) = Waiting(o, queue[QueueOf(o)])
          BY <2>2, <2>4, <3>2, <3>4
        <4> QED BY <3>1, <4>1, <4>2 DEF PendingFor
      <3> QED BY <3>3, <3>4
    <2>13. PendingOf' = PendingOf
      BY <2>12 DEF PendingOf
    <2> QED BY <1>1, <1>5, <1>8, <2>9, <2>11, <2>13
            DEF OrderInv, Delivery!vars, PendingOf, Handling
  <1> QED BY <1>9, <1>10

LEMMA QueueEventFailsStep ==
  ASSUME OrderInv, TypeOK', NEW t \in Threads, QueueEventFails(t)
  PROVE  OrderInv' /\ [Delivery!Next]_(Delivery!vars)
  <1> DEFINE e == Head(wire)
  <1>1. /\ TypeOK /\ wire \in Seq(Events) /\ wire # <<>> /\ wire' = Tail(wire)
        /\ e.kind = "malformed" /\ pc[t] = "reading"
        /\ UNCHANGED <<sent, cur, queue, proxy_queue>>
    BY DEF OrderInv, TypeOK, QueueEventFails
  <1>2. /\ Ids(wire') = Ids(wire) \ {e.id} /\ Rising(wire')
        /\ \A o : /\ Waiting(o, wire') = Waiting(o, wire) \ {e.id}
                  /\ e.id \in Waiting(o, wire) <=> IsFor(e, o)
    BY <1>1, IdsTail DEF OrderInv, WireInv
  <1>3. \A o : Waiting(o, wire') = Waiting(o, wire)
    BY <1>1, <1>2 DEF IsFor
  <1>4. /\ last_error' # "none"
        /\ \/ pc' = [pc EXCEPT ![t] = "failed"]
           \/ pc' = Broadcast([pc EXCEPT ![t] = "failed"])
    BY DEF QueueEventFails, FatalError, WakeupThreads, AfterRead
  <1>5. Running' = Running
    BY <1>1, <1>4, RunningMove DEF Places
  <1>6. \A o \in Ordered : QueueOf(o)' = QueueOf(o)
    BY <1>1 DEF QueueOf
  <1>7. WireInv'
    BY <1>1, <1>2 DEF OrderInv, WireInv
  <1>8. QueuedInv'
    BY <1>1, <1>2, <1>6 DEF OrderInv, QueuedInv
  <1>9. HandledInv'
    BY <1>1, <1>2, <1>5 DEF OrderInv, HandledInv
  <1>10. PendingOf' = PendingOf
    BY <1>1, <1>3, <1>6 DEF PendingOf, PendingFor
  <1>11. Handling' = Handling
    BY <1>1, <1>5 DEF Handling
  <1>12. Delivery!Fail
    BY <1>1, <1>4, <1>10, <1>11 DEF Delivery!Fail, PendingOf, Handling
  <1> QED BY <1>7, <1>8, <1>9, <1>12 DEF OrderInv, Delivery!Next

-----------------------------------------------------------------------------
\* dispatch_event takes the first event of queue q.

Takes(t, q) ==
  /\ q \in AllQueues /\ queue[q] # <<>>
  /\ queue' = [queue EXCEPT ![q] = Tail(@)]
  /\ last_error = "none" /\ pc[t] \in {"dispatch", "dispatch_own"}
  /\ UNCHANGED <<wire, sent, proxy_queue, last_error>>

\* What is known of that event e
Taken(q, e) ==
  /\ e \in Events
  /\ e.id <= sent /\ \A n \in Ids(wire) : e.id < n
  /\ e.id \in Ids(queue[q]) /\ \A r \in AllQueues : e.id \notin Ids(queue'[r])
  /\ \A r \in AllQueues : Ids(queue'[r]) \subseteq Ids(queue[r])
  /\ WireInv' /\ QueuedInv'
  /\ \A o \in Ordered : PendingOf'[o] = IF o = e.obj THEN PendingOf[o] \ {e.id}
                                        ELSE PendingOf[o]
  /\ e.obj \in Ordered => Delivery!IsNext(e.obj, e.id)

LEMMA TakesFirst ==
  ASSUME OrderInv, TypeOK', NEW t \in Threads, NEW q, Takes(t, q)
  PROVE  Taken(q, Head(queue[q]))
  <1> DEFINE e == Head(queue[q])
             z == Tail(queue[q])
  <1>1. /\ TypeOK /\ q \in AllQueues /\ queue[q] \in Seq(Events) /\ queue[q] # <<>>
        /\ Rising(queue[q]) /\ wire \in Seq(Events) /\ sent \in Nat
        /\ queue'[q] = z /\ \A r \in AllQueues \ {q} : queue'[r] = queue[r]
        /\ UNCHANGED <<wire, sent, proxy_queue, last_error>>
    BY DEF OrderInv, TypeOK, QueuedInv, Takes
  <1>2. e = queue[q][1] /\ 1 \in 1 .. Len(queue[q])
    BY <1>1
  <1>3. /\ e \in Events /\ e.id \in Ids(queue[q]) /\ \A m \in Ids(queue[q]) : e.id <= m
        /\ Ids(z) = Ids(queue[q]) \ {e.id} /\ Rising(z)
        /\ \A o : /\ Waiting(o, z) = Waiting(o, queue[q]) \ {e.id}
                  /\ e.id \in Waiting(o, queue[q]) <=> IsFor(e, o)
    BY <1>1, IdsTail
  <1>4. Len(z) = Len(queue[q]) - 1 /\ \A i \in 1 .. Len(z) : z[i] = queue[q][i + 1]
    BY <1>1
  <1> HIDE DEF z
  <1>5. e.kind \in {"event", "error"} /\ (e.obj \in Ordered => QueueOf(e.obj) = q)
    BY <1>1, <1>2 DEF OrderInv, QueuedInv
  <1> HIDE DEF e
  <1>6. e.id <= sent /\ \A n \in Ids(wire) : e.id < n
    BY <1>1, <1>3 DEF OrderInv, QueuedInv
  <1>7. /\ \A r \in AllQueues : e.id \notin Ids(queue'[r])
        /\ \A r \in AllQueues : Ids(queue'[r]) \subseteq Ids(queue[r])
    BY <1>1, <1>3 DEF OrderInv, QueuedInv
  <1>8. WireInv'
    BY <1>1 DEF OrderInv, WireInv
  <1>9. \A o \in Ordered : QueueOf(o)' = QueueOf(o)
    BY <1>1 DEF QueueOf
  <1>10. QueuedInv'
    <2>1. ASSUME NEW r \in AllQueues
          PROVE  /\ Rising(queue'[r])
                 /\ \A m \in Ids(queue'[r]) : m <= sent /\ \A n \in Ids(wire') : m < n
                 /\ \A x \in AllQueues \ {r} : Ids(queue'[x]) \cap Ids(queue'[r]) = {}
      BY <1>1, <1>3, <1>7 DEF OrderInv, QueuedInv
    <2>2. ASSUME NEW r \in AllQueues, NEW i \in 1 .. Len(queue'[r])
          PROVE  /\ queue'[r][i].kind \in {"event", "error"}
                 /\ queue'[r][i].obj \in Ordered => QueueOf(queue'[r][i].obj) = r
      <3>1. CASE r # q
        BY <1>1, <2>2, <3>1 DEF OrderInv, QueuedInv
      <3>2. CASE r = q
        <4>1. i + 1 \in 1 .. Len(queue[q]) /\ queue'[r][i] = queue[q][i + 1]
          BY <1>1, <1>4, <2>2, <3>2
        <4> QED BY <1>1, <3>2, <4>1 DEF OrderInv, QueuedInv
      <3> QED BY <3>1, <3>2
    <2> QED BY <1>1, <1>9, <2>1, <2>2 DEF QueuedInv
  <1>11. e.id \in Nat /\ e.id \notin Ids(wire)
    BY <1>1, <1>3, <1>6 DEF Events
  <1>12. ASSUME NEW o \in Ordered
         PROVE  PendingOf'[o] = IF o = e.obj THEN PendingOf[o] \ {e.id} ELSE PendingOf[o]
    <2>1. /\ QueueOf(o) \in AllQueues
          /\ PendingOf[o] = Waiting(o, queue[QueueOf(o)]) \cup Waiting(o, wire)
      BY <1>1, PendingTyped
    <2>2. PendingOf'[o] = Waiting(o, queue'[QueueOf(o)]) \cup Waiting(o, wire)
      BY <1>1, <1>9 DEF PendingOf, PendingFor
    <2>3. e.id \notin Waiting(o, wire)
      BY <1>1, <1>11, IdsAreNumbers
    <2>4. CASE o = e.obj
      BY <1>1, <1>3, <1>5, <2>1, <2>2, <2>3, <2>4
    <2>5. CASE o # e.obj /\ QueueOf(o) = q
      BY <1>1, <1>3, <2>1, <2>2, <2>5 DEF IsFor
    <2>6. CASE o # e.obj /\ QueueOf(o) # q
      BY <1>1, <2>1, <2>2, <2>6
    <2> QED BY <2>4, <2>5, <2>6
  <1>13. ASSUME e.obj \in Ordered PROVE Delivery!IsNext(e.obj, e.id)
    <2>1. PendingOf[e.obj] = Waiting(e.obj, queue[q]) \cup Waiting(e.obj, wire)
      BY <1>1, <1>5, <1>13, PendingTyped
    <2>2. e.id \in PendingOf[e.obj]
      BY <1>3, <1>5, <2>1 DEF IsFor
    <2>3. /\ Waiting(e.obj, queue[q]) \subseteq Ids(queue[q])
          /\ Waiting(e.obj, wire) \subseteq Ids(wire) /\ Ids(wire) \subseteq Nat
      BY <1>1, IdsAreNumbers
    <2>4. \A n \in PendingOf[e.obj] : e.id <= n
      BY <1>3, <1>6, <1>11, <2>1, <2>3
    <2> QED BY <2>2, <2>4 DEF Delivery!IsNext, PendingOf
  <1> QED BY <1>3, <1>6, <1>7, <1>8, <1>10, <1>12, <1>13 DEF e, Taken

LEMMA DispatchEventStep ==
  ASSUME OrderInv, TypeOK', NEW t \in Threads, DispatchEvent(t)
  PROVE  OrderInv' /\ [Delivery!Next]_(Delivery!vars)
  <1>1. PICK q \in Pending(t) : Takes(t, q) /\ cur' = [cur EXCEPT ![t] = Head(queue[q])]
    BY DEF DispatchEvent, Takes, AtDispatch, Pending
  <1> DEFINE e == Head(queue[q])
  <1>2. Taken(q, e)
    BY <1>1, TakesFirst
  <1>3. /\ TypeOK /\ cur \in [Threads -> Events] /\ cur'[t] = e
        /\ \A u \in Threads \ {t} : cur'[u] = cur[u]
        /\ pc' = [pc EXCEPT ![t] = "handler"] /\ pc \in [Threads -> Places]
        /\ q \in AllQueues /\ UNCHANGED <<wire, sent>> /\ last_error = "none"
        /\ last_error' = "none" /\ pc[t] \in {"dispatch", "dispatch_own"}
    BY <1>1 DEF DispatchEvent, OrderInv, TypeOK, Takes
  <1> HIDE DEF e
  <1>4. Running' = Running \cup {t} /\ t \notin Running /\ Running \subseteq Threads
    BY <1>3 DEF Running
  <1>5. HandledInv'
    <2>1. ASSUME NEW u \in Running'
          PROVE  /\ cur'[u].id <= sent /\ \A n \in Ids(wire) : cur'[u].id < n
                 /\ \A r \in AllQueues : cur'[u].id \notin Ids(queue'[r])
                 /\ \A w \in Running' \ {u} : cur'[w].id # cur'[u].id
      <3>1. \A w \in Running : cur[w].id # e.id
        BY <1>2, <1>3 DEF Taken, OrderInv, HandledInv
      <3>2. CASE u = t
        BY <1>2, <1>3, <1>4, <3>1, <3>2 DEF Taken
      <3>3. CASE u # t
        <4>1. u \in Running /\ cur'[u] = cur[u]
          BY <1>3, <1>4, <3>3
        <4> QED BY <1>2, <1>3, <1>4, <3>1, <4>1 DEF Taken, OrderInv, HandledInv
      <3> QED BY <3>2, <3>3
    <2> QED BY <1>3, <2>1 DEF HandledInv
  <1>6. Handling' = IF e.obj \in Ordered THEN Handling \cup {e.id} ELSE Handling
    BY <1>3, <1>4 DEF Handling
  <1>7. PendingOf' = [o \in Ordered |-> PendingOf'[o]] /\ PendingOf = [o \in Ordered |-> PendingOf[o]]
    BY DEF PendingOf
  <1>8. CASE e.obj \in Ordered
    <2>1. PendingOf' = [PendingOf EXCEPT ![e.obj] = @ \ {e.id}]
      BY <1>2, <1>7, <1>8 DEF Taken
    <2>2. e.id \in PendingOf[e.obj] /\ Delivery!IsNext(e.obj, e.id)
      BY <1>2, <1>8 DEF Taken, Delivery!IsNext, PendingOf
    <2>3. PICK o \in Ordered : o = e.obj
      BY <1>8, <2>2
    <2>4. Delivery!Start(o)
      BY <1>3, <1>6, <1>8, <2>1, <2>2, <2>3 DEF Delivery!Start, PendingOf, Handling
    <2>5. Delivery!Next
      BY <2>4 DEF Delivery!Next
    <2> QED BY <1>2, <1>5, <2>5 DEF Taken, OrderInv
  <1>9. CASE e.obj \notin Ordered
    <2>1. PendingOf' = PendingOf /\ Handling' = Handling
      BY <1>2, <1>6, <1>7, <1>9 DEF Taken
    <2>2. (last_error # "none")' = (last_error # "none")
      BY <1>3
    <2>3. UNCHANGED Delivery!vars
      BY <1>3, <2>1, <2>2 DEF Delivery!vars, PendingOf, Handling
    <2> QED BY <1>2, <1>5, <2>3 DEF Taken, OrderInv
  <1> QED BY <1>8, <1>9

LEMMA DiscardEventStep ==
  ASSUME OrderInv, TypeOK', NEW t \in Threads, DiscardEvent(t)
  PROVE  OrderInv' /\ [Delivery!Next]_(Delivery!vars)
  <1>1. PICK q \in Pending(t) : Takes(t, q)
    BY DEF DiscardEvent, Takes, AtDispatch, Pending
  <1> DEFINE e == Head(queue[q])
  <1>2. Taken(q, e)
    BY <1>1, TakesFirst
  <1>3. /\ TypeOK /\ UNCHANGED <<wire, sent, cur>> /\ last_error = "none"
        /\ last_error' = "none" /\ pc[t] \in {"dispatch", "dispatch_own"}
        /\ pc' = [pc EXCEPT ![t] = "dispatch_own"]
    BY <1>1 DEF DiscardEvent, OrderInv, Takes
  <1> HIDE DEF e
  <1>4. Running' = Running
    BY <1>3, RunningMove DEF Places
  <1>5. HandledInv'
    BY <1>2, <1>3, <1>4 DEF Taken, OrderInv, HandledInv
  <1>6. Handling' = Handling
    BY <1>3, <1>4 DEF Handling
  <1>7. PendingOf' = [o \in Ordered |-> PendingOf'[o]] /\ PendingOf = [o \in Ordered |-> PendingOf[o]]
    BY DEF PendingOf
  <1>8. CASE e.obj \in Ordered
    <2>1. PendingOf' = [PendingOf EXCEPT ![e.obj] = @ \ {e.id}]
      BY <1>2, <1>7, <1>8 DEF Taken
    <2>2. e.id \in PendingOf[e.obj] /\ Delivery!IsNext(e.obj, e.id)
      BY <1>2, <1>8 DEF Taken, Delivery!IsNext, PendingOf
    <2>3. PICK o \in Ordered : o = e.obj
      BY <1>8, <2>2
    <2>4. Delivery!Drop(o)
      BY <1>3, <1>6, <1>8, <2>1, <2>2, <2>3 DEF Delivery!Drop, PendingOf, Handling
    <2>5. Delivery!Next
      BY <2>4 DEF Delivery!Next
    <2> QED BY <1>2, <1>5, <2>5 DEF Taken, OrderInv
  <1>9. CASE e.obj \notin Ordered
    <2>1. PendingOf' = PendingOf
      BY <1>2, <1>7, <1>9 DEF Taken
    <2> QED BY <1>2, <1>3, <1>5, <1>6, <2>1 DEF Taken, OrderInv, Delivery!vars, PendingOf, Handling
  <1> QED BY <1>8, <1>9

-----------------------------------------------------------------------------
\* A handler has returned.

LEMMA HandlerOverStep ==
  ASSUME OrderInv, TypeOK', NEW t \in Threads, HandlerReturns(t) \/ ProtocolError(t)
  PROVE  OrderInv' /\ [Delivery!Next]_(Delivery!vars)
  <1>1. /\ TypeOK /\ UNCHANGED <<wire, sent, queue, proxy_queue>>
        /\ pc[t] \in {"handler", "perr"} /\ pc \in [Threads -> Places]
        /\ pc' = [pc EXCEPT ![t] = LoopOf(cur[t])]
        /\ LoopOf(cur[t]) \notin {"handler", "perr"}
        /\ cur \in [Threads -> Events] /\ cur' = [cur EXCEPT ![t] = NoEvent]
        /\ UNCHANGED last_error \/ last_error' = "EPROTO"
    BY DEF OrderInv, TypeOK, HandlerReturns, ProtocolError, LoopOf
  <1>2. /\ Running' = Running \ {t} /\ t \in Running /\ Running \subseteq Threads
        /\ \A u \in Running \ {t} : cur'[u] = cur[u]
    BY <1>1 DEF Running
  <1>3. \A o \in Ordered : QueueOf(o)' = QueueOf(o)
    BY <1>1 DEF QueueOf
  <1>4. WireInv' /\ QueuedInv'
    BY <1>1, <1>3 DEF OrderInv, WireInv, QueuedInv
  <1>5. HandledInv'
    BY <1>1, <1>2 DEF OrderInv, HandledInv
  <1>6. PendingOf' = PendingOf
    BY <1>1, <1>3 DEF PendingOf, PendingFor
  <1>7. \A u \in Running \ {t} : cur[u].id # cur[t].id
    BY <1>2 DEF OrderInv, HandledInv
  <1>8. Handling' = Handling \/ (cur[t].id \in Handling /\ Handling' = Handling \ {cur[t].id})
    <2>1. Handling' = {cur[u].id : u \in {w \in Running \ {t} : cur[w].obj \in Ordered}}
      BY <1>2 DEF Handling
    <2>2. CASE cur[t].obj \in Ordered
      BY <1>2, <1>7, <2>1, <2>2 DEF Handling
    <2>3. CASE cur[t].obj \notin Ordered
      BY <1>2, <2>1, <2>3 DEF Handling
    <2> QED BY <2>2, <2>3
  <1>9. [Delivery!Next]_(Delivery!vars)
    <2>1. CASE UNCHANGED last_error
      BY <1>1, <1>6, <1>8, <2>1
         DEF Delivery!Next, Delivery!Finish, Delivery!vars, PendingOf, Handling
    <2>2. CASE last_error' = "EPROTO"
      BY <1>1, <1>6, <1>8, <2>2 DEF Delivery!Next, Delivery!Fail, PendingOf, Handling
    <2> QED BY <1>1, <2>1, <2>2
  <1> QED BY <1>4, <1>5, <1>9 DEF OrderInv

-----------------------------------------------------------------------------
LEMMA DeliveryStep ==
  OrderInv /\ [Next]_vars => OrderInv' /\ [Delivery!Next]_(Delivery!vars)
  <1> SUFFICES ASSUME OrderInv, [Next]_vars
               PROVE  OrderInv' /\ [Delivery!Next]_(Delivery!vars)
    OBVIOUS
  <1>1. TypeOK /\ TypeOK'
    BY TypeStep DEF OrderInv
  <1>2. CASE UNCHANGED vars \/ ServerCloses
    <2>1. Quiet
      BY <1>2 DEF vars, ServerCloses, Quiet, Running, QueueOf, ErrorStays
    <2> QED BY <1>1, <2>1, QuietStep
  <1>3. ASSUME NEW o \in Objects, NEW k \in Kinds, ServerSends(o, k)
        PROVE  OrderInv' /\ [Delivery!Next]_(Delivery!vars)
    BY <1>1, <1>3, SendStep
  <1>4. ASSUME NEW t \in Threads, Thread(t)
        PROVE  OrderInv' /\ [Delivery!Next]_(Delivery!vars)
    BY <1>1, <1>4, QuietMoves, QuietStep, QueueEventStep, QueueEventFailsStep,
       DispatchEventStep, DiscardEventStep, HandlerOverStep
  <1> QED BY <1>2, <1>3, <1>4 DEF Next, Server

(* Every object that stays in its queue gets its messages in the order     *)
(* sent, each once and none after an error, for any number of threads that *)
(* read and dispatch (queue_event, dispatch_queue, dispatch_event).        *)
THEOREM DeliveryInOrder == Spec => DeliversInOrder
  <1>1. Spec => []OrderInv
    BY InitDelivers, DeliveryStep, PTL DEF Spec
  <1> QED BY <1>1, InitDelivers, DeliveryStep, PTL DEF Spec, DeliversInOrder, Delivery!Spec

-----------------------------------------------------------------------------
\* The inductive invariant: as long as the server has not answered a sync, no
\* event for its callback is anywhere, in the socket, in a queue or in the hands
\* of a thread, so that nobody can have run its listener.

Silent(s, c) == \A i \in 1 .. Len(s) : s[i].obj # c

NoAnswer(c) ==
  /\ Silent(wire, c)
  /\ \A q \in AllQueues : Silent(queue[q], c)
  /\ \A u \in Threads : cur[u].obj # c

RTypeOK ==
  /\ TypeOK
  /\ rt \in [Roundtrippers -> {"before", "synced", "moved", "loop", "again", "returned", "failed"}]
  /\ listening \subseteq Roundtrippers /\ done \subseteq Roundtrippers
  /\ unsent \subseteq Roundtrippers /\ asked \subseteq Roundtrippers

RoundtripInv ==
  /\ RTypeOK
  /\ unsent \cap asked = {}
  /\ \A t \in Roundtrippers :
        /\ rt[t] = "before" => t \notin unsent \cup asked
        /\ rt[t] = "before" \/ t \in unsent \cup asked => NoAnswer(Callback[t]) /\ t \notin done
        /\ rt[t] = "returned" => t \in done

LEMMA CallbackFacts ==
  ASSUME NEW t \in Roundtrippers
  PROVE  /\ t \in Threads /\ Callback[t] \in Proxies /\ Callback[t] # display
         /\ \A u \in Roundtrippers : Callback[u] = Callback[t] => u = t
  BY ThreadAssumption, QueueAssumption, RoundtripAssumption

LEMMA SilentAppend ==
  ASSUME NEW s \in Seq(Events), NEW e \in Events, NEW c, Silent(s, c), e.obj # c
  PROVE  Silent(Append(s, e), c)
  <1>1. /\ Len(Append(s, e)) = Len(s) + 1 /\ Len(s) \in Nat /\ Append(s, e)[Len(s) + 1] = e
        /\ \A i \in 1 .. Len(s) : Append(s, e)[i] = s[i]
    OBVIOUS
  <1> QED BY <1>1 DEF Silent

LEMMA SilentTail ==
  ASSUME NEW s \in Seq(Events), s # <<>>, NEW c, Silent(s, c)
  PROVE  Silent(Tail(s), c) /\ Head(s).obj # c /\ Head(s) \in Events
  <1>1. /\ Len(s) \in Nat \ {0} /\ Len(Tail(s)) = Len(s) - 1 /\ Head(s) = s[1]
        /\ \A i \in 1 .. Len(s) - 1 : Tail(s)[i] = s[i + 1]
        /\ \A i \in 1 .. Len(s) : s[i] \in Events
    OBVIOUS
  <1> QED BY <1>1 DEF Silent

-----------------------------------------------------------------------------
\* Threads move messages about and make none.

LEMMA ThreadsAnswerNothing ==
  ASSUME TypeOK, NEW t \in Threads, Thread(t), NEW c \in Proxies, NoAnswer(c)
  PROVE  NoAnswer(c)'
  <1>0. /\ wire \in Seq(Events) /\ queue \in [AllQueues -> Seq(Events)]
        /\ cur \in [Threads -> Events] /\ proxy_queue \in [Proxies -> Queues]
        /\ Silent(wire, c) /\ (\A q \in AllQueues : Silent(queue[q], c))
        /\ (\A u \in Threads : cur[u].obj # c) /\ NoEvent.obj # c
    BY QueueAssumption DEF TypeOK, NoAnswer, NoEvent
  <1>1. CASE UNCHANGED <<wire, queue, cur>>
    BY <1>0, <1>1 DEF NoAnswer
  <1>2. CASE QueueEvent(t)
    <2> DEFINE e == Head(wire)
    <2>1. /\ wire \in Seq(Events) /\ rem \in 0 .. Len(wire) /\ rem > 0
          /\ wire' = Tail(wire) /\ UNCHANGED cur
          /\ queue' = IF e.kind = "unknown" THEN queue
                      ELSE [queue EXCEPT ![Destination(e)] = Append(@, e)]
      BY <1>2 DEF QueueEvent, TypeOK
    <2>2. wire # <<>>
      BY <2>1
    <2>3. Silent(Tail(wire), c) /\ e.obj # c /\ e \in Events
      BY <1>0, <2>2, SilentTail
    <2> HIDE DEF e
    <2>4. \A q \in AllQueues : queue'[q] = queue[q] \/ queue'[q] = Append(queue[q], e)
      BY <1>0, <2>1
    <2>5. ASSUME NEW q \in AllQueues PROVE Silent(queue'[q], c)
      <3>1. Silent(Append(queue[q], e), c)
        BY <1>0, <2>3, SilentAppend
      <3> QED BY <1>0, <2>4, <3>1
    <2> QED BY <1>0, <2>1, <2>3, <2>5 DEF NoAnswer
  <1>3. CASE QueueEventFails(t)
    <2>1. /\ rem \in 0 .. Len(wire) /\ rem > 0
          /\ wire' = Tail(wire) /\ UNCHANGED <<cur, queue>>
      BY <1>3 DEF QueueEventFails, TypeOK
    <2>2. wire # <<>>
      BY <1>0, <2>1
    <2>3. Silent(Tail(wire), c)
      BY <1>0, <2>2, SilentTail
    <2> QED BY <1>0, <2>1, <2>3 DEF NoAnswer
  <1>4. CASE DispatchEvent(t) \/ DiscardEvent(t)
    <2>1. PICK q \in Pending(t) :
             /\ queue' = [queue EXCEPT ![q] = Tail(@)]
             /\ UNCHANGED cur \/ cur' = [cur EXCEPT ![t] = Head(queue[q])]
             /\ UNCHANGED wire
      BY <1>4 DEF DispatchEvent, DiscardEvent
    <2>2. q \in AllQueues /\ queue[q] # <<>>
      BY DEF Pending
    <2>3. Silent(Tail(queue[q]), c) /\ Head(queue[q]).obj # c
      BY <1>0, <2>2, SilentTail
    <2>4. \A r \in AllQueues : Silent(queue'[r], c)
      BY <1>0, <2>1, <2>2, <2>3
    <2>5. \A u \in Threads : cur'[u].obj # c
      BY <1>0, <2>1, <2>3
    <2> QED BY <1>0, <2>1, <2>4, <2>5 DEF NoAnswer
  <1>5. CASE HandlerReturns(t) \/ ProtocolError(t)
    <2>1. cur' = [cur EXCEPT ![t] = NoEvent] /\ UNCHANGED <<wire, queue>>
      BY <1>5 DEF HandlerReturns, ProtocolError
    <2> QED BY <1>0, <2>1 DEF NoAnswer
  <1>6. \/ UNCHANGED <<wire, queue, cur>> \/ QueueEvent(t) \/ QueueEventFails(t)
        \/ DispatchEvent(t) \/ DiscardEvent(t) \/ HandlerReturns(t) \/ ProtocolError(t)
    <2>1. CASE Call(t)
      BY <2>1 DEF Call, PrepareReadQueue, DispatchQueue, DispatchQueuePending, FlushBreaks,
                  SetQueue
    <2>2. CASE Flush(t) \/ PollOut(t) \/ PollIn(t) \/ PollFails(t) \/ CancelRead(t)
      BY <2>2 DEF Flush, FlushGoesOn, FlushWouldBlock, FlushFails, PollOut, PollIn, PollFails,
                  CancelRead
    <2>3. CASE ReadEvents(t) \/ SpuriousWakeup(t) \/ Sleep(t)
      BY <2>3 DEF ReadEvents, ReadAfterError, ReadSleeps, ReadData, ReadNothing, ReadFails,
                  SpuriousWakeup, Sleep, SleepAgain, SleepOver
    <2>4. CASE Sort(t)
      BY <2>4 DEF Sort, ReadDone
    <2>5. CASE Dispatch(t)
      BY <2>5 DEF Dispatch, DispatchReturns, HandlerSeesError
    <2> QED BY <2>1, <2>2, <2>3, <2>4, <2>5 DEF Thread
  <1> QED BY <1>1, <1>2, <1>3, <1>4, <1>5, <1>6

\* A message for another object is no answer either.
LEMMA SendingToOthers ==
  ASSUME TypeOK, NEW o \in Objects, NEW k \in Kinds, ServerSends(o, k),
         NEW c \in Proxies, NoAnswer(c), o # c
  PROVE  NoAnswer(c)'
  <1> DEFINE e == [obj |-> o, kind |-> k, id |-> sent']
  <1>1. /\ wire' = Append(wire, e) /\ UNCHANGED <<queue, cur>>
        /\ wire \in Seq(Events) /\ e \in Events /\ e.obj = o
    BY DEF ServerSends, TypeOK, Events
  <1> HIDE DEF e
  <1>2. Silent(wire', c)
    BY <1>1, SilentAppend DEF NoAnswer
  <1> QED BY <1>1, <1>2 DEF NoAnswer

-----------------------------------------------------------------------------
LEMMA RoundtripInit == RInit => RoundtripInv
  <1> SUFFICES ASSUME RInit PROVE RoundtripInv
    OBVIOUS
  <1>1. TypeOK
    BY TypeInit DEF RInit
  <1>2. /\ wire = <<>> /\ \A q \in AllQueues : queue[q] = <<>>
        /\ \A u \in Threads : cur[u].obj = display
    BY DEF RInit, Init, NoEvent
  <1>3. \A t \in Roundtrippers : NoAnswer(Callback[t])
    BY <1>2, CallbackFacts DEF NoAnswer, Silent
  <1> QED BY <1>1, <1>3 DEF RInit, RoundtripInv, RTypeOK

\* The threads' own steps: what they leave alone
LEMMA InsideStep ==
  ASSUME RoundtripInv, NEW t \in Threads, RFlush(t) \/ RDispatch(t) \/ RInside(t) \/ Loops(t)
  PROVE  /\ Thread(t) /\ UNCHANGED <<rt, listening>>
         /\ \/ UNCHANGED <<unsent, asked>>
            \/ unsent' = {} /\ asked' = asked \cup unsent
         /\ \/ UNCHANGED done
            \/ done' = done \cup {u \in listening : Callback[u] = cur[t].obj}
  <1>1. CASE RFlush(t)
    BY <1>1 DEF RFlush, Thread, Flush
  <1>2. CASE RDispatch(t)
    BY <1>2 DEF RDispatch, RHandler, Thread, Dispatch
  <1>3. CASE RInside(t)
    BY <1>3 DEF RInside, Thread
  <1>4. CASE Loops(t)
    BY <1>4 DEF Loops, Thread, Call
  <1> QED BY <1>1, <1>2, <1>3, <1>4

LEMMA InsideKeeps ==
  ASSUME RoundtripInv, NEW t \in Threads, RFlush(t) \/ RDispatch(t) \/ RInside(t) \/ Loops(t)
  PROVE  RoundtripInv'
  <1>1. /\ Thread(t) /\ UNCHANGED <<rt, listening>>
        /\ \/ UNCHANGED <<unsent, asked>>
           \/ unsent' = {} /\ asked' = asked \cup unsent
        /\ \/ UNCHANGED done
           \/ done' = done \cup {u \in listening : Callback[u] = cur[t].obj}
    BY InsideStep
  <1>2. TypeOK /\ TypeOK'
    BY <1>1, TypeStep DEF RoundtripInv, RTypeOK, Next
  <1>3. RTypeOK' /\ unsent' \cap asked' = {} /\ done \subseteq done'
        /\ unsent' \cup asked' = unsent \cup asked
    BY <1>1, <1>2 DEF RoundtripInv, RTypeOK
  <1>4. ASSUME NEW u \in Roundtrippers, NoAnswer(Callback[u])
        PROVE  NoAnswer(Callback[u])' /\ (u \in done' => u \in done)
    <2>1. NoAnswer(Callback[u])'
      BY <1>1, <1>2, <1>4, ThreadsAnswerNothing, CallbackFacts
    <2>2. Callback[u] # cur[t].obj
      BY <1>4 DEF NoAnswer
    <2> QED BY <1>1, <2>1, <2>2
  <1>5. ASSUME NEW u \in Roundtrippers
        PROVE  /\ rt'[u] = "before" => u \notin unsent' \cup asked'
               /\ rt'[u] = "before" \/ u \in unsent' \cup asked'
                     => NoAnswer(Callback[u])' /\ u \notin done'
               /\ rt'[u] = "returned" => u \in done'
    BY <1>1, <1>3, <1>4 DEF RoundtripInv
  <1> QED BY <1>3, <1>5 DEF RoundtripInv

LEMMA RoundtripKeeps ==
  ASSUME RoundtripInv, NEW t \in Roundtrippers, Roundtrip(t)
  PROVE  RoundtripInv'
  <1>0. /\ RTypeOK /\ t \in Threads
        /\ rt \in [Roundtrippers -> {"before", "synced", "moved", "loop", "again", "returned",
                                     "failed"}]
    BY CallbackFacts DEF RoundtripInv, RTypeOK
  <1>1. /\ UNCHANGED <<asked, done, wire, queue, cur>> /\ listening' \subseteq Roundtrippers
        /\ UNCHANGED unsent \/ (rt[t] = "before" /\ unsent' = unsent \cup {t})
    BY <1>0 DEF RTypeOK, Roundtrip, Sync, MoveCallback, AddListener, TestDone, LoopAgain,
                RoundtripReturns, DispatchQueue, vars
  <1>2. PICK x \in {"synced", "moved", "loop", "again", "returned", "failed"} :
           rt' = [rt EXCEPT ![t] = x] /\ (x = "returned" => t \in done)
    BY DEF Roundtrip, Sync, MoveCallback, AddListener, TestDone, LoopAgain, RoundtripReturns
  <1>3. TypeOK'
    <2>1. CASE MoveCallback(t)
      <3>1. Home[t] \in Queues /\ proxy_queue \in [Proxies -> Queues]
        BY <1>0, QueueAssumption DEF RTypeOK, TypeOK
      <3>2. proxy_queue' \in [Proxies -> Queues]
        BY <2>1, <3>1 DEF MoveCallback
      <3> QED BY <1>0, <2>1, <3>2 DEF MoveCallback, RTypeOK, TypeOK
    <2>2. CASE LoopAgain(t)
      BY <1>0, <2>2, TypeStep DEF LoopAgain, RTypeOK, Next, Thread, Call
    <2>3. CASE UNCHANGED vars
      BY <1>0, <2>3, TypeStep DEF RTypeOK
    <2> QED BY <2>1, <2>2, <2>3
            DEF Roundtrip, Sync, AddListener, TestDone, RoundtripReturns
  <1>4. RTypeOK' /\ unsent' \cap asked' = {}
    BY <1>0, <1>1, <1>2, <1>3 DEF RTypeOK, RoundtripInv
  <1>5. \A c : NoAnswer(c)' <=> NoAnswer(c)
    BY <1>1 DEF NoAnswer
  <1>6. ASSUME NEW u \in Roundtrippers
        PROVE  /\ rt'[u] = "before" => u \notin unsent' \cup asked'
               /\ rt'[u] = "before" \/ u \in unsent' \cup asked'
                     => NoAnswer(Callback[u])' /\ u \notin done'
               /\ rt'[u] = "returned" => u \in done'
    <2>1. CASE u = t
      BY <1>0, <1>1, <1>2, <1>5, <2>1 DEF RoundtripInv
    <2>2. CASE u # t
      BY <1>0, <1>1, <1>2, <1>5, <2>2 DEF RoundtripInv
    <2> QED BY <2>1, <2>2
  <1> QED BY <1>4, <1>6 DEF RoundtripInv

LEMMA ServerKeeps ==
  ASSUME RoundtripInv,
         \/ HangUp \/ (\E t \in Roundtrippers : Reply(t))
         \/ \E o \in Objects, k \in Kinds : OtherEvent(o, k)
  PROVE  RoundtripInv'
  <1>0. /\ TypeOK /\ TypeOK' /\ UNCHANGED <<rt, listening, done, unsent>>
        /\ asked' \subseteq asked
    <2>1. /\ UNCHANGED <<rt, listening, done, unsent>> /\ asked' \subseteq asked
      BY DEF HangUp, Reply, OtherEvent
    <2>2. [Next]_vars
      BY CallbackFacts DEF HangUp, Reply, OtherEvent, Next, Server, Objects, Kinds
    <2> QED BY <2>1, <2>2, TypeStep DEF RoundtripInv, RTypeOK
  <1>1. RTypeOK' /\ unsent' \cap asked' = {}
    BY <1>0 DEF RTypeOK, RoundtripInv
  <1>2. ASSUME NEW u \in Roundtrippers, NoAnswer(Callback[u]),
               rt[u] = "before" \/ u \in unsent \cup asked'
        PROVE  NoAnswer(Callback[u])'
    <2>1. CASE HangUp
      BY <1>2, <2>1 DEF HangUp, ServerCloses, NoAnswer
    <2>2. ASSUME NEW t \in Roundtrippers, Reply(t) PROVE NoAnswer(Callback[u])'
      <3>1. t # u
        BY <1>2, <2>2 DEF Reply, RoundtripInv
      <3>2. Callback[t] # Callback[u] /\ Callback[t] \in Objects /\ Callback[u] \in Proxies
        BY <3>1, CallbackFacts DEF Objects
      <3> QED BY <1>0, <1>2, <2>2, <3>2, SendingToOthers DEF Reply, Kinds
    <2>3. ASSUME NEW o \in Objects, NEW k \in Kinds, OtherEvent(o, k)
          PROVE  NoAnswer(Callback[u])'
      <3>1. o # Callback[u]
        BY <2>3, CallbackFacts DEF OtherEvent, ServerSends
      <3> QED BY <1>0, <1>2, <2>3, <3>1, CallbackFacts, SendingToOthers DEF OtherEvent
    <2> QED BY <2>1, <2>2, <2>3
  <1>3. ASSUME NEW u \in Roundtrippers
        PROVE  /\ rt'[u] = "before" => u \notin unsent' \cup asked'
               /\ rt'[u] = "before" \/ u \in unsent' \cup asked'
                     => NoAnswer(Callback[u])' /\ u \notin done'
               /\ rt'[u] = "returned" => u \in done'
    BY <1>0, <1>2 DEF RoundtripInv
  <1> QED BY <1>1, <1>3 DEF RoundtripInv

LEMMA RoundtripStep == RoundtripInv /\ [RNext]_allVars => RoundtripInv'
  <1> SUFFICES ASSUME RoundtripInv, [RNext]_allVars PROVE RoundtripInv'
    OBVIOUS
  <1>1. CASE UNCHANGED allVars
    <2>1. TypeOK'
      BY <1>1, TypeStep DEF RoundtripInv, RTypeOK, allVars
    <2>2. \A c : NoAnswer(c)' <=> NoAnswer(c)
      BY <1>1 DEF NoAnswer, allVars, vars
    <2> QED BY <1>1, <2>1, <2>2 DEF RoundtripInv, RTypeOK, allVars
  <1>2. CASE RNext
    BY <1>2, RoundtripKeeps, ServerKeeps, InsideKeeps DEF RNext
  <1> QED BY <1>1, <1>2

(* A roundtrip returns only after the server has answered its own sync,    *)
(* for any number of threads that make roundtrips, read for one another    *)
(* and dispatch one another's events (wl_display_roundtrip_queue).         *)
THEOREM RoundtripWaits == RSpec => []ReturnsAfterAnswer
  <1>1. RoundtripInv => ReturnsAfterAnswer
    BY DEF RoundtripInv, ReturnsAfterAnswer
  <1> QED BY <1>1, RoundtripInit, RoundtripStep, PTL DEF RSpec
=============================================================================
