----------------------------- MODULE Connection -----------------------------
(***************************************************************************)
(* One direction of a connection (connection.c): the sender's ring buffers *)
(* for bytes and for file descriptors, the Unix socket, and the receiver's *)
(* ring buffers, into which it reads what has come before it takes out     *)
(* whole messages.                                                         *)
(*                                                                         *)
(* Bytes are counted in words.  A word says of which message it is the how *)
(* manieth, and how many words and descriptors that message has, which the *)
(* code finds in the header and in the signature.                          *)
(***************************************************************************)
EXTENDS Integers, Sequences, SequencesExt

CONSTANTS
    N,           \* words, and descriptors, that a ring buffer holds
    Mod,         \* head and tail count modulo Mod (2^32 in the code)
    MaxFdsOut,   \* MAX_FDS_OUT: descriptors of one sendmsg
    Lengths,     \* lengths of messages
    FdCounts,    \* numbers of descriptors of a message
    MaxTried,    \* bound: messages that are sent
    Starts,      \* where head and tail of the empty buffers are at first
    Room,        \* words that fit into the socket
    SkipsFds     \* whether messages with descriptors come for zombies

ASSUME ConnectionAssumption ==
    /\ N \in Nat \ {0} /\ Mod \in Nat /\ Mod >= 2 * N /\ Mod % N = 0
    /\ MaxFdsOut \in 1 .. N
    /\ Lengths \subseteq Nat \ {0, 1} /\ FdCounts \subseteq 0 .. MaxFdsOut
    /\ MaxTried \in Nat /\ Room \in Nat \ {0}
    /\ Starts \subseteq 0 .. Mod - 1
    /\ SkipsFds \in BOOLEAN

VARIABLES
    tx,          \* connection->out, fds_out and want_flush of the sender
    sock,        \* the socket: words, and descriptors that come with them
    in, fds_in,  \* connection->in and fds_in of the receiver
    rerror,      \* errno of the receiver's failure, "" if there is none
    sfailed,     \* the sender has been told of a failure
    tried,       \* messages the sender has tried to send
    accepted,    \* those that went into its buffer and are not received yet
    last         \* the message received last

sender   == <<tx, sfailed, tried>>
receiver == <<in, fds_in, rerror, last>>
vars     == <<sender, sock, receiver, accepted>>

-----------------------------------------------------------------------------
(* struct wl_buffer                                                        *)
NoWord == <<>>

EmptyBuffer(i) == [data |-> [j \in 0 .. N - 1 |-> NoWord], head |-> i, tail |-> i]

MASK(i) == i % N

wl_buffer_size(b) == (b.head - b.tail) % Mod

(* memcpy to and from the array, from index i on                           *)
CopyIn(data, i, d) ==
    [j \in DOMAIN data |->
        IF j \in i .. i + Len(d) - 1 THEN d[j - i + 1] ELSE data[j]]

CopyOut(data, i, n) == [k \in 1 .. n |-> data[i + k - 1]]

(* d is not longer than the buffer.  What it overwrites is the caller's    *)
(* business.                                                               *)
wl_buffer_put(b, d) ==
    LET head == MASK(b.head)
        size == N - head
    IN  [b EXCEPT
            !.data = IF head + Len(d) <= N THEN CopyIn(@, head, d)
                     ELSE CopyIn(CopyIn(@, head, SubSeq(d, 1, size)), 0,
                                 SubSeq(d, size + 1, Len(d))),
            !.head = (@ + Len(d)) % Mod]

wl_buffer_copy(b, n) ==
    LET tail == MASK(b.tail)
        size == N - tail
    IN  IF tail + n <= N THEN CopyOut(b.data, tail, n)
        ELSE CopyOut(b.data, tail, size) \o CopyOut(b.data, 0, n - size)

Dropped(b, n) == [b EXCEPT !.tail = (@ + n) % Mod]

(* The used and the unused parts of the array: one piece, or two.          *)
Piece(i, n) == [base |-> i, len |-> n]

(* Mutation: the piece at the start of the array goes first.               *)
GetIovSwapped(b) ==
    LET head == MASK(b.head) tail == MASK(b.tail)
    IN  IF tail < head THEN <<Piece(tail, head - tail)>>
        ELSE IF head = 0 THEN <<Piece(tail, N - tail)>>
        ELSE <<Piece(0, head), Piece(tail, N - tail)>>

wl_buffer_get_iov(b) ==
    LET head == MASK(b.head) tail == MASK(b.tail)
    IN  IF tail < head THEN <<Piece(tail, head - tail)>>
        ELSE IF head = 0 THEN <<Piece(tail, N - tail)>>
        ELSE <<Piece(tail, N - tail), Piece(0, head)>>

(* Mutation: an empty buffer is taken for a full one, as in get_iov.       *)
PutIovStrict(b) ==
    LET head == MASK(b.head) tail == MASK(b.tail)
    IN  IF head <= tail THEN <<Piece(head, tail - head)>>
        ELSE IF tail = 0 THEN <<Piece(head, N - head)>>
        ELSE <<Piece(head, N - head), Piece(0, tail)>>

wl_buffer_put_iov(b) ==
    LET head == MASK(b.head) tail == MASK(b.tail)
    IN  IF head < tail THEN <<Piece(head, tail - head)>>
        ELSE IF tail = 0 THEN <<Piece(head, N - head)>>
        ELSE <<Piece(head, N - head), Piece(0, tail)>>

Gathered(b, iov) ==
    FlattenSeq([k \in 1 .. Len(iov) |-> CopyOut(b.data, iov[k].base, iov[k].len)])

IovSpace(iov) == IF Len(iov) = 1 THEN iov[1].len ELSE iov[1].len + iov[2].len

(* recvmsg writes the words w into the pieces.                             *)
Scattered(b, iov, w) ==
    LET n == iov[1].len
    IN  IF Len(w) <= n THEN CopyIn(b.data, iov[1].base, w)
        ELSE CopyIn(CopyIn(b.data, iov[1].base, SubSeq(w, 1, n)),
                    iov[2].base, SubSeq(w, n + 1, Len(w)))

-----------------------------------------------------------------------------
(* The socket is a sequence of words.  The descriptors of a sendmsg come   *)
(* with its first word.                                                    *)
InSocket(words, fds) ==
    [k \in 1 .. Len(words) |->
        [word |-> words[k], fds |-> IF k = 1 THEN fds ELSE <<>>]]

WordsOf(s) == [k \in 1 .. Len(s) |-> s[k].word]

FdsOf(s) == FlattenSeq([k \in 1 .. Len(s) |-> s[k].fds])

MinOf(i, j) == IF i <= j THEN i ELSE j

(* What the calls of the sender may end in: sets of outcomes.              *)
Outcome(t, s, ok) == [tx |-> t, sock |-> s, ok |-> ok]

(* Mutation: after a partial sendmsg the rest is taken for sent.           *)
SentForgetsRest(t, s, k) ==
    LET words == SubSeq(Gathered(t.out, wl_buffer_get_iov(t.out)), 1, k)
        size  == wl_buffer_size(t.fds_out)
        fds   == wl_buffer_copy(t.fds_out, MinOf(size, MaxFdsOut))
    IN  Outcome([t EXCEPT !.out = Dropped(@, wl_buffer_size(@)),
                          !.fds_out = Dropped(@, size), !.want_flush = FALSE],
                s \o InSocket(words, fds),
                k = wl_buffer_size(t.out))

(* build_cmsg, sendmsg, and close_fds: k words go, and with them as many   *)
(* descriptors as fit; the buffer of descriptors is empty afterwards.      *)
Sent(t, s, k) ==
    LET words == SubSeq(Gathered(t.out, wl_buffer_get_iov(t.out)), 1, k)
        size  == wl_buffer_size(t.fds_out)
        fds   == wl_buffer_copy(t.fds_out, MinOf(size, MaxFdsOut))
    IN  Outcome([t EXCEPT !.out = Dropped(@, k), !.fds_out = Dropped(@, size),
                          !.want_flush = k < wl_buffer_size(t.out)],
                s \o InSocket(words, fds),
                k = wl_buffer_size(t.out))

(* wl_connection_flush.  The socket may take all, some (the rest is EAGAIN)*)
(* or nothing.                                                             *)
Flush(t, s) ==
    LET size == wl_buffer_size(t.out)
    IN  IF ~t.want_flush THEN {Outcome(t, s, TRUE)}
        ELSE IF size = 0 THEN {Outcome([t EXCEPT !.want_flush = FALSE], s, TRUE)}
        ELSE {Outcome(t, s, FALSE)}
             \cup {Sent(t, s, k) :
                      k \in 1 .. MinOf(size, Room - Len(s))}

(* Flush before something is put into a buffer, if it has to be.           *)
FlushFor(must, t, s) ==
    IF must THEN Flush([t EXCEPT !.want_flush = TRUE], s)
    ELSE {Outcome(t, s, TRUE)}

wl_connection_put_fd(t, s, fd) ==
    {IF r.ok THEN [r EXCEPT !.tx.fds_out = wl_buffer_put(@, <<fd>>)] ELSE r :
        r \in FlushFor(wl_buffer_size(t.fds_out) = MaxFdsOut, t, s)}

copy_fds_to_connection(t, s, fds) ==
    LET after[i \in 0 .. Len(fds)] ==
            IF i = 0 THEN {Outcome(t, s, TRUE)}
            ELSE UNION {IF r.ok THEN wl_connection_put_fd(r.tx, r.sock, fds[i])
                        ELSE {r} : r \in after[i - 1]}
    IN  after[Len(fds)]

(* wl_connection_write, and wl_connection_queue when want is FALSE         *)
Write(t, s, words, want) ==
    {IF ~r.ok THEN r
     ELSE IF Len(words) > N THEN [r EXCEPT !.ok = FALSE]
     ELSE [r EXCEPT !.tx.out = wl_buffer_put(@, words),
                    !.tx.want_flush = @ \/ want] :
        r \in FlushFor(wl_buffer_size(t.out) + Len(words) > N, t, s)}

(* wl_closure_send and wl_closure_queue                                    *)
Closure(t, s, m, want) ==
    UNION {IF r.ok THEN Write(r.tx, r.sock, m.words, want) ELSE {r} :
              r \in copy_fds_to_connection(t, s, m.fds)}

-----------------------------------------------------------------------------
(* Messages: attempt m is one of length len with nfds descriptors.         *)
Message(m, len, nfds) ==
    [words |-> [k \in 1 .. len |-> <<m, k, len, nfds>>],
     fds   |-> [k \in 1 .. nfds |-> <<m, k>>]]

Messages == {Message(m, len, n) : m \in 1 .. MaxTried, len \in Lengths, n \in FdCounts}

Content(b) == wl_buffer_copy(b, wl_buffer_size(b))

(* A connection on which all that was sent has been received: what is left *)
(* of it is where head and tail are.                                       *)
Init ==
    /\ \E i, j \in Starts :
          /\ tx = [out |-> EmptyBuffer(i), fds_out |-> EmptyBuffer(j),
                   want_flush |-> FALSE]
          /\ in = EmptyBuffer(i) /\ fds_in = EmptyBuffer(j)
    /\ sock = <<>>
    /\ rerror = "" /\ sfailed = FALSE
    /\ tried = 0
    /\ accepted = <<>>
    /\ last = [words |-> <<>>, fds |-> <<>>]

(* wl_closure_send (want is TRUE) or wl_closure_queue of a new message     *)
SendOrQueue(want) ==
    /\ tried < MaxTried
    /\ tried' = tried + 1
    /\ \E len \in Lengths, nfds \in FdCounts :
          LET m == Message(tried + 1, len, nfds)
          IN  \E r \in Closure(tx, sock, m, want) :
                 /\ tx' = r.tx /\ sock' = r.sock
                 /\ sfailed' = (sfailed \/ ~r.ok)
                 /\ accepted' = IF r.ok THEN Append(accepted, m) ELSE accepted
    /\ UNCHANGED receiver

(* wl_display_flush, wl_display_flush_clients, WL_EVENT_WRITABLE: to fail  *)
(* because the socket is full is no failure here.                          *)
FlushCall ==
    /\ \E r \in Flush(tx, sock) : tx' = r.tx /\ sock' = r.sock
    /\ UNCHANGED <<sfailed, tried, receiver, accepted>>

(* The first message in the buffer, as far as it has come                  *)
HasHeader == wl_buffer_size(in) >= 2

HeadSize == wl_buffer_copy(in, 2)[2][3]

HeadFds == wl_buffer_copy(in, 2)[2][4]

HasMessage == HasHeader /\ HeadSize <= wl_buffer_size(in)

(* wl_connection_read, which follows when all whole messages are taken out.*)
(* A recvmsg takes some of the words there are, not more than fit, and     *)
(* stops before it has taken the descriptors of two sendmsgs.              *)
Read ==
    /\ rerror = "" /\ ~HasMessage
    /\ UNCHANGED <<sender, accepted, last>>
    /\ IF wl_buffer_size(in) >= N
       THEN rerror' = "EOVERFLOW" /\ UNCHANGED <<sock, in, fds_in>>
       ELSE LET iov == wl_buffer_put_iov(in)
            IN  \E k \in 1 .. MinOf(IovSpace(iov), Len(sock)) :
                   LET s   == SubSeq(sock, 1, k)
                       fds == FdsOf(s)
                   IN  /\ \A i, j \in 1 .. k :
                              s[i].fds # <<>> /\ s[j].fds # <<>> => i = j
                       /\ sock' = SubSeq(sock, k + 1, Len(sock))
                       /\ IF Len(fds) > N - wl_buffer_size(fds_in)
                          THEN rerror' = "EOVERFLOW" /\ UNCHANGED <<in, fds_in>>
                          ELSE /\ fds_in' = wl_buffer_put(fds_in, fds)
                               /\ in' = [data |-> Scattered(in, iov, WordsOf(s)),
                                         head |-> (in.head + k) % Mod,
                                         tail |-> in.tail]
                               /\ UNCHANGED rerror

(* A message has been taken out: the words of the first accepted one       *)
(* should be its words.                                                    *)
Taken(fds) ==
    /\ in' = Dropped(in, HeadSize)
    /\ last' = [words |-> wl_buffer_copy(in, HeadSize), fds |-> fds]
    /\ accepted' = SubSeq(accepted, 2, Len(accepted))
    /\ UNCHANGED <<sender, sock>>

(* wl_connection_demarshal: fewer descriptors than the signature says are  *)
(* a failure, and the message is gone.                                     *)
Receive ==
    /\ rerror = "" /\ HasMessage
    /\ LET n == MinOf(HeadFds, wl_buffer_size(fds_in))
       IN  /\ fds_in' = Dropped(fds_in, n)
           /\ IF n = HeadFds
              THEN Taken(wl_buffer_copy(fds_in, n)) /\ UNCHANGED rerror
              ELSE /\ rerror' = "EINVAL"
                   /\ in' = Dropped(in, HeadSize)
                   /\ UNCHANGED <<sender, sock, accepted, last>>

(* The descriptors that belong to a word's message                         *)
OwnFds(word) == [k \in 1 .. word[4] |-> <<word[1], k>>]

(* queue_event drops the words of an event for a proxy that is gone and    *)
(* leaves its descriptors where they are.  Nobody looks at them: last is   *)
(* given what should have come.                                            *)
Skip ==
    /\ rerror = "" /\ HasMessage
    /\ HeadFds > 0 => SkipsFds
    /\ Taken(OwnFds(wl_buffer_copy(in, 1)[1]))
    /\ UNCHANGED <<fds_in, rerror>>

Next ==
    \/ \E want \in BOOLEAN : SendOrQueue(want)
    \/ FlushCall
    \/ Read
    \/ Receive
    \/ Skip

Spec == Init /\ [][Next]_vars

(* Both ends poll the socket.                                              *)
Fairness ==
    /\ WF_vars(FlushCall)
    /\ WF_vars(Read)
    /\ WF_vars(Receive \/ Skip)

FairSpec == Spec /\ Fairness

-----------------------------------------------------------------------------
(* Properties                                                              *)

RingOK(b) ==
    /\ b.head \in 0 .. Mod - 1 /\ b.tail \in 0 .. Mod - 1
    /\ wl_buffer_size(b) <= N

(* Types; above all, that no more is ever put into a ring buffer than fits,*)
(* which wl_buffer_put leaves to its callers.  After a message that could  *)
(* not be sent its descriptors stay in fds_out, and the test for           *)
(* MAX_FDS_OUT with an empty out lets more in.                             *)
TypeOK ==
    /\ RingOK(tx.out) /\ RingOK(in) /\ RingOK(fds_in)
    /\ ~sfailed => RingOK(tx.fds_out)
    /\ tx.want_flush \in BOOLEAN /\ rerror \in {"", "EINVAL", "EOVERFLOW"} /\ sfailed \in BOOLEAN
    /\ tried \in 0 .. MaxTried
    /\ Len(sock) <= Room
    /\ accepted \in Seq(Messages)

(* What is in the buffers and in the socket is exactly what the messages   *)
(* that were accepted and not received consist of, in their order: no word *)
(* is lost, doubled or overwritten by a flush that the socket took half of,*)
(* at the end of an array or where head and tail wrap around.  As long as  *)
(* no message was refused the same holds of the descriptors, which travel  *)
(* ahead of their words.                                                   *)
AllOnTheWay ==
    rerror = "" =>
        /\ Content(in) \o WordsOf(sock) \o Content(tx.out) =
              FlattenSeq([i \in 1 .. Len(accepted) |-> accepted[i].words])
        /\ ~sfailed => Content(fds_in) \o FdsOf(sock) \o Content(tx.fds_out) =
              FlattenSeq([i \in 1 .. Len(accepted) |-> accepted[i].fds])

(* A read never finds the buffer of words full, and demarshal misses no    *)
(* descriptor unless the sender was told of a failure.  What may happen    *)
(* without it is that descriptors, which travel ahead of their words, are  *)
(* too many for fds_in.                                                    *)
ReceiverServed ==
    /\ rerror = "EINVAL" => sfailed
    /\ rerror = "EOVERFLOW" => wl_buffer_size(in) < N

(* A message has the descriptors it was sent with.                         *)
FdsOfItsOwn ==
    last.words # <<>> /\ ~sfailed => last.fds = OwnFds(last.words[1])

(* What makes the promise of Channel hold, and more                        *)
ConnectionInv == TypeOK /\ AllOnTheWay /\ ReceiverServed /\ FdsOfItsOwn

(* The connection keeps the promise of Channel.                            *)
Promise == INSTANCE Channel WITH queue <- accepted, refused <- sfailed

DeliversWhole == Promise!Spec

(* What was sent with wl_closure_send, and all that was queued before it,  *)
(* arrives, however little the socket takes at a time.                     *)
Pending(m) == \E i \in 1 .. Len(accepted) : accepted[i].words[1][1] = m

SentArrives ==
    \A m \in 1 .. MaxTried :
        (tx.want_flush /\ Pending(m)) ~> (~Pending(m) \/ rerror # "")
=============================================================================
