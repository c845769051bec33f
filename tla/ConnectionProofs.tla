-------------------------- MODULE ConnectionProofs --------------------------
(***************************************************************************)
(* Proofs about Connection, for every size of the ring buffers and every   *)
(* range of head and tail that is a multiple of it, however little the     *)
(* socket takes at a time: the content of a ring buffer is a queue, a flush*)
(* only moves it, messages arrive whole and in order, and the promise of   *)
(* Channel is kept.                                                        *)
(*                                                                         *)
(* The lemmas go from the buffers to the calls of the sender, from these to*)
(* the inductive invariant Inv, and from Inv to the theorems at the end.   *)
(***************************************************************************)
EXTENDS Connection, ListProofs

-----------------------------------------------------------------------------
\* Remainders

LEMMA RemainderUnique ==
  ASSUME NEW m \in Nat \ {0}, NEW q \in Int, NEW r \in 0 .. m - 1
  PROVE  (q * m + r) % m = r
  OBVIOUS

LEMMA RemainderExists ==
  ASSUME NEW m \in Nat \ {0}, NEW a \in Int
  PROVE  a % m \in 0 .. m - 1 /\ \E q \in Int : a = q * m + (a % m)
  <1>1. a % m \in 0 .. m - 1
    OBVIOUS
  <1>2. a \div m \in Int /\ a = (a \div m) * m + (a % m)
    OBVIOUS
  <1> QED BY <1>1, <1>2

LEMMA RemainderOfSum ==
  ASSUME NEW m \in Nat \ {0}, NEW a \in Int, NEW k \in Int
  PROVE  (a + k * m) % m = a % m
  <1> DEFINE r == a % m
  <1>1. PICK q \in Int : a = q * m + r
    BY RemainderExists
  <1>2. r \in 0 .. m - 1
    BY RemainderExists
  <1> HIDE DEF r
  <1>3. a + k * m = (q + k) * m + r
    BY <1>1, <1>2
  <1>4. ((q + k) * m + r) % m = r
    BY <1>2, RemainderUnique
  <1> QED BY <1>3, <1>4 DEF r

\* Where an index that is less than two lengths is in the array
Wrapped(i) == IF i < N THEN i ELSE i - N

LEMMA Sizes == /\ N \in Nat \ {0} /\ Mod \in Nat \ {0} /\ Mod >= 2 * N
               /\ \E c \in Int : Mod = c * N
  <1>1. N \in Nat \ {0} /\ Mod \in Nat /\ Mod >= 2 * N /\ Mod % N = 0
    BY ConnectionAssumption
  <1>2. Mod \in Nat \ {0}
    BY <1>1
  <1>3. \E c \in Int : Mod = c * N + (Mod % N)
    <2>1. Mod \in Int
      BY <1>1
    <2> QED BY <1>1, <2>1, RemainderExists
  <1>4. \E c \in Int : Mod = c * N
    BY <1>1, <1>3
  <1> QED BY <1>1, <1>2, <1>4

LEMMA MaskOf ==
  ASSUME NEW i \in Int
  PROVE  MASK(i) \in 0 .. N - 1
  BY Sizes, RemainderExists DEF MASK

LEMMA MaskOfCount ==
  ASSUME NEW i \in Int
  PROVE  MASK(i % Mod) = MASK(i)
  <1>1. PICK c \in Int : Mod = c * N
    BY Sizes
  <1>2. PICK q \in Int : i = q * Mod + (i % Mod)
    BY Sizes, RemainderExists
  <1> DEFINE r == i % Mod
  <1>3. r \in Int
    BY Sizes, RemainderExists
  <1> HIDE DEF r
  <1>4. q * Mod = (q * c) * N
    BY <1>1, Sizes
  <1>5. i = r + (q * c) * N
    <2>1. i = q * Mod + r
      BY <1>2 DEF r
    <2>2. q * Mod \in Int /\ (q * c) * N \in Int
      BY Sizes
    <2> QED BY <1>3, <1>4, <2>1, <2>2
  <1>6. q * c \in Int
    OBVIOUS
  <1>7. i % N = r % N
    BY <1>3, <1>5, <1>6, RemainderOfSum, Sizes
  <1> QED BY <1>7 DEF MASK, r

LEMMA MaskOfSum ==
  ASSUME NEW i \in Int, NEW n \in 0 .. N
  PROVE  MASK((i + n) % Mod) = Wrapped(MASK(i) + n)
  <1> DEFINE t == i % N
  <1>1. N \in Nat \ {0}
    BY Sizes
  <1>2. t \in 0 .. N - 1 /\ \E q \in Int : i = q * N + t
    BY <1>1, RemainderExists
  <1> HIDE DEF t
  <1>3. PICK q \in Int : i = q * N + t
    BY <1>2
  <1>4. MASK((i + n) % Mod) = (i + n) % N
    <2>1. i + n \in Int
      BY <1>1
    <2> QED BY <2>1, MaskOfCount DEF MASK
  <1>7. MASK(i) = t
    BY DEF MASK, t
  <1>5. CASE t + n < N
    <2>1. i + n = q * N + (t + n) /\ t + n \in 0 .. N - 1
      BY <1>1, <1>2, <1>3, <1>5
    <2>2. (q * N + (t + n)) % N = t + n
      BY <1>1, <2>1, RemainderUnique
    <2> QED BY <1>4, <1>5, <1>7, <2>1, <2>2 DEF Wrapped
  <1>6. CASE ~(t + n < N)
    <2>1. i + n = (q + 1) * N + (t + n - N) /\ t + n - N \in 0 .. N - 1 /\ q + 1 \in Int
      BY <1>1, <1>2, <1>3, <1>6
    <2>2. ((q + 1) * N + (t + n - N)) % N = t + n - N
      BY <1>1, <2>1, RemainderUnique
    <2> DEFINE x == (q + 1) * N + (t + n - N)
    <2>3. i + n = x
      BY <2>1
    <2>4. x % N = t + n - N
      BY <2>2
    <2> HIDE DEF x
    <2>5. (i + n) % N = t + n - N
      BY <2>3, <2>4
    <2> QED BY <1>1, <1>2, <1>4, <1>6, <1>7, <2>5 DEF Wrapped
  <1> QED BY <1>5, <1>6

LEMMA CountUp ==
  ASSUME NEW i \in 0 .. Mod - 1, NEW n \in 0 .. N
  PROVE  (i + n) % Mod = IF i + n < Mod THEN i + n ELSE i + n - Mod
  <1>1. Mod \in Nat \ {0} /\ N \in Nat /\ Mod >= 2 * N
    BY Sizes
  <1>2. CASE i + n < Mod
    <2>1. i + n = 0 * Mod + (i + n) /\ i + n \in 0 .. Mod - 1
      BY <1>1, <1>2
    <2> QED BY <1>1, <1>2, <2>1, RemainderUnique
  <1>3. CASE ~(i + n < Mod)
    <2>1. i + n = 1 * Mod + (i + n - Mod) /\ i + n - Mod \in 0 .. Mod - 1
      BY <1>1, <1>3
    <2> QED BY <1>1, <1>3, <2>1, RemainderUnique
  <1> QED BY <1>2, <1>3

LEMMA CountsApart ==
  ASSUME NEW i \in 0 .. Mod - 1, NEW j \in 0 .. Mod - 1
  PROVE  (i - j) % Mod = IF i >= j THEN i - j ELSE i - j + Mod
  <1>1. Mod \in Nat \ {0}
    BY Sizes
  <1>2. CASE i >= j
    <2>1. i - j = 0 * Mod + (i - j) /\ i - j \in 0 .. Mod - 1
      BY <1>1, <1>2
    <2> QED BY <1>1, <1>2, <2>1, RemainderUnique
  <1>3. CASE ~(i >= j)
    <2>1. i - j = (-1) * Mod + (i - j + Mod) /\ i - j + Mod \in 0 .. Mod - 1 /\ -1 \in Int
      BY <1>1, <1>3
    <2> QED BY <1>1, <1>3, <2>1, RemainderUnique
  <1> QED BY <1>2, <1>3

-----------------------------------------------------------------------------
\* Ring buffers

Item == Seq(Nat)

Arrays == [0 .. N - 1 -> Item]

Rings == [data : Arrays, head : 0 .. Mod - 1, tail : 0 .. Mod - 1]

\* The k-th item
At(b, k) == b.data[Wrapped(MASK(b.tail) + k - 1)]

LEMMA RingShape ==
  ASSUME NEW b \in Rings
  PROVE  /\ wl_buffer_size(b) \in Nat
         /\ MASK(b.tail) \in 0 .. N - 1 /\ MASK(b.head) \in 0 .. N - 1
         /\ wl_buffer_size(b) <= N =>
              MASK(b.head) = Wrapped(MASK(b.tail) + wl_buffer_size(b))
  <1> DEFINE s == wl_buffer_size(b)
  <1>1. Mod \in Nat \ {0} /\ N \in Nat \ {0} /\ Mod >= 2 * N
    BY Sizes
  <1>2. b.head \in 0 .. Mod - 1 /\ b.tail \in 0 .. Mod - 1
    BY DEF Rings
  <1>3. s = IF b.head >= b.tail THEN b.head - b.tail ELSE b.head - b.tail + Mod
    BY <1>2, CountsApart DEF wl_buffer_size
  <1>4. s \in Nat
    BY <1>1, <1>2, <1>3
  <1>5. MASK(b.tail) \in 0 .. N - 1 /\ MASK(b.head) \in 0 .. N - 1
    BY <1>1, <1>2, MaskOf
  <1> HIDE DEF s
  <1>6. ASSUME s <= N PROVE MASK(b.head) = Wrapped(MASK(b.tail) + s)
    <2>1. s \in 0 .. N /\ b.tail \in Int
      BY <1>2, <1>4, <1>6
    <2>2. (b.tail + s) % Mod = IF b.tail + s < Mod THEN b.tail + s ELSE b.tail + s - Mod
      BY <1>2, <2>1, CountUp
    <2>3. (b.tail + s) % Mod = b.head
      BY <1>1, <1>2, <1>3, <2>1, <2>2
    <2>4. MASK((b.tail + s) % Mod) = Wrapped(MASK(b.tail) + s)
      BY <2>1, MaskOfSum
    <2> QED BY <2>3, <2>4
  <1> QED BY <1>4, <1>5, <1>6 DEF s

LEMMA FunctionIsSeq ==
  ASSUME NEW S, NEW n \in Nat, NEW f \in [1 .. n -> S]
  PROVE  f \in Seq(S) /\ Len(f) = n
  <1>1. f \in Seq(S)
    BY SeqDef
  <1> QED BY <1>1, LenProperties

LEMMA CopyOutIs ==
  ASSUME NEW data \in Arrays, NEW i \in 0 .. N - 1, NEW m \in 0 .. N, i + m <= N
  PROVE  /\ CopyOut(data, i, m) \in Seq(Item) /\ Len(CopyOut(data, i, m)) = m
         /\ \A k \in 1 .. m : CopyOut(data, i, m)[k] = data[i + k - 1]
  <1>1. N \in Nat \ {0} /\ m \in Nat
    BY Sizes
  <1>2. ASSUME NEW k \in 1 .. m PROVE data[i + k - 1] \in Item
    <2>1. i + k - 1 \in 0 .. N - 1
      BY <1>1
    <2> QED BY <2>1 DEF Arrays
  <1>3. CopyOut(data, i, m) \in [1 .. m -> Item]
    BY <1>2 DEF CopyOut
  <1>4. CopyOut(data, i, m) \in Seq(Item) /\ Len(CopyOut(data, i, m)) = m
    BY <1>1, <1>3, FunctionIsSeq
  <1>5. \A k \in 1 .. m : CopyOut(data, i, m)[k] = data[i + k - 1]
    BY DEF CopyOut
  <1> QED BY <1>4, <1>5

LEMMA WrappedIn ==
  ASSUME NEW t \in 0 .. N - 1, NEW n \in 0 .. N
  PROVE  Wrapped(t + n) \in 0 .. N - 1
  BY Sizes DEF Wrapped

LEMMA CopyIs ==
  ASSUME NEW b \in Rings, NEW n \in 0 .. N
  PROVE  /\ wl_buffer_copy(b, n) \in Seq(Item)
         /\ Len(wl_buffer_copy(b, n)) = n
         /\ \A k \in 1 .. n : wl_buffer_copy(b, n)[k] = At(b, k)
  <1> DEFINE t == MASK(b.tail)
             c == wl_buffer_copy(b, n)
  <1>1. N \in Nat \ {0} /\ t \in 0 .. N - 1 /\ b.data \in Arrays /\ n \in Nat
    BY Sizes, RingShape DEF Rings
  <1> HIDE DEF t
  <1>3. CASE t + n <= N
    <2>1. c = CopyOut(b.data, t, n)
      BY <1>3 DEF wl_buffer_copy, t
    <2>2. \A k \in 1 .. n : t + k - 1 < N
      BY <1>1, <1>3
    <2>3. /\ c \in Seq(Item) /\ Len(c) = n
          /\ \A k \in 1 .. n : c[k] = b.data[t + k - 1]
      <3>1. /\ CopyOut(b.data, t, n) \in Seq(Item) /\ Len(CopyOut(b.data, t, n)) = n
            /\ \A k \in 1 .. n : CopyOut(b.data, t, n)[k] = b.data[t + k - 1]
        BY <1>1, <1>3, CopyOutIs
      <3> HIDE DEF c
      <3> QED BY <2>1, <3>1
    <2> HIDE DEF c
    <2> QED BY <2>2, <2>3 DEF At, Wrapped, t, c
  <1>4. CASE ~(t + n <= N)
    <2> DEFINE p == CopyOut(b.data, t, N - t)
               q == CopyOut(b.data, 0, n - (N - t))
    <2>1. c = p \o q
      BY <1>4 DEF wl_buffer_copy, t
    <2>2. N - t \in 0 .. N /\ n - (N - t) \in 0 .. N /\ 0 \in 0 .. N - 1
      BY <1>1, <1>4
    <2>6. t + (N - t) <= N /\ 0 + (n - (N - t)) <= N
      BY <1>1, <1>4
    <2>3. /\ p \in Seq(Item) /\ Len(p) = N - t
          /\ \A k \in 1 .. N - t : p[k] = b.data[t + k - 1]
      BY <1>1, <2>2, <2>6, CopyOutIs
    <2>4. /\ q \in Seq(Item) /\ Len(q) = n - (N - t)
          /\ \A k \in 1 .. n - (N - t) : q[k] = b.data[0 + k - 1]
      BY <1>1, <2>2, <2>6, CopyOutIs
    <2> HIDE DEF p, q, c
    <2>5. c \in Seq(Item) /\ Len(c) = n
      <3>1. p \o q \in Seq(Item) /\ Len(p \o q) = Len(p) + Len(q)
        BY <2>3, <2>4, ConcatProperties
      <3> QED BY <1>1, <2>1, <2>3, <2>4, <3>1
    <2>7. \A k \in 1 .. n : c[k] = IF k <= N - t THEN p[k] ELSE q[k - (N - t)]
      <3>1. p \in Seq(Item) /\ q \in Seq(Item)
        BY <2>3, <2>4
      <3>2. \A e : e = p \o q =>
              \A k \in 1 .. Len(p) + Len(q) : e[k] = IF k <= Len(p) THEN p[k] ELSE q[k - Len(p)]
        BY ONLY <3>1, ConcatIs
      <3>3. \A k \in 1 .. Len(p) + Len(q) : c[k] = IF k <= Len(p) THEN p[k] ELSE q[k - Len(p)]
        BY <2>1, <3>2
      <3>4. Len(p) = N - t /\ Len(p) + Len(q) = n
        BY <1>1, <2>3, <2>4
      <3> QED BY <3>3, <3>4
    <2>8. ASSUME NEW k \in 1 .. n PROVE c[k] = b.data[Wrapped(t + k - 1)]
      <3>1. CASE k <= N - t
        <4>1. c[k] = p[k] /\ t + k - 1 < N
          BY <1>1, <2>7, <3>1
        <4> QED BY <1>1, <2>3, <3>1, <4>1 DEF Wrapped
      <3>2. CASE ~(k <= N - t)
        <4> DEFINE j == k - (N - t)
        <4>1. c[k] = q[j] /\ j \in 1 .. n - (N - t) /\ ~(t + k - 1 < N) /\ 0 + j - 1 = t + k - 1 - N
          BY <1>1, <2>7, <3>2
        <4>2. q[j] = b.data[0 + j - 1]
          BY <2>4, <4>1
        <4> HIDE DEF j
        <4>3. c[k] = b.data[t + k - 1 - N]
          <5>1. c[k] = b.data[0 + j - 1]
            BY <4>1, <4>2
          <5> QED BY <4>1, <5>1
        <4>4. Wrapped(t + k - 1) = t + k - 1 - N
          <5>1. ~(t + k - 1 < N)
            BY <4>1
          <5> QED BY <1>1, <5>1 DEF Wrapped
        <4> QED BY <4>3, <4>4
      <3> QED BY <3>1, <3>2
    <2> QED BY <2>5, <2>8 DEF c, At, t
  <1> QED BY <1>3, <1>4

LEMMA ContentIs ==
  ASSUME NEW b \in Rings, wl_buffer_size(b) <= N
  PROVE  /\ Content(b) \in Seq(Item)
         /\ Len(Content(b)) = wl_buffer_size(b)
         /\ \A k \in 1 .. wl_buffer_size(b) : Content(b)[k] = At(b, k)
  <1>1. wl_buffer_size(b) \in 0 .. N
    BY RingShape
  <1> QED BY <1>1, CopyIs DEF Content

LEMMA CopyIsPrefix ==
  ASSUME NEW b \in Rings, wl_buffer_size(b) <= N, NEW n \in 0 .. wl_buffer_size(b)
  PROVE  wl_buffer_copy(b, n) = SubSeq(Content(b), 1, n)
  <1> DEFINE c == wl_buffer_copy(b, n)
             d == SubSeq(Content(b), 1, n)
             s == wl_buffer_size(b)
  <1>1. s \in 0 .. N /\ n \in 0 .. N /\ N \in Nat
    BY RingShape, Sizes
  <1>2. c \in Seq(Item) /\ Len(c) = n /\ \A k \in 1 .. n : c[k] = At(b, k)
    BY <1>1, CopyIs
  <1>3. /\ Content(b) \in Seq(Item) /\ Len(Content(b)) = s
        /\ \A k \in 1 .. s : Content(b)[k] = At(b, k)
    BY ContentIs
  <1> HIDE DEF s
  <1>4. n \in 0 .. s
    BY DEF s
  <1>5. d \in Seq(Item) /\ Len(d) = n /\ \A k \in 1 .. n : d[k] = Content(b)[k]
    BY <1>1, <1>3, <1>4
  <1> HIDE DEF c, d
  <1>6. \A k \in 1 .. Len(c) : c[k] = d[k]
    BY <1>1, <1>2, <1>3, <1>4, <1>5
  <1>7. c = d
    BY <1>2, <1>5, <1>6, SeqEqual
  <1> QED BY <1>7 DEF c, d

\* To advance tail takes away from the front.
LEMMA DroppedIs ==
  ASSUME NEW b \in Rings, wl_buffer_size(b) <= N, NEW n \in 0 .. wl_buffer_size(b)
  PROVE  /\ Dropped(b, n) \in Rings
         /\ wl_buffer_size(Dropped(b, n)) = wl_buffer_size(b) - n
         /\ Content(Dropped(b, n)) = SubSeq(Content(b), n + 1, wl_buffer_size(b))
  <1> DEFINE s == wl_buffer_size(b)
             e == Dropped(b, n)
             t == MASK(b.tail)
  <1>1. Mod \in Nat \ {0} /\ N \in Nat \ {0} /\ Mod >= 2 * N /\ s \in 0 .. N /\ n \in 0 .. N
    BY Sizes, RingShape
  <1>2. b.head \in 0 .. Mod - 1 /\ b.tail \in 0 .. Mod - 1 /\ b.data \in Arrays
    BY DEF Rings
  <1>3. /\ e.head = b.head /\ e.data = b.data /\ e.tail = (b.tail + n) % Mod
        /\ e = [data |-> b.data, head |-> b.head, tail |-> (b.tail + n) % Mod]
    BY DEF Dropped, Rings
  <1>4. e.tail = IF b.tail + n < Mod THEN b.tail + n ELSE b.tail + n - Mod
    BY <1>1, <1>2, <1>3, CountUp
  <1>5. e.tail \in 0 .. Mod - 1
    BY <1>1, <1>2, <1>4
  <1>6. e \in Rings
    BY <1>2, <1>3, <1>5 DEF Rings
  <1>7. s = IF b.head >= b.tail THEN b.head - b.tail ELSE b.head - b.tail + Mod
    BY <1>2, CountsApart DEF wl_buffer_size
  <1>8. wl_buffer_size(e) = IF e.head >= e.tail THEN e.head - e.tail ELSE e.head - e.tail + Mod
    BY <1>2, <1>3, <1>5, CountsApart DEF wl_buffer_size
  <1>9. n <= s
    OBVIOUS
  <1> HIDE DEF s, e
  <1>10. wl_buffer_size(e) = s - n
    BY <1>1, <1>2, <1>3, <1>4, <1>7, <1>8, <1>9
  <1>11. MASK(e.tail) = Wrapped(t + n) /\ t \in 0 .. N - 1
    <2>1. b.tail \in Int
      BY <1>1, <1>2
    <2>2. MASK((b.tail + n) % Mod) = Wrapped(MASK(b.tail) + n)
      BY <1>1, <2>1, MaskOfSum
    <2> QED BY <1>3, <2>2, RingShape
  <1>12. /\ Content(e) \in Seq(Item) /\ Len(Content(e)) = s - n
         /\ \A k \in 1 .. s - n : Content(e)[k] = At(e, k)
    BY <1>1, <1>6, <1>9, <1>10, ContentIs
  <1>13. /\ Content(b) \in Seq(Item) /\ Len(Content(b)) = s
         /\ \A k \in 1 .. s : Content(b)[k] = At(b, k)
    BY ContentIs DEF s
  <1> DEFINE d == SubSeq(Content(b), n + 1, s)
  <1>14. /\ d \in Seq(Item) /\ Len(d) = s - n
         /\ \A k \in 1 .. s - n : d[k] = Content(b)[n + k]
    <2>1. n + 1 \in Int /\ s \in Int /\ \A i \in n + 1 .. s : Content(b)[i] \in Item
      BY <1>1, <1>9, <1>13
    <2>2. /\ d \in Seq(Item) /\ Len(d) = IF n + 1 <= s THEN s - (n + 1) + 1 ELSE 0
          /\ \A k \in 1 .. s - (n + 1) + 1 : d[k] = Content(b)[(n + 1) + k - 1]
      BY <2>1, SubSeqProperties
    <2> HIDE DEF d
    <2>3. \A k \in 1 .. s - n : k \in 1 .. s - (n + 1) + 1 /\ (n + 1) + k - 1 = n + k
      BY <1>1
    <2> QED BY <1>1, <1>9, <2>2, <2>3
  <1> HIDE DEF d, t
  <1>15. ASSUME NEW k \in 1 .. s - n PROVE Content(e)[k] = d[k]
    <2>1. n + k \in 1 .. s
      BY <1>1, <1>9
    <2>2. Content(e)[k] = At(e, k) /\ d[k] = At(b, n + k)
      BY <1>12, <1>13, <1>14, <2>1
    <2>3. Wrapped(Wrapped(t + n) + k - 1) = Wrapped(t + (n + k) - 1)
      BY <1>1, <1>9, <1>11 DEF Wrapped
    <2> QED BY <1>3, <1>11, <2>2, <2>3 DEF At, t
  <1>16. Content(e) = d
    BY <1>12, <1>14, <1>15, SeqEqual
  <1> QED BY <1>6, <1>10, <1>16 DEF e, d, s

-----------------------------------------------------------------------------
\* data2 is data after the items of d are written from index i on, around the
\* end of the array
Written(data, i, d, data2) ==
    /\ data2 \in Arrays
    /\ \A k \in 1 .. Len(d) : data2[Wrapped(i + k - 1)] = d[k]
    /\ \A j \in 0 .. N - 1 :
          (\A k \in 1 .. Len(d) : j # Wrapped(i + k - 1)) => data2[j] = data[j]

LEMMA SizeAfterPut ==
  ASSUME NEW h \in 0 .. Mod - 1, NEW t \in 0 .. Mod - 1, NEW n \in 0 .. N,
         ((h - t) % Mod) + n <= N
  PROVE  /\ (h + n) % Mod \in 0 .. Mod - 1
         /\ (((h + n) % Mod) - t) % Mod = ((h - t) % Mod) + n
  <1> DEFINE g == (h + n) % Mod
             s == (h - t) % Mod
  <1>1. Mod \in Nat \ {0} /\ N \in Nat \ {0} /\ Mod >= 2 * N /\ n \in Nat /\ s + n <= N
    BY Sizes
  <1>2. g = IF h + n < Mod THEN h + n ELSE h + n - Mod
    BY CountUp
  <1>3. s = IF h >= t THEN h - t ELSE h - t + Mod
    BY CountsApart
  <1> HIDE DEF g, s
  <1>4. g \in 0 .. Mod - 1
    BY <1>1, <1>2
  <1>5. (g - t) % Mod = IF g >= t THEN g - t ELSE g - t + Mod
    BY <1>4, CountsApart
  <1>6. (IF g >= t THEN g - t ELSE g - t + Mod) = s + n
    BY <1>1, <1>2, <1>3, <1>4
  <1> QED BY <1>4, <1>5, <1>6 DEF g, s

LEMMA WrittenIsAppended ==
  ASSUME NEW b \in Rings, NEW d \in Seq(Item), wl_buffer_size(b) + Len(d) <= N,
         NEW data2, Written(b.data, MASK(b.head), d, data2),
         NEW c, c = [data |-> data2, head |-> (b.head + Len(d)) % Mod, tail |-> b.tail]
  PROVE  /\ c \in Rings
         /\ wl_buffer_size(c) = wl_buffer_size(b) + Len(d)
         /\ Content(c) = Content(b) \o d
  <1> DEFINE s == wl_buffer_size(b)
             t == MASK(b.tail)
             h == MASK(b.head)
             n == Len(d)
  <1>1. Mod \in Nat \ {0} /\ N \in Nat \ {0} /\ Mod >= 2 * N
    BY Sizes
  <1>2. n \in Nat /\ s \in Nat /\ s + n <= N /\ t \in 0 .. N - 1 /\ h \in 0 .. N - 1
    BY RingShape
  <1>3. s \in 0 .. N /\ n \in 0 .. N /\ s <= N /\ s + n \in 0 .. N
    BY <1>1, <1>2
  <1>4. h = Wrapped(t + s)
    BY <1>3, RingShape
  <1>5. b.head \in 0 .. Mod - 1 /\ b.tail \in 0 .. Mod - 1 /\ b.data \in Arrays
    BY DEF Rings
  <1>6. /\ c.data = data2 /\ c.tail = b.tail /\ c.head = (b.head + n) % Mod
        /\ data2 \in Arrays
    BY DEF Written
  <1>7. s = (b.head - b.tail) % Mod /\ wl_buffer_size(c) = (c.head - c.tail) % Mod
    BY DEF wl_buffer_size
  <1>8. /\ (b.head + n) % Mod \in 0 .. Mod - 1
        /\ (((b.head + n) % Mod) - b.tail) % Mod = ((b.head - b.tail) % Mod) + n
    BY <1>2, <1>3, <1>5, <1>7, SizeAfterPut
  <1>9. c \in Rings
    BY <1>5, <1>6, <1>8 DEF Rings
  <1>12. wl_buffer_size(c) = s + n
    BY <1>6, <1>7, <1>8
  <1> HIDE DEF s, t, h, n
  <1>13. /\ Content(c) \in Seq(Item) /\ Len(Content(c)) = s + n
         /\ \A k \in 1 .. s + n : Content(c)[k] = data2[Wrapped(t + k - 1)]
    BY <1>1, <1>2, <1>6, <1>9, <1>12, ContentIs DEF At, t
  <1>14. /\ Content(b) \in Seq(Item) /\ Len(Content(b)) = s
         /\ \A k \in 1 .. s : Content(b)[k] = b.data[Wrapped(t + k - 1)]
    BY <1>3, ContentIs DEF At, s, t
  <1> DEFINE e == Content(b) \o d
  <1>15. /\ e \in Seq(Item) /\ Len(e) = s + n
         /\ \A k \in 1 .. s + n : e[k] = IF k <= s THEN Content(b)[k] ELSE d[k - s]
    BY <1>14, ConcatProperties DEF n
  <1> HIDE DEF e
  <1>16. ASSUME NEW k \in 1 .. s + n PROVE Content(c)[k] = e[k]
    <2>1. CASE k <= s
      <3> DEFINE j == Wrapped(t + k - 1)
      <3>1. j \in 0 .. N - 1
        BY <1>1, <1>2, <1>3, <2>1 DEF Wrapped
      <3>2. ASSUME NEW i \in 1 .. n PROVE j # Wrapped(h + i - 1)
        BY <1>1, <1>2, <1>3, <1>4, <2>1 DEF Wrapped
      <3>3. data2[j] = b.data[j]
        BY <3>1, <3>2 DEF Written, n, h
      <3> QED BY <1>2, <1>13, <1>14, <1>15, <2>1, <3>3
    <2>2. CASE ~(k <= s)
      <3>1. k - s \in 1 .. n
        BY <1>1, <1>2, <2>2
      <3>2. Wrapped(h + (k - s) - 1) = Wrapped(t + k - 1)
        BY <1>1, <1>2, <1>3, <1>4, <2>2 DEF Wrapped
      <3>3. data2[Wrapped(h + (k - s) - 1)] = d[k - s]
        BY <3>1 DEF Written, n, h
      <3> QED BY <1>13, <1>15, <2>2, <3>2, <3>3
    <2> QED BY <2>1, <2>2
  <1>17. Content(c) = e
    BY <1>13, <1>15, <1>16, SeqEqual
  <1> QED BY <1>9, <1>12, <1>17 DEF e, s, n

LEMMA CopyInIs ==
  ASSUME NEW data \in Arrays, NEW i \in 0 .. N, NEW d \in Seq(Item), i + Len(d) <= N
  PROVE  /\ CopyIn(data, i, d) \in Arrays
         /\ \A k \in 1 .. Len(d) : CopyIn(data, i, d)[i + k - 1] = d[k]
         /\ \A j \in 0 .. N - 1 : j < i \/ j >= i + Len(d) => CopyIn(data, i, d)[j] = data[j]
  <1>1. N \in Nat \ {0} /\ Len(d) \in Nat /\ DOMAIN data = 0 .. N - 1
    BY Sizes DEF Arrays
  <1> DEFINE n == Len(d)
             e == CopyIn(data, i, d)
  <1>2. e = [j \in 0 .. N - 1 |-> IF j \in i .. i + n - 1 THEN d[j - i + 1] ELSE data[j]]
    BY <1>1 DEF CopyIn
  <1>3. n \in Nat /\ \A k \in 1 .. n : d[k] \in Item
    BY ElementOfSeq
  <1> HIDE DEF e
  <1>4. ASSUME NEW j \in 0 .. N - 1
        PROVE  (IF j \in i .. i + n - 1 THEN d[j - i + 1] ELSE data[j]) \in Item
    <2>1. CASE j \in i .. i + n - 1
      <3>1. j - i + 1 \in 1 .. n
        BY <1>1, <1>3, <2>1
      <3> QED BY <1>3, <2>1, <3>1
    <2>2. CASE ~(j \in i .. i + n - 1)
      BY <2>2 DEF Arrays
    <2> QED BY <2>1, <2>2
  <1>5. e \in Arrays
    BY <1>2, <1>4 DEF Arrays
  <1>6. ASSUME NEW k \in 1 .. n PROVE e[i + k - 1] = d[k]
    <2>1. i + k - 1 \in 0 .. N - 1 /\ i + k - 1 \in i .. i + n - 1 /\ (i + k - 1) - i + 1 = k
      BY <1>1, <1>3
    <2> DEFINE j == i + k - 1
    <2>2. j \in 0 .. N - 1 /\ j \in i .. i + n - 1 /\ j - i + 1 = k
      BY <2>1
    <2> HIDE DEF j
    <2>3. e[j] = d[k]
      BY <1>2, <2>2
    <2> QED BY <2>3 DEF j
  <1>7. \A j \in 0 .. N - 1 : j < i \/ j >= i + n => e[j] = data[j]
    BY <1>1, <1>2, <1>3
  <1> QED BY <1>5, <1>6, <1>7 DEF e

LEMMA OnePiece ==
  ASSUME NEW data \in Arrays, NEW i \in 0 .. N - 1, NEW d \in Seq(Item), i + Len(d) <= N
  PROVE  Written(data, i, d, CopyIn(data, i, d))
  <1> DEFINE e == CopyIn(data, i, d)
             n == Len(d)
  <1>1. N \in Nat \ {0} /\ n \in Nat /\ i \in 0 .. N
    BY Sizes
  <1>2. /\ e \in Arrays
        /\ \A k \in 1 .. n : e[i + k - 1] = d[k]
        /\ \A j \in 0 .. N - 1 : j < i \/ j >= i + n => e[j] = data[j]
    BY <1>1, CopyInIs
  <1> HIDE DEF e
  <1>3. n = Len(d)
    OBVIOUS
  <1> HIDE DEF n
  <1>4. \A k \in 1 .. n : Wrapped(i + k - 1) = i + k - 1
    BY <1>1, <1>3 DEF Wrapped
  <1>5. ASSUME NEW j \in 0 .. N - 1, \A k \in 1 .. n : j # Wrapped(i + k - 1)
        PROVE  e[j] = data[j]
    <2>1. CASE j < i \/ j >= i + n
      BY <1>2, <2>1
    <2>2. CASE ~(j < i \/ j >= i + n)
      <3>1. j - i + 1 \in 1 .. n /\ i + (j - i + 1) - 1 = j
        BY <1>1, <2>2
      <3> QED BY <1>4, <1>5, <3>1
    <2> QED BY <2>1, <2>2
  <1> QED BY <1>2, <1>3, <1>4, <1>5 DEF Written, e

LEMMA TwoPieces ==
  ASSUME NEW data \in Arrays, NEW i \in 0 .. N - 1, NEW d \in Seq(Item),
         i + Len(d) > N, Len(d) <= N
  PROVE  Written(data, i, d,
                 CopyIn(CopyIn(data, i, SubSeq(d, 1, N - i)), 0,
                        SubSeq(d, N - i + 1, Len(d))))
  <1> DEFINE n == Len(d)
             p == SubSeq(d, 1, N - i)
             q == SubSeq(d, N - i + 1, n)
             m == n - (N - i)
             e == CopyIn(data, i, p)
             f == CopyIn(e, 0, q)
  <1>1. N \in Nat \ {0} /\ n \in Nat /\ i \in 0 .. N /\ i + n > N /\ n <= N /\ n = Len(d)
    BY Sizes
  <1>2. \A k \in 1 .. n : d[k] \in Item
    BY ElementOfSeq
  <1> HIDE DEF n
  <1>3. /\ p \in Seq(Item) /\ Len(p) = N - i
        /\ \A k \in 1 .. N - i : p[k] = d[k]
    <2>1. 1 \in Int /\ N - i \in Int /\ \A k \in 1 .. N - i : d[k] \in Item
      BY <1>1, <1>2
    <2>2. /\ p \in Seq(Item) /\ Len(p) = IF 1 <= N - i THEN N - i - 1 + 1 ELSE 0
          /\ \A k \in 1 .. N - i - 1 + 1 : p[k] = d[1 + k - 1]
      BY <2>1, SubSeqProperties
    <2> HIDE DEF p
    <2>3. \A k \in 1 .. N - i : k \in 1 .. N - i - 1 + 1 /\ 1 + k - 1 = k
      BY <1>1
    <2> QED BY <1>1, <2>2, <2>3
  <1>4. /\ q \in Seq(Item) /\ Len(q) = m
        /\ \A k \in 1 .. m : q[k] = d[N - i + k]
    <2>1. N - i + 1 \in Int /\ n \in Int /\ \A k \in N - i + 1 .. n : d[k] \in Item
      BY <1>1, <1>2
    <2>2. /\ q \in Seq(Item) /\ Len(q) = IF N - i + 1 <= n THEN n - (N - i + 1) + 1 ELSE 0
          /\ \A k \in 1 .. n - (N - i + 1) + 1 : q[k] = d[N - i + 1 + k - 1]
      BY <2>1, SubSeqProperties
    <2> HIDE DEF q
    <2>3. \A k \in 1 .. m : k \in 1 .. n - (N - i + 1) + 1 /\ N - i + 1 + k - 1 = N - i + k
      BY <1>1
    <2> QED BY <1>1, <2>2, <2>3
  <1> HIDE DEF p, q
  <1>5. /\ e \in Arrays
        /\ \A k \in 1 .. N - i : e[i + k - 1] = p[k]
        /\ \A j \in 0 .. N - 1 : j < i => e[j] = data[j]
    <2>1. i + Len(p) <= N
      BY <1>1, <1>3
    <2> QED BY <1>1, <1>3, <2>1, CopyInIs
  <1> HIDE DEF e
  <1>6. /\ f \in Arrays
        /\ \A k \in 1 .. m : f[0 + k - 1] = q[k]
        /\ \A j \in 0 .. N - 1 : j >= 0 + m => f[j] = e[j]
    <2>1. 0 + Len(q) <= N /\ 0 \in 0 .. N
      BY <1>1, <1>4
    <2>2. /\ f \in Arrays
          /\ \A k \in 1 .. Len(q) : f[0 + k - 1] = q[k]
          /\ \A j \in 0 .. N - 1 : j < 0 \/ j >= 0 + Len(q) => f[j] = e[j]
      BY <1>4, <1>5, <2>1, CopyInIs
    <2> HIDE DEF f
    <2> QED BY <1>4, <2>2
  <1> HIDE DEF f
  <1>7. ASSUME NEW k \in 1 .. n PROVE f[Wrapped(i + k - 1)] = d[k]
    <2>1. CASE k <= N - i
      <3>1. Wrapped(i + k - 1) = i + k - 1 /\ i + k - 1 \in 0 .. N - 1 /\ i + k - 1 >= 0 + m
        BY <1>1, <2>1 DEF Wrapped
      <3>2. k \in 1 .. N - i
        BY <1>1, <2>1
      <3> QED BY <1>3, <1>5, <1>6, <3>1, <3>2
    <2>2. CASE ~(k <= N - i)
      <3>1. /\ k - (N - i) \in 1 .. m /\ Wrapped(i + k - 1) = 0 + (k - (N - i)) - 1
            /\ N - i + (k - (N - i)) = k
        BY <1>1, <2>2 DEF Wrapped
      <3>2. f[0 + (k - (N - i)) - 1] = q[k - (N - i)] /\ q[k - (N - i)] = d[N - i + (k - (N - i))]
        BY <1>4, <1>6, <3>1
      <3> QED BY <3>1, <3>2
    <2> QED BY <2>1, <2>2
  <1>8. ASSUME NEW j \in 0 .. N - 1, \A k \in 1 .. n : j # Wrapped(i + k - 1)
        PROVE  f[j] = data[j]
    <2>1. ~(j >= i)
      <3> SUFFICES ASSUME j >= i PROVE FALSE
        OBVIOUS
      <3>1. j - i + 1 \in 1 .. n /\ Wrapped(i + (j - i + 1) - 1) = j
        BY <1>1 DEF Wrapped
      <3> QED BY <1>8, <3>1
    <2>2. ~(j < m)
      <3> SUFFICES ASSUME j < m PROVE FALSE
        OBVIOUS
      <3>1. j + 1 + (N - i) \in 1 .. n /\ Wrapped(i + (j + 1 + (N - i)) - 1) = j
        BY <1>1 DEF Wrapped
      <3> QED BY <1>8, <3>1
    <2>3. j < i /\ j >= 0 + m
      BY <1>1, <2>1, <2>2
    <2> QED BY <1>5, <1>6, <2>3
  <1> QED BY <1>1, <1>6, <1>7, <1>8 DEF Written, e, f, p, q, n

-----------------------------------------------------------------------------
\* What the operations do to the content

LEMMA PutType ==
  ASSUME NEW b \in Rings, NEW d \in Seq(Item), Len(d) <= N
  PROVE  /\ Written(b.data, MASK(b.head), d, wl_buffer_put(b, d).data)
         /\ wl_buffer_put(b, d) = [data |-> wl_buffer_put(b, d).data,
                                   head |-> (b.head + Len(d)) % Mod, tail |-> b.tail]
         /\ wl_buffer_put(b, d) \in Rings
  <1> DEFINE h == MASK(b.head)
             c == wl_buffer_put(b, d)
             new == IF h + Len(d) <= N THEN CopyIn(b.data, h, d)
                    ELSE CopyIn(CopyIn(b.data, h, SubSeq(d, 1, N - h)), 0,
                                SubSeq(d, N - h + 1, Len(d)))
  <1>1. b.data \in Arrays /\ h \in 0 .. N - 1 /\ b.head \in 0 .. Mod - 1 /\ b.tail \in 0 .. Mod - 1
    BY RingShape DEF Rings
  <1>2. N \in Nat \ {0} /\ Mod \in Nat \ {0} /\ Len(d) \in 0 .. N
    BY Sizes
  <1>3. c = [data |-> new, head |-> (b.head + Len(d)) % Mod, tail |-> b.tail]
    <2>1. c = [b EXCEPT !.data = new, !.head = (b.head + Len(d)) % Mod]
      BY DEF wl_buffer_put
    <2> HIDE DEF new, c
    <2> QED BY <2>1 DEF Rings
  <1> HIDE DEF h, c
  <1>4. Written(b.data, h, d, new)
    <2>1. CASE h + Len(d) <= N
      BY <1>1, <2>1, OnePiece
    <2>2. CASE ~(h + Len(d) <= N)
      <3>1. h + Len(d) > N
        BY <1>1, <1>2, <2>2
      <3> QED BY <1>1, <2>2, <3>1, TwoPieces
    <2> QED BY <2>1, <2>2
  <1>5. new \in Arrays
    BY <1>4 DEF Written
  <1>6. (b.head + Len(d)) % Mod \in 0 .. Mod - 1
    <2>1. b.head + Len(d) \in Int
      BY <1>1, <1>2
    <2> QED BY <1>2, <2>1, RemainderExists
  <1> HIDE DEF new
  <1>7. c.data = new
    BY <1>3
  <1>8. c \in Rings
    BY <1>1, <1>3, <1>5, <1>6 DEF Rings
  <1> QED BY <1>3, <1>4, <1>7, <1>8 DEF h, c

\* wl_buffer_put appends to the content if there is room.
LEMMA PutIs ==
  ASSUME NEW b \in Rings, NEW d \in Seq(Item), wl_buffer_size(b) + Len(d) <= N
  PROVE  /\ wl_buffer_put(b, d) \in Rings
         /\ wl_buffer_size(wl_buffer_put(b, d)) = wl_buffer_size(b) + Len(d)
         /\ Content(wl_buffer_put(b, d)) = Content(b) \o d
  <1>1. Len(d) <= N
    BY RingShape, Sizes
  <1> DEFINE c == wl_buffer_put(b, d)
             new == c.data
  <1>2. /\ Written(b.data, MASK(b.head), d, new)
        /\ c = [data |-> new, head |-> (b.head + Len(d)) % Mod, tail |-> b.tail]
    BY <1>1, PutType
  <1> HIDE DEF c, new
  <1>3. c \in Rings /\ wl_buffer_size(c) = wl_buffer_size(b) + Len(d) /\ Content(c) = Content(b) \o d
    BY <1>2, WrittenIsAppended
  <1> QED BY <1>3 DEF c

\* There is as much room in the pieces as is unused, and what is written into
\* them comes behind the content.
LEMMA SpaceIs ==
  ASSUME NEW b \in Rings, wl_buffer_size(b) < N
  PROVE  IovSpace(wl_buffer_put_iov(b)) = N - wl_buffer_size(b)
  <1> DEFINE s == wl_buffer_size(b)
             t == MASK(b.tail)
             h == MASK(b.head)
  <1>1. N \in Nat \ {0} /\ s \in Nat /\ s < N /\ t \in 0 .. N - 1 /\ h \in 0 .. N - 1
    BY Sizes, RingShape
  <1>2. h = Wrapped(t + s)
    BY <1>1, RingShape
  <1>3. wl_buffer_put_iov(b) = IF h < t THEN <<Piece(h, t - h)>>
                               ELSE IF t = 0 THEN <<Piece(h, N - h)>>
                               ELSE <<Piece(h, N - h), Piece(0, t)>>
    BY DEF wl_buffer_put_iov
  <1> HIDE DEF s, t, h
  <1>4. CASE h < t
    <2>1. IovSpace(wl_buffer_put_iov(b)) = t - h
      BY <1>3, <1>4 DEF IovSpace, Piece
    <2> QED BY <1>1, <1>2, <1>4, <2>1 DEF Wrapped, s
  <1>5. CASE ~(h < t) /\ t = 0
    <2>1. IovSpace(wl_buffer_put_iov(b)) = N - h
      BY <1>3, <1>5 DEF IovSpace, Piece
    <2> QED BY <1>1, <1>2, <1>5, <2>1 DEF Wrapped, s
  <1>6. CASE ~(h < t) /\ t # 0
    <2>1. IovSpace(wl_buffer_put_iov(b)) = N - h + t
      BY <1>3, <1>6 DEF IovSpace, Piece
    <2> QED BY <1>1, <1>2, <1>6, <2>1 DEF Wrapped, s
  <1> QED BY <1>4, <1>5, <1>6

LEMMA ScatteredIs ==
  ASSUME NEW b \in Rings, NEW d \in Seq(Item), Len(d) # 0, wl_buffer_size(b) < N,
         wl_buffer_size(b) + Len(d) <= N
  PROVE  Written(b.data, MASK(b.head), d, Scattered(b, wl_buffer_put_iov(b), d))
  <1> DEFINE s == wl_buffer_size(b)
             t == MASK(b.tail)
             h == MASK(b.head)
             n == Len(d)
             new == Scattered(b, wl_buffer_put_iov(b), d)
  <1>1. /\ N \in Nat \ {0} /\ s \in Nat /\ s < N /\ t \in 0 .. N - 1 /\ h \in 0 .. N - 1
        /\ n \in Nat /\ s + n <= N /\ n # 0 /\ n <= N
    BY Sizes, RingShape
  <1>2. h = Wrapped(t + s)
    BY <1>1, RingShape
  <1>3. wl_buffer_put_iov(b) = IF h < t THEN <<Piece(h, t - h)>>
                               ELSE IF t = 0 THEN <<Piece(h, N - h)>>
                               ELSE <<Piece(h, N - h), Piece(0, t)>>
    BY DEF wl_buffer_put_iov
  <1>4. b.data \in Arrays
    BY DEF Rings
  <1> HIDE DEF s, t, h, n
  <1>5. CASE h < t
    <2>1. n <= t - h /\ h + n <= N
      BY <1>1, <1>2, <1>5 DEF Wrapped
    <2>2. new = CopyIn(b.data, h, d)
      BY <1>3, <1>5, <2>1 DEF Scattered, Piece, n
    <2>3. Written(b.data, h, d, CopyIn(b.data, h, d))
      BY <1>1, <1>4, <2>1, OnePiece DEF n
    <2> QED BY <2>2, <2>3 DEF h
  <1>6. CASE ~(h < t) /\ n <= N - h
    <2>1. wl_buffer_put_iov(b)[1] = Piece(h, N - h)
      BY <1>3, <1>6
    <2>2. new = CopyIn(b.data, h, d)
      BY <1>6, <2>1 DEF Scattered, Piece, n
    <2>3. h + n <= N
      BY <1>1, <1>6
    <2>4. Written(b.data, h, d, CopyIn(b.data, h, d))
      BY <1>1, <1>4, <2>3, OnePiece DEF n
    <2> QED BY <2>2, <2>4 DEF h
  <1>7. CASE ~(h < t) /\ ~(n <= N - h)
    <2>1. t # 0 /\ h + n > N
      BY <1>1, <1>2, <1>7 DEF Wrapped
    <2>2. wl_buffer_put_iov(b)[1] = Piece(h, N - h) /\ wl_buffer_put_iov(b)[2] = Piece(0, t)
      BY <1>3, <1>7, <2>1
    <2>3. new = CopyIn(CopyIn(b.data, h, SubSeq(d, 1, N - h)), 0, SubSeq(d, N - h + 1, n))
      BY <1>7, <2>2 DEF Scattered, Piece, n
    <2>4. Written(b.data, h, d,
                  CopyIn(CopyIn(b.data, h, SubSeq(d, 1, N - h)), 0, SubSeq(d, N - h + 1, n)))
      BY <1>1, <1>4, <2>1, TwoPieces DEF n
    <2> QED BY <2>3, <2>4 DEF h
  <1> QED BY <1>5, <1>6, <1>7

\* The pieces of the used part, in their order, are the content.
LEMMA GatheredIs ==
  ASSUME NEW b \in Rings, wl_buffer_size(b) # 0, wl_buffer_size(b) <= N
  PROVE  Gathered(b, wl_buffer_get_iov(b)) = Content(b)
  <1> DEFINE s == wl_buffer_size(b)
             t == MASK(b.tail)
             h == MASK(b.head)
             g == Gathered(b, wl_buffer_get_iov(b))
  <1>1. /\ N \in Nat \ {0} /\ s \in Nat /\ s # 0 /\ s <= N
        /\ t \in 0 .. N - 1 /\ h \in 0 .. N - 1
    BY Sizes, RingShape
  <1>2. h = Wrapped(t + s)
    BY <1>1, RingShape
  <1>3. wl_buffer_get_iov(b) = IF t < h THEN <<Piece(t, h - t)>>
                               ELSE IF h = 0 THEN <<Piece(t, N - t)>>
                               ELSE <<Piece(t, N - t), Piece(0, h)>>
    BY DEF wl_buffer_get_iov
  <1>4. b.data \in Arrays
    BY DEF Rings
  <1>5. Content(b) = IF t + s <= N THEN CopyOut(b.data, t, s)
                     ELSE CopyOut(b.data, t, N - t) \o CopyOut(b.data, 0, s - (N - t))
    BY DEF Content, wl_buffer_copy
  <1> HIDE DEF s, t, h
  <1>6. ASSUME NEW i \in 0 .. N - 1, NEW m \in 0 .. N, i + m <= N,
               wl_buffer_get_iov(b) = <<Piece(i, m)>>
        PROVE  g = CopyOut(b.data, i, m)
    <2> DEFINE p == CopyOut(b.data, i, m)
    <2>1. p \in Seq(Item)
      BY <1>4, <1>6, CopyOutIs
    <2>2. [k \in 1 .. 1 |-> CopyOut(b.data, <<Piece(i, m)>>[k].base, <<Piece(i, m)>>[k].len)] = <<p>>
      BY DEF Piece
    <2>3. g = FlattenSeq(<<p>>)
      BY <1>6, <2>2 DEF Gathered
    <2> HIDE DEF p
    <2>4. g = p
      BY <2>1, <2>3, FlattenOne
    <2> QED BY <2>4 DEF p
  <1>7. CASE t < h
    <2>1. h - t = s /\ t + s <= N /\ s \in 0 .. N
      BY <1>1, <1>2, <1>7 DEF Wrapped
    <2>2. wl_buffer_get_iov(b) = <<Piece(t, s)>>
      BY <1>3, <1>7, <2>1
    <2>3. g = CopyOut(b.data, t, s)
      BY <1>1, <1>6, <2>1, <2>2
    <2> QED BY <1>5, <2>1, <2>3
  <1>8. CASE ~(t < h) /\ h = 0
    <2>1. N - t = s /\ t + s <= N /\ s \in 0 .. N
      BY <1>1, <1>2, <1>8 DEF Wrapped
    <2>2. wl_buffer_get_iov(b) = <<Piece(t, s)>>
      BY <1>3, <1>8, <2>1
    <2>3. g = CopyOut(b.data, t, s)
      BY <1>1, <1>6, <2>1, <2>2
    <2> QED BY <1>5, <2>1, <2>3
  <1>9. CASE ~(t < h) /\ h # 0
    <2>1. h = s - (N - t) /\ ~(t + s <= N) /\ N - t \in 0 .. N /\ h \in 0 .. N /\ 0 \in 0 .. N - 1
      BY <1>1, <1>2, <1>9 DEF Wrapped
    <2> DEFINE p == CopyOut(b.data, t, N - t)
               q == CopyOut(b.data, 0, h)
               iov == <<Piece(t, N - t), Piece(0, h)>>
    <2>2. wl_buffer_get_iov(b) = iov
      BY <1>3, <1>9
    <2>3. p \in Seq(Item) /\ q \in Seq(Item)
      <3>1. t + (N - t) <= N /\ 0 + h <= N
        BY <1>1
      <3> QED BY <1>1, <1>4, <2>1, <3>1, CopyOutIs
    <2>4. [k \in 1 .. Len(iov) |-> CopyOut(b.data, iov[k].base, iov[k].len)] = <<p, q>>
      BY DEF Piece
    <2>5. g = FlattenSeq(<<p, q>>)
      <3> HIDE DEF p, q, iov
      <3> QED BY <2>2, <2>4 DEF Gathered
    <2> HIDE DEF p, q
    <2>6. <<p>> \in Seq(Seq(Item)) /\ Append(<<p>>, q) = <<p, q>>
      BY <2>3, TwoElements
    <2>7. FlattenSeq(<<p, q>>) = FlattenSeq(<<p>>) \o q
      BY <2>3, <2>6, FlattenAppend
    <2>8. g = p \o q
      BY <2>3, <2>5, <2>7, FlattenOne
    <2> QED BY <1>5, <2>1, <2>8 DEF p, q
  <1> QED BY <1>7, <1>8, <1>9

-----------------------------------------------------------------------------
\* The socket

SockItem == [word : Item, fds : Seq(Item)]

LEMMA WordsOfIs ==
  ASSUME NEW s \in Seq(SockItem)
  PROVE  /\ WordsOf(s) \in Seq(Item) /\ Len(WordsOf(s)) = Len(s)
         /\ \A i \in 1 .. Len(s) : WordsOf(s)[i] = s[i].word
  <1>1. Len(s) \in Nat /\ \A i \in 1 .. Len(s) : s[i] \in SockItem
    BY LenProperties, ElementOfSeq
  <1>2. WordsOf(s) \in [1 .. Len(s) -> Item]
    BY <1>1 DEF WordsOf, SockItem
  <1>3. WordsOf(s) \in Seq(Item) /\ Len(WordsOf(s)) = Len(s)
    BY <1>1, <1>2, FunctionIsSeq
  <1> QED BY <1>3 DEF WordsOf

\* The descriptors of each word
FdLists(s) == [k \in 1 .. Len(s) |-> s[k].fds]

LEMMA FdListsIs ==
  ASSUME NEW s \in Seq(SockItem)
  PROVE  /\ FdLists(s) \in Seq(Seq(Item)) /\ Len(FdLists(s)) = Len(s)
         /\ \A i \in 1 .. Len(s) : FdLists(s)[i] = s[i].fds
         /\ FdsOf(s) = FlattenSeq(FdLists(s))
         /\ FdsOf(s) \in Seq(Item)
  <1>1. Len(s) \in Nat /\ \A i \in 1 .. Len(s) : s[i] \in SockItem
    BY LenProperties, ElementOfSeq
  <1>2. FdLists(s) \in [1 .. Len(s) -> Seq(Item)]
    BY <1>1 DEF FdLists, SockItem
  <1>3. FdLists(s) \in Seq(Seq(Item)) /\ Len(FdLists(s)) = Len(s)
    BY <1>1, <1>2, FunctionIsSeq
  <1>4. FdsOf(s) = FlattenSeq(FdLists(s))
    BY DEF FdsOf, FdLists
  <1> QED BY <1>3, <1>4, FlattenType DEF FdLists

LEMMA SocketConcat ==
  ASSUME NEW s \in Seq(SockItem), NEW t \in Seq(SockItem)
  PROVE  /\ s \o t \in Seq(SockItem)
         /\ WordsOf(s \o t) = WordsOf(s) \o WordsOf(t)
         /\ FdsOf(s \o t) = FdsOf(s) \o FdsOf(t)
  <1> DEFINE c == s \o t
  <1>1. /\ c \in Seq(SockItem) /\ Len(c) = Len(s) + Len(t)
        /\ \A i \in 1 .. Len(s) + Len(t) : c[i] = IF i <= Len(s) THEN s[i] ELSE t[i - Len(s)]
    BY ConcatProperties
  <1>2. Len(s) \in Nat /\ Len(t) \in Nat
    BY LenProperties
  <1> HIDE DEF c
  <1>3. WordsOf(c) = WordsOf(s) \o WordsOf(t)
    <2> DEFINE d == WordsOf(s) \o WordsOf(t)
    <2>1. /\ WordsOf(s) \in Seq(Item) /\ Len(WordsOf(s)) = Len(s)
          /\ \A i \in 1 .. Len(s) : WordsOf(s)[i] = s[i].word
      BY WordsOfIs
    <2>2. /\ WordsOf(t) \in Seq(Item) /\ Len(WordsOf(t)) = Len(t)
          /\ \A i \in 1 .. Len(t) : WordsOf(t)[i] = t[i].word
      BY WordsOfIs
    <2>3. /\ d \in Seq(Item) /\ Len(d) = Len(s) + Len(t)
          /\ \A i \in 1 .. Len(s) + Len(t) :
                d[i] = IF i <= Len(s) THEN WordsOf(s)[i] ELSE WordsOf(t)[i - Len(s)]
      <3> DEFINE x == WordsOf(s) y == WordsOf(t)
      <3>1. x \in Seq(Item) /\ y \in Seq(Item)
        BY <2>1, <2>2
      <3>2. Len(x) = Len(s) /\ Len(y) = Len(t) /\ d = x \o y
        BY <2>1, <2>2
      <3> HIDE DEF x, y, d
      <3>3. /\ d \in Seq(Item) /\ Len(d) = Len(x) + Len(y)
            /\ \A i \in 1 .. Len(x) + Len(y) : d[i] = IF i <= Len(x) THEN x[i] ELSE y[i - Len(x)]
        <4>1. \A e : e = x \o y =>
                /\ e \in Seq(Item) /\ Len(e) = Len(x) + Len(y)
                /\ \A i \in 1 .. Len(x) + Len(y) : e[i] = IF i <= Len(x) THEN x[i] ELSE y[i - Len(x)]
          BY ONLY <3>1, ConcatIs
        <4> QED BY ONLY <3>2, <4>1
      <3>4. /\ d \in Seq(Item) /\ Len(d) = Len(s) + Len(t)
            /\ \A i \in 1 .. Len(s) + Len(t) : d[i] = IF i <= Len(s) THEN x[i] ELSE y[i - Len(s)]
        BY ONLY <3>2, <3>3
      <3> QED BY <3>4 DEF x, y
    <2> HIDE DEF d
    <2>4. /\ WordsOf(c) \in Seq(Item) /\ Len(WordsOf(c)) = Len(c)
          /\ \A i \in 1 .. Len(c) : WordsOf(c)[i] = c[i].word
      BY <1>1, WordsOfIs
    <2>5. ASSUME NEW i \in 1 .. Len(c) PROVE WordsOf(c)[i] = d[i]
      <3>1. CASE i <= Len(s)
        BY <1>1, <1>2, <2>1, <2>3, <2>4, <3>1
      <3>2. CASE ~(i <= Len(s))
        <4>1. i - Len(s) \in 1 .. Len(t)
          BY <1>1, <1>2, <3>2
        <4> QED BY <1>1, <2>2, <2>3, <2>4, <3>2, <4>1
      <3> QED BY <3>1, <3>2
    <2>6. WordsOf(c) = d
      BY <1>1, <2>3, <2>4, <2>5, SeqEqual
    <2> QED BY <2>6 DEF d
  <1>4. FdsOf(c) = FdsOf(s) \o FdsOf(t)
    <2> DEFINE x == FdLists(s)
               y == FdLists(t)
               d == x \o y
    <2>1. /\ x \in Seq(Seq(Item)) /\ Len(x) = Len(s)
          /\ \A i \in 1 .. Len(s) : x[i] = s[i].fds
      BY FdListsIs
    <2>2. /\ y \in Seq(Seq(Item)) /\ Len(y) = Len(t)
          /\ \A i \in 1 .. Len(t) : y[i] = t[i].fds
      BY FdListsIs
    <2> HIDE DEF x, y
    <2>3. /\ d \in Seq(Seq(Item)) /\ Len(d) = Len(s) + Len(t)
          /\ \A i \in 1 .. Len(s) + Len(t) : d[i] = IF i <= Len(s) THEN x[i] ELSE y[i - Len(s)]
      <3>1. x \in Seq(Seq(Item)) /\ y \in Seq(Seq(Item)) /\ d = x \o y
        BY <2>1, <2>2
      <3> HIDE DEF d
      <3>2. \A e : e = x \o y =>
              /\ e \in Seq(Seq(Item)) /\ Len(e) = Len(x) + Len(y)
              /\ \A i \in 1 .. Len(x) + Len(y) : e[i] = IF i <= Len(x) THEN x[i] ELSE y[i - Len(x)]
        BY <3>1, ConcatIs
      <3>3. /\ d \in Seq(Seq(Item)) /\ Len(d) = Len(x) + Len(y)
            /\ \A i \in 1 .. Len(x) + Len(y) : d[i] = IF i <= Len(x) THEN x[i] ELSE y[i - Len(x)]
        BY <3>1, <3>2
      <3> QED BY <2>1, <2>2, <3>3
    <2> HIDE DEF d
    <2>4. /\ FdLists(c) \in Seq(Seq(Item)) /\ Len(FdLists(c)) = Len(c)
          /\ \A i \in 1 .. Len(c) : FdLists(c)[i] = c[i].fds
          /\ FdsOf(c) = FlattenSeq(FdLists(c))
      BY <1>1, FdListsIs
    <2>5. ASSUME NEW i \in 1 .. Len(c) PROVE FdLists(c)[i] = d[i]
      <3>1. CASE i <= Len(s)
        <4>1. i \in 1 .. Len(s) /\ c[i] = s[i] /\ d[i] = x[i]
          BY <1>1, <1>2, <2>3, <3>1
        <4> QED BY <2>1, <2>4, <4>1
      <3>2. CASE ~(i <= Len(s))
        <4>1. i - Len(s) \in 1 .. Len(t)
          BY <1>1, <1>2, <3>2
        <4>2. c[i] = t[i - Len(s)] /\ d[i] = y[i - Len(s)]
          BY <1>1, <2>3, <3>2
        <4> QED BY <2>2, <2>4, <4>1, <4>2
      <3> QED BY <3>1, <3>2
    <2>6. FdLists(c) = d
      BY <1>1, <2>3, <2>4, <2>5, SeqEqual
    <2>7. FlattenSeq(x \o y) = FlattenSeq(x) \o FlattenSeq(y)
      BY <2>1, <2>2, FlattenConcat
    <2> QED BY <2>4, <2>6, <2>7, FdListsIs DEF d, x, y
  <1> QED BY <1>1, <1>3, <1>4 DEF c

LEMMA InSocketIs ==
  ASSUME NEW words \in Seq(Item), Len(words) # 0, NEW fds \in Seq(Item)
  PROVE  /\ InSocket(words, fds) \in Seq(SockItem)
         /\ Len(InSocket(words, fds)) = Len(words)
         /\ \A i \in 1 .. Len(words) :
               InSocket(words, fds)[i] = [word |-> words[i], fds |-> IF i = 1 THEN fds ELSE <<>>]
         /\ WordsOf(InSocket(words, fds)) = words
         /\ FdsOf(InSocket(words, fds)) = fds
  <1> DEFINE s == InSocket(words, fds)
             n == Len(words)
  <1>1. n \in Nat /\ n # 0 /\ \A i \in 1 .. n : words[i] \in Item
    BY LenProperties, ElementOfSeq
  <1>2. \A i \in 1 .. n : s[i] = [word |-> words[i], fds |-> IF i = 1 THEN fds ELSE <<>>]
    BY DEF InSocket
  <1>3. s \in [1 .. n -> SockItem]
    <2>1. <<>> \in Seq(Item)
      OBVIOUS
    <2> QED BY <1>1, <2>1 DEF InSocket, SockItem
  <1> HIDE DEF n
  <1>4. s \in Seq(SockItem) /\ Len(s) = n
    BY <1>1, <1>3, FunctionIsSeq
  <1> HIDE DEF s
  <1>7. \A i \in 1 .. n : s[i].word = words[i] /\ s[i].fds = IF i = 1 THEN fds ELSE <<>>
    <2> TAKE i \in 1 .. n
    <2> DEFINE f == IF i = 1 THEN fds ELSE <<>>
    <2>1. s[i] = [word |-> words[i], fds |-> f]
      BY <1>2
    <2> HIDE DEF f
    <2>2. s[i].word = words[i] /\ s[i].fds = f
      BY <2>1
    <2> QED BY <2>2 DEF f
  <1>5. WordsOf(s) = words
    <2>1. /\ WordsOf(s) \in Seq(Item) /\ Len(WordsOf(s)) = n
          /\ \A i \in 1 .. n : WordsOf(s)[i] = s[i].word
      BY <1>4, WordsOfIs
    <2>2. \A i \in 1 .. n : WordsOf(s)[i] = words[i]
      BY <1>7, <2>1
    <2> QED BY <2>1, <2>2, SeqEqual DEF n
  <1>6. FdsOf(s) = fds
    <2> DEFINE x == FdLists(s)
               y == SubSeq(x, 2, Len(x))
    <2>1. /\ x \in Seq(Seq(Item)) /\ Len(x) = n /\ FdsOf(s) = FlattenSeq(x)
          /\ \A i \in 1 .. n : x[i] = s[i].fds
      BY <1>4, FdListsIs
    <2> HIDE DEF x
    <2>2. y \in Seq(Seq(Item)) /\ FlattenSeq(x) = x[1] \o FlattenSeq(y)
      BY <1>1, <2>1, FlattenHead
    <2>3. x[1] = fds
      <3>1. 1 \in 1 .. n
        BY <1>1
      <3> QED BY <1>7, <2>1, <3>1
    <2>4. Len(y) = n - 1 /\ \A i \in 1 .. n - 1 : y[i] = x[1 + i]
      <3>1. 1 \in 0 .. Len(x) /\ y = SubSeq(x, 1 + 1, Len(x))
        BY <1>1, <2>1
      <3> QED BY <2>1, <3>1, SplitSeq
    <2> HIDE DEF y
    <2>5. ASSUME NEW i \in 1 .. Len(y) PROVE y[i] = <<>>
      <3>1. 1 + i \in 1 .. n /\ 1 + i # 1
        BY <1>1, <2>4
      <3>2. y[i] = s[1 + i].fds
        BY <2>1, <2>4, <3>1
      <3> QED BY <1>7, <3>1, <3>2
    <2>6. FlattenSeq(y) = <<>>
      BY <2>2, <2>5, FlattenEmpties
    <2> QED BY <2>1, <2>2, <2>3, <2>6, ConcatEmptySeq
  <1> QED BY <1>2, <1>4, <1>5, <1>6 DEF s, n

-----------------------------------------------------------------------------
\* The sender

Senders == [out : Rings, fds_out : Rings, want_flush : BOOLEAN]

SenderOK(t, s) ==
    /\ t \in Senders /\ wl_buffer_size(t.out) <= N
    /\ s \in Seq(SockItem) /\ Len(s) <= Room

AllWords(t, s) == WordsOf(s) \o Content(t.out)

AllFds(t, s) == FdsOf(s) \o Content(t.fds_out)

\* A descriptor that comes behind a word belongs to a later message: c has the
\* words that are received, s is the socket and fo has what is not sent.
Ahead(c, s, fo) ==
    /\ \A i \in 1 .. Len(c) : \A j \in 1 .. Len(fo) : c[i][1] < fo[j][1]
    /\ \A i \in 1 .. Len(c) : \A j \in 1 .. Len(s) : \A k \in 1 .. Len(s[j].fds) :
          c[i][1] < s[j].fds[k][1]
    /\ \A i \in 1 .. Len(s) : \A j \in 1 .. Len(fo) : s[i].word[1] < fo[j][1]
    /\ \A i, j \in 1 .. Len(s) : i < j =>
          \A k \in 1 .. Len(s[j].fds) : s[i].word[1] < s[j].fds[k][1]

\* Descriptors wait for words that wait, but for the i of a message whose words
\* are still to come.
FdRoom(t, i) ==
    /\ wl_buffer_size(t.fds_out) <= MaxFdsOut
    /\ wl_buffer_size(t.out) = 0 => wl_buffer_size(t.fds_out) <= i

Kept(t, s, r) ==
    /\ r = Outcome(r.tx, r.sock, r.ok)
    /\ SenderOK(r.tx, r.sock) /\ r.ok \in BOOLEAN
    /\ AllWords(r.tx, r.sock) = AllWords(t, s)

KeptFds(t, s, r) ==
    /\ wl_buffer_size(r.tx.fds_out) <= MaxFdsOut
    /\ AllFds(r.tx, r.sock) = AllFds(t, s)
    /\ \A c \in Seq(Item) : Ahead(c, s, Content(t.fds_out)) =>
                               Ahead(c, r.sock, Content(r.tx.fds_out))

LEMMA DroppedType ==
  ASSUME NEW b \in Rings, NEW n \in Nat
  PROVE  Dropped(b, n) \in Rings
  <1>1. b.data \in Arrays /\ b.head \in 0 .. Mod - 1 /\ b.tail \in 0 .. Mod - 1
    BY DEF Rings
  <1>2. (b.tail + n) % Mod \in 0 .. Mod - 1
    <2>1. b.tail + n \in Int /\ Mod \in Nat \ {0}
      BY <1>1, Sizes
    <2> QED BY <2>1, RemainderExists
  <1>3. Dropped(b, n) = [data |-> b.data, head |-> b.head, tail |-> (b.tail + n) % Mod]
    BY DEF Dropped, Rings
  <1> QED BY <1>1, <1>2, <1>3 DEF Rings

LEMMA EmptyContent ==
  ASSUME NEW b \in Rings, wl_buffer_size(b) = 0
  PROVE  Content(b) = <<>>
  <1>1. wl_buffer_size(b) <= N
    BY Sizes
  <1> QED BY <1>1, ContentIs, EmptySeq

LEMMA AheadSent ==
  ASSUME NEW c \in Seq(Item), NEW s \in Seq(SockItem), NEW fo \in Seq(Item), Ahead(c, s, fo),
         NEW words \in Seq(Item), Len(words) # 0
  PROVE  Ahead(c, s \o InSocket(words, fo), <<>>)
  <1> DEFINE x == InSocket(words, fo)
             u == s \o x
  <1>1. /\ x \in Seq(SockItem) /\ Len(x) = Len(words)
        /\ \A i \in 1 .. Len(words) : x[i] = [word |-> words[i], fds |-> IF i = 1 THEN fo ELSE <<>>]
    BY InSocketIs
  <1>2. Len(words) \in Nat /\ Len(words) # 0 /\ Len(s) \in Nat
    BY LenProperties
  <1>3. \A i \in 1 .. Len(words) : x[i].fds = IF i = 1 THEN fo ELSE <<>>
    <2> TAKE i \in 1 .. Len(words)
    <2> DEFINE f == IF i = 1 THEN fo ELSE <<>>
    <2>1. x[i] = [word |-> words[i], fds |-> f]
      BY <1>1
    <2> HIDE DEF f, x
    <2>2. x[i].fds = f
      BY <2>1
    <2> QED BY <2>2 DEF f
  <1> HIDE DEF x
  <1>4. /\ u \in Seq(SockItem) /\ Len(u) = Len(s) + Len(x)
        /\ \A i \in 1 .. Len(s) + Len(x) : u[i] = IF i <= Len(s) THEN s[i] ELSE x[i - Len(s)]
    <2>1. \A v : v = s \o x =>
             /\ v \in Seq(SockItem) /\ Len(v) = Len(s) + Len(x)
             /\ \A i \in 1 .. Len(s) + Len(x) : v[i] = IF i <= Len(s) THEN s[i] ELSE x[i - Len(s)]
      <3>1. s \in Seq(SockItem) /\ x \in Seq(SockItem)
        BY <1>1
      <3> QED BY ONLY <3>1, ConcatIs
    <2>2. u = s \o x
      OBVIOUS
    <2> HIDE DEF u
    <2> QED BY <2>1, <2>2
  <1> HIDE DEF u
  <1>5. \A i \in 1 .. Len(s) : i \in 1 .. Len(u) /\ u[i] = s[i]
    BY <1>1, <1>2, <1>4
  <1>6. \A j \in 1 .. Len(u) :
           \/ j \in 1 .. Len(s)
           \/ j = Len(s) + 1 /\ u[j].fds = fo
           \/ u[j].fds = <<>>
    <2> TAKE j \in 1 .. Len(u)
    <2>1. CASE j <= Len(s)
      BY <1>2, <2>1
    <2>2. CASE ~(j <= Len(s))
      <3>1. j - Len(s) \in 1 .. Len(words) /\ u[j] = x[j - Len(s)]
        BY <1>1, <1>2, <1>4, <2>2
      <3>2. u[j].fds = IF j - Len(s) = 1 THEN fo ELSE <<>>
        BY <1>3, <3>1
      <3>3. CASE j = Len(s) + 1
        BY <1>2, <3>2, <3>3
      <3>4. CASE j # Len(s) + 1
        <4>1. j - Len(s) # 1
          BY <1>2, <1>4, <1>1, <3>4
        <4> QED BY <3>2, <4>1
      <3> QED BY <3>3, <3>4
    <2> QED BY <2>1, <2>2
  <1>7. ASSUME NEW i \in 1 .. Len(c), NEW j \in 1 .. Len(u), NEW k \in 1 .. Len(u[j].fds)
        PROVE  c[i][1] < u[j].fds[k][1]
    <2>1. CASE j \in 1 .. Len(s)
      BY <1>5, <2>1 DEF Ahead
    <2>2. CASE u[j].fds = fo
      BY <2>2 DEF Ahead
    <2>3. CASE u[j].fds = <<>>
      BY <2>3
    <2> QED BY <1>6, <2>1, <2>2, <2>3
  <1>8. ASSUME NEW i \in 1 .. Len(u), NEW j \in 1 .. Len(u), i < j, NEW k \in 1 .. Len(u[j].fds)
        PROVE  u[i].word[1] < u[j].fds[k][1]
    <2>1. CASE j \in 1 .. Len(s)
      <3>1. i \in 1 .. Len(s)
        BY <1>2, <1>8, <2>1
      <3> QED BY <1>5, <1>8, <2>1, <3>1 DEF Ahead
    <2>2. CASE j = Len(s) + 1 /\ u[j].fds = fo
      <3>1. i \in 1 .. Len(s) /\ u[i] = s[i]
        BY <1>2, <1>5, <1>8, <2>2
      <3> QED BY <2>2, <3>1 DEF Ahead
    <2>3. CASE u[j].fds = <<>>
      BY <2>3
    <2> QED BY <1>6, <2>1, <2>2, <2>3
  <1>9. Len(<<>>) = 0
    OBVIOUS
  <1>10. Ahead(c, u, <<>>)
    BY <1>7, <1>8, <1>9 DEF Ahead
  <1> QED BY <1>10 DEF u, x

LEMMA SentIs ==
  ASSUME NEW t, NEW s, SenderOK(t, s), wl_buffer_size(t.out) # 0,
         NEW k \in 1 .. MinOf(wl_buffer_size(t.out), Room - Len(s)),
         NEW r, r = Sent(t, s, k)
  PROVE  /\ Kept(t, s, r)
         /\ r.ok => wl_buffer_size(r.tx.out) = 0
         /\ wl_buffer_size(t.fds_out) <= MaxFdsOut =>
              KeptFds(t, s, r) /\ wl_buffer_size(r.tx.fds_out) = 0
  <1> DEFINE o == t.out
             f == t.fds_out
             n == wl_buffer_size(o)
             m == wl_buffer_size(f)
             words == SubSeq(Gathered(o, wl_buffer_get_iov(o)), 1, k)
             fds == wl_buffer_copy(f, MinOf(m, MaxFdsOut))
             x == InSocket(words, fds)
  <1>1. /\ o \in Rings /\ f \in Rings /\ t.want_flush \in BOOLEAN
        /\ s \in Seq(SockItem) /\ Len(s) \in Nat /\ Len(s) <= Room
        /\ n \in Nat /\ n <= N /\ n # 0 /\ m \in Nat
        /\ Room \in Nat /\ MaxFdsOut \in 1 .. N /\ N \in Nat
    BY RingShape, LenProperties, ConnectionAssumption DEF SenderOK, Senders
  <1>2. t = [out |-> o, fds_out |-> f, want_flush |-> t.want_flush]
    BY DEF SenderOK, Senders
  <1>3. k \in 1 .. n /\ Len(s) + k <= Room
    BY <1>1 DEF MinOf
  <1>4. /\ r.tx.out = Dropped(o, k) /\ r.tx.fds_out = Dropped(f, m)
        /\ r.tx = [out |-> Dropped(o, k), fds_out |-> Dropped(f, m), want_flush |-> k < n]
        /\ r.sock = s \o x /\ r.ok = (k = n)
        /\ r = Outcome(r.tx, r.sock, r.ok)
    <2>1. r = Outcome([t EXCEPT !.out = Dropped(o, k), !.fds_out = Dropped(f, m),
                                !.want_flush = k < n], s \o x, k = n)
      BY DEF Sent
    <2> HIDE DEF o, f, n, m, x
    <2>2. r.tx = [t EXCEPT !.out = Dropped(o, k), !.fds_out = Dropped(f, m), !.want_flush = k < n]
      BY <2>1 DEF Outcome
    <2>3. r.sock = s \o x /\ r.ok = (k = n)
      BY <2>1 DEF Outcome
    <2>4. r = Outcome(r.tx, r.sock, r.ok)
      BY <2>1 DEF Outcome
    <2> QED BY <1>2, <2>2, <2>3, <2>4
  <1> HIDE DEF o, f
  <1>5. /\ Content(o) \in Seq(Item) /\ Len(Content(o)) = n
        /\ words = SubSeq(Content(o), 1, k)
    BY <1>1, ContentIs, GatheredIs
  <1> HIDE DEF n
  <1>6. /\ words \in Seq(Item) /\ Len(words) = k
        /\ SubSeq(Content(o), k + 1, n) \in Seq(Item)
        /\ words \o SubSeq(Content(o), k + 1, n) = Content(o)
    <2>1. k \in 0 .. Len(Content(o))
      BY <1>1, <1>3, <1>5
    <2>2. /\ words \in Seq(Item) /\ Len(words) = k
          /\ SubSeq(Content(o), k + 1, Len(Content(o))) \in Seq(Item)
          /\ words \o SubSeq(Content(o), k + 1, Len(Content(o))) = Content(o)
      <3>1. Content(o) \in Seq(Item) /\ words = SubSeq(Content(o), 1, k)
        BY <1>5
      <3> HIDE DEF words
      <3> QED BY <2>1, <3>1, SplitSeq
    <2> QED BY <1>5, <2>2
  <1>7. /\ Dropped(o, k) \in Rings /\ wl_buffer_size(Dropped(o, k)) = n - k
        /\ Content(Dropped(o, k)) = SubSeq(Content(o), k + 1, n)
    <2>1. wl_buffer_size(o) <= N /\ k \in 0 .. wl_buffer_size(o)
      BY <1>1, <1>3 DEF n
    <2> QED BY <1>1, <2>1, DroppedIs DEF n
  <1>8. fds \in Seq(Item)
    <2>1. MinOf(m, MaxFdsOut) \in 0 .. N
      BY <1>1 DEF MinOf
    <2> HIDE DEF m
    <2> QED BY <1>1, <2>1, CopyIs
  <1>9. Dropped(f, m) \in Rings
    BY <1>1, DroppedType
  <1> HIDE DEF words, fds
  <1>10. /\ x \in Seq(SockItem) /\ Len(x) = k /\ WordsOf(x) = words /\ FdsOf(x) = fds
    <2>1. Len(words) # 0
      BY <1>3, <1>6
    <2> QED BY <1>6, <1>8, <2>1, InSocketIs
  <1> HIDE DEF x
  <1>11. /\ s \o x \in Seq(SockItem) /\ Len(s \o x) = Len(s) + k
         /\ WordsOf(s \o x) = WordsOf(s) \o words
         /\ FdsOf(s \o x) = FdsOf(s) \o fds
    BY <1>1, <1>10, SocketConcat, ConcatProperties
  <1>12. SenderOK(r.tx, r.sock) /\ r.ok \in BOOLEAN
    <2>1. r.tx \in Senders
      BY <1>4, <1>7, <1>9 DEF Senders
    <2>2. wl_buffer_size(r.tx.out) <= N
      BY <1>1, <1>3, <1>4, <1>7
    <2> QED BY <1>3, <1>4, <1>11, <2>1, <2>2 DEF SenderOK
  <1>13. AllWords(r.tx, r.sock) = AllWords(t, s)
    <2> DEFINE a == WordsOf(s)
               b == words
               d == SubSeq(Content(o), k + 1, n)
    <2>1. a \in Seq(Item) /\ b \in Seq(Item) /\ d \in Seq(Item)
      BY <1>1, <1>6, WordsOfIs
    <2>2. AllWords(r.tx, r.sock) = (a \o b) \o d /\ AllWords(t, s) = a \o (b \o d)
      BY <1>4, <1>6, <1>7, <1>11 DEF AllWords, o
    <2> HIDE DEF a, b, d
    <2>3. (a \o b) \o d = a \o (b \o d)
      BY <2>1
    <2> QED BY <2>2, <2>3
  <1>14. r.ok => wl_buffer_size(r.tx.out) = 0
    <2>1. wl_buffer_size(r.tx.out) = n - k /\ (r.ok => k = n)
      BY <1>4, <1>7
    <2> QED BY <1>1, <2>1
  <1>15. ASSUME m <= MaxFdsOut
         PROVE  KeptFds(t, s, r) /\ wl_buffer_size(r.tx.fds_out) = 0
    <2>1. m <= N /\ m \in 0 .. m /\ MinOf(m, MaxFdsOut) = m
      BY <1>1, <1>15 DEF MinOf
    <2>2. fds = Content(f) /\ Content(f) \in Seq(Item)
      BY <1>1, <2>1, ContentIs DEF fds, Content
    <2>3. wl_buffer_size(Dropped(f, m)) = m - m
      <3>1. wl_buffer_size(f) <= N /\ m \in 0 .. wl_buffer_size(f) /\ m = wl_buffer_size(f)
        BY <2>1
      <3> HIDE DEF m
      <3> QED BY <1>1, <3>1, DroppedIs
    <2>4. wl_buffer_size(r.tx.fds_out) = 0 /\ Content(r.tx.fds_out) = <<>>
      <3>1. wl_buffer_size(r.tx.fds_out) = 0
        BY <1>1, <1>4, <2>3
      <3> QED BY <1>4, <1>9, <3>1, EmptyContent
    <2>5. AllFds(r.tx, r.sock) = AllFds(t, s)
      <3> DEFINE a == FdsOf(s) \o Content(f)
      <3>1. FdsOf(s) \in Seq(Item)
        BY <1>1, FdListsIs
      <3>2. a \in Seq(Item)
        BY <2>2, <3>1, ConcatProperties
      <3>3. AllFds(t, s) = a /\ AllFds(r.tx, r.sock) = a \o <<>>
        BY <1>4, <1>11, <2>2, <2>4 DEF AllFds, f
      <3> HIDE DEF a
      <3> QED BY <3>2, <3>3, ConcatEmptySeq
    <2>6. ASSUME NEW c \in Seq(Item), Ahead(c, s, Content(t.fds_out))
          PROVE  Ahead(c, r.sock, Content(r.tx.fds_out))
      <3>1. Len(words) # 0 /\ Ahead(c, s, Content(f))
        BY <1>3, <1>6, <2>6 DEF f
      <3>2. Ahead(c, s \o InSocket(words, Content(f)), <<>>)
        BY <1>1, <1>6, <2>2, <3>1, AheadSent
      <3> QED BY <1>4, <2>2, <2>4, <3>2 DEF x
    <2>7. wl_buffer_size(r.tx.fds_out) <= MaxFdsOut
      BY <1>1, <2>4
    <2> QED BY <2>4, <2>5, <2>6, <2>7 DEF KeptFds
  <1> QED BY <1>4, <1>12, <1>13, <1>14, <1>15 DEF Kept, f

-----------------------------------------------------------------------------
\* The calls of the sender

LEMMA SameKept ==
  ASSUME NEW t, NEW s, SenderOK(t, s), NEW u \in Senders,
         u.out = t.out, u.fds_out = t.fds_out,
         NEW r, r = Outcome(r.tx, r.sock, r.ok), r.tx = u, r.sock = s, r.ok \in BOOLEAN
  PROVE  /\ Kept(t, s, r)
         /\ wl_buffer_size(t.fds_out) <= MaxFdsOut => KeptFds(t, s, r)
         /\ \A i \in Nat : FdRoom(t, i) => FdRoom(r.tx, i)
  <1>1. SenderOK(r.tx, r.sock)
    BY DEF SenderOK
  <1>2. Kept(t, s, r)
    BY <1>1 DEF Kept, AllWords
  <1>3. wl_buffer_size(t.fds_out) <= MaxFdsOut => KeptFds(t, s, r)
    BY DEF KeptFds, AllFds
  <1>4. \A i \in Nat : FdRoom(t, i) => FdRoom(r.tx, i)
    BY DEF FdRoom
  <1> QED BY <1>2, <1>3, <1>4

\* A flush, also a partial one, moves words and descriptors and loses none.
LEMMA FlushIs ==
  ASSUME NEW t, NEW s, SenderOK(t, s), NEW r \in Flush(t, s)
  PROVE  /\ Kept(t, s, r)
         /\ wl_buffer_size(t.fds_out) <= MaxFdsOut => KeptFds(t, s, r)
         /\ \A i \in Nat : FdRoom(t, i) => FdRoom(r.tx, i)
         /\ t.want_flush /\ r.ok =>
              /\ wl_buffer_size(r.tx.out) = 0
              /\ wl_buffer_size(t.out) # 0 /\ wl_buffer_size(t.fds_out) <= MaxFdsOut =>
                   wl_buffer_size(r.tx.fds_out) = 0
  <1> DEFINE n == wl_buffer_size(t.out)
  <1>1. t \in Senders
    BY DEF SenderOK
  <1>2. CASE ~t.want_flush
    <2>1. r = Outcome(t, s, TRUE)
      BY <1>2 DEF Flush
    <2>2. r.tx = t /\ r.sock = s /\ r.ok = TRUE /\ r = Outcome(r.tx, r.sock, r.ok)
      BY <2>1 DEF Outcome
    <2> QED BY <1>1, <1>2, <2>2, SameKept
  <1>3. CASE t.want_flush /\ n = 0
    <2> DEFINE u == [t EXCEPT !.want_flush = FALSE]
    <2>1. r = Outcome(u, s, TRUE)
      BY <1>3 DEF Flush
    <2>2. u \in Senders /\ u.out = t.out /\ u.fds_out = t.fds_out
      BY <1>1 DEF Senders
    <2> HIDE DEF u
    <2>3. r.tx = u /\ r.sock = s /\ r.ok = TRUE /\ r = Outcome(r.tx, r.sock, r.ok)
      BY <2>1 DEF Outcome
    <2>4. /\ Kept(t, s, r)
          /\ wl_buffer_size(t.fds_out) <= MaxFdsOut => KeptFds(t, s, r)
          /\ \A i \in Nat : FdRoom(t, i) => FdRoom(r.tx, i)
      BY <2>2, <2>3, SameKept
    <2> QED BY <1>3, <2>2, <2>3, <2>4
  <1>4. CASE t.want_flush /\ n # 0
    <2>1. \/ r = Outcome(t, s, FALSE)
          \/ \E k \in 1 .. MinOf(n, Room - Len(s)) : r = Sent(t, s, k)
      BY <1>4 DEF Flush
    <2>2. CASE r = Outcome(t, s, FALSE)
      <3>1. r.tx = t /\ r.sock = s /\ r.ok = FALSE /\ r = Outcome(r.tx, r.sock, r.ok)
        BY <2>2 DEF Outcome
      <3> QED BY <1>1, <3>1, SameKept
    <2>3. CASE \E k \in 1 .. MinOf(n, Room - Len(s)) : r = Sent(t, s, k)
      <3>1. PICK k \in 1 .. MinOf(wl_buffer_size(t.out), Room - Len(s)) : r = Sent(t, s, k)
        BY <2>3
      <3>2. /\ Kept(t, s, r)
            /\ r.ok => wl_buffer_size(r.tx.out) = 0
            /\ wl_buffer_size(t.fds_out) <= MaxFdsOut =>
                 KeptFds(t, s, r) /\ wl_buffer_size(r.tx.fds_out) = 0
        BY <1>4, <3>1, SentIs
      <3>3. \A i \in Nat : FdRoom(t, i) => FdRoom(r.tx, i)
        <4>1. MaxFdsOut \in Nat
          BY ConnectionAssumption
        <4> QED BY <3>2, <4>1 DEF FdRoom
      <3> QED BY <3>2, <3>3
    <2> QED BY <2>1, <2>2, <2>3
  <1> QED BY <1>1, <1>2, <1>3, <1>4 DEF Senders

LEMMA FlushMustIs ==
  ASSUME NEW t, NEW s, SenderOK(t, s), NEW r \in Flush([t EXCEPT !.want_flush = TRUE], s)
  PROVE  /\ Kept(t, s, r)
         /\ wl_buffer_size(t.fds_out) <= MaxFdsOut => KeptFds(t, s, r)
         /\ \A i \in Nat : FdRoom(t, i) => FdRoom(r.tx, i)
         /\ r.ok =>
              /\ wl_buffer_size(r.tx.out) = 0
              /\ wl_buffer_size(t.out) # 0 /\ wl_buffer_size(t.fds_out) <= MaxFdsOut =>
                   wl_buffer_size(r.tx.fds_out) = 0
  <1> DEFINE u == [t EXCEPT !.want_flush = TRUE]
  <1>1. u \in Senders /\ u.out = t.out /\ u.fds_out = t.fds_out /\ u.want_flush = TRUE
    BY DEF SenderOK, Senders
  <1>2. r \in Flush(u, s)
    OBVIOUS
  <1> HIDE DEF u
  <1>3. SenderOK(u, s)
    BY <1>1 DEF SenderOK
  <1>4. /\ Kept(u, s, r)
        /\ wl_buffer_size(u.fds_out) <= MaxFdsOut => KeptFds(u, s, r)
        /\ \A i \in Nat : FdRoom(u, i) => FdRoom(r.tx, i)
        /\ r.ok =>
             /\ wl_buffer_size(r.tx.out) = 0
             /\ wl_buffer_size(u.out) # 0 /\ wl_buffer_size(u.fds_out) <= MaxFdsOut =>
                  wl_buffer_size(r.tx.fds_out) = 0
    BY <1>1, <1>2, <1>3, FlushIs
  <1>5. Kept(t, s, r)
    BY <1>1, <1>4 DEF Kept, AllWords
  <1>6. wl_buffer_size(t.fds_out) <= MaxFdsOut => KeptFds(t, s, r)
    BY <1>1, <1>4 DEF KeptFds, AllFds
  <1>7. \A i \in Nat : FdRoom(t, i) => FdRoom(r.tx, i)
    BY <1>1, <1>4 DEF FdRoom
  <1> QED BY <1>1, <1>4, <1>5, <1>6, <1>7

LEMMA NoFlushIs ==
  ASSUME NEW t, NEW s, SenderOK(t, s), NEW r, r = Outcome(t, s, TRUE)
  PROVE  /\ Kept(t, s, r) /\ r.tx = t /\ r.sock = s /\ r.ok = TRUE
         /\ wl_buffer_size(t.fds_out) <= MaxFdsOut => KeptFds(t, s, r)
         /\ \A i \in Nat : FdRoom(t, i) => FdRoom(r.tx, i)
  <1>1. t \in Senders
    BY DEF SenderOK
  <1>2. r.tx = t /\ r.sock = s /\ r.ok = TRUE /\ r = Outcome(r.tx, r.sock, r.ok)
    BY DEF Outcome
  <1> QED BY <1>1, <1>2, SameKept

-----------------------------------------------------------------------------
\* Descriptors and words are put into the buffers

Below(c, m) == \A i \in 1 .. Len(c) : c[i][1] \in Nat /\ c[i][1] < m

PutsFds(t, s, r, fds, m) ==
    /\ AllFds(r.tx, r.sock) = AllFds(t, s) \o fds
    /\ \A c \in Seq(Item) : Below(c, m) /\ Ahead(c, s, Content(t.fds_out)) =>
                               Ahead(c, r.sock, Content(r.tx.fds_out))

LEMMA BelowConcat ==
  ASSUME NEW m, NEW s \in Seq(Item), NEW t \in Seq(Item), Below(s \o t, m)
  PROVE  Below(s, m) /\ Below(t, m)
  <1> DEFINE c == s \o t
  <1>1. \A e : e = s \o t =>
          /\ e \in Seq(Item) /\ Len(e) = Len(s) + Len(t)
          /\ \A i \in 1 .. Len(s) + Len(t) : e[i] = IF i <= Len(s) THEN s[i] ELSE t[i - Len(s)]
    BY ConcatIs
  <1>2. c = s \o t /\ Below(c, m)
    OBVIOUS
  <1> HIDE DEF c
  <1>3. /\ Len(c) = Len(s) + Len(t)
        /\ \A i \in 1 .. Len(s) + Len(t) : c[i] = IF i <= Len(s) THEN s[i] ELSE t[i - Len(s)]
    BY <1>1, <1>2
  <1>4. Len(s) \in Nat /\ Len(t) \in Nat
    BY LenProperties
  <1>5. ASSUME NEW i \in 1 .. Len(s) PROVE s[i][1] \in Nat /\ s[i][1] < m
    <2>1. i \in 1 .. Len(c) /\ c[i] = s[i]
      BY <1>3, <1>4
    <2> QED BY <1>2, <2>1 DEF Below
  <1>6. ASSUME NEW i \in 1 .. Len(t) PROVE t[i][1] \in Nat /\ t[i][1] < m
    <2>1. /\ Len(s) + i \in 1 .. Len(c) /\ ~(Len(s) + i <= Len(s)) /\ (Len(s) + i) - Len(s) = i
          /\ Len(s) + i \in 1 .. Len(s) + Len(t)
      BY <1>3, <1>4
    <2>2. c[Len(s) + i] = t[i]
      BY <1>3, <2>1
    <2> QED BY <1>2, <2>1, <2>2 DEF Below
  <1> QED BY <1>5, <1>6 DEF Below

LEMMA AheadAppend ==
  ASSUME NEW c \in Seq(Item), NEW s \in Seq(SockItem), NEW fo \in Seq(Item), NEW fd \in Item,
         Ahead(c, s, fo), Below(c, fd[1]), Below(WordsOf(s), fd[1])
  PROVE  Ahead(c, s, fo \o <<fd>>)
  <1> DEFINE g == fo \o <<fd>>
  <1>1. <<fd>> \in Seq(Item) /\ Len(<<fd>>) = 1 /\ <<fd>>[1] = fd /\ Len(fo) \in Nat
    BY LenProperties
  <1>2. Len(g) = Len(fo) + 1 /\ \A j \in 1 .. Len(fo) + 1 : g[j] = IF j <= Len(fo) THEN fo[j] ELSE fd
    OBVIOUS
  <1> HIDE DEF g
  <1>3. ASSUME NEW j \in 1 .. Len(g)
        PROVE  g[j] = fd \/ (j \in 1 .. Len(fo) /\ g[j] = fo[j])
    BY <1>1, <1>2
  <1>4. \A i \in 1 .. Len(c) : \A j \in 1 .. Len(g) : c[i][1] < g[j][1]
    BY <1>3 DEF Ahead, Below
  <1>5. \A i \in 1 .. Len(s) : s[i].word[1] < fd[1]
    BY WordsOfIs DEF Below
  <1>6. \A i \in 1 .. Len(s) : \A j \in 1 .. Len(g) : s[i].word[1] < g[j][1]
    BY <1>3, <1>5 DEF Ahead
  <1>7. Ahead(c, s, g)
    BY <1>4, <1>6 DEF Ahead
  <1> QED BY <1>7 DEF g

LEMMA PutFdIs ==
  ASSUME NEW t, NEW s, SenderOK(t, s), NEW m, NEW fd \in Item, fd[1] = m,
         NEW r \in wl_connection_put_fd(t, s, fd)
  PROVE  /\ Kept(t, s, r)
         /\ \A i \in 0 .. MaxFdsOut - 1 :
               FdRoom(t, i) /\ Below(AllWords(t, s), m) /\ r.ok =>
                  FdRoom(r.tx, i + 1) /\ PutsFds(t, s, r, <<fd>>, m)
  <1> DEFINE must == wl_buffer_size(t.fds_out) = MaxFdsOut
  <1>1. PICK q \in FlushFor(must, t, s) :
             r = IF q.ok THEN [q EXCEPT !.tx.fds_out = wl_buffer_put(@, <<fd>>)] ELSE q
    BY DEF wl_connection_put_fd
  <1>3. /\ Kept(t, s, q)
        /\ wl_buffer_size(t.fds_out) <= MaxFdsOut => KeptFds(t, s, q)
        /\ \A i \in Nat : FdRoom(t, i) => FdRoom(q.tx, i)
        /\ must /\ q.ok =>
             /\ wl_buffer_size(t.out) # 0 /\ wl_buffer_size(t.fds_out) <= MaxFdsOut =>
                  wl_buffer_size(q.tx.fds_out) = 0
        /\ ~must => q.tx = t
    <2>1. CASE must
      <3>1. q \in Flush([t EXCEPT !.want_flush = TRUE], s)
        BY <1>1, <2>1 DEF FlushFor
      <3> HIDE DEF must
      <3> QED BY <2>1, <3>1, FlushMustIs
    <2>2. CASE ~must
      <3>1. q = Outcome(t, s, TRUE)
        BY <1>1, <2>2 DEF FlushFor
      <3> HIDE DEF must
      <3> QED BY <2>2, <3>1, NoFlushIs
    <2> QED BY <2>1, <2>2
  <1>4. /\ q = Outcome(q.tx, q.sock, q.ok) /\ SenderOK(q.tx, q.sock) /\ q.ok \in BOOLEAN
        /\ AllWords(q.tx, q.sock) = AllWords(t, s)
    BY <1>3 DEF Kept
  <1>5. CASE ~q.ok
    <2>1. r = q
      BY <1>1, <1>5
    <2> QED BY <1>3, <1>5, <2>1
  <1>6. CASE q.ok
    <2> DEFINE g == q.tx.fds_out
               h == wl_buffer_put(g, <<fd>>)
               d == <<fd>>
    <2>1. /\ q.tx \in Senders /\ q.tx.out \in Rings /\ g \in Rings
          /\ q.sock \in Seq(SockItem) /\ wl_buffer_size(t.out) \in Nat /\ wl_buffer_size(g) \in Nat
          /\ wl_buffer_size(q.tx.out) \in Nat /\ wl_buffer_size(t.fds_out) \in Nat
      BY <1>4, RingShape DEF SenderOK, Senders
    <2>2. d \in Seq(Item) /\ Len(d) = 1 /\ MaxFdsOut \in Nat /\ 1 <= N /\ N \in Nat /\ MaxFdsOut <= N
      BY ConnectionAssumption
    <2>3. h \in Rings
      BY <2>1, <2>2, PutType
    <2>4. /\ r.tx.out = q.tx.out /\ r.tx.fds_out = h /\ r.tx \in Senders
          /\ r.sock = q.sock /\ r.ok = q.ok /\ r = Outcome(r.tx, r.sock, r.ok)
      <3>1. r = [q EXCEPT !.tx.fds_out = h]
        BY <1>1, <1>6
      <3> HIDE DEF h
      <3>2. /\ r.tx = [q.tx EXCEPT !.fds_out = h] /\ r.sock = q.sock /\ r.ok = q.ok
            /\ r = Outcome(r.tx, r.sock, r.ok)
        BY <1>4, <3>1 DEF Outcome
      <3>3. [q.tx EXCEPT !.fds_out = h] \in Senders /\ r.tx.out = q.tx.out /\ r.tx.fds_out = h
        BY <2>1, <2>3, <3>2 DEF Senders
      <3> QED BY <3>2, <3>3
    <2>5. Kept(t, s, r)
      <3>1. SenderOK(r.tx, r.sock)
        BY <1>4, <2>4 DEF SenderOK
      <3>2. AllWords(r.tx, r.sock) = AllWords(t, s)
        BY <1>4, <2>4 DEF AllWords
      <3> QED BY <1>4, <2>4, <3>1, <3>2 DEF Kept
    <2>6. ASSUME NEW i \in 0 .. MaxFdsOut - 1, FdRoom(t, i), Below(AllWords(t, s), m)
          PROVE  FdRoom(r.tx, i + 1) /\ PutsFds(t, s, r, <<fd>>, m)
      <3>1. FdRoom(q.tx, i)
        BY <1>3, <2>2, <2>6
      <3>2. wl_buffer_size(g) < MaxFdsOut
        <4>1. CASE must
          <5>1. wl_buffer_size(t.out) # 0
            BY <2>2, <2>6, <4>1 DEF FdRoom
          <5> QED BY <1>3, <1>6, <2>2, <4>1, <5>1
        <4>2. CASE ~must
          BY <1>3, <2>1, <2>2, <2>6, <4>2 DEF FdRoom
        <4> QED BY <4>1, <4>2
      <3>3. wl_buffer_size(h) = wl_buffer_size(g) + 1 /\ Content(h) = Content(g) \o d
        <4>1. wl_buffer_size(g) + Len(d) <= N
          BY <2>1, <2>2, <3>2
        <4> HIDE DEF d, g
        <4>2. Len(d) = 1
          BY <2>2
        <4> QED BY <2>1, <2>2, <4>1, <4>2, PutIs DEF d
      <3>4. FdRoom(r.tx, i + 1)
        BY <2>1, <2>2, <2>4, <3>1, <3>2, <3>3 DEF FdRoom
      <3>5. KeptFds(t, s, q)
        BY <1>3, <2>6 DEF FdRoom
      <3>6. Content(g) \in Seq(Item)
        <4>1. wl_buffer_size(g) <= N
          BY <2>1, <2>2, <3>2
        <4> QED BY <2>1, <4>1, ContentIs
      <3>7. AllFds(r.tx, r.sock) = AllFds(t, s) \o d
        <4> DEFINE a == FdsOf(q.sock)
                   b == Content(g)
        <4>1. a \in Seq(Item) /\ b \in Seq(Item) /\ d \in Seq(Item)
          BY <2>1, <2>2, <3>6, FdListsIs
        <4>2. AllFds(r.tx, r.sock) = a \o (b \o d) /\ AllFds(t, s) = a \o b
          BY <2>4, <3>3, <3>5 DEF AllFds, KeptFds
        <4> HIDE DEF a, b, d
        <4>3. (a \o b) \o d = a \o (b \o d)
          BY <4>1
        <4> QED BY <4>2, <4>3
      <3>8. ASSUME NEW c \in Seq(Item), Below(c, m), Ahead(c, s, Content(t.fds_out))
            PROVE  Ahead(c, r.sock, Content(r.tx.fds_out))
        <4>1. Ahead(c, q.sock, Content(g))
          BY <3>5, <3>8 DEF KeptFds
        <4>2. Below(WordsOf(q.sock), m)
          <5>1. WordsOf(q.sock) \in Seq(Item)
            BY <2>1, WordsOfIs
          <5>2. Content(q.tx.out) \in Seq(Item)
            BY <1>4, <2>1, ContentIs DEF SenderOK
          <5>3. Below(WordsOf(q.sock) \o Content(q.tx.out), m)
            BY <1>4, <2>6 DEF AllWords
          <5> QED BY <5>1, <5>2, <5>3, BelowConcat
        <4> HIDE DEF g, h
        <4>3. Ahead(c, q.sock, Content(g) \o <<fd>>)
          BY <2>1, <3>6, <3>8, <4>1, <4>2, AheadAppend
        <4> QED BY <2>4, <3>3, <4>3
      <3> QED BY <3>4, <3>7, <3>8 DEF PutsFds
    <2> QED BY <2>5, <2>6
  <1> QED BY <1>4, <1>5, <1>6

-----------------------------------------------------------------------------
\* A whole message

LEMMA PutsFdsThen ==
  ASSUME NEW t, NEW s, NEW p, NEW q, NEW m, NEW a \in Seq(Item), NEW b \in Seq(Item),
         AllFds(t, s) \in Seq(Item),
         PutsFds(t, s, p, a, m), PutsFds(p.tx, p.sock, q, b, m)
  PROVE  PutsFds(t, s, q, a \o b, m)
  <1>1. AllFds(q.tx, q.sock) = AllFds(t, s) \o (a \o b)
    <2> DEFINE x == AllFds(t, s)
    <2>1. x \in Seq(Item) /\ AllFds(q.tx, q.sock) = (x \o a) \o b
      BY DEF PutsFds
    <2> HIDE DEF x
    <2>2. (x \o a) \o b = x \o (a \o b)
      <3>1. x \in Seq(Item)
        BY <2>1
      <3> QED BY ONLY <3>1, a \in Seq(Item), b \in Seq(Item), ConcatGroups
    <2> QED BY <2>1, <2>2 DEF x
  <1>2. ASSUME NEW c \in Seq(Item), Below(c, m), Ahead(c, s, Content(t.fds_out))
        PROVE  Ahead(c, q.sock, Content(q.tx.fds_out))
    <2>1. Ahead(c, p.sock, Content(p.tx.fds_out))
      BY <1>2 DEF PutsFds
    <2> QED BY <1>2, <2>1 DEF PutsFds
  <1> QED BY <1>1, <1>2 DEF PutsFds

LEMMA KeptThen ==
  ASSUME NEW t, NEW s, NEW p, NEW q, Kept(t, s, p), Kept(p.tx, p.sock, q)
  PROVE  Kept(t, s, q)
  BY DEF Kept

LEMMA PrefixGrows ==
  ASSUME NEW S, NEW s \in Seq(S), NEW i \in 0 .. Len(s) - 1
  PROVE  /\ SubSeq(s, 1, i) \in Seq(S) /\ <<s[i + 1]>> \in Seq(S) /\ s[i + 1] \in S
         /\ SubSeq(s, 1, i + 1) = SubSeq(s, 1, i) \o <<s[i + 1]>>
  <1>1. Len(s) \in Nat
    BY LenProperties
  <1>2. i + 1 \in 1 .. Len(s) /\ i \in 0 .. Len(s) /\ i + 1 \in 0 .. Len(s)
    BY <1>1
  <1>3. s[i + 1] \in S
    BY <1>2, ElementOfSeq
  <1> DEFINE a == SubSeq(s, 1, i)
             b == SubSeq(s, 1, i + 1)
             x == s[i + 1]
  <1>4. /\ a \in Seq(S) /\ Len(a) = i /\ \A k \in 1 .. i : a[k] = s[k]
    BY <1>2, SplitSeq
  <1>5. /\ b \in Seq(S) /\ Len(b) = i + 1 /\ \A k \in 1 .. i + 1 : b[k] = s[k]
    BY <1>2, SplitSeq
  <1>6. x \in S /\ s[i + 1] = x
    BY <1>3
  <1> HIDE DEF a, b, x
  <1>7. b = a \o <<x>>
    <2>1. /\ Append(a, x) \in Seq(S) /\ Len(Append(a, x)) = i + 1
          /\ \A k \in 1 .. i : Append(a, x)[k] = a[k]
          /\ Append(a, x)[i + 1] = x
      BY <1>4, <1>6
    <2>2. \A k \in 1 .. i + 1 : b[k] = Append(a, x)[k]
      <3> TAKE k \in 1 .. i + 1
      <3>1. CASE k = i + 1
        BY <1>2, <1>5, <1>6, <2>1, <3>1
      <3>2. CASE k # i + 1
        <4>1. k \in 1 .. i
          BY <1>2, <3>2
        <4> QED BY <1>4, <1>5, <2>1, <4>1
      <3> QED BY <3>1, <3>2
    <2>3. b = Append(a, x)
      BY <1>5, <2>1, <2>2, SeqEqual
    <2>4. Append(a, x) = a \o <<x>>
      BY <1>4, <1>6
    <2> QED BY <2>3, <2>4
  <1>8. <<x>> \in Seq(S)
    BY <1>6
  <1> QED BY <1>4, <1>6, <1>7, <1>8 DEF a, b, x

\* What copy_fds_to_connection has reached after each descriptor
Puts(f, t, s, fds, n) ==
    f = [i \in 0 .. n |->
            IF i = 0 THEN {Outcome(t, s, TRUE)}
            ELSE UNION {IF r.ok THEN wl_connection_put_fd(r.tx, r.sock, fds[i])
                        ELSE {r} : r \in f[i - 1]}]

LEMMA PutsExists ==
  ASSUME NEW t, NEW s, NEW fds, NEW n \in Nat
  PROVE  \E f : Puts(f, t, s, fds, n)
  <1> DEFINE G(R, i) == UNION {IF r.ok THEN wl_connection_put_fd(r.tx, r.sock, fds[i])
                               ELSE {r} : r \in R}
             z == {Outcome(t, s, TRUE)}
             P(f, k) == f = [i \in 0 .. k |-> IF i = 0 THEN z ELSE G(f[i - 1], i)]
             T == {k \in Nat : \E f : P(f, k)}
  <1> HIDE DEF G, z
  <1>1. 0 \in T
    <2> DEFINE f == [i \in 0 .. 0 |-> z]
               g == [i \in 0 .. 0 |-> IF i = 0 THEN z ELSE G(f[i - 1], i)]
    <2>1. \A i \in 0 .. 0 : i = 0
      OBVIOUS
    <2>2. f = g
      BY <2>1
    <2> QED BY <2>2
  <1>2. ASSUME NEW k \in T PROVE k + 1 \in T
    <2>1. PICK f : P(f, k)
      OBVIOUS
    <2>2. k \in Nat
      OBVIOUS
    <2> DEFINE g == [i \in 0 .. k + 1 |-> IF i \in 0 .. k THEN f[i] ELSE G(f[k], i)]
               h == [i \in 0 .. k + 1 |-> IF i = 0 THEN z ELSE G(g[i - 1], i)]
    <2>3. \A i \in 0 .. k : f[i] = IF i = 0 THEN z ELSE G(f[i - 1], i)
      BY <2>1
    <2>4. ASSUME NEW i \in 0 .. k + 1
          PROVE  g[i] = IF i = 0 THEN z ELSE G(g[i - 1], i)
      <3>1. CASE i = 0
        BY <2>2, <2>3, <3>1
      <3>2. CASE i \in 1 .. k
        <4>1. i - 1 \in 0 .. k /\ i - 1 \in 0 .. k + 1 /\ i \in 0 .. k /\ i # 0
          BY <2>2, <3>2
        <4>2. g[i - 1] = f[i - 1] /\ g[i] = f[i]
          BY <4>1
        <4> QED BY <2>3, <4>1, <4>2
      <3>3. CASE i = k + 1
        <4>1. i - 1 = k /\ k \in 0 .. k + 1 /\ i # 0 /\ i \notin 0 .. k /\ k \in 0 .. k
          BY <2>2, <3>3
        <4>2. g[i - 1] = f[k] /\ g[i] = G(f[k], i)
          BY <4>1
        <4> QED BY <4>1, <4>2
      <3> QED BY <2>2, <3>1, <3>2, <3>3
    <2>5. g = [i \in 0 .. k + 1 |-> g[i]]
      OBVIOUS
    <2>6. h = [i \in 0 .. k + 1 |-> g[i]]
      <3> HIDE DEF g
      <3> QED BY <2>4
    <2>7. g = h
      BY <2>5, <2>6
    <2>8. P(g, k + 1)
      BY <2>7
    <2> HIDE DEF P
    <2> QED BY <2>2, <2>8
  <1>3. T = Nat
    <2>1. T \in SUBSET Nat
      OBVIOUS
    <2> HIDE DEF T
    <2> QED BY <1>1, <1>2, <2>1, SetInduction
  <1>4. \E f : P(f, n)
    BY <1>3
  <1> QED BY <1>4 DEF Puts, G, z

LEMMA CopyFdsIs ==
  ASSUME NEW t, NEW s, SenderOK(t, s), NEW m, NEW fds \in Seq(Item),
         \A j \in 1 .. Len(fds) : fds[j][1] = m, Len(fds) <= MaxFdsOut,
         NEW z \in copy_fds_to_connection(t, s, fds)
  PROVE  /\ Kept(t, s, z)
         /\ FdRoom(t, 0) /\ Below(AllWords(t, s), m) /\ z.ok =>
               FdRoom(z.tx, Len(fds)) /\ PutsFds(t, s, z, fds, m)
  <1> DEFINE n == Len(fds)
             Good(q, i) == /\ Kept(t, s, q)
                           /\ FdRoom(t, 0) /\ Below(AllWords(t, s), m) /\ q.ok =>
                                 FdRoom(q.tx, i) /\ PutsFds(t, s, q, SubSeq(fds, 1, i), m)
  <1>1. n \in Nat /\ MaxFdsOut \in Nat /\ n <= MaxFdsOut
    BY LenProperties, ConnectionAssumption
  <1>2. \E f : Puts(f, t, s, fds, n) /\ z \in f[n]
    <2> DEFINE g == CHOOSE f : f = [i \in 0 .. n |->
                      IF i = 0 THEN {Outcome(t, s, TRUE)}
                      ELSE UNION {IF r.ok THEN wl_connection_put_fd(r.tx, r.sock, fds[i])
                                  ELSE {r} : r \in f[i - 1]}]
    <2>1. z \in g[n]
      BY DEF copy_fds_to_connection
    <2>2. \E f : f = [i \in 0 .. n |->
                      IF i = 0 THEN {Outcome(t, s, TRUE)}
                      ELSE UNION {IF r.ok THEN wl_connection_put_fd(r.tx, r.sock, fds[i])
                                  ELSE {r} : r \in f[i - 1]}]
      <3>1. \E f : Puts(f, t, s, fds, n)
        BY <1>1, PutsExists
      <3> QED BY <3>1 DEF Puts
    <2>3. Puts(g, t, s, fds, n)
      BY <2>2 DEF Puts
    <2> HIDE DEF g
    <2> QED BY <2>1, <2>3
  <1>3. PICK f : Puts(f, t, s, fds, n) /\ z \in f[n]
    BY <1>2
  <1>4. AllFds(t, s) \in Seq(Item) \/ ~FdRoom(t, 0)
    <2> SUFFICES ASSUME FdRoom(t, 0) PROVE AllFds(t, s) \in Seq(Item)
      OBVIOUS
    <2>1. s \in Seq(SockItem) /\ t.fds_out \in Rings /\ wl_buffer_size(t.fds_out) <= N
      BY RingShape, ConnectionAssumption DEF SenderOK, Senders, FdRoom
    <2>2. FdsOf(s) \in Seq(Item) /\ Content(t.fds_out) \in Seq(Item)
      BY <2>1, FdListsIs, ContentIs
    <2> QED BY <2>2, ConcatProperties DEF AllFds
  <1> DEFINE T == {i \in Nat : i <= n => \A q \in f[i] : Good(q, i)}
  <1>5. 0 \in T
    <2> SUFFICES ASSUME NEW q \in f[0] PROVE Good(q, 0)
      OBVIOUS
    <2>1. q = Outcome(t, s, TRUE)
      <3>1. 0 \in 0 .. n
        BY <1>1
      <3> QED BY <1>3, <3>1 DEF Puts
    <2>2. /\ Kept(t, s, q) /\ q.tx = t /\ q.sock = s
      <3>1. q.tx = t /\ q.sock = s /\ q.ok = TRUE /\ q = Outcome(q.tx, q.sock, q.ok)
        BY <2>1 DEF Outcome
      <3>2. t \in Senders
        BY DEF SenderOK
      <3> HIDE DEF n, T
      <3> QED BY <3>1, <3>2, SameKept
    <2>3. ASSUME FdRoom(t, 0) PROVE PutsFds(t, s, q, SubSeq(fds, 1, 0), m)
      <3>1. SubSeq(fds, 1, 0) = <<>>
        OBVIOUS
      <3> DEFINE x == AllFds(t, s)
      <3>2. x \in Seq(Item)
        BY <1>4, <2>3
      <3> HIDE DEF x
      <3>3. x \o <<>> = x
        BY <3>2, ConcatEmptySeq
      <3> QED BY <2>2, <3>1, <3>3 DEF PutsFds, x
    <2> QED BY <2>2, <2>3
  <1>6. ASSUME NEW i \in T PROVE i + 1 \in T
    <2>1. i \in Nat
      OBVIOUS
    <2> SUFFICES ASSUME i + 1 <= n, NEW q \in f[i + 1] PROVE Good(q, i + 1)
      BY <2>1
    <2>2. i \in 0 .. n - 1 /\ i + 1 \in 0 .. n /\ i + 1 # 0 /\ (i + 1) - 1 = i /\ i <= n
      BY <1>1, <2>1
    <2>3. PICK p \in f[i] :
             q \in (IF p.ok THEN wl_connection_put_fd(p.tx, p.sock, fds[i + 1]) ELSE {p})
      <3>1. q \in UNION {IF p.ok THEN wl_connection_put_fd(p.tx, p.sock, fds[i + 1])
                          ELSE {p} : p \in f[(i + 1) - 1]}
        BY <1>3, <2>2 DEF Puts
      <3> QED BY <2>2, <3>1
    <2>4. Good(p, i)
      BY <2>2
    <2>5. /\ Kept(t, s, p)
          /\ FdRoom(t, 0) /\ Below(AllWords(t, s), m) /\ p.ok =>
                FdRoom(p.tx, i) /\ PutsFds(t, s, p, SubSeq(fds, 1, i), m)
      BY <2>4
    <2>6. CASE ~p.ok
      <3>1. q = p
        BY <2>3, <2>6
      <3> QED BY <2>5, <2>6, <3>1
    <2>7. CASE p.ok
      <3> DEFINE fd == fds[i + 1]
      <3>1. q \in wl_connection_put_fd(p.tx, p.sock, fd)
        BY <2>3, <2>7
      <3>2. /\ SubSeq(fds, 1, i) \in Seq(Item) /\ <<fd>> \in Seq(Item) /\ fd \in Item
            /\ SubSeq(fds, 1, i + 1) = SubSeq(fds, 1, i) \o <<fd>>
        BY <2>2, PrefixGrows
      <3>3. fd[1] = m
        BY <2>2
      <3> HIDE DEF fd
      <3>4. SenderOK(p.tx, p.sock) /\ AllWords(p.tx, p.sock) = AllWords(t, s)
        BY <2>5 DEF Kept
      <3>5. /\ Kept(p.tx, p.sock, q)
            /\ \A j \in 0 .. MaxFdsOut - 1 :
                  FdRoom(p.tx, j) /\ Below(AllWords(p.tx, p.sock), m) /\ q.ok =>
                     FdRoom(q.tx, j + 1) /\ PutsFds(p.tx, p.sock, q, <<fd>>, m)
        BY <3>1, <3>2, <3>3, <3>4, PutFdIs
      <3>6. Kept(t, s, q)
        BY <2>5, <3>5, KeptThen
      <3>7. ASSUME FdRoom(t, 0), Below(AllWords(t, s), m), q.ok
            PROVE  FdRoom(q.tx, i + 1) /\ PutsFds(t, s, q, SubSeq(fds, 1, i + 1), m)
        <4>1. i \in 0 .. MaxFdsOut - 1
          BY <1>1, <2>2
        <4>2. FdRoom(p.tx, i) /\ PutsFds(t, s, p, SubSeq(fds, 1, i), m)
          BY <2>5, <2>7, <3>7
        <4>3. FdRoom(q.tx, i + 1) /\ PutsFds(p.tx, p.sock, q, <<fd>>, m)
          BY <3>4, <3>5, <3>7, <4>1, <4>2
        <4>4. PutsFds(t, s, q, SubSeq(fds, 1, i) \o <<fd>>, m)
          BY <1>4, <3>2, <3>7, <4>2, <4>3, PutsFdsThen
        <4> QED BY <3>2, <4>3, <4>4
      <3> QED BY <3>6, <3>7
    <2> QED BY <2>6, <2>7
  <1>7. T = Nat
    <2>1. T \in SUBSET Nat
      OBVIOUS
    <2> HIDE DEF T
    <2> QED BY <1>5, <1>6, <2>1, SetInduction
  <1>8. Good(z, n)
    BY <1>1, <1>3, <1>7
  <1>9. SubSeq(fds, 1, n) = fds
    OBVIOUS
  <1> QED BY <1>8, <1>9

LEMMA SameFds ==
  ASSUME NEW t, NEW s, NEW q, NEW r, KeptFds(t, s, q),
         r.sock = q.sock, r.tx.fds_out = q.tx.fds_out
  PROVE  KeptFds(t, s, r)
  BY DEF KeptFds, AllFds

LEMMA WriteIs ==
  ASSUME NEW t, NEW s, SenderOK(t, s), NEW words \in Seq(Item), Len(words) # 0,
         NEW want \in BOOLEAN, NEW r \in Write(t, s, words, want)
  PROVE  /\ SenderOK(r.tx, r.sock) /\ r.ok \in BOOLEAN
         /\ ~r.ok => AllWords(r.tx, r.sock) = AllWords(t, s)
         /\ r.ok => AllWords(r.tx, r.sock) = AllWords(t, s) \o words /\ Len(words) <= N
         /\ \A i \in Nat : FdRoom(t, i) /\ r.ok => FdRoom(r.tx, 0) /\ KeptFds(t, s, r)
  <1> DEFINE must == wl_buffer_size(t.out) + Len(words) > N
  <1>1. PICK q \in FlushFor(must, t, s) :
           r = IF ~q.ok THEN q
               ELSE IF Len(words) > N THEN [q EXCEPT !.ok = FALSE]
               ELSE [q EXCEPT !.tx.out = wl_buffer_put(@, words),
                              !.tx.want_flush = @ \/ want]
    BY DEF Write
  <1>2. /\ Kept(t, s, q)
        /\ wl_buffer_size(t.fds_out) <= MaxFdsOut => KeptFds(t, s, q)
        /\ \A i \in Nat : FdRoom(t, i) => FdRoom(q.tx, i)
        /\ must /\ q.ok => wl_buffer_size(q.tx.out) = 0
        /\ ~must => q.tx = t
    <2>1. CASE must
      <3>1. q \in Flush([t EXCEPT !.want_flush = TRUE], s)
        BY <1>1, <2>1 DEF FlushFor
      <3> HIDE DEF must
      <3> QED BY <2>1, <3>1, FlushMustIs
    <2>2. CASE ~must
      <3>1. q = Outcome(t, s, TRUE)
        BY <1>1, <2>2 DEF FlushFor
      <3>2. q.tx = t /\ q.sock = s /\ q.ok = TRUE /\ q = Outcome(q.tx, q.sock, q.ok)
        BY <3>1 DEF Outcome
      <3>3. t \in Senders
        BY DEF SenderOK
      <3> HIDE DEF must
      <3> QED BY <2>2, <3>2, <3>3, SameKept
    <2> QED BY <2>1, <2>2
  <1>3. /\ q = Outcome(q.tx, q.sock, q.ok) /\ SenderOK(q.tx, q.sock) /\ q.ok \in BOOLEAN
        /\ AllWords(q.tx, q.sock) = AllWords(t, s)
    BY <1>2 DEF Kept
  <1>4. Len(words) \in Nat /\ N \in Nat
    BY LenProperties, ConnectionAssumption
  <1>5. CASE ~q.ok
    <2>1. r = q
      BY <1>1, <1>5
    <2> QED BY <1>3, <1>5, <2>1
  <1>6. CASE q.ok /\ Len(words) > N
    <2>1. r = [q EXCEPT !.ok = FALSE]
      BY <1>1, <1>6
    <2>2. r.tx = q.tx /\ r.sock = q.sock /\ r.ok = FALSE
      BY <1>3, <2>1 DEF Outcome
    <2> QED BY <1>3, <2>2
  <1>7. CASE q.ok /\ ~(Len(words) > N)
    <2> DEFINE g == q.tx.out
               h == wl_buffer_put(g, words)
               w == q.tx.want_flush \/ want
    <2>1. /\ q.tx \in Senders /\ g \in Rings /\ q.sock \in Seq(SockItem) /\ Len(q.sock) <= Room
          /\ wl_buffer_size(g) \in Nat /\ w \in BOOLEAN /\ wl_buffer_size(t.out) \in Nat
      BY <1>3, RingShape DEF SenderOK, Senders
    <2>2. wl_buffer_size(g) + Len(words) <= N
      <3>1. CASE must
        BY <1>2, <1>4, <1>7, <3>1
      <3>2. CASE ~must
        BY <1>2, <1>4, <2>1, <3>2
      <3> QED BY <3>1, <3>2
    <2>3. /\ h \in Rings /\ wl_buffer_size(h) = wl_buffer_size(g) + Len(words)
          /\ Content(h) = Content(g) \o words
      BY <2>1, <2>2, PutIs
    <2>4. /\ r.tx.out = h /\ r.tx.fds_out = q.tx.fds_out /\ r.tx \in Senders
          /\ r.sock = q.sock /\ r.ok = TRUE
      <3>1. r = [q EXCEPT !.tx = [q.tx EXCEPT !.out = h, !.want_flush = w]]
        <4>1. r = [q EXCEPT !.tx.out = h, !.tx.want_flush = w]
          BY <1>1, <1>7
        <4> HIDE DEF h, w
        <4> QED BY <1>3, <2>1, <4>1 DEF Outcome, Senders
      <3> HIDE DEF h, w
      <3>2. r.tx = [q.tx EXCEPT !.out = h, !.want_flush = w] /\ r.sock = q.sock /\ r.ok = q.ok
        BY <1>3, <3>1 DEF Outcome
      <3>3. /\ [q.tx EXCEPT !.out = h, !.want_flush = w] \in Senders
            /\ r.tx.out = h /\ r.tx.fds_out = q.tx.fds_out
        BY <2>1, <2>3, <3>2 DEF Senders
      <3> QED BY <1>7, <3>2, <3>3
    <2>5. SenderOK(r.tx, r.sock)
      BY <2>1, <2>2, <2>3, <2>4 DEF SenderOK
    <2>6. AllWords(r.tx, r.sock) = AllWords(t, s) \o words
      <3> DEFINE a == WordsOf(q.sock)
                 b == Content(g)
      <3>1. wl_buffer_size(g) <= N
        BY <1>4, <2>1, <2>2
      <3>2. a \in Seq(Item) /\ b \in Seq(Item)
        BY <2>1, <3>1, WordsOfIs, ContentIs
      <3>3. AllWords(r.tx, r.sock) = a \o (b \o words) /\ AllWords(t, s) = a \o b
        BY <1>3, <2>3, <2>4 DEF AllWords
      <3> HIDE DEF a, b
      <3>4. (a \o b) \o words = a \o (b \o words)
        BY ONLY <3>2, words \in Seq(Item), ConcatGroups
      <3> QED BY <3>3, <3>4
    <2>7. ASSUME NEW i \in Nat, FdRoom(t, i)
          PROVE  FdRoom(r.tx, 0) /\ KeptFds(t, s, r)
      <3>1. FdRoom(q.tx, i)
        BY <1>2, <2>7
      <3>2. wl_buffer_size(r.tx.out) # 0
        BY <1>4, <2>1, <2>3, <2>4
      <3>3. KeptFds(t, s, q)
        BY <1>2, <2>7 DEF FdRoom
      <3> HIDE DEF g, h, w
      <3>4. FdRoom(r.tx, 0)
        BY <2>4, <3>1, <3>2 DEF FdRoom
      <3>5. KeptFds(t, s, r)
        BY <2>4, <3>3, SameFds
      <3> QED BY <3>4, <3>5
    <2>8. Len(words) <= N
      BY <1>4, <1>7
    <2> HIDE DEF g, h, w
    <2> QED BY <2>4, <2>5, <2>6, <2>7, <2>8
  <1> QED BY <1>3, <1>5, <1>6, <1>7

\* wl_closure_send and wl_closure_queue: the words come behind those on the way,
\* all of them or none, and the descriptors likewise as long as no call fails.
LEMMA ClosureIs ==
  ASSUME NEW t, NEW s, SenderOK(t, s), NEW m, NEW num,
         m.words \in Seq(Item), Len(m.words) # 0, m.fds \in Seq(Item), Len(m.fds) <= MaxFdsOut,
         \A j \in 1 .. Len(m.fds) : m.fds[j][1] = num,
         NEW want \in BOOLEAN, NEW r \in Closure(t, s, m, want)
  PROVE  /\ SenderOK(r.tx, r.sock) /\ r.ok \in BOOLEAN
         /\ ~r.ok => AllWords(r.tx, r.sock) = AllWords(t, s)
         /\ r.ok => AllWords(r.tx, r.sock) = AllWords(t, s) \o m.words /\ Len(m.words) <= N
         /\ FdRoom(t, 0) /\ Below(AllWords(t, s), num) /\ r.ok =>
               FdRoom(r.tx, 0) /\ PutsFds(t, s, r, m.fds, num)
  <1>1. PICK q \in copy_fds_to_connection(t, s, m.fds) :
           r \in (IF q.ok THEN Write(q.tx, q.sock, m.words, want) ELSE {q})
    BY DEF Closure
  <1>2. /\ Kept(t, s, q)
        /\ FdRoom(t, 0) /\ Below(AllWords(t, s), num) /\ q.ok =>
             FdRoom(q.tx, Len(m.fds)) /\ PutsFds(t, s, q, m.fds, num)
    BY <1>1, CopyFdsIs
  <1>3. /\ SenderOK(q.tx, q.sock) /\ q.ok \in BOOLEAN /\ AllWords(q.tx, q.sock) = AllWords(t, s)
    BY <1>2 DEF Kept
  <1>4. CASE ~q.ok
    <2>1. r = q
      BY <1>1, <1>4
    <2> QED BY <1>3, <1>4, <2>1
  <1>5. CASE q.ok
    <2>1. r \in Write(q.tx, q.sock, m.words, want)
      BY <1>1, <1>5
    <2>2. /\ SenderOK(r.tx, r.sock) /\ r.ok \in BOOLEAN
          /\ ~r.ok => AllWords(r.tx, r.sock) = AllWords(q.tx, q.sock)
          /\ r.ok => AllWords(r.tx, r.sock) = AllWords(q.tx, q.sock) \o m.words /\ Len(m.words) <= N
          /\ \A i \in Nat : FdRoom(q.tx, i) /\ r.ok => FdRoom(r.tx, 0) /\ KeptFds(q.tx, q.sock, r)
      BY <1>3, <2>1, WriteIs
    <2>3. ASSUME FdRoom(t, 0), Below(AllWords(t, s), num), r.ok
          PROVE  FdRoom(r.tx, 0) /\ PutsFds(t, s, r, m.fds, num)
      <3>1. FdRoom(q.tx, Len(m.fds)) /\ PutsFds(t, s, q, m.fds, num)
        BY <1>2, <1>5, <2>3
      <3>2. FdRoom(r.tx, 0) /\ KeptFds(q.tx, q.sock, r)
        <4>1. Len(m.fds) \in Nat
          BY LenProperties
        <4> QED BY <2>2, <2>3, <3>1, <4>1
      <3> QED BY <3>1, <3>2 DEF PutsFds, KeptFds
    <2> QED BY <1>3, <2>2, <2>3
  <1> QED BY <1>3, <1>4, <1>5

-----------------------------------------------------------------------------
\* The inductive invariant

WordLists(acc) == [i \in 1 .. Len(acc) |-> acc[i].words]

FdsLists(acc) == [i \in 1 .. Len(acc) |-> acc[i].fds]

Shape ==
    /\ SenderOK(tx, sock)
    /\ in \in Rings /\ wl_buffer_size(in) <= N
    /\ fds_in \in Rings /\ wl_buffer_size(fds_in) <= N
    /\ rerror \in {"", "EINVAL", "EOVERFLOW"} /\ sfailed \in BOOLEAN
    /\ tried \in 0 .. MaxTried
    /\ accepted \in Seq(Messages)

\* What is accepted fits into the buffers.
Fits == \A i \in 1 .. Len(accepted) : Len(accepted[i].words) <= N

\* The words that are on the way are of messages that were tried.
Numbered == Below(Content(in), tried + 1) /\ Below(AllWords(tx, sock), tried + 1)

FdsAhead == rerror = "" /\ ~sfailed => Ahead(Content(in), sock, Content(tx.fds_out))

Roomy == ~sfailed => FdRoom(tx, 0)

\* AllOnTheWay, with what the sender has in one piece
WordsWay ==
    rerror = "" => Content(in) \o AllWords(tx, sock) = FlattenSeq(WordLists(accepted))

FdsWay ==
    rerror = "" /\ ~sfailed =>
        Content(fds_in) \o AllFds(tx, sock) = FlattenSeq(FdsLists(accepted))

Inv ==
    /\ Shape /\ Fits /\ Numbered /\ FdsAhead /\ Roomy
    /\ WordsWay /\ FdsWay /\ ReceiverServed /\ FdsOfItsOwn

-----------------------------------------------------------------------------
\* Messages, and lists of them

LEMMA MessageIs ==
  ASSUME NEW num \in 1 .. MaxTried, NEW len \in Lengths, NEW n \in FdCounts,
         NEW m, m = Message(num, len, n)
  PROVE  /\ m \in Messages
         /\ len \in Nat /\ len >= 2 /\ n \in 0 .. MaxFdsOut
         /\ m.words \in Seq(Item) /\ Len(m.words) = len
         /\ \A k \in 1 .. len : m.words[k] = <<num, k, len, n>>
         /\ m.fds \in Seq(Item) /\ Len(m.fds) = n
         /\ \A k \in 1 .. n : m.fds[k] = <<num, k>>
  <1>1. len \in Nat /\ len >= 2 /\ n \in 0 .. MaxFdsOut /\ n \in Nat /\ num \in Nat
    BY ConnectionAssumption
  <1>2. /\ m.words = [k \in 1 .. len |-> <<num, k, len, n>>]
        /\ m.fds = [k \in 1 .. n |-> <<num, k>>]
    BY DEF Message
  <1>3. \A k \in Nat : <<num, k, len, n>> \in Item
    BY <1>1 DEF Item
  <1>4. \A k \in Nat : <<num, k>> \in Item
    BY <1>1 DEF Item
  <1>5. m.words \in [1 .. len -> Item] /\ m.fds \in [1 .. n -> Item]
    BY <1>1, <1>2, <1>3, <1>4
  <1>6. /\ m.words \in Seq(Item) /\ Len(m.words) = len
        /\ m.fds \in Seq(Item) /\ Len(m.fds) = n
    BY <1>1, <1>5, FunctionIsSeq
  <1>7. m \in Messages
    BY DEF Messages
  <1> QED BY <1>1, <1>2, <1>6, <1>7

LEMMA MessagesAre ==
  ASSUME NEW m \in Messages
  PROVE  \E num \in 1 .. MaxTried, len \in Lengths, n \in FdCounts : m = Message(num, len, n)
  BY DEF Messages

LEMMA SameButLast ==
  ASSUME NEW S, NEW x \in Seq(S), NEW y \in Seq(S), Len(y) = Len(x) + 1,
         \A i \in 1 .. Len(x) : y[i] = x[i], NEW z, y[Len(x) + 1] = z
  PROVE  y = Append(x, z) /\ z \in S
  <1>1. Len(x) \in Nat /\ Len(x) + 1 \in 1 .. Len(y)
    BY LenProperties
  <1>2. z \in S
    BY <1>1, ElementOfSeq
  <1> DEFINE w == Append(x, z)
  <1>3. w \in Seq(S) /\ Len(w) = Len(x) + 1 /\ w[Len(x) + 1] = z /\ \A i \in 1 .. Len(x) : w[i] = x[i]
    BY <1>2
  <1> HIDE DEF w
  <1>4. ASSUME NEW i \in 1 .. Len(x) + 1 PROVE y[i] = w[i]
    <2>1. CASE i = Len(x) + 1
      BY <1>3, <2>1
    <2>2. CASE i # Len(x) + 1
      <3>1. i \in 1 .. Len(x)
        BY <1>1, <2>2
      <3> QED BY <1>3, <3>1
    <2> QED BY <2>1, <2>2
  <1>5. y = w
    BY <1>3, <1>4, SeqEqual
  <1> QED BY <1>2, <1>5 DEF w

LEMMA SameButFirst ==
  ASSUME NEW S, NEW x \in Seq(S), Len(x) # 0, NEW y \in Seq(S), Len(y) = Len(x) - 1,
         \A i \in 1 .. Len(y) : y[i] = x[1 + i]
  PROVE  y = SubSeq(x, 2, Len(x))
  <1>1. Len(x) \in Nat /\ 1 \in 0 .. Len(x)
    BY LenProperties
  <1> DEFINE w == SubSeq(x, 1 + 1, Len(x))
  <1>2. w \in Seq(S) /\ Len(w) = Len(x) - 1 /\ \A i \in 1 .. Len(x) - 1 : w[i] = x[1 + i]
    BY <1>1, SplitSeq
  <1>3. w = SubSeq(x, 2, Len(x))
    OBVIOUS
  <1> HIDE DEF w
  <1>4. \A i \in 1 .. Len(y) : y[i] = w[i]
    BY <1>2
  <1>5. y = w
    BY <1>2, <1>4, SeqEqual
  <1> QED BY <1>3, <1>5

LEMMA ListsAre ==
  ASSUME NEW acc \in Seq(Messages)
  PROVE  /\ WordLists(acc) \in Seq(Seq(Item)) /\ Len(WordLists(acc)) = Len(acc)
         /\ \A i \in 1 .. Len(acc) : WordLists(acc)[i] = acc[i].words
         /\ FdsLists(acc) \in Seq(Seq(Item)) /\ Len(FdsLists(acc)) = Len(acc)
         /\ \A i \in 1 .. Len(acc) : FdsLists(acc)[i] = acc[i].fds
         /\ FlattenSeq(WordLists(acc)) \in Seq(Item)
         /\ FlattenSeq(FdsLists(acc)) \in Seq(Item)
  <1>1. Len(acc) \in Nat
    BY LenProperties
  <1>2. ASSUME NEW i \in 1 .. Len(acc) PROVE acc[i].words \in Seq(Item) /\ acc[i].fds \in Seq(Item)
    <2>1. acc[i] \in Messages
      BY ElementOfSeq
    <2>2. PICK num \in 1 .. MaxTried, len \in Lengths, n \in FdCounts :
             acc[i] = Message(num, len, n)
      BY <2>1, MessagesAre
    <2> DEFINE m == acc[i]
    <2>3. m = Message(num, len, n)
      BY <2>2
    <2> HIDE DEF m
    <2>4. m.words \in Seq(Item) /\ m.fds \in Seq(Item)
      BY <2>3, MessageIs
    <2> QED BY <2>4 DEF m
  <1>3. WordLists(acc) \in [1 .. Len(acc) -> Seq(Item)] /\ FdsLists(acc) \in [1 .. Len(acc) -> Seq(Item)]
    BY <1>2 DEF WordLists, FdsLists
  <1>4. /\ WordLists(acc) \in Seq(Seq(Item)) /\ Len(WordLists(acc)) = Len(acc)
        /\ FdsLists(acc) \in Seq(Seq(Item)) /\ Len(FdsLists(acc)) = Len(acc)
    BY <1>1, <1>3, FunctionIsSeq
  <1> QED BY <1>4, FlattenType DEF WordLists, FdsLists

LEMMA ListsAppend ==
  ASSUME NEW acc \in Seq(Messages), NEW m \in Messages
  PROVE  /\ FlattenSeq(WordLists(Append(acc, m))) = FlattenSeq(WordLists(acc)) \o m.words
         /\ FlattenSeq(FdsLists(Append(acc, m))) = FlattenSeq(FdsLists(acc)) \o m.fds
  <1> DEFINE b == Append(acc, m)
  <1>1. /\ b \in Seq(Messages) /\ Len(b) = Len(acc) + 1 /\ b[Len(acc) + 1] = m
        /\ \A i \in 1 .. Len(acc) : b[i] = acc[i]
    OBVIOUS
  <1>2. Len(acc) \in Nat
    BY LenProperties
  <1> HIDE DEF b
  <1>3. \A i \in 1 .. Len(acc) : i \in 1 .. Len(b)
    BY <1>1, <1>2
  <1>4. Len(acc) + 1 \in 1 .. Len(b)
    BY <1>1, <1>2
  <1>5. FlattenSeq(WordLists(b)) = FlattenSeq(WordLists(acc)) \o m.words
    <2> DEFINE x == WordLists(acc)
               y == WordLists(b)
    <2>1. /\ x \in Seq(Seq(Item)) /\ Len(x) = Len(acc)
          /\ \A i \in 1 .. Len(acc) : x[i] = acc[i].words
      BY ListsAre
    <2>2. /\ y \in Seq(Seq(Item)) /\ Len(y) = Len(b)
          /\ \A i \in 1 .. Len(b) : y[i] = b[i].words
      BY <1>1, ListsAre
    <2> HIDE DEF x, y
    <2>3. Len(y) = Len(x) + 1 /\ y[Len(x) + 1] = m.words /\ \A i \in 1 .. Len(x) : y[i] = x[i]
      BY <1>1, <1>3, <1>4, <2>1, <2>2
    <2>4. y = Append(x, m.words) /\ m.words \in Seq(Item)
      BY <2>1, <2>2, <2>3, SameButLast
    <2>5. FlattenSeq(y) = FlattenSeq(x) \o m.words
      BY <2>1, <2>4, FlattenAppend
    <2> QED BY <2>5 DEF x, y
  <1>6. FlattenSeq(FdsLists(b)) = FlattenSeq(FdsLists(acc)) \o m.fds
    <2> DEFINE x == FdsLists(acc)
               y == FdsLists(b)
    <2>1. /\ x \in Seq(Seq(Item)) /\ Len(x) = Len(acc)
          /\ \A i \in 1 .. Len(acc) : x[i] = acc[i].fds
      BY ListsAre
    <2>2. /\ y \in Seq(Seq(Item)) /\ Len(y) = Len(b)
          /\ \A i \in 1 .. Len(b) : y[i] = b[i].fds
      BY <1>1, ListsAre
    <2> HIDE DEF x, y
    <2>3. Len(y) = Len(x) + 1 /\ y[Len(x) + 1] = m.fds /\ \A i \in 1 .. Len(x) : y[i] = x[i]
      BY <1>1, <1>3, <1>4, <2>1, <2>2
    <2>4. y = Append(x, m.fds) /\ m.fds \in Seq(Item)
      BY <2>1, <2>2, <2>3, SameButLast
    <2>5. FlattenSeq(y) = FlattenSeq(x) \o m.fds
      BY <2>1, <2>4, FlattenAppend
    <2> QED BY <2>5 DEF x, y
  <1> QED BY <1>5, <1>6 DEF b

LEMMA ListsHead ==
  ASSUME NEW acc \in Seq(Messages), acc # <<>>
  PROVE  /\ SubSeq(acc, 2, Len(acc)) \in Seq(Messages) /\ acc[1] \in Messages
         /\ FlattenSeq(WordLists(acc)) =
               acc[1].words \o FlattenSeq(WordLists(SubSeq(acc, 2, Len(acc))))
         /\ FlattenSeq(FdsLists(acc)) =
               acc[1].fds \o FlattenSeq(FdsLists(SubSeq(acc, 2, Len(acc))))
  <1> DEFINE b == SubSeq(acc, 1 + 1, Len(acc))
  <1>1. Len(acc) \in Nat /\ Len(acc) # 0
    BY LenProperties, EmptySeq
  <1>2. 1 \in 0 .. Len(acc) /\ 1 \in 1 .. Len(acc)
    BY <1>1
  <1>3. b \in Seq(Messages) /\ Len(b) = Len(acc) - 1 /\ \A i \in 1 .. Len(acc) - 1 : b[i] = acc[1 + i]
    BY <1>2, SplitSeq
  <1>4. acc[1] \in Messages
    BY <1>2, ElementOfSeq
  <1>5. b = SubSeq(acc, 2, Len(acc))
    OBVIOUS
  <1> HIDE DEF b
  <1>6. \A i \in 1 .. Len(b) : 1 + i \in 1 .. Len(acc)
    BY <1>1, <1>3
  <1>7. FlattenSeq(WordLists(acc)) = acc[1].words \o FlattenSeq(WordLists(b))
    <2> DEFINE x == WordLists(acc)
               y == WordLists(b)
    <2>1. /\ x \in Seq(Seq(Item)) /\ Len(x) = Len(acc)
          /\ \A i \in 1 .. Len(acc) : x[i] = acc[i].words
      BY ListsAre
    <2>2. /\ y \in Seq(Seq(Item)) /\ Len(y) = Len(b)
          /\ \A i \in 1 .. Len(b) : y[i] = b[i].words
      BY <1>3, ListsAre
    <2> HIDE DEF x, y
    <2>3. Len(x) # 0 /\ Len(y) = Len(x) - 1 /\ \A i \in 1 .. Len(y) : y[i] = x[1 + i]
      BY <1>1, <1>3, <1>6, <2>1, <2>2
    <2>4. y = SubSeq(x, 2, Len(x))
      BY <2>1, <2>2, <2>3, SameButFirst
    <2>5. FlattenSeq(x) = x[1] \o FlattenSeq(y)
      BY <2>1, <2>3, <2>4, FlattenHead
    <2> QED BY <1>2, <2>1, <2>5 DEF x, y
  <1>8. FlattenSeq(FdsLists(acc)) = acc[1].fds \o FlattenSeq(FdsLists(b))
    <2> DEFINE x == FdsLists(acc)
               y == FdsLists(b)
    <2>1. /\ x \in Seq(Seq(Item)) /\ Len(x) = Len(acc)
          /\ \A i \in 1 .. Len(acc) : x[i] = acc[i].fds
      BY ListsAre
    <2>2. /\ y \in Seq(Seq(Item)) /\ Len(y) = Len(b)
          /\ \A i \in 1 .. Len(b) : y[i] = b[i].fds
      BY <1>3, ListsAre
    <2> HIDE DEF x, y
    <2>3. Len(x) # 0 /\ Len(y) = Len(x) - 1 /\ \A i \in 1 .. Len(y) : y[i] = x[1 + i]
      BY <1>1, <1>3, <1>6, <2>1, <2>2
    <2>4. y = SubSeq(x, 2, Len(x))
      BY <2>1, <2>2, <2>3, SameButFirst
    <2>5. FlattenSeq(x) = x[1] \o FlattenSeq(y)
      BY <2>1, <2>3, <2>4, FlattenHead
    <2> QED BY <1>2, <2>1, <2>5 DEF x, y
  <1> QED BY <1>3, <1>4, <1>5, <1>7, <1>8

-----------------------------------------------------------------------------
\* The first message

LEMMA SenderIs ==
  ASSUME NEW t, NEW s, SenderOK(t, s)
  PROVE  /\ t.out \in Rings /\ t.fds_out \in Rings /\ t.want_flush \in BOOLEAN
         /\ s \in Seq(SockItem)
         /\ WordsOf(s) \in Seq(Item) /\ Content(t.out) \in Seq(Item)
         /\ AllWords(t, s) \in Seq(Item)
         /\ \A c \in Seq(Item) : (c \o WordsOf(s)) \o Content(t.out) = c \o AllWords(t, s)
  <1>1. /\ t.out \in Rings /\ t.fds_out \in Rings /\ t.want_flush \in BOOLEAN
        /\ s \in Seq(SockItem) /\ wl_buffer_size(t.out) <= N
    BY DEF SenderOK, Senders
  <1> DEFINE a == WordsOf(s)
             b == Content(t.out)
  <1>2. a \in Seq(Item) /\ b \in Seq(Item)
    BY <1>1, WordsOfIs, ContentIs
  <1>3. AllWords(t, s) = a \o b
    BY DEF AllWords
  <1> HIDE DEF a, b
  <1>4. a \o b \in Seq(Item) /\ \A c \in Seq(Item) : (c \o a) \o b = c \o (a \o b)
    BY ONLY <1>2, ConcatGroups, ConcatProperties
  <1> QED BY <1>1, <1>2, <1>3, <1>4 DEF a, b

LEMMA SenderFdsAre ==
  ASSUME NEW t, NEW s, SenderOK(t, s), wl_buffer_size(t.fds_out) <= N
  PROVE  /\ FdsOf(s) \in Seq(Item) /\ Content(t.fds_out) \in Seq(Item)
         /\ AllFds(t, s) \in Seq(Item)
         /\ \A c \in Seq(Item) : (c \o FdsOf(s)) \o Content(t.fds_out) = c \o AllFds(t, s)
  <1>1. t.fds_out \in Rings /\ s \in Seq(SockItem)
    BY DEF SenderOK, Senders
  <1> DEFINE a == FdsOf(s)
             b == Content(t.fds_out)
  <1>2. a \in Seq(Item) /\ b \in Seq(Item)
    BY <1>1, FdListsIs, ContentIs
  <1>3. AllFds(t, s) = a \o b
    BY DEF AllFds
  <1> HIDE DEF a, b
  <1>4. a \o b \in Seq(Item) /\ \A c \in Seq(Item) : (c \o a) \o b = c \o (a \o b)
    BY ONLY <1>2, ConcatGroups, ConcatProperties
  <1> QED BY <1>2, <1>3, <1>4 DEF a, b

LEMMA TakeIs ==
  ASSUME NEW b \in Rings, wl_buffer_size(b) <= N, NEW x \in Seq(Item),
         NEW u \in Seq(Item), NEW v \in Seq(Item),
         Content(b) \o x = u \o v, Len(u) <= wl_buffer_size(b)
  PROVE  /\ wl_buffer_copy(b, Len(u)) = u
         /\ Dropped(b, Len(u)) \in Rings
         /\ wl_buffer_size(Dropped(b, Len(u))) = wl_buffer_size(b) - Len(u)
         /\ Content(Dropped(b, Len(u))) \o x = v
  <1> DEFINE c == Content(b)
             n == Len(u)
  <1>1. c \in Seq(Item) /\ Len(c) = wl_buffer_size(b)
    BY ContentIs
  <1>2. n \in 0 .. wl_buffer_size(b) /\ Len(u) <= Len(c)
    BY <1>1, LenProperties, RingShape
  <1>3. /\ wl_buffer_copy(b, n) = SubSeq(c, 1, n)
        /\ Dropped(b, n) \in Rings /\ wl_buffer_size(Dropped(b, n)) = wl_buffer_size(b) - n
        /\ Content(Dropped(b, n)) = SubSeq(c, n + 1, wl_buffer_size(b))
    <2> HIDE DEF n
    <2> QED BY <1>2, CopyIsPrefix, DroppedIs
  <1>4. c \o x = u \o v
    OBVIOUS
  <1> HIDE DEF c
  <1>5. SubSeq(c, 1, n) = u /\ SubSeq(c, n + 1, Len(c)) \o x = v
    BY <1>1, <1>2, <1>4, CutConcat
  <1> QED BY <1>1, <1>3, <1>5

LEMMA SecondWord ==
  ASSUME NEW b \in Rings, wl_buffer_size(b) <= N, wl_buffer_size(b) >= 2,
         NEW x \in Seq(Item), NEW u \in Seq(Item), NEW v \in Seq(Item), Len(u) >= 2,
         Content(b) \o x = u \o v
  PROVE  /\ wl_buffer_copy(b, 2)[2] = u[2]
         /\ wl_buffer_copy(b, 1)[1] = u[1] /\ Content(b)[1] = u[1] /\ Len(Content(b)) >= 1
  <1> DEFINE c == Content(b)
  <1>1. /\ c \in Seq(Item) /\ Len(c) = wl_buffer_size(b) /\ wl_buffer_size(b) \in Nat
        /\ \A k \in 1 .. wl_buffer_size(b) : c[k] = At(b, k)
    BY ContentIs, RingShape
  <1>2. 2 \in 0 .. N /\ 1 \in 0 .. N /\ 1 \in 1 .. 1 /\ 2 \in 1 .. 2
    BY Sizes, <1>1
  <1>3. wl_buffer_copy(b, 2)[2] = At(b, 2) /\ wl_buffer_copy(b, 1)[1] = At(b, 1)
    BY <1>2, CopyIs
  <1>4. c[2] = At(b, 2) /\ c[1] = At(b, 1)
    BY <1>1
  <1>5. c \o x = u \o v
    OBVIOUS
  <1> HIDE DEF c
  <1>6. \A e : e = c \o x => e[1] = c[1] /\ e[2] = c[2]
    <2>1. 1 \in 1 .. Len(c) + Len(x) /\ 2 \in 1 .. Len(c) + Len(x) /\ 1 <= Len(c) /\ 2 <= Len(c)
      BY <1>1, LenProperties
    <2>2. \A e : e = c \o x =>
            \A i \in 1 .. Len(c) + Len(x) :
               e[i] = IF i <= Len(c) THEN c[i] ELSE x[i - Len(c)]
      BY <1>1, ConcatIs
    <2> QED BY <2>1, <2>2
  <1>7. \A e : e = u \o v => e[1] = u[1] /\ e[2] = u[2]
    <2>1. 1 \in 1 .. Len(u) + Len(v) /\ 2 \in 1 .. Len(u) + Len(v) /\ 1 <= Len(u) /\ 2 <= Len(u)
      BY LenProperties
    <2>2. \A e : e = u \o v =>
            \A i \in 1 .. Len(u) + Len(v) :
               e[i] = IF i <= Len(u) THEN u[i] ELSE v[i - Len(u)]
      BY ConcatIs
    <2> QED BY <2>1, <2>2
  <1>8. c[1] = u[1] /\ c[2] = u[2]
    <2> DEFINE e == c \o x
    <2>1. e = c \o x /\ e = u \o v
      BY <1>5
    <2> HIDE DEF e
    <2>2. e[1] = c[1] /\ e[2] = c[2]
      BY <1>6, <2>1
    <2>3. e[1] = u[1] /\ e[2] = u[2]
      BY <1>7, <2>1
    <2> QED BY <2>2, <2>3
  <1> QED BY <1>1, <1>3, <1>4, <1>8 DEF c

\* The descriptors of the message at the front have all come.
LEMMA NoneMissing ==
  ASSUME NEW c \in Seq(Item), Len(c) >= 1, NEW num \in Nat, c[1][1] = num,
         NEW t, NEW s, SenderOK(t, s), wl_buffer_size(t.fds_out) <= N,
         Ahead(c, s, Content(t.fds_out)),
         NEW p \in Seq(Item), NEW u \in Seq(Item), NEW v \in Seq(Item),
         p \o AllFds(t, s) = u \o v, \A k \in 1 .. Len(u) : u[k][1] = num
  PROVE  Len(u) <= Len(p)
  <1> SUFFICES ASSUME ~(Len(u) <= Len(p)) PROVE FALSE
    OBVIOUS
  <1> DEFINE a == FdsOf(s)
             b == Content(t.fds_out)
             x == AllFds(t, s)
             k == Len(p) + 1
  <1>1. /\ a \in Seq(Item) /\ b \in Seq(Item) /\ x \in Seq(Item) /\ x = a \o b
        /\ s \in Seq(SockItem) /\ p \o x = u \o v
    BY SenderFdsAre, SenderIs DEF AllFds
  <1>2. a = FlattenSeq(FdLists(s)) /\ FdLists(s) \in Seq(Seq(Item)) /\ Len(FdLists(s)) = Len(s)
        /\ \A i \in 1 .. Len(s) : FdLists(s)[i] = s[i].fds
    BY <1>1, FdListsIs
  <1>3. 1 \in 1 .. Len(c) /\ Len(p) \in Nat /\ Len(u) \in Nat /\ Len(v) \in Nat /\ Len(x) \in Nat
        /\ Len(a) \in Nat /\ Len(b) \in Nat /\ k \in 1 .. Len(u) /\ ~(k <= Len(p)) /\ k - Len(p) = 1
    BY <1>1, LenProperties
  <1>4. Ahead(c, s, b)
    OBVIOUS
  <1> HIDE DEF a, b, x, k
  <1>5. Len(p) + Len(x) = Len(u) + Len(v) /\ x[1] = u[k]
    <2>1. p \in Seq(Item) /\ x \in Seq(Item) /\ u \in Seq(Item) /\ v \in Seq(Item)
      BY <1>1
    <2>2. \A d : d = p \o x => Len(d) = Len(p) + Len(x) /\
            \A i \in 1 .. Len(p) + Len(x) : d[i] = IF i <= Len(p) THEN p[i] ELSE x[i - Len(p)]
      BY ONLY <2>1, ConcatIs
    <2>3. \A d : d = u \o v => Len(d) = Len(u) + Len(v) /\
            \A i \in 1 .. Len(u) + Len(v) : d[i] = IF i <= Len(u) THEN u[i] ELSE v[i - Len(u)]
      BY ONLY <2>1, ConcatIs
    <2>4. PICK e : e = p \o x /\ e = u \o v
      BY <1>1
    <2>5. /\ Len(e) = Len(p) + Len(x)
          /\ \A i \in 1 .. Len(p) + Len(x) : e[i] = IF i <= Len(p) THEN p[i] ELSE x[i - Len(p)]
      BY ONLY <2>2, <2>4
    <2>6. /\ Len(e) = Len(u) + Len(v)
          /\ \A i \in 1 .. Len(u) + Len(v) : e[i] = IF i <= Len(u) THEN u[i] ELSE v[i - Len(u)]
      BY ONLY <2>3, <2>4
    <2>7. k \in 1 .. Len(p) + Len(x) /\ k \in 1 .. Len(u) + Len(v) /\ k <= Len(u)
      BY ONLY <1>3, <2>5, <2>6
    <2>8. e[k] = x[1] /\ e[k] = u[k]
      BY ONLY <1>3, <2>5, <2>6, <2>7
    <2> QED BY <2>5, <2>6, <2>8
  <1>6. Len(x) = Len(a) + Len(b) /\ x[1] = IF 1 <= Len(a) THEN a[1] ELSE b[1 - Len(a)]
    <2>1. Len(x) = Len(a) + Len(b) /\
          \A i \in 1 .. Len(a) + Len(b) : x[i] = IF i <= Len(a) THEN a[i] ELSE b[i - Len(a)]
      <3>1. a \in Seq(Item) /\ b \in Seq(Item)
        BY <1>1
      <3>2. x = a \o b
        BY <1>1
      <3>3. \A e : e = a \o b => Len(e) = Len(a) + Len(b) /\
              \A i \in 1 .. Len(a) + Len(b) : e[i] = IF i <= Len(a) THEN a[i] ELSE b[i - Len(a)]
        BY ONLY <3>1, ConcatIs
      <3> QED BY ONLY <3>2, <3>3
    <2>2. 1 \in 1 .. Len(a) + Len(b)
      BY <1>3, <1>5, <2>1
    <2> QED BY <2>1, <2>2
  <1>7. x[1][1] = num
    BY <1>3, <1>5
  <1>8. CASE 1 <= Len(a)
    <2>1. 1 \in 1 .. Len(FlattenSeq(FdLists(s))) /\ FdLists(s) \in Seq(Seq(Item))
      BY <1>2, <1>3, <1>8
    <2>2. PICK i \in 1 .. Len(FdLists(s)) : \E j \in 1 .. Len(FdLists(s)[i]) :
             FlattenSeq(FdLists(s))[1] = FdLists(s)[i][j]
      BY ONLY <2>1, FlattenElement
    <2>3. PICK j \in 1 .. Len(FdLists(s)[i]) : FlattenSeq(FdLists(s))[1] = FdLists(s)[i][j]
      BY <2>2
    <2>4. i \in 1 .. Len(s) /\ j \in 1 .. Len(s[i].fds) /\ a[1] = s[i].fds[j]
      BY <1>2, <2>3
    <2>5. c[1][1] < s[i].fds[j][1]
      BY <1>3, <1>4, <2>4 DEF Ahead
    <2>6. s[i].fds[j] = x[1]
      BY <1>6, <1>8, <2>4
    <2> QED BY <1>7, <2>5, <2>6
  <1>9. CASE ~(1 <= Len(a))
    <2>1. x[1] = b[1] /\ 1 \in 1 .. Len(b)
      BY <1>3, <1>5, <1>6, <1>9
    <2>2. c[1][1] < b[1][1]
      BY <1>3, <1>4, <2>1 DEF Ahead
    <2> QED BY <1>7, <2>1, <2>2
  <1> QED BY <1>8, <1>9

-----------------------------------------------------------------------------
\* The initial states

LEMMA EmptyIs ==
  ASSUME NEW i \in Starts
  PROVE  /\ EmptyBuffer(i) \in Rings /\ wl_buffer_size(EmptyBuffer(i)) = 0
         /\ Content(EmptyBuffer(i)) = <<>>
  <1> DEFINE b == EmptyBuffer(i)
  <1>1. i \in 0 .. Mod - 1
    BY ConnectionAssumption
  <1>2. b.head = i /\ b.tail = i /\ b \in Rings
    <2>1. NoWord \in Item
      BY DEF NoWord, Item
    <2> QED BY <1>1, <2>1 DEF EmptyBuffer, Rings, Arrays
  <1> HIDE DEF b
  <1>3. wl_buffer_size(b) = 0
    <2>1. (i - i) % Mod = IF i >= i THEN i - i ELSE i - i + Mod
      BY <1>1, CountsApart
    <2>2. i - i = 0 /\ i >= i
      BY <1>1
    <2>3. (i - i) % Mod = 0
      BY <2>1, <2>2
    <2> QED BY <1>2, <2>3 DEF wl_buffer_size
  <1>4. Content(b) = <<>>
    BY <1>2, <1>3, EmptyContent
  <1> QED BY <1>2, <1>3, <1>4 DEF b

LEMMA NothingIs ==
  /\ WordsOf(<<>>) = <<>> /\ FdsOf(<<>>) = <<>> /\ <<>> \in Seq(SockItem) /\ <<>> \in Seq(Messages)
  /\ FlattenSeq(WordLists(<<>>)) = <<>> /\ FlattenSeq(FdsLists(<<>>)) = <<>>
  <1>1. <<>> \in Seq(SockItem) /\ <<>> \in Seq(Messages) /\ Len(<<>>) = 0
    OBVIOUS
  <1>2. WordsOf(<<>>) = <<>>
    BY <1>1, WordsOfIs, EmptySeq
  <1>3. FdsOf(<<>>) = <<>>
    <2> DEFINE x == FdLists(<<>>)
    <2>1. x \in Seq(Seq(Item)) /\ Len(x) = 0 /\ FdsOf(<<>>) = FlattenSeq(x)
      BY <1>1, FdListsIs
    <2> HIDE DEF x
    <2>2. x = <<>>
      BY <2>1, EmptySeq
    <2> QED BY <2>1, <2>2, FlattenEmpty
  <1>4. WordLists(<<>>) = <<>> /\ FdsLists(<<>>) = <<>>
    BY <1>1, ListsAre, EmptySeq
  <1> QED BY <1>1, <1>2, <1>3, <1>4, FlattenEmpty

LEMMA InitInv == Init => Inv
  <1> SUFFICES ASSUME Init PROVE Inv
    OBVIOUS
  <1>1. PICK i \in Starts, j \in Starts :
          /\ tx = [out |-> EmptyBuffer(i), fds_out |-> EmptyBuffer(j), want_flush |-> FALSE]
          /\ in = EmptyBuffer(i) /\ fds_in = EmptyBuffer(j)
    BY DEF Init
  <1>2. /\ sock = <<>> /\ rerror = "" /\ sfailed = FALSE /\ tried = 0 /\ accepted = <<>>
        /\ last = [words |-> <<>>, fds |-> <<>>]
    BY DEF Init
  <1>3. /\ tx.out = EmptyBuffer(i) /\ tx.fds_out = EmptyBuffer(j) /\ tx \in Senders
    BY <1>1, EmptyIs DEF Senders
  <1>4. /\ in \in Rings /\ wl_buffer_size(in) = 0 /\ Content(in) = <<>>
        /\ fds_in \in Rings /\ wl_buffer_size(fds_in) = 0 /\ Content(fds_in) = <<>>
        /\ wl_buffer_size(tx.out) = 0 /\ Content(tx.out) = <<>>
        /\ wl_buffer_size(tx.fds_out) = 0 /\ Content(tx.fds_out) = <<>>
    BY <1>1, <1>3, EmptyIs
  <1>5. N \in Nat /\ MaxFdsOut \in Nat /\ MaxTried \in Nat /\ Room \in Nat
    BY ConnectionAssumption
  <1>6. Len(<<>>) = 0 /\ <<>> \o <<>> = <<>>
    OBVIOUS
  <1>7. SenderOK(tx, sock)
    <2>1. sock \in Seq(SockItem) /\ Len(sock) = 0
      BY <1>2, <1>6, NothingIs
    <2> QED BY <1>3, <1>4, <1>5, <2>1 DEF SenderOK
  <1>8. Shape
    <2>1. accepted \in Seq(Messages) /\ tried \in 0 .. MaxTried
      <3>1. accepted \in Seq(Messages)
        BY <1>2, NothingIs
      <3>2. tried = 0 /\ MaxTried \in Nat
        BY <1>2, <1>5
      <3> QED BY <3>1, <3>2
    <2>2. wl_buffer_size(in) <= N /\ wl_buffer_size(fds_in) <= N
      BY <1>4, <1>5
    <2>3. rerror \in {"", "EINVAL", "EOVERFLOW"} /\ sfailed \in BOOLEAN
      BY <1>2
    <2> QED BY <1>4, <1>7, <2>1, <2>2, <2>3 DEF Shape
  <1>9. AllWords(tx, sock) = <<>> /\ AllFds(tx, sock) = <<>>
    BY <1>2, <1>4, <1>6, NothingIs DEF AllWords, AllFds
  <1>10. Fits /\ Numbered
    <2>1. Len(accepted) = 0 /\ Len(Content(in)) = 0 /\ Len(AllWords(tx, sock)) = 0
      BY <1>2, <1>4, <1>6, <1>9
    <2>2. 1 .. 0 = {}
      OBVIOUS
    <2> QED BY <2>1, <2>2 DEF Fits, Numbered, Below
  <1>11. FdsAhead
    <2>1. Len(sock) = 0 /\ Len(Content(in)) = 0
      BY <1>2, <1>4, <1>6
    <2>2. 1 .. 0 = {}
      OBVIOUS
    <2> QED BY <2>1, <2>2 DEF FdsAhead, Ahead
  <1>12. Roomy
    BY <1>4, <1>5 DEF Roomy, FdRoom
  <1>13. WordsWay
    BY <1>2, <1>4, <1>6, <1>9, NothingIs DEF WordsWay
  <1>14. FdsWay
    BY <1>2, <1>4, <1>6, <1>9, NothingIs DEF FdsWay
  <1>15. ReceiverServed
    BY <1>2 DEF ReceiverServed
  <1>16. FdsOfItsOwn
    BY <1>2 DEF FdsOfItsOwn
  <1> QED BY <1>8, <1>10, <1>11, <1>12, <1>13, <1>14, <1>15, <1>16 DEF Inv

-----------------------------------------------------------------------------
\* The sender's steps

LEMMA BelowBoth ==
  ASSUME NEW m, NEW s \in Seq(Item), NEW t \in Seq(Item), Below(s, m), Below(t, m)
  PROVE  Below(s \o t, m)
  <1> DEFINE c == s \o t
  <1>1. \A e : e = s \o t => Len(e) = Len(s) + Len(t) /\
          \A i \in 1 .. Len(s) + Len(t) : e[i] = IF i <= Len(s) THEN s[i] ELSE t[i - Len(s)]
    BY ConcatIs
  <1>2. c = s \o t
    OBVIOUS
  <1> HIDE DEF c
  <1>3. Len(c) = Len(s) + Len(t) /\
          \A i \in 1 .. Len(s) + Len(t) : c[i] = IF i <= Len(s) THEN s[i] ELSE t[i - Len(s)]
    BY <1>1, <1>2
  <1>4. Len(s) \in Nat /\ Len(t) \in Nat
    BY LenProperties
  <1>5. ASSUME NEW i \in 1 .. Len(c) PROVE c[i][1] \in Nat /\ c[i][1] < m
    <2>1. CASE i <= Len(s)
      <3>1. i \in 1 .. Len(s) /\ c[i] = s[i]
        BY <1>3, <1>4, <2>1
      <3> QED BY <3>1 DEF Below
    <2>2. CASE ~(i <= Len(s))
      <3>1. i - Len(s) \in 1 .. Len(t) /\ c[i] = t[i - Len(s)]
        BY <1>3, <1>4, <2>2
      <3> QED BY <3>1 DEF Below
    <2> QED BY <2>1, <2>2
  <1> QED BY <1>2, <1>5 DEF Below

LEMMA SendStep ==
  ASSUME Inv, NEW want \in BOOLEAN, SendOrQueue(want)
  PROVE  Inv'
  <1>0. PICK num : num = tried + 1
    OBVIOUS
  <1>1. /\ SenderOK(tx, sock) /\ in \in Rings /\ wl_buffer_size(in) <= N
        /\ fds_in \in Rings /\ wl_buffer_size(fds_in) <= N
        /\ rerror \in {"", "EINVAL", "EOVERFLOW"} /\ sfailed \in BOOLEAN
        /\ tried \in 0 .. MaxTried /\ accepted \in Seq(Messages)
    BY DEF Inv, Shape
  <1>2. /\ tried < MaxTried /\ tried' = tried + 1 /\ MaxTried \in Nat
        /\ in' = in /\ fds_in' = fds_in /\ rerror' = rerror /\ last' = last
    BY ConnectionAssumption DEF SendOrQueue, receiver
  <1>3. num \in 1 .. MaxTried /\ tried' \in 0 .. MaxTried
    <2>1. tried \in 0 .. MaxTried
      BY DEF Inv, Shape
    <2>2. tried < MaxTried /\ MaxTried \in Nat /\ tried' = tried + 1
      BY <1>2
    <2> QED BY <1>0, <2>1, <2>2
  <1>4. PICK len \in Lengths, nfds \in FdCounts :
          \E r \in Closure(tx, sock, Message(num, len, nfds), want) :
             /\ tx' = r.tx /\ sock' = r.sock
             /\ sfailed' = (sfailed \/ ~r.ok)
             /\ accepted' = IF r.ok THEN Append(accepted, Message(num, len, nfds)) ELSE accepted
    BY <1>0 DEF SendOrQueue
  <1>20. PICK m : m = Message(num, len, nfds)
    OBVIOUS
  <1>5. PICK r \in Closure(tx, sock, m, want) :
             /\ tx' = r.tx /\ sock' = r.sock
             /\ sfailed' = (sfailed \/ ~r.ok)
             /\ accepted' = IF r.ok THEN Append(accepted, m) ELSE accepted
    BY <1>4, <1>20
  <1>6. /\ m \in Messages
        /\ len \in Nat /\ len >= 2 /\ nfds \in 0 .. MaxFdsOut
        /\ m.words \in Seq(Item) /\ Len(m.words) = len
        /\ \A k \in 1 .. len : m.words[k] = <<num, k, len, nfds>>
        /\ m.fds \in Seq(Item) /\ Len(m.fds) = nfds
        /\ \A k \in 1 .. nfds : m.fds[k] = <<num, k>>
    BY <1>3, <1>20, MessageIs
  <1>7. /\ Len(m.words) # 0 /\ Len(m.fds) <= MaxFdsOut
        /\ \A j \in 1 .. Len(m.fds) : m.fds[j][1] = num
    BY <1>6, ConnectionAssumption
  <1>8. Below(Content(in), num) /\ Below(AllWords(tx, sock), num)
    BY <1>0 DEF Inv, Numbered
  <1>9. /\ SenderOK(r.tx, r.sock) /\ r.ok \in BOOLEAN
        /\ ~r.ok => AllWords(r.tx, r.sock) = AllWords(tx, sock)
        /\ r.ok => AllWords(r.tx, r.sock) = AllWords(tx, sock) \o m.words /\ Len(m.words) <= N
        /\ FdRoom(tx, 0) /\ Below(AllWords(tx, sock), num) /\ r.ok =>
              FdRoom(r.tx, 0) /\ PutsFds(tx, sock, r, m.fds, num)
    BY <1>1, <1>5, <1>6, <1>7, ClosureIs
  <1>10. /\ Content(in) \in Seq(Item) /\ AllWords(tx, sock) \in Seq(Item)
         /\ Content(fds_in) \in Seq(Item)
    BY <1>1, ContentIs, SenderIs
  <1>11. Shape'
    <2>1. accepted' \in Seq(Messages)
      <3>1. accepted \in Seq(Messages) /\ m \in Messages
        BY <1>1, <1>6
      <3>2. accepted' = Append(accepted, m) \/ accepted' = accepted
        BY <1>5
      <3> QED BY <3>1, <3>2
    <2>2. sfailed' \in BOOLEAN
      BY <1>5
    <2>3. tried' \in 0 .. MaxTried
      BY <1>3
    <2>4. SenderOK(tx', sock')
      BY <1>5, <1>9
    <2> QED BY <1>1, <1>2, <2>1, <2>2, <2>3, <2>4 DEF Shape
  <1>12. Fits'
    <2>1. CASE r.ok
      <3>1. accepted' = Append(accepted, m) /\ Len(m.words) <= N
        BY <1>5, <1>9, <2>1
      <3>2. ASSUME NEW i \in 1 .. Len(accepted') PROVE Len(accepted'[i].words) <= N
        <4>1. \/ i \in 1 .. Len(accepted) /\ accepted'[i] = accepted[i]
              \/ accepted'[i] = m
          <5>1. accepted \in Seq(Messages) /\ m \in Messages
            BY <1>1, <1>6
          <5> QED BY <3>1, <5>1
        <4>2. CASE i \in 1 .. Len(accepted) /\ accepted'[i] = accepted[i]
          <5>1. accepted'[i] = accepted[i]
            BY <4>2
          <5> QED BY <4>2, <5>1 DEF Inv, Fits
        <4> QED BY <3>1, <4>1, <4>2
      <3> QED BY <3>2 DEF Fits
    <2>2. CASE ~r.ok
      <3>1. accepted' = accepted
        BY <1>5, <2>2
      <3> QED BY <3>1 DEF Inv, Fits
    <2> QED BY <2>1, <2>2
  <1>13. Numbered'
    <2>2. \A c \in Seq(Item) : Below(c, num) => Below(c, num + 1)
      <3> SUFFICES ASSUME NEW c \in Seq(Item), Below(c, num), NEW i \in 1 .. Len(c)
                   PROVE  c[i][1] \in Nat /\ c[i][1] < num + 1
        BY DEF Below
      <3>1. c[i][1] \in Nat /\ c[i][1] < num
        BY DEF Below
      <3> QED BY <3>1, <1>3
    <2>3. Below(m.words, num + 1)
      BY <1>3, <1>6 DEF Below
    <2>4. Below(AllWords(tx, sock) \o m.words, num + 1)
      BY <1>6, <1>8, <1>10, <2>2, <2>3, BelowBoth
    <2>5. Below(AllWords(tx', sock'), num + 1)
      <3>1. CASE r.ok
        BY <1>5, <1>9, <2>4, <3>1
      <3>2. CASE ~r.ok
        BY <1>5, <1>8, <1>9, <1>10, <2>2, <3>2
      <3> QED BY <3>1, <3>2
    <2>6. Below(Content(in'), num + 1)
      BY <1>2, <1>8, <1>10, <2>2
    <2>7. tried' + 1 = num + 1
      BY <1>0, <1>2
    <2> QED BY <2>5, <2>6, <2>7 DEF Numbered
  <1>14. Roomy'
    <2> SUFFICES ASSUME ~sfailed' PROVE FdRoom(tx', 0)
      BY DEF Roomy
    <2>1. ~sfailed /\ r.ok
      BY <1>1, <1>5, <1>9
    <2>2. FdRoom(tx, 0)
      BY <2>1 DEF Inv, Roomy
    <2> QED BY <1>5, <1>8, <1>9, <2>1, <2>2
  <1>15. ASSUME rerror' = "", ~sfailed'
         PROVE  /\ Ahead(Content(in'), sock', Content(tx'.fds_out))
                /\ Content(fds_in') \o AllFds(tx', sock') = FlattenSeq(FdsLists(accepted'))
    <2>1. ~sfailed /\ r.ok /\ rerror = ""
      BY <1>1, <1>2, <1>5, <1>9, <1>15
    <2>2. FdRoom(tx, 0) /\ Ahead(Content(in), sock, Content(tx.fds_out))
          /\ Content(fds_in) \o AllFds(tx, sock) = FlattenSeq(FdsLists(accepted))
      BY <2>1 DEF Inv, Roomy, FdsAhead, FdsWay
    <2>3. PutsFds(tx, sock, r, m.fds, num)
      BY <1>8, <1>9, <2>1, <2>2
    <2>4. Ahead(Content(in), r.sock, Content(r.tx.fds_out))
      BY <1>8, <1>10, <2>2, <2>3 DEF PutsFds
    <2>5. accepted' = Append(accepted, m)
      BY <1>5, <2>1
    <2>6. FlattenSeq(FdsLists(accepted')) = FlattenSeq(FdsLists(accepted)) \o m.fds
      BY <1>1, <1>6, <2>5, ListsAppend
    <2> DEFINE a == Content(fds_in)
               b == AllFds(tx, sock)
    <2>7. a \in Seq(Item) /\ b \in Seq(Item)
      <3>1. wl_buffer_size(tx.fds_out) <= N
        <4>1. tx.fds_out \in Rings
          BY <1>1 DEF SenderOK, Senders
        <4>2. wl_buffer_size(tx.fds_out) \in Nat /\ wl_buffer_size(tx.fds_out) <= MaxFdsOut
          BY <2>2, <4>1, RingShape DEF FdRoom
        <4>3. MaxFdsOut \in 1 .. N /\ N \in Nat
          BY ConnectionAssumption
        <4> QED BY <4>2, <4>3
      <3> QED BY <1>1, <1>10, <3>1, SenderFdsAre
    <2>8. /\ AllFds(tx', sock') = b \o m.fds
          /\ FlattenSeq(FdsLists(accepted')) = (a \o b) \o m.fds
      BY <1>5, <2>2, <2>3, <2>6 DEF PutsFds
    <2> HIDE DEF b
    <2> DEFINE x == m.fds
    <2>9. x \in Seq(Item)
      BY <1>6
    <2> HIDE DEF a, x
    <2>10. (a \o b) \o x = a \o (b \o x)
      BY ONLY <2>7, <2>9, ConcatGroups
    <2>11. Content(fds_in') \o AllFds(tx', sock') = FlattenSeq(FdsLists(accepted'))
      BY <1>2, <2>8, <2>10 DEF a, x
    <2> QED BY <1>2, <1>5, <2>4, <2>11
  <1>16. WordsWay'
    <2> SUFFICES ASSUME rerror' = ""
                 PROVE  Content(in') \o AllWords(tx', sock') = FlattenSeq(WordLists(accepted'))
      BY DEF WordsWay
    <2>1. Content(in) \o AllWords(tx, sock) = FlattenSeq(WordLists(accepted))
      BY <1>2 DEF Inv, WordsWay
    <2>2. CASE ~r.ok
      <3>1. AllWords(tx', sock') = AllWords(tx, sock) /\ accepted' = accepted
        BY <1>5, <1>9, <2>2
      <3> QED BY <1>2, <2>1, <3>1
    <2>3. CASE r.ok
      <3> DEFINE a == Content(in)
                 b == AllWords(tx, sock)
                 x == m.words
      <3>1. accepted' = Append(accepted, m) /\ AllWords(tx', sock') = b \o x
        BY <1>5, <1>9, <2>3
      <3>2. FlattenSeq(WordLists(accepted')) = (a \o b) \o x
        BY <1>1, <1>6, <2>1, <3>1, ListsAppend
      <3>3. a \in Seq(Item) /\ b \in Seq(Item) /\ x \in Seq(Item)
        BY <1>6, <1>10
      <3>4. Content(in') = a
        BY <1>2
      <3> HIDE DEF a, b, x
      <3>5. (a \o b) \o x = a \o (b \o x)
        BY ONLY <3>3, ConcatGroups
      <3> QED BY <3>1, <3>2, <3>4, <3>5
    <2> QED BY <2>2, <2>3
  <1>17. ReceiverServed'
    <2>1. ReceiverServed
      BY DEF Inv
    <2> QED BY <1>2, <1>5, <2>1 DEF ReceiverServed
  <1>18. FdsOfItsOwn'
    <2>1. FdsOfItsOwn
      BY DEF Inv
    <2> QED BY <1>2, <1>5, <2>1 DEF FdsOfItsOwn
  <1>19. FdsAhead' /\ FdsWay'
    BY <1>15 DEF FdsAhead, FdsWay
  <1> QED BY <1>11, <1>12, <1>13, <1>14, <1>16, <1>17, <1>18, <1>19 DEF Inv

LEMMA FlushStep ==
  ASSUME Inv, FlushCall
  PROVE  Inv'
  <1>1. /\ SenderOK(tx, sock) /\ in \in Rings /\ wl_buffer_size(in) <= N
        /\ fds_in \in Rings /\ wl_buffer_size(fds_in) <= N
    BY DEF Inv, Shape
  <1>2. /\ tried' = tried /\ sfailed' = sfailed /\ accepted' = accepted
        /\ in' = in /\ fds_in' = fds_in /\ rerror' = rerror /\ last' = last
    BY DEF FlushCall, receiver
  <1>3. PICK r \in Flush(tx, sock) : tx' = r.tx /\ sock' = r.sock
    BY DEF FlushCall
  <1>4. /\ Kept(tx, sock, r)
        /\ wl_buffer_size(tx.fds_out) <= MaxFdsOut => KeptFds(tx, sock, r)
        /\ \A i \in Nat : FdRoom(tx, i) => FdRoom(r.tx, i)
    BY <1>1, <1>3, FlushIs
  <1>5. SenderOK(tx', sock') /\ AllWords(tx', sock') = AllWords(tx, sock)
    BY <1>3, <1>4 DEF Kept
  <1>6. Shape'
    BY <1>2, <1>5 DEF Inv, Shape
  <1>7. Fits'
    BY <1>2 DEF Inv, Fits
  <1>8. Numbered'
    BY <1>2, <1>5 DEF Inv, Numbered
  <1>9. Roomy'
    BY <1>2, <1>3, <1>4 DEF Inv, Roomy
  <1>10. WordsWay'
    BY <1>2, <1>5 DEF Inv, WordsWay
  <1>11. ASSUME ~sfailed, rerror = ""
         PROVE  /\ Ahead(Content(in'), sock', Content(tx'.fds_out))
                /\ AllFds(tx', sock') = AllFds(tx, sock)
    <2>1. Ahead(Content(in), sock, Content(tx.fds_out)) /\ KeptFds(tx, sock, r)
      BY <1>4, <1>11 DEF Inv, FdsAhead, Roomy, FdRoom
    <2>2. Content(in) \in Seq(Item)
      BY <1>1, ContentIs
    <2>3. Ahead(Content(in), r.sock, Content(r.tx.fds_out)) /\ AllFds(r.tx, r.sock) = AllFds(tx, sock)
      BY <2>1, <2>2 DEF KeptFds
    <2> QED BY <1>2, <1>3, <2>3
  <1>12. FdsAhead'
    BY <1>2, <1>11 DEF FdsAhead
  <1>13. FdsWay'
    BY <1>2, <1>11 DEF Inv, FdsWay
  <1>14. ReceiverServed' /\ FdsOfItsOwn'
    BY <1>2 DEF Inv, ReceiverServed, FdsOfItsOwn
  <1> QED BY <1>6, <1>7, <1>8, <1>9, <1>10, <1>12, <1>13, <1>14 DEF Inv

-----------------------------------------------------------------------------
\* The receiver's steps

LEMMA AheadRead ==
  ASSUME NEW c \in Seq(Item), NEW s \in Seq(SockItem), NEW u \in Seq(SockItem), NEW fo,
         NEW v, v = s \o u, Ahead(c, v, fo)
  PROVE  \A d : d = c \o WordsOf(s) => Ahead(d, u, fo)
  <1> DEFINE w == WordsOf(s)
  <1>1. /\ w \in Seq(Item) /\ Len(w) = Len(s) /\ \A i \in 1 .. Len(s) : w[i] = s[i].word
        /\ Len(s) \in Nat /\ Len(u) \in Nat /\ Len(c) \in Nat
    BY WordsOfIs, LenProperties
  <1>2. /\ Len(v) = Len(s) + Len(u)
        /\ \A i \in 1 .. Len(s) + Len(u) : v[i] = IF i <= Len(s) THEN s[i] ELSE u[i - Len(s)]
    BY ConcatIs
  <1>3. \A i \in 1 .. Len(s) : i \in 1 .. Len(v) /\ v[i] = s[i]
    BY <1>1, <1>2
  <1>4. ASSUME NEW i \in 1 .. Len(u)
        PROVE  Len(s) + i \in 1 .. Len(v) /\ v[Len(s) + i] = u[i]
    <2>1. Len(s) + i \in 1 .. Len(s) + Len(u) /\ ~(Len(s) + i <= Len(s)) /\ (Len(s) + i) - Len(s) = i
      BY <1>1
    <2> QED BY <1>2, <2>1
  <1> HIDE DEF w
  <1> SUFFICES ASSUME NEW d, d = c \o w PROVE Ahead(d, u, fo)
    BY DEF w
  <1>5. \A i \in 1 .. Len(d) :
           \/ i \in 1 .. Len(c) /\ d[i] = c[i]
           \/ \E j \in 1 .. Len(s) : d[i] = s[j].word
    <2>1. /\ Len(d) = Len(c) + Len(w)
          /\ \A i \in 1 .. Len(c) + Len(w) : d[i] = IF i <= Len(c) THEN c[i] ELSE w[i - Len(c)]
      <3>1. w \in Seq(Item)
        BY <1>1
      <3>2. \A e : e = c \o w =>
              /\ e \in Seq(Item) /\ Len(e) = Len(c) + Len(w)
              /\ \A i \in 1 .. Len(c) + Len(w) : e[i] = IF i <= Len(c) THEN c[i] ELSE w[i - Len(c)]
        BY ONLY <3>1, c \in Seq(Item), ConcatIs
      <3>3. d = c \o w
        OBVIOUS
      <3> QED BY <3>2, <3>3
    <2> TAKE i \in 1 .. Len(d)
    <2>2. CASE i <= Len(c)
      BY <1>1, <2>1, <2>2
    <2>3. CASE ~(i <= Len(c))
      <3>1. i - Len(c) \in 1 .. Len(s) /\ d[i] = w[i - Len(c)]
        BY <1>1, <2>1, <2>3
      <3>2. d[i] = s[i - Len(c)].word
        BY <1>1, <3>1
      <3> QED BY <3>1, <3>2
    <2> QED BY <2>2, <2>3
  <1>6. ASSUME NEW i \in 1 .. Len(d), NEW j \in 1 .. Len(fo)
        PROVE  d[i][1] < fo[j][1]
    <2>1. CASE i \in 1 .. Len(c) /\ d[i] = c[i]
      BY <2>1 DEF Ahead
    <2>2. CASE \E k \in 1 .. Len(s) : d[i] = s[k].word
      <3>1. PICK k \in 1 .. Len(s) : d[i] = s[k].word
        BY <2>2
      <3>2. k \in 1 .. Len(v) /\ d[i] = v[k].word
        BY <1>3, <3>1
      <3> QED BY <3>2 DEF Ahead
    <2> QED BY <1>5, <2>1, <2>2
  <1>7. ASSUME NEW i \in 1 .. Len(d), NEW j \in 1 .. Len(u), NEW k \in 1 .. Len(u[j].fds)
        PROVE  d[i][1] < u[j].fds[k][1]
    <2> DEFINE q == Len(s) + j
    <2>1. q \in 1 .. Len(v) /\ v[q] = u[j]
      BY <1>4
    <2>2. \A p \in 1 .. Len(s) : p < q
      BY <1>1
    <2> HIDE DEF q
    <2>3. CASE i \in 1 .. Len(c) /\ d[i] = c[i]
      <3>1. c[i][1] < v[q].fds[k][1]
        BY <2>1, <2>3 DEF Ahead
      <3> QED BY <2>1, <2>3, <3>1
    <2>4. CASE \E p \in 1 .. Len(s) : d[i] = s[p].word
      <3>1. PICK p \in 1 .. Len(s) : d[i] = s[p].word
        BY <2>4
      <3>2. p \in 1 .. Len(v) /\ d[i] = v[p].word /\ p < q
        BY <1>3, <2>2, <3>1
      <3>3. v[p].word[1] < v[q].fds[k][1]
        BY <2>1, <3>2 DEF Ahead
      <3> QED BY <2>1, <3>2, <3>3
    <2> QED BY <1>5, <2>3, <2>4
  <1>8. ASSUME NEW i \in 1 .. Len(u), NEW j \in 1 .. Len(fo)
        PROVE  u[i].word[1] < fo[j][1]
    <2>1. Len(s) + i \in 1 .. Len(v) /\ v[Len(s) + i] = u[i]
      BY <1>4
    <2> QED BY <2>1 DEF Ahead
  <1>9. ASSUME NEW i \in 1 .. Len(u), NEW j \in 1 .. Len(u), i < j, NEW k \in 1 .. Len(u[j].fds)
        PROVE  u[i].word[1] < u[j].fds[k][1]
    <2> DEFINE p == Len(s) + i
               q == Len(s) + j
    <2>1. p \in 1 .. Len(v) /\ v[p] = u[i] /\ q \in 1 .. Len(v) /\ v[q] = u[j]
      BY <1>4
    <2>2. p < q
      BY <1>1, <1>9
    <2> HIDE DEF p, q
    <2>3. v[p].word[1] < v[q].fds[k][1]
      BY <2>1, <2>2 DEF Ahead
    <2> QED BY <2>1, <2>3
  <1> QED BY <1>6, <1>7, <1>8, <1>9 DEF Ahead

LEMMA RestIs ==
  ASSUME NEW c \in Seq(Item), NEW k \in 0 .. Len(c), NEW d, d = SubSeq(c, k + 1, Len(c))
  PROVE  /\ \A m : Below(c, m) => Below(d, m)
         /\ \A s, fo : Ahead(c, s, fo) => Ahead(d, s, fo)
  <1>1. Len(c) \in Nat
    BY LenProperties
  <1>2. Len(d) = Len(c) - k /\ \A i \in 1 .. Len(c) - k : d[i] = c[k + i]
    BY SplitSeq
  <1>3. \A i \in 1 .. Len(d) : k + i \in 1 .. Len(c) /\ d[i] = c[k + i]
    BY <1>1, <1>2
  <1> QED BY <1>3 DEF Below, Ahead

LEMMA SocketSplit ==
  ASSUME NEW t, NEW v, SenderOK(t, v), NEW s \in Seq(SockItem), NEW u \in Seq(SockItem), v = s \o u
  PROVE  /\ SenderOK(t, u)
         /\ AllWords(t, v) = WordsOf(s) \o AllWords(t, u)
         /\ wl_buffer_size(t.fds_out) <= N => AllFds(t, v) = FdsOf(s) \o AllFds(t, u)
  <1>1. /\ WordsOf(v) = WordsOf(s) \o WordsOf(u) /\ FdsOf(v) = FdsOf(s) \o FdsOf(u)
    BY SocketConcat
  <1>2. Len(v) = Len(s) + Len(u) /\ Len(s) \in Nat /\ Len(u) \in Nat /\ Room \in Nat
    BY ConcatProperties, LenProperties, ConnectionAssumption
  <1>3. SenderOK(t, u)
    BY <1>2 DEF SenderOK
  <1>4. /\ WordsOf(s) \in Seq(Item) /\ WordsOf(u) \in Seq(Item) /\ Content(t.out) \in Seq(Item)
        /\ FdsOf(s) \in Seq(Item) /\ FdsOf(u) \in Seq(Item)
    BY <1>3, SenderIs, WordsOfIs, FdListsIs
  <1>5. AllWords(t, v) = WordsOf(s) \o AllWords(t, u)
    <2> DEFINE a == WordsOf(s)
               b == WordsOf(u)
               x == Content(t.out)
    <2>1. AllWords(t, v) = (a \o b) \o x /\ AllWords(t, u) = b \o x
      BY <1>1 DEF AllWords
    <2>2. a \in Seq(Item) /\ b \in Seq(Item) /\ x \in Seq(Item)
      BY <1>4
    <2> HIDE DEF a, b, x
    <2>3. (a \o b) \o x = a \o (b \o x)
      BY ONLY <2>2, ConcatGroups
    <2> QED BY <2>1, <2>3 DEF a
  <1>6. ASSUME wl_buffer_size(t.fds_out) <= N
        PROVE  AllFds(t, v) = FdsOf(s) \o AllFds(t, u)
    <2> DEFINE a == FdsOf(s)
               b == FdsOf(u)
               x == Content(t.fds_out)
    <2>1. AllFds(t, v) = (a \o b) \o x /\ AllFds(t, u) = b \o x
      BY <1>1 DEF AllFds
    <2>2. a \in Seq(Item) /\ b \in Seq(Item) /\ x \in Seq(Item)
      BY <1>3, <1>4, <1>6, SenderFdsAre
    <2> HIDE DEF a, b, x
    <2>3. (a \o b) \o x = a \o (b \o x)
      BY ONLY <2>2, ConcatGroups
    <2> QED BY <2>1, <2>3 DEF a
  <1> QED BY <1>3, <1>5, <1>6

\* The message at the front: its words are where the receiver looks for them.
LEMMA MessageShape ==
  ASSUME NEW m \in Messages
  PROVE  /\ m.words \in Seq(Item) /\ m.fds \in Seq(Item)
         /\ Len(m.words) \in Nat /\ Len(m.words) >= 2 /\ Len(m.fds) \in Nat
         /\ m.words[2][3] = Len(m.words) /\ m.words[2][4] = Len(m.fds)
         /\ OwnFds(m.words[1]) = m.fds
         /\ m.words[1][1] \in Nat
         /\ \A k \in 1 .. Len(m.fds) : m.fds[k][1] = m.words[1][1]
  <1>1. PICK num \in 1 .. MaxTried, len \in Lengths, n \in FdCounts : m = Message(num, len, n)
    BY MessagesAre
  <1>2. /\ len \in Nat /\ len >= 2 /\ n \in 0 .. MaxFdsOut
        /\ m.words \in Seq(Item) /\ Len(m.words) = len
        /\ \A k \in 1 .. len : m.words[k] = <<num, k, len, n>>
        /\ m.fds \in Seq(Item) /\ Len(m.fds) = n
        /\ \A k \in 1 .. n : m.fds[k] = <<num, k>>
    BY <1>1, MessageIs
  <1>3. 1 \in 1 .. len /\ 2 \in 1 .. len /\ num \in Nat /\ n \in Nat
    BY <1>2, ConnectionAssumption
  <1>4. m.words[1] = <<num, 1, len, n>> /\ m.words[2] = <<num, 2, len, n>>
    BY <1>2, <1>3
  <1>5. /\ m.words[1][1] = num /\ m.words[1][4] = n
        /\ m.words[2][3] = len /\ m.words[2][4] = n
    BY <1>4
  <1>6. OwnFds(m.words[1]) = m.fds
    <2>1. m.fds = [k \in 1 .. n |-> <<num, k>>]
      BY <1>1 DEF Message
    <2> QED BY <1>5, <2>1 DEF OwnFds
  <1>7. \A k \in 1 .. n : m.fds[k][1] = num
    BY <1>2
  <1> QED BY <1>2, <1>3, <1>5, <1>6, <1>7

LEMMA NothingJoined ==
  \A S : \A a, b \in Seq(S) : a \o b = <<>> => Len(a) = 0
  <1> SUFFICES ASSUME NEW S, NEW a \in Seq(S), NEW b \in Seq(S), a \o b = <<>>
               PROVE  Len(a) = 0
    OBVIOUS
  <1>1. Len(a \o b) = Len(a) + Len(b)
    BY ONLY a \in Seq(S), b \in Seq(S), ConcatProperties
  <1>2. Len(a) \in Nat /\ Len(b) \in Nat /\ Len(<<>>) = 0
    BY EmptySeq
  <1> QED BY <1>1, <1>2

LEMMA HasFirst ==
  \A S : \A a \in Seq(S) : a # <<>> => 1 \in 1 .. Len(a)
  BY EmptySeq

LEMMA HeadIs ==
  ASSUME Inv, rerror = "", wl_buffer_size(in) # 0
  PROVE  /\ accepted # <<>> /\ accepted[1] \in Messages
         /\ SubSeq(accepted, 2, Len(accepted)) \in Seq(Messages)
         /\ Len(accepted[1].words) <= N
         /\ Content(in) \o AllWords(tx, sock) =
               accepted[1].words \o FlattenSeq(WordLists(SubSeq(accepted, 2, Len(accepted))))
         /\ ~sfailed => Content(fds_in) \o AllFds(tx, sock) =
               accepted[1].fds \o FlattenSeq(FdsLists(SubSeq(accepted, 2, Len(accepted))))
  <1>1. /\ SenderOK(tx, sock) /\ in \in Rings /\ wl_buffer_size(in) <= N
        /\ accepted \in Seq(Messages)
    BY DEF Inv, Shape
  <1>2. /\ Content(in) \o AllWords(tx, sock) = FlattenSeq(WordLists(accepted))
        /\ ~sfailed => Content(fds_in) \o AllFds(tx, sock) = FlattenSeq(FdsLists(accepted))
    BY DEF Inv, WordsWay, FdsWay
  <1>3. accepted # <<>>
    <2> SUFFICES ASSUME accepted = <<>> PROVE FALSE
      OBVIOUS
    <2> DEFINE a == Content(in)
               b == AllWords(tx, sock)
    <2>1. a \o b = <<>>
      BY <1>2, NothingIs
    <2>2. a \in Seq(Item) /\ b \in Seq(Item) /\ Len(a) = wl_buffer_size(in)
      BY <1>1, ContentIs, SenderIs
    <2> HIDE DEF a, b
    <2>3. Len(a) = 0
      BY ONLY <2>1, <2>2, NothingJoined
    <2> QED BY <2>2, <2>3
  <1>4. /\ SubSeq(accepted, 2, Len(accepted)) \in Seq(Messages) /\ accepted[1] \in Messages
        /\ FlattenSeq(WordLists(accepted)) =
              accepted[1].words \o FlattenSeq(WordLists(SubSeq(accepted, 2, Len(accepted))))
        /\ FlattenSeq(FdsLists(accepted)) =
              accepted[1].fds \o FlattenSeq(FdsLists(SubSeq(accepted, 2, Len(accepted))))
    BY <1>1, <1>3, ListsHead
  <1>5. Len(accepted[1].words) <= N
    <2>1. 1 \in 1 .. Len(accepted)
      BY ONLY <1>1, <1>3, HasFirst
    <2> QED BY <2>1 DEF Inv, Fits
  <1> QED BY <1>2, <1>3, <1>4, <1>5

LEMMA HeaderIs ==
  ASSUME Inv, rerror = "", wl_buffer_size(in) >= 2
  PROVE  /\ HeadSize = Len(accepted[1].words) /\ HeadFds = Len(accepted[1].fds)
         /\ wl_buffer_copy(in, 1)[1] = accepted[1].words[1]
         /\ Content(in)[1] = accepted[1].words[1] /\ Len(Content(in)) >= 1
  <1>1. /\ SenderOK(tx, sock) /\ in \in Rings /\ wl_buffer_size(in) <= N
        /\ wl_buffer_size(in) # 0
    <2>1. wl_buffer_size(in) # 0
      <3>1. in \in Rings
        BY DEF Inv, Shape
      <3>2. wl_buffer_size(in) \in Nat
        BY <3>1, RingShape
      <3> QED BY ONLY <3>2, wl_buffer_size(in) >= 2
    <2> QED BY <2>1 DEF Inv, Shape
  <1> DEFINE x == AllWords(tx, sock)
             u == accepted[1].words
             v == FlattenSeq(WordLists(SubSeq(accepted, 2, Len(accepted))))
  <1>2. /\ accepted[1] \in Messages
        /\ SubSeq(accepted, 2, Len(accepted)) \in Seq(Messages)
        /\ Content(in) \o x = u \o v
    BY <1>1, HeadIs
  <1>3. /\ u \in Seq(Item) /\ Len(u) >= 2
        /\ u[2][3] = Len(u) /\ u[2][4] = Len(accepted[1].fds)
    BY <1>2, MessageShape
  <1>4. x \in Seq(Item) /\ v \in Seq(Item)
    BY <1>1, <1>2, SenderIs, ListsAre
  <1> HIDE DEF x, u, v
  <1>5. /\ wl_buffer_copy(in, 2)[2] = u[2]
        /\ wl_buffer_copy(in, 1)[1] = u[1] /\ Content(in)[1] = u[1] /\ Len(Content(in)) >= 1
    BY <1>1, <1>2, <1>3, <1>4, SecondWord
  <1> QED BY <1>3, <1>5 DEF HeadSize, HeadFds, u

LEMMA ReadStep ==
  ASSUME Inv, Read
  PROVE  Inv'
  <1>1. /\ SenderOK(tx, sock) /\ in \in Rings /\ wl_buffer_size(in) <= N
        /\ fds_in \in Rings /\ wl_buffer_size(fds_in) <= N
        /\ sfailed \in BOOLEAN /\ tried \in 0 .. MaxTried /\ accepted \in Seq(Messages)
    BY DEF Inv, Shape
  <1>2. /\ rerror = "" /\ ~HasMessage
        /\ tx' = tx /\ sfailed' = sfailed /\ tried' = tried /\ accepted' = accepted /\ last' = last
    BY DEF Read, sender
  <1>3. wl_buffer_size(in) \in Nat /\ N \in Nat \ {0} /\ wl_buffer_size(fds_in) \in Nat
    BY <1>1, RingShape, ConnectionAssumption
  <1>4. wl_buffer_size(in) < N
    <2> SUFFICES ASSUME ~(wl_buffer_size(in) < N) PROVE FALSE
      OBVIOUS
    <2>1. wl_buffer_size(in) # 0 /\ wl_buffer_size(in) = N
      BY <1>1, <1>3
    <2>2. accepted[1] \in Messages /\ Len(accepted[1].words) <= N
      BY <1>2, <2>1, HeadIs
    <2>3. Len(accepted[1].words) >= 2 /\ Len(accepted[1].words) \in Nat
      BY <2>2, MessageShape
    <2>4. wl_buffer_size(in) >= 2
      BY <1>3, <2>1, <2>2, <2>3
    <2>5. HeadSize = Len(accepted[1].words)
      BY <1>2, <2>4, HeaderIs
    <2> QED BY <1>2, <2>1, <2>2, <2>4, <2>5 DEF HasMessage, HasHeader
  <1> DEFINE iov == wl_buffer_put_iov(in)
  <1>5. PICK k \in 1 .. MinOf(IovSpace(iov), Len(sock)) :
            /\ sock' = SubSeq(sock, k + 1, Len(sock))
            /\ IF Len(FdsOf(SubSeq(sock, 1, k))) > N - wl_buffer_size(fds_in)
               THEN rerror' = "EOVERFLOW" /\ UNCHANGED <<in, fds_in>>
               ELSE /\ fds_in' = wl_buffer_put(fds_in, FdsOf(SubSeq(sock, 1, k)))
                    /\ in' = [data |-> Scattered(in, iov, WordsOf(SubSeq(sock, 1, k))),
                              head |-> (in.head + k) % Mod,
                              tail |-> in.tail]
                    /\ UNCHANGED rerror
    <2>1. ~(wl_buffer_size(in) >= N)
      BY <1>3, <1>4
    <2> QED BY <2>1 DEF Read
  <1>6. /\ sock \in Seq(SockItem) /\ Len(sock) \in Nat
        /\ tx.out \in Rings /\ tx.fds_out \in Rings
    BY <1>1, SenderIs, LenProperties
  <1>7. k \in 1 .. Len(sock) /\ wl_buffer_size(in) + k <= N
    <2>1. IovSpace(iov) = N - wl_buffer_size(in)
      BY <1>1, <1>4, SpaceIs
    <2> HIDE DEF iov
    <2> QED BY <1>3, <1>4, <1>6, <2>1 DEF MinOf
  <1>8. PICK s, u : s = SubSeq(sock, 1, k) /\ u = SubSeq(sock, k + 1, Len(sock))
    OBVIOUS
  <1>9. s \in Seq(SockItem) /\ u \in Seq(SockItem) /\ Len(s) = k /\ s \o u = sock
    <2>1. k \in 0 .. Len(sock)
      BY <1>6, <1>7
    <2> QED BY <1>6, <1>8, <2>1, SplitSeq
  <1>10. /\ SenderOK(tx, u)
         /\ AllWords(tx, sock) = WordsOf(s) \o AllWords(tx, u)
         /\ wl_buffer_size(tx.fds_out) <= N => AllFds(tx, sock) = FdsOf(s) \o AllFds(tx, u)
    BY <1>1, <1>9, SocketSplit
  <1>11. sock' = u
    BY <1>5, <1>8
  <1>12. /\ WordsOf(s) \in Seq(Item) /\ Len(WordsOf(s)) = k /\ FdsOf(s) \in Seq(Item)
         /\ AllWords(tx, u) \in Seq(Item) /\ AllWords(tx, sock) \in Seq(Item)
         /\ Content(in) \in Seq(Item) /\ Content(fds_in) \in Seq(Item)
    BY <1>1, <1>9, <1>10, WordsOfIs, FdListsIs, SenderIs, ContentIs
  <1>13. /\ Below(Content(in), tried + 1)
         /\ Below(WordsOf(s), tried + 1) /\ Below(AllWords(tx, u), tried + 1)
    <2>1. Below(Content(in), tried + 1) /\ Below(WordsOf(s) \o AllWords(tx, u), tried + 1)
      BY <1>10 DEF Inv, Numbered
    <2> QED BY <1>12, <2>1, BelowConcat
  <1>14. Fits' /\ Roomy' /\ FdsOfItsOwn'
    BY <1>2 DEF Inv, Fits, Roomy, FdsOfItsOwn
  <1>15. CASE Len(FdsOf(s)) > N - wl_buffer_size(fds_in)
    <2>1. rerror' = "EOVERFLOW" /\ in' = in /\ fds_in' = fds_in
      BY <1>5, <1>8, <1>15
    <2>2. Shape'
      BY <1>1, <1>2, <1>10, <1>11, <2>1 DEF Shape
    <2>3. Numbered'
      BY <1>2, <1>11, <1>13, <2>1 DEF Numbered
    <2>4. ReceiverServed'
      BY <1>4, <2>1 DEF ReceiverServed
    <2>5. FdsAhead' /\ WordsWay' /\ FdsWay'
      BY <2>1 DEF FdsAhead, WordsWay, FdsWay
    <2> QED BY <1>14, <2>2, <2>3, <2>4, <2>5 DEF Inv
  <1>16. CASE ~(Len(FdsOf(s)) > N - wl_buffer_size(fds_in))
    <2>1. /\ fds_in' = wl_buffer_put(fds_in, FdsOf(s))
          /\ in' = [data |-> Scattered(in, iov, WordsOf(s)), head |-> (in.head + k) % Mod,
                    tail |-> in.tail]
          /\ rerror' = rerror
      BY <1>5, <1>8, <1>16
    <2>2. /\ in' \in Rings /\ wl_buffer_size(in') = wl_buffer_size(in) + k
          /\ Content(in') = Content(in) \o WordsOf(s)
      <3>1. Written(in.data, MASK(in.head), WordsOf(s), Scattered(in, iov, WordsOf(s)))
        <4>1. Len(WordsOf(s)) # 0 /\ wl_buffer_size(in) + Len(WordsOf(s)) <= N
          BY <1>6, <1>7, <1>12
        <4> QED BY <1>1, <1>4, <1>12, <4>1, ScatteredIs
      <3>2. /\ wl_buffer_size(in) + Len(WordsOf(s)) <= N
            /\ in' = [data |-> Scattered(in, iov, WordsOf(s)),
                      head |-> (in.head + Len(WordsOf(s))) % Mod, tail |-> in.tail]
        BY <1>7, <1>12, <2>1
      <3> HIDE DEF iov
      <3> QED BY <1>1, <1>12, <3>1, <3>2, WrittenIsAppended
    <2>3. /\ fds_in' \in Rings /\ wl_buffer_size(fds_in') <= N
          /\ Content(fds_in') = Content(fds_in) \o FdsOf(s)
      <3>1. wl_buffer_size(fds_in) + Len(FdsOf(s)) <= N
        BY <1>3, <1>12, <1>16, LenProperties
      <3> QED BY <1>1, <1>12, <2>1, <3>1, PutIs
    <2>4. Shape'
      <3>1. wl_buffer_size(in') <= N
        BY <1>7, <2>2
      <3>2. rerror' \in {"", "EINVAL", "EOVERFLOW"}
        BY <1>2, <2>1
      <3> QED BY <1>1, <1>2, <1>10, <1>11, <2>2, <2>3, <3>1, <3>2 DEF Shape
    <2>5. Numbered'
      <3>1. Below(Content(in) \o WordsOf(s), tried + 1)
        BY <1>12, <1>13, BelowBoth
      <3> QED BY <1>2, <1>11, <1>13, <2>2, <3>1 DEF Numbered
    <2>6. WordsWay'
      <3> DEFINE a == Content(in)
                 b == WordsOf(s)
                 x == AllWords(tx, u)
                 z == FlattenSeq(WordLists(accepted))
      <3>1. a \o (b \o x) = z
        BY <1>2, <1>10 DEF Inv, WordsWay
      <3>2. a \in Seq(Item) /\ b \in Seq(Item) /\ x \in Seq(Item)
        BY <1>12
      <3>3. Content(in') = a \o b /\ AllWords(tx', sock') = x /\ FlattenSeq(WordLists(accepted')) = z
        BY <1>2, <1>11, <2>2
      <3> HIDE DEF a, b, x, z
      <3>4. (a \o b) \o x = a \o (b \o x)
        BY ONLY <3>2, ConcatGroups
      <3>5. Content(in') \o AllWords(tx', sock') = FlattenSeq(WordLists(accepted'))
        BY <3>1, <3>3, <3>4
      <3> QED BY <3>5 DEF WordsWay
    <2>7. ASSUME ~sfailed
          PROVE  /\ Ahead(Content(in'), sock', Content(tx'.fds_out))
                 /\ Content(fds_in') \o AllFds(tx', sock') = FlattenSeq(FdsLists(accepted'))
      <3>1. wl_buffer_size(tx.fds_out) <= N
        <4>1. wl_buffer_size(tx.fds_out) <= MaxFdsOut /\ wl_buffer_size(tx.fds_out) \in Nat
          BY <1>6, <2>7, RingShape DEF Inv, Roomy, FdRoom
        <4>2. MaxFdsOut \in 1 .. N
          BY ConnectionAssumption
        <4> QED BY <1>3, <4>1, <4>2
      <3>2. /\ Ahead(Content(in), sock, Content(tx.fds_out))
            /\ Content(fds_in) \o AllFds(tx, sock) = FlattenSeq(FdsLists(accepted))
        BY <1>2, <2>7 DEF Inv, FdsAhead, FdsWay
      <3>3. Ahead(Content(in'), u, Content(tx.fds_out))
        BY <1>9, <1>12, <2>2, <3>2, AheadRead
      <3> DEFINE a == Content(fds_in)
                 b == FdsOf(s)
                 x == AllFds(tx, u)
                 z == FlattenSeq(FdsLists(accepted))
      <3>4. a \o (b \o x) = z
        BY <1>10, <3>1, <3>2
      <3>5. a \in Seq(Item) /\ b \in Seq(Item) /\ x \in Seq(Item)
        BY <1>10, <1>12, <3>1, SenderFdsAre
      <3>6. Content(fds_in') = a \o b /\ AllFds(tx', sock') = x /\ FlattenSeq(FdsLists(accepted')) = z
        BY <1>2, <1>11, <2>3
      <3> HIDE DEF a, b, x, z
      <3>7. (a \o b) \o x = a \o (b \o x)
        BY ONLY <3>5, ConcatGroups
      <3>8. Content(fds_in') \o AllFds(tx', sock') = FlattenSeq(FdsLists(accepted'))
        BY <3>4, <3>6, <3>7
      <3> QED BY <1>2, <1>11, <3>3, <3>8
    <2>8. FdsAhead' /\ FdsWay'
      BY <1>2, <2>7 DEF FdsAhead, FdsWay
    <2>9. ReceiverServed'
      BY <1>2, <2>1 DEF ReceiverServed
    <2> QED BY <1>14, <2>4, <2>5, <2>6, <2>8, <2>9 DEF Inv
  <1> QED BY <1>15, <1>16

LEMMA Joined ==
  \A S : \A s \in Seq(S) : <<>> \o s = s
  BY ConcatEmptySeq

LEMMA EmptyOf ==
  \A S : \A s \in Seq(S) : Len(s) = 0 => s = <<>>
  BY EmptySeq

LEMMA RestOf ==
  ASSUME NEW S, NEW s \in Seq(S), s # <<>>, NEW r, r = SubSeq(s, 2, Len(s))
  PROVE  \A i \in 1 .. Len(r) : i + 1 \in 1 .. Len(s) /\ r[i] = s[i + 1]
  <1>1. Len(s) \in Nat /\ Len(s) # 0
    BY EmptySeq
  <1>2. 1 \in 0 .. Len(s) /\ 1 + 1 = 2
    BY <1>1
  <1>3. /\ Len(SubSeq(s, 1 + 1, Len(s))) = Len(s) - 1
        /\ \A i \in 1 .. Len(s) - 1 : SubSeq(s, 1 + 1, Len(s))[i] = s[1 + i]
    BY <1>2, SplitSeq
  <1>4. Len(r) = Len(s) - 1 /\ \A i \in 1 .. Len(s) - 1 : r[i] = s[1 + i]
    BY <1>2, <1>3
  <1> QED BY <1>1, <1>4

\* What is taken out is the first accepted message.
LEMMA TakenWords ==
  ASSUME Inv, rerror = "", HasMessage,
         NEW m, m = accepted[1], NEW rest, rest = SubSeq(accepted, 2, Len(accepted)),
         NEW d, d = Dropped(in, HeadSize)
  PROVE  /\ m \in Messages /\ rest \in Seq(Messages)
         /\ HeadSize = Len(m.words) /\ HeadFds = Len(m.fds)
         /\ wl_buffer_copy(in, HeadSize) = m.words
         /\ OwnFds(wl_buffer_copy(in, 1)[1]) = m.fds
         /\ d \in Rings /\ wl_buffer_size(d) <= N
         /\ Content(d) \o AllWords(tx, sock) = FlattenSeq(WordLists(rest))
         /\ Below(Content(d), tried + 1)
         /\ ~sfailed => Ahead(Content(d), sock, Content(tx.fds_out))
         /\ \A i \in 1 .. Len(rest) : Len(rest[i].words) <= N
  <1>1. /\ SenderOK(tx, sock) /\ in \in Rings /\ wl_buffer_size(in) <= N
        /\ accepted \in Seq(Messages)
    BY DEF Inv, Shape
  <1>2. wl_buffer_size(in) >= 2 /\ HeadSize <= wl_buffer_size(in)
    BY DEF HasMessage, HasHeader
  <1>3. wl_buffer_size(in) \in Nat /\ N \in Nat
    BY <1>1, RingShape, ConnectionAssumption
  <1>4. wl_buffer_size(in) # 0
    BY ONLY <1>2, <1>3
  <1>5. /\ accepted # <<>> /\ m \in Messages /\ rest \in Seq(Messages)
        /\ Content(in) \o AllWords(tx, sock) = m.words \o FlattenSeq(WordLists(rest))
    BY <1>4, HeadIs
  <1>6. /\ HeadSize = Len(m.words) /\ HeadFds = Len(m.fds)
        /\ wl_buffer_copy(in, 1)[1] = m.words[1]
    BY <1>2, HeaderIs
  <1>7. m.words \in Seq(Item) /\ OwnFds(m.words[1]) = m.fds /\ Len(m.words) \in Nat
    BY <1>5, MessageShape
  <1>8. AllWords(tx, sock) \in Seq(Item) /\ FlattenSeq(WordLists(rest)) \in Seq(Item)
    BY <1>1, <1>5, SenderIs, ListsAre
  <1>9. /\ wl_buffer_copy(in, Len(m.words)) = m.words
        /\ d \in Rings /\ wl_buffer_size(d) = wl_buffer_size(in) - Len(m.words)
        /\ Content(d) \o AllWords(tx, sock) = FlattenSeq(WordLists(rest))
    <2> DEFINE x == AllWords(tx, sock)
               u == m.words
               v == FlattenSeq(WordLists(rest))
    <2>1. /\ x \in Seq(Item) /\ u \in Seq(Item) /\ v \in Seq(Item)
          /\ Content(in) \o x = u \o v /\ Len(u) <= wl_buffer_size(in) /\ d = Dropped(in, Len(u))
      BY <1>2, <1>5, <1>6, <1>7, <1>8
    <2> HIDE DEF x, u, v
    <2>2. /\ wl_buffer_copy(in, Len(u)) = u
          /\ Dropped(in, Len(u)) \in Rings
          /\ wl_buffer_size(Dropped(in, Len(u))) = wl_buffer_size(in) - Len(u)
          /\ Content(Dropped(in, Len(u))) \o x = v
      BY <1>1, <2>1, TakeIs
    <2> QED BY <2>1, <2>2 DEF x, u, v
  <1>10. wl_buffer_size(d) <= N
    BY ONLY <1>1, <1>3, <1>7, <1>9
  <1>11. /\ Content(in) \in Seq(Item) /\ Len(Content(in)) = wl_buffer_size(in)
         /\ Content(d) = SubSeq(Content(in), Len(m.words) + 1, wl_buffer_size(in))
    <2>1. Len(m.words) \in 0 .. wl_buffer_size(in)
      <3>1. Len(m.words) <= wl_buffer_size(in)
        BY <1>2, <1>6
      <3> QED BY ONLY <1>3, <1>7, <3>1
    <2> QED BY <1>1, <1>6, <2>1, ContentIs, DroppedIs
  <1>12. /\ \A n : Below(Content(in), n) => Below(Content(d), n)
         /\ \A s, fo : Ahead(Content(in), s, fo) => Ahead(Content(d), s, fo)
    <2>1. Len(m.words) \in 0 .. Len(Content(in))
      <3>1. Len(m.words) <= wl_buffer_size(in)
        BY <1>2, <1>6
      <3>2. Len(m.words) \in 0 .. wl_buffer_size(in)
        BY ONLY <1>3, <1>7, <3>1
      <3> QED BY <1>11, <3>2
    <2> QED BY <1>11, <2>1, RestIs
  <1>13. Below(Content(d), tried + 1)
    BY <1>12 DEF Inv, Numbered
  <1>14. ~sfailed => Ahead(Content(d), sock, Content(tx.fds_out))
    BY <1>12 DEF Inv, FdsAhead
  <1>15. \A i \in 1 .. Len(rest) : Len(rest[i].words) <= N
    <2> SUFFICES ASSUME NEW i \in 1 .. Len(rest) PROVE Len(rest[i].words) <= N
      OBVIOUS
    <2>1. i + 1 \in 1 .. Len(accepted) /\ rest[i] = accepted[i + 1]
      BY <1>1, <1>5, RestOf
    <2> QED BY <2>1 DEF Inv, Fits
  <1> QED BY <1>5, <1>6, <1>7, <1>9, <1>10, <1>13, <1>14, <1>15

LEMMA TakenFds ==
  ASSUME Inv, rerror = "", HasMessage, ~sfailed,
         NEW m, m = accepted[1], NEW rest, rest = SubSeq(accepted, 2, Len(accepted))
  PROVE  /\ Len(m.fds) <= wl_buffer_size(fds_in)
         /\ wl_buffer_copy(fds_in, Len(m.fds)) = m.fds
         /\ Content(Dropped(fds_in, Len(m.fds))) \o AllFds(tx, sock) = FlattenSeq(FdsLists(rest))
         /\ Len(m.fds) = 0 =>
               Content(fds_in) \o AllFds(tx, sock) = FlattenSeq(FdsLists(rest))
  <1>1. /\ SenderOK(tx, sock) /\ in \in Rings /\ wl_buffer_size(in) <= N
        /\ fds_in \in Rings /\ wl_buffer_size(fds_in) <= N /\ accepted \in Seq(Messages)
    BY DEF Inv, Shape
  <1>2. wl_buffer_size(in) >= 2
    BY DEF HasMessage, HasHeader
  <1>3. wl_buffer_size(in) \in Nat /\ N \in Nat
    BY <1>1, RingShape, ConnectionAssumption
  <1>4. wl_buffer_size(in) # 0
    BY ONLY <1>2, <1>3
  <1>5. /\ m \in Messages /\ rest \in Seq(Messages)
        /\ Content(fds_in) \o AllFds(tx, sock) = m.fds \o FlattenSeq(FdsLists(rest))
    BY <1>4, HeadIs
  <1>6. wl_buffer_size(tx.fds_out) <= N
    <2>1. tx.fds_out \in Rings
      BY <1>1, SenderIs
    <2>2. wl_buffer_size(tx.fds_out) <= MaxFdsOut /\ wl_buffer_size(tx.fds_out) \in Nat
      BY <2>1, RingShape DEF Inv, Roomy, FdRoom
    <2>3. MaxFdsOut \in 1 .. N
      BY ConnectionAssumption
    <2> QED BY ONLY <1>3, <2>2, <2>3
  <1> DEFINE p == Content(fds_in)
             x == AllFds(tx, sock)
             u == m.fds
             v == FlattenSeq(FdsLists(rest))
             num == m.words[1][1]
  <1>7. /\ p \in Seq(Item) /\ Len(p) = wl_buffer_size(fds_in)
        /\ x \in Seq(Item) /\ u \in Seq(Item) /\ v \in Seq(Item)
        /\ num \in Nat /\ \A k \in 1 .. Len(u) : u[k][1] = num
    BY <1>1, <1>5, <1>6, ContentIs, SenderFdsAre, ListsAre, MessageShape
  <1>8. p \o x = u \o v
    BY <1>5
  <1>9. /\ Content(in) \in Seq(Item) /\ Len(Content(in)) >= 1 /\ Content(in)[1][1] = num
        /\ Ahead(Content(in), sock, Content(tx.fds_out))
    <2>1. Content(in)[1] = m.words[1] /\ Len(Content(in)) >= 1
      BY <1>2, HeaderIs
    <2>2. Content(in) \in Seq(Item)
      BY <1>1, ContentIs
    <2>3. Ahead(Content(in), sock, Content(tx.fds_out))
      BY DEF Inv, FdsAhead
    <2> QED BY <2>1, <2>2, <2>3
  <1>10. Len(u) <= Len(p)
    <2>1. p \o AllFds(tx, sock) = u \o v
      BY <1>8
    <2> HIDE DEF p, u, v, num
    <2> QED BY <1>1, <1>6, <1>7, <1>9, <2>1, NoneMissing
  <1>11. /\ wl_buffer_copy(fds_in, Len(u)) = u
         /\ Content(Dropped(fds_in, Len(u))) \o x = v
    <2>1. Content(fds_in) \o x = u \o v /\ Len(u) <= wl_buffer_size(fds_in)
      BY <1>7, <1>8, <1>10
    <2> HIDE DEF p, x, u, v, num
    <2> QED BY <1>1, <1>7, <2>1, TakeIs
  <1>12. Len(u) = 0 => p \o x = v
    <2> SUFFICES ASSUME Len(u) = 0 PROVE p \o x = v
      OBVIOUS
    <2> HIDE DEF p, x, u, v, num
    <2>1. u = <<>>
      BY ONLY <1>7, Len(u) = 0, EmptyOf
    <2>2. <<>> \o v = v
      BY ONLY <1>7, Joined
    <2> QED BY ONLY <1>8, <2>1, <2>2
  <1> QED BY <1>7, <1>10, <1>11, <1>12

LEMMA ReceiveStep ==
  ASSUME Inv, Receive
  PROVE  Inv'
  <1>1. /\ SenderOK(tx, sock) /\ in \in Rings /\ wl_buffer_size(in) <= N
        /\ fds_in \in Rings /\ wl_buffer_size(fds_in) <= N
        /\ sfailed \in BOOLEAN /\ tried \in 0 .. MaxTried /\ accepted \in Seq(Messages)
    BY DEF Inv, Shape
  <1>2. rerror = "" /\ HasMessage
    BY DEF Receive
  <1>3. PICK m, rest, d : /\ m = accepted[1] /\ rest = SubSeq(accepted, 2, Len(accepted))
                          /\ d = Dropped(in, HeadSize)
    OBVIOUS
  <1>4. /\ m \in Messages /\ rest \in Seq(Messages)
        /\ HeadSize = Len(m.words) /\ HeadFds = Len(m.fds)
        /\ wl_buffer_copy(in, HeadSize) = m.words
        /\ d \in Rings /\ wl_buffer_size(d) <= N
        /\ Content(d) \o AllWords(tx, sock) = FlattenSeq(WordLists(rest))
        /\ Below(Content(d), tried + 1)
        /\ ~sfailed => Ahead(Content(d), sock, Content(tx.fds_out))
        /\ \A i \in 1 .. Len(rest) : Len(rest[i].words) <= N
    BY <1>2, <1>3, TakenWords
  <1>5. Len(m.fds) \in Nat /\ OwnFds(m.words[1]) = m.fds
    BY <1>4, MessageShape
  <1>6. wl_buffer_size(fds_in) \in Nat /\ N \in Nat
    BY <1>1, RingShape, ConnectionAssumption
  <1>7. PICK n : n = MinOf(HeadFds, wl_buffer_size(fds_in))
    OBVIOUS
  <1>8. /\ n \in 0 .. wl_buffer_size(fds_in)
        /\ Len(m.fds) <= wl_buffer_size(fds_in) => n = Len(m.fds)
    <2>1. n = IF Len(m.fds) <= wl_buffer_size(fds_in) THEN Len(m.fds) ELSE wl_buffer_size(fds_in)
      BY <1>4, <1>7 DEF MinOf
    <2> QED BY ONLY <1>5, <1>6, <2>1
  <1>9. /\ fds_in' = Dropped(fds_in, n) /\ in' = d
        /\ tx' = tx /\ sfailed' = sfailed /\ tried' = tried /\ sock' = sock
        /\ n = HeadFds =>
             /\ last' = [words |-> m.words, fds |-> wl_buffer_copy(fds_in, n)]
             /\ accepted' = rest /\ rerror' = rerror
        /\ n # HeadFds =>
             rerror' = "EINVAL" /\ accepted' = accepted /\ last' = last
    BY <1>3, <1>4, <1>7 DEF Receive, Taken, sender
  <1>10. fds_in' \in Rings /\ wl_buffer_size(fds_in') <= N
    <2>1. /\ Dropped(fds_in, n) \in Rings
          /\ wl_buffer_size(Dropped(fds_in, n)) = wl_buffer_size(fds_in) - n
      BY <1>1, <1>8, DroppedIs
    <2>2. wl_buffer_size(Dropped(fds_in, n)) <= N
      BY ONLY <1>1, <1>6, <1>8, <2>1
    <2> QED BY <1>9, <2>1, <2>2
  <1>11. Roomy'
    BY <1>9 DEF Inv, Roomy
  <1>12. Numbered'
    BY <1>4, <1>9 DEF Inv, Numbered
  <1>13. ASSUME ~sfailed
         PROVE  /\ n = HeadFds
                /\ wl_buffer_copy(fds_in, n) = m.fds
                /\ Content(fds_in') \o AllFds(tx, sock) = FlattenSeq(FdsLists(rest))
    <2>1. /\ Len(m.fds) <= wl_buffer_size(fds_in)
          /\ wl_buffer_copy(fds_in, Len(m.fds)) = m.fds
          /\ Content(Dropped(fds_in, Len(m.fds))) \o AllFds(tx, sock) = FlattenSeq(FdsLists(rest))
      BY <1>2, <1>3, <1>13, TakenFds
    <2>2. n = Len(m.fds)
      BY <1>8, <2>1
    <2> QED BY <1>4, <1>9, <2>1, <2>2
  <1>14. CASE n = HeadFds
    <2>1. /\ last' = [words |-> m.words, fds |-> wl_buffer_copy(fds_in, n)]
          /\ accepted' = rest /\ rerror' = ""
      BY <1>2, <1>9, <1>14
    <2>2. Shape'
      BY <1>1, <1>4, <1>9, <1>10, <2>1 DEF Shape
    <2>3. Fits'
      BY <1>4, <2>1 DEF Fits
    <2>4. FdsAhead'
      BY <1>4, <1>9 DEF FdsAhead
    <2>5. WordsWay'
      BY <1>4, <1>9, <2>1 DEF WordsWay
    <2>6. FdsWay'
      BY <1>9, <1>13, <2>1 DEF FdsWay
    <2>7. ReceiverServed'
      BY <2>1 DEF ReceiverServed
    <2>8. FdsOfItsOwn'
      <3>1. last'.words = m.words /\ last'.fds = wl_buffer_copy(fds_in, n)
        BY <2>1
      <3> QED BY <1>5, <1>9, <1>13, <3>1 DEF FdsOfItsOwn
    <2> QED BY <1>11, <1>12, <2>2, <2>3, <2>4, <2>5, <2>6, <2>7, <2>8 DEF Inv
  <1>15. CASE n # HeadFds
    <2>1. rerror' = "EINVAL" /\ accepted' = accepted /\ last' = last
      BY <1>9, <1>15
    <2>2. Shape'
      BY <1>1, <1>4, <1>9, <1>10, <2>1 DEF Shape
    <2>3. Fits' /\ FdsOfItsOwn'
      BY <1>9, <2>1 DEF Inv, Fits, FdsOfItsOwn
    <2>4. FdsAhead' /\ WordsWay' /\ FdsWay'
      BY <2>1 DEF FdsAhead, WordsWay, FdsWay
    <2>5. ReceiverServed'
      <3>1. sfailed
        BY <1>13, <1>15
      <3> QED BY <1>9, <2>1, <3>1 DEF ReceiverServed
    <2> QED BY <1>11, <1>12, <2>2, <2>3, <2>4, <2>5 DEF Inv
  <1> QED BY <1>14, <1>15

LEMMA SkipStep ==
  ASSUME Inv, ~SkipsFds, Skip
  PROVE  Inv'
  <1>1. /\ SenderOK(tx, sock) /\ in \in Rings /\ wl_buffer_size(in) <= N
        /\ fds_in \in Rings /\ wl_buffer_size(fds_in) <= N
        /\ sfailed \in BOOLEAN /\ tried \in 0 .. MaxTried /\ accepted \in Seq(Messages)
    BY DEF Inv, Shape
  <1>2. rerror = "" /\ HasMessage /\ ~(HeadFds > 0)
    BY DEF Skip
  <1>3. PICK m, rest, d : /\ m = accepted[1] /\ rest = SubSeq(accepted, 2, Len(accepted))
                          /\ d = Dropped(in, HeadSize)
    OBVIOUS
  <1>4. /\ m \in Messages /\ rest \in Seq(Messages)
        /\ HeadSize = Len(m.words) /\ HeadFds = Len(m.fds)
        /\ wl_buffer_copy(in, HeadSize) = m.words
        /\ OwnFds(wl_buffer_copy(in, 1)[1]) = m.fds
        /\ d \in Rings /\ wl_buffer_size(d) <= N
        /\ Content(d) \o AllWords(tx, sock) = FlattenSeq(WordLists(rest))
        /\ Below(Content(d), tried + 1)
        /\ ~sfailed => Ahead(Content(d), sock, Content(tx.fds_out))
        /\ \A i \in 1 .. Len(rest) : Len(rest[i].words) <= N
    BY <1>2, <1>3, TakenWords
  <1>5. Len(m.fds) \in Nat /\ OwnFds(m.words[1]) = m.fds
    BY <1>4, MessageShape
  <1>6. Len(m.fds) = 0
    <2>1. ~(Len(m.fds) > 0)
      BY <1>2, <1>4
    <2> QED BY ONLY <1>5, <2>1
  <1>7. /\ in' = d /\ last' = [words |-> m.words, fds |-> m.fds] /\ accepted' = rest
        /\ tx' = tx /\ sfailed' = sfailed /\ tried' = tried /\ sock' = sock
        /\ fds_in' = fds_in /\ rerror' = rerror
    BY <1>3, <1>4 DEF Skip, Taken, sender
  <1>8. Shape'
    BY <1>1, <1>2, <1>4, <1>7 DEF Shape
  <1>9. Fits' /\ Roomy' /\ Numbered'
    <2>1. Fits'
      BY <1>4, <1>7 DEF Fits
    <2>2. Roomy'
      BY <1>7 DEF Inv, Roomy
    <2>3. Numbered'
      BY <1>4, <1>7 DEF Inv, Numbered
    <2> QED BY <2>1, <2>2, <2>3
  <1>10. FdsAhead'
    BY <1>4, <1>7 DEF FdsAhead
  <1>11. WordsWay'
    BY <1>4, <1>7 DEF WordsWay
  <1>12. FdsWay'
    <2>1. ~sfailed => Content(fds_in) \o AllFds(tx, sock) = FlattenSeq(FdsLists(rest))
      BY <1>2, <1>3, <1>6, TakenFds
    <2> QED BY <1>7, <2>1 DEF FdsWay
  <1>13. ReceiverServed'
    BY <1>2, <1>7 DEF ReceiverServed
  <1>14. FdsOfItsOwn'
    <2>1. last'.words = m.words /\ last'.fds = m.fds
      BY <1>7
    <2> QED BY <1>5, <2>1 DEF FdsOfItsOwn
  <1> QED BY <1>8, <1>9, <1>10, <1>11, <1>12, <1>13, <1>14 DEF Inv

\* Every step keeps the invariant; events for zombies must have no descriptors.
LEMMA StepInv == ~SkipsFds => (Inv /\ [Next]_vars => Inv')
  <1> SUFFICES ASSUME ~SkipsFds, Inv, [Next]_vars PROVE Inv'
    OBVIOUS
  <1>1. CASE UNCHANGED vars
    BY <1>1 DEF vars, sender, receiver, Inv, Shape, Fits, Numbered, FdsAhead, Roomy, WordsWay,
                FdsWay, ReceiverServed, FdsOfItsOwn, HasMessage
  <1>2. CASE \E want \in BOOLEAN : SendOrQueue(want)
    BY <1>2, SendStep
  <1>3. CASE FlushCall
    BY <1>3, FlushStep
  <1>4. CASE Read
    BY <1>4, ReadStep
  <1>5. CASE Receive
    BY <1>5, ReceiveStep
  <1>6. CASE Skip
    BY <1>6, SkipStep
  <1> QED BY <1>1, <1>2, <1>3, <1>4, <1>5, <1>6 DEF Next

LEMMA InvIsInductive == ~SkipsFds => (Spec => []Inv)
  <1> SUFFICES ASSUME ~SkipsFds PROVE Spec => []Inv
    OBVIOUS
  <1>1. Inv /\ [Next]_vars => Inv'
    BY StepInv
  <1> QED BY <1>1, InitInv, PTL DEF Spec

-----------------------------------------------------------------------------
\* The theorems

LEMMA InvImplies == Inv => ConnectionInv
  <1> SUFFICES ASSUME Inv PROVE ConnectionInv
    OBVIOUS
  <1>1. /\ SenderOK(tx, sock)
        /\ in \in Rings /\ wl_buffer_size(in) <= N
        /\ fds_in \in Rings /\ wl_buffer_size(fds_in) <= N
        /\ rerror \in {"", "EINVAL", "EOVERFLOW"} /\ sfailed \in BOOLEAN
        /\ tried \in 0 .. MaxTried /\ accepted \in Seq(Messages)
    BY DEF Inv, Shape
  <1>2. /\ tx.out \in Rings /\ tx.fds_out \in Rings /\ tx.want_flush \in BOOLEAN
        /\ \A c \in Seq(Item) :
              (c \o WordsOf(sock)) \o Content(tx.out) = c \o AllWords(tx, sock)
    BY <1>1, SenderIs
  <1>3. ~sfailed => wl_buffer_size(tx.fds_out) <= N
    <2> SUFFICES ASSUME ~sfailed PROVE wl_buffer_size(tx.fds_out) <= N
      OBVIOUS
    <2>1. wl_buffer_size(tx.fds_out) <= MaxFdsOut /\ wl_buffer_size(tx.fds_out) \in Nat
      BY <1>2, RingShape DEF Inv, Roomy, FdRoom
    <2>2. MaxFdsOut \in 1 .. N /\ N \in Nat
      BY ConnectionAssumption
    <2> QED BY ONLY <2>1, <2>2
  <1>4. TypeOK
    <2>1. \A b \in Rings : wl_buffer_size(b) <= N => RingOK(b)
      BY DEF RingOK, Rings
    <2>2. wl_buffer_size(tx.out) <= N /\ Len(sock) <= Room
      BY <1>1 DEF SenderOK
    <2>3. RingOK(tx.out) /\ RingOK(in) /\ RingOK(fds_in) /\ (~sfailed => RingOK(tx.fds_out))
      BY <1>1, <1>2, <1>3, <2>1, <2>2
    <2> QED BY <1>1, <1>2, <2>2, <2>3 DEF TypeOK
  <1>5. AllOnTheWay
    <2> SUFFICES ASSUME rerror = ""
                 PROVE  /\ Content(in) \o WordsOf(sock) \o Content(tx.out) =
                             FlattenSeq([i \in 1 .. Len(accepted) |-> accepted[i].words])
                        /\ ~sfailed => Content(fds_in) \o FdsOf(sock) \o Content(tx.fds_out) =
                             FlattenSeq([i \in 1 .. Len(accepted) |-> accepted[i].fds])
      BY DEF AllOnTheWay
    <2>1. Content(in) \in Seq(Item) /\ Content(fds_in) \in Seq(Item)
      BY <1>1, ContentIs
    <2>2. Content(in) \o AllWords(tx, sock) = FlattenSeq(WordLists(accepted))
      BY DEF Inv, WordsWay
    <2>3. Content(in) \o WordsOf(sock) \o Content(tx.out) = FlattenSeq(WordLists(accepted))
      <3>1. (Content(in) \o WordsOf(sock)) \o Content(tx.out) = Content(in) \o AllWords(tx, sock)
        BY <1>2, <2>1
      <3> QED BY ONLY <2>2, <3>1
    <2>4. ASSUME ~sfailed
          PROVE  Content(fds_in) \o FdsOf(sock) \o Content(tx.fds_out) =
                    FlattenSeq(FdsLists(accepted))
      <3>1. Content(fds_in) \o AllFds(tx, sock) = FlattenSeq(FdsLists(accepted))
        BY <2>4 DEF Inv, FdsWay
      <3>2. (Content(fds_in) \o FdsOf(sock)) \o Content(tx.fds_out)
               = Content(fds_in) \o AllFds(tx, sock)
        BY <1>1, <1>3, <2>1, <2>4, SenderFdsAre
      <3> QED BY ONLY <3>1, <3>2
    <2> QED BY <2>3, <2>4 DEF WordLists, FdsLists
  <1>6. ReceiverServed /\ FdsOfItsOwn
    BY DEF Inv
  <1> QED BY <1>4, <1>5, <1>6 DEF ConnectionInv

\* For every size of the buffers and every interleaving of the two ends: no ring
\* buffer is given more than it holds (wl_buffer_put does not look), what is on the
\* way is what the accepted messages consist of and in their order, demarshal
\* misses no descriptor and none goes to another message, unless the sender was
\* told that a message failed.
THEOREM Connected == ~SkipsFds => (Spec => []ConnectionInv)
  <1> SUFFICES ASSUME ~SkipsFds PROVE Spec => []ConnectionInv
    OBVIOUS
  <1>1. Spec => []Inv
    BY InvIsInductive
  <1> QED BY <1>1, InvImplies, PTL

\* Every step of the connection is a step of Channel, or leaves it alone.
LEMMA InitMaps == Init => Promise!Init
  BY DEF Init, Promise!Init

LEMMA SendMaps ==
  ASSUME Inv, NEW want \in BOOLEAN, SendOrQueue(want)
  PROVE  [Promise!Next]_(Promise!vars)
  <1>1. PICK num : num = tried + 1
    OBVIOUS
  <1>2. PICK len \in Lengths, nfds \in FdCounts :
           \E r \in Closure(tx, sock, Message(num, len, nfds), want) :
              /\ sfailed' = (sfailed \/ ~r.ok)
              /\ accepted' = IF r.ok THEN Append(accepted, Message(num, len, nfds)) ELSE accepted
    BY <1>1 DEF SendOrQueue
  <1>3. PICK m : m = Message(num, len, nfds)
    OBVIOUS
  <1>4. PICK r \in Closure(tx, sock, m, want) :
           /\ sfailed' = (sfailed \/ ~r.ok)
           /\ accepted' = IF r.ok THEN Append(accepted, m) ELSE accepted
    BY <1>2, <1>3
  <1>5. last' = last
    BY DEF SendOrQueue, receiver
  <1>6. m \in Messages
    <2>1. tried < MaxTried /\ tried \in 0 .. MaxTried /\ MaxTried \in Nat
      BY ConnectionAssumption DEF SendOrQueue, Inv, Shape
    <2>2. num \in 1 .. MaxTried
      BY ONLY <1>1, <2>1
    <2> QED BY <1>3, <2>2, MessageIs
  <1>7. CASE r.ok
    <2>1. accepted' = Append(accepted, m) /\ sfailed' = sfailed
      <3>1. sfailed \in BOOLEAN
        BY DEF Inv, Shape
      <3> QED BY <1>4, <1>7, <3>1
    <2>2. Promise!Accept(m)
      BY <1>5, <2>1 DEF Promise!Accept
    <2> QED BY <1>6, <2>2 DEF Promise!Next
  <1>8. CASE ~r.ok
    <2>1. accepted' = accepted /\ sfailed' = TRUE
      BY <1>4, <1>8
    <2>2. Promise!Refuse
      BY <1>5, <2>1 DEF Promise!Refuse
    <2> QED BY <2>2 DEF Promise!Next
  <1> QED BY <1>7, <1>8

LEMMA StaysMaps ==
  ASSUME accepted' = accepted, last' = last, sfailed' = sfailed
  PROVE  [Promise!Next]_(Promise!vars)
  BY DEF Promise!vars

LEMMA TakenMaps ==
  ASSUME NEW m, NEW fds, accepted \in Seq(Messages), accepted # <<>>, m = accepted[1],
         accepted' = SubSeq(accepted, 2, Len(accepted)),
         last' = [words |-> m.words, fds |-> fds], ~sfailed => fds = m.fds, sfailed' = sfailed
  PROVE  [Promise!Next]_(Promise!vars)
  <1>1. Head(accepted) = m /\ Tail(accepted) = SubSeq(accepted, 2, Len(accepted))
    BY HeadTailProperties, TailIsSubSeq
  <1>2. last'.words = m.words /\ last'.fds = fds
    OBVIOUS
  <1>3. Promise!Receive
    BY <1>1, <1>2 DEF Promise!Receive
  <1> QED BY <1>3 DEF Promise!Next

LEMMA SomethingAccepted ==
  ASSUME Inv, rerror = "", HasMessage
  PROVE  accepted # <<>>
  <1>1. wl_buffer_size(in) >= 2
    BY DEF HasMessage, HasHeader
  <1>2. wl_buffer_size(in) \in Nat
    BY RingShape DEF Inv, Shape
  <1>3. wl_buffer_size(in) # 0
    BY ONLY <1>1, <1>2
  <1> QED BY <1>3, HeadIs

LEMMA ReceiveMaps ==
  ASSUME Inv, Receive
  PROVE  [Promise!Next]_(Promise!vars)
  <1>1. rerror = "" /\ HasMessage /\ accepted \in Seq(Messages)
    BY DEF Receive, Inv, Shape
  <1>2. sfailed' = sfailed
    BY DEF Receive, Taken, sender
  <1>3. PICK m, rest : m = accepted[1] /\ rest = SubSeq(accepted, 2, Len(accepted))
    OBVIOUS
  <1>4. /\ HeadFds = Len(m.fds) /\ wl_buffer_copy(in, HeadSize) = m.words
        /\ ~sfailed => wl_buffer_copy(fds_in, Len(m.fds)) = m.fds
    BY <1>1, <1>3, TakenWords, TakenFds
  <1>5. PICK n : n = MinOf(HeadFds, wl_buffer_size(fds_in))
    OBVIOUS
  <1>6. CASE n = HeadFds
    <2>1. /\ last' = [words |-> m.words, fds |-> wl_buffer_copy(fds_in, n)]
          /\ accepted' = SubSeq(accepted, 2, Len(accepted))
      BY <1>4, <1>5, <1>6 DEF Receive, Taken
    <2>2. ~sfailed => wl_buffer_copy(fds_in, n) = m.fds
      BY <1>4, <1>6
    <2>3. accepted # <<>>
      BY <1>1, SomethingAccepted
    <2> QED BY <1>1, <1>2, <1>3, <2>1, <2>2, <2>3, TakenMaps
  <1>7. CASE n # HeadFds
    <2>1. accepted' = accepted /\ last' = last
      BY <1>5, <1>7 DEF Receive
    <2> QED BY <1>2, <2>1, StaysMaps
  <1> QED BY <1>6, <1>7

LEMMA SkipMaps ==
  ASSUME Inv, Skip
  PROVE  [Promise!Next]_(Promise!vars)
  <1>1. rerror = "" /\ HasMessage /\ accepted \in Seq(Messages)
    BY DEF Skip, Inv, Shape
  <1>2. sfailed' = sfailed
    BY DEF Skip, Taken, sender
  <1>3. PICK m, rest : m = accepted[1] /\ rest = SubSeq(accepted, 2, Len(accepted))
    OBVIOUS
  <1>4. /\ wl_buffer_copy(in, HeadSize) = m.words
        /\ OwnFds(wl_buffer_copy(in, 1)[1]) = m.fds
    BY <1>1, <1>3, TakenWords
  <1>5. /\ last' = [words |-> m.words, fds |-> m.fds]
        /\ accepted' = SubSeq(accepted, 2, Len(accepted))
    BY <1>4 DEF Skip, Taken
  <1>6. accepted # <<>>
    BY <1>1, SomethingAccepted
  <1> QED BY <1>1, <1>2, <1>3, <1>5, <1>6, TakenMaps

\* connection.c implements Channel: messages arrive whole, once, in the order in
\* which they were accepted and with their own descriptors, although flushes may
\* be partial, and reads end anywhere, also in the middle of a message.
THEOREM PromiseKept == ~SkipsFds => (Spec => DeliversWhole)
  <1> SUFFICES ASSUME ~SkipsFds PROVE Spec => DeliversWhole
    OBVIOUS
  <1>1. Inv /\ [Next]_vars => [Promise!Next]_(Promise!vars)
    <2> SUFFICES ASSUME Inv, [Next]_vars PROVE [Promise!Next]_(Promise!vars)
      OBVIOUS
    <2>1. CASE UNCHANGED vars
      <3>1. accepted' = accepted /\ last' = last /\ sfailed' = sfailed
        BY <2>1 DEF vars, sender, receiver
      <3> QED BY <3>1, StaysMaps
    <2>2. CASE \E want \in BOOLEAN : SendOrQueue(want)
      BY <2>2, SendMaps
    <2>3. CASE FlushCall
      <3>1. accepted' = accepted /\ last' = last /\ sfailed' = sfailed
        BY <2>3 DEF FlushCall, receiver
      <3> QED BY <3>1, StaysMaps
    <2>4. CASE Read
      <3>1. accepted' = accepted /\ last' = last /\ sfailed' = sfailed
        BY <2>4 DEF Read, sender
      <3> QED BY <3>1, StaysMaps
    <2>5. CASE Receive
      BY <2>5, ReceiveMaps
    <2>6. CASE Skip
      BY <2>6, SkipMaps
    <2> QED BY <2>1, <2>2, <2>3, <2>4, <2>5, <2>6 DEF Next
  <1>2. Spec => []Inv
    BY InvIsInductive
  <1> QED BY <1>1, <1>2, InitMaps, PTL DEF Spec, DeliversWhole, Promise!Spec
=============================================================================
