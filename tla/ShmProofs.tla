------------------------------ MODULE ShmProofs ------------------------------
(***************************************************************************)
(* Proofs about Shm, for any client, and about Cursor, whose client is the *)
(* cursor library.                                                         *)
(***************************************************************************)
EXTENDS Cursor, ListProofs

-----------------------------------------------------------------------------
LEMMA WrapIsIdentity ==
  ASSUME NEW n \in Ints
  PROVE  Wrap(n) = n
  <1> DEFINE M == 2 * (INT32_MAX + 1)
             m == n + INT32_MAX + 1
  <1>1. INT32_MAX \in Nat /\ M \in Nat \ {0} /\ m \in 0 .. M - 1
    BY ShmAssumption DEF Ints
  <1> HIDE DEF M, m
  <1>2. m % M = m
    BY <1>1
  <1> QED BY <1>1, <1>2 DEF Wrap, m, M, Ints

LEMMA ProductBelow ==
  ASSUME NEW M \in Nat, NEW s \in Int, NEW h \in Int, s > 0, h > 0, M \div s > h
  PROVE  s * h \in Int /\ 0 < s * h /\ s * h <= M
  <1> DEFINE q == M \div s
  <1>1. q \in Int /\ s * q <= M
    OBVIOUS
  <1>2. s * h \in Int /\ 0 < s * h
    OBVIOUS
  <1>3. s * h <= s * q
    <2> HIDE DEF q
    <2>1. PICK d \in Nat : q = h + d
      <3>1. q - h \in Nat /\ q = h + (q - h)
        BY <1>1 DEF q
      <3> QED BY <3>1
    <2>2. s * q = s * h + s * d
      BY <2>1
    <2>3. s * d \in Nat
      BY <2>1
    <2> QED BY <1>2, <2>2, <2>3
  <1> QED BY <1>1, <1>2, <1>3

\* What shm_pool_create_buffer accepts lies in the pool: neither the product nor
\* the difference has wrapped.
LEMMA FitsMeansFits ==
  ASSUME NEW size \in 0 .. INT32_MAX, NEW offset \in Ints, NEW width \in Ints,
         NEW height \in Ints, NEW stride \in Ints,
         Fits(size, offset, width, height, stride)
  PROVE  /\ offset >= 0
         /\ stride * height \in Int
         /\ offset + stride * height <= size
  <1>1. INT32_MAX \in Nat /\ stride > 0 /\ height > 0
    BY ShmAssumption DEF Fits, Ints
  <1>2. stride * height \in Int /\ 0 < stride * height /\ stride * height <= INT32_MAX
    BY <1>1, ProductBelow DEF Fits, Ints
  <1> DEFINE product == stride * height
  <1>3. Wrap(product) = product
    BY <1>1, <1>2, WrapIsIdentity DEF Ints
  <1>4. offset <= Wrap(size - Wrap(product))
    BY DEF Fits
  <1>5. offset >= 0
    BY DEF Fits
  <1> HIDE DEF product
  <1>6. product \in 1 .. INT32_MAX
    BY <1>1, <1>2 DEF product
  <1>7. Wrap(size - product) = size - product
    BY <1>1, <1>6, WrapIsIdentity DEF Ints
  <1>8. offset <= size - product
    BY <1>3, <1>4, <1>7
  <1> QED BY <1>1, <1>5, <1>6, <1>8 DEF product, Ints
-----------------------------------------------------------------------------
\* The buffers that hold a reference to pool p
BuffersOf(p) == {b \in Buffers : buffer[b].made /\ buffer[b].pool = p}

\* PoolLifetime of one pool
Counted(p) ==
  /\ pool[p].refcount = (IF pool[p].resource THEN 1 ELSE 0) + refs[p]
                        + Cardinality(BuffersOf(p))
  /\ pool[p].made <=> pool[p].refcount > 0

\* The inductive invariant.  That no fault ends the compositor needs it to hold
\* still what it has taken a pointer into.
ShmInv == PoolInv /\ BuffersInPool /\ (~ResizesHeld => FaultsContained)

LEMMA LifetimeIsCounted == PoolLifetime <=> \A p \in Pools : Counted(p)
  BY DEF PoolLifetime, Counted, BuffersOf

LEMMA Bounds == INT32_MAX \in Nat /\ MaxRefs \in Nat /\ MaxNesting \in Nat
  BY ShmAssumption

LEMMA BuffersCounted ==
  ASSUME NEW p
  PROVE  IsFiniteSet(BuffersOf(p)) /\ Cardinality(BuffersOf(p)) \in Nat
  <1>1. BuffersOf(p) \subseteq Buffers
    BY DEF BuffersOf
  <1> QED BY <1>1, ShmAssumption, FS_Subset, FS_CardinalityType

\* Who has a reference keeps the pool.
LEMMA ReferenceHolds ==
  ASSUME TypeOK, PoolLifetime, NEW p \in Pools,
         pool[p].resource \/ refs[p] > 0 \/ BuffersOf(p) # {}
  PROVE  pool[p].refcount > 0 /\ pool[p].made
  <1> DEFINE n == Cardinality(BuffersOf(p))
  <1>1. n \in Nat
    BY BuffersCounted
  <1>2. BuffersOf(p) # {} => n > 0
    BY <1>1, BuffersCounted, FS_EmptySet
  <1>3. Counted(p)
    BY LifetimeIsCounted
  <1>4. pool[p].refcount = (IF pool[p].resource THEN 1 ELSE 0) + refs[p] + n
    BY <1>3 DEF Counted
  <1> HIDE DEF n
  <1>5. refs[p] \in Nat
    BY Bounds DEF TypeOK, wl_shm_pool
  <1>6. pool[p].refcount > 0
    BY <1>1, <1>2, <1>4, <1>5
  <1> QED BY <1>3, <1>6 DEF Counted

LEMMA InitShm == Init => ShmInv
  <1> SUFFICES ASSUME Init PROVE ShmInv
    OBVIOUS
  <1>1. TypeOK
    <2>1. 0 \in Ints /\ 0 \in 0 .. INT32_MAX /\ 0 \in 0 .. MaxRefs /\ 0 \in 0 .. MaxNesting
      BY Bounds DEF Ints
    <2>2. NoBuffer \in wl_shm_buffer /\ NewData \in wl_shm_sigbus_data
      BY <2>1 DEF NoBuffer, NewData, wl_shm_buffer, wl_shm_sigbus_data
    <2>3. [made |-> FALSE, resource |-> FALSE, refcount |-> 0, size |-> 0] \in wl_shm_pool
      BY <2>1 DEF wl_shm_pool
    <2>4. <<>> \in Seq([buf : Buffers, moved : BOOLEAN])
      OBVIOUS
    <2>5. file \in [Pools -> Nat] /\ refs \in [Pools -> 0 .. MaxRefs]
      BY <2>1 DEF Init
    <2>6. pool \in [Pools -> wl_shm_pool] /\ buffer \in [Buffers -> wl_shm_buffer]
      BY <2>2, <2>3 DEF Init
    <2>7. /\ sigbus \in [Threads -> wl_shm_sigbus_data]
          /\ access \in [Threads -> Seq([buf : Buffers, moved : BOOLEAN])]
      BY <2>2, <2>4 DEF Init
    <2> QED BY <2>5, <2>6, <2>7 DEF Init, TypeOK
  <1>2. PoolLifetime
    <2> SUFFICES ASSUME NEW p \in Pools PROVE Counted(p)
      BY LifetimeIsCounted
    <2>1. BuffersOf(p) = {}
      BY DEF BuffersOf, Init, NoBuffer
    <2>2. Cardinality(BuffersOf(p)) = 0
      BY <2>1, FS_EmptySet
    <2> QED BY <2>2 DEF Init, Counted
  <1>3. AccessInv
    BY DEF AccessInv, Init, NoBuffer, NewData
  <1>4. BuffersInPool /\ FaultsContained
    BY DEF BuffersInPool, FaultsContained, Init, NoBuffer
  <1> QED BY <1>1, <1>2, <1>3, <1>4 DEF ShmInv, PoolInv

-----------------------------------------------------------------------------
\* Requests that fail

LEMMA PostErrorKeeps ==
  ASSUME ShmInv, NEW what \in {"refused", "failed"}, PostError(what)
  PROVE  ShmInv'
  <1>1. /\ UNCHANGED <<file, anonymous, pool, buffer, refs, sigbus, access, client, killed>>
        /\ error' \in {"none", "refused", "failed"} /\ error' # "none"
    BY DEF PostError, memVars, threadVars
  <1>2. TypeOK'
    BY <1>1 DEF ShmInv, PoolInv, TypeOK
  <1>3. PoolLifetime' /\ AccessInv' /\ BuffersInPool'
    BY <1>1 DEF ShmInv, PoolInv, PoolLifetime, AccessInv, BuffersInPool
  <1>4. ~ResizesHeld => FaultsContained'
    BY <1>1 DEF ShmInv, FaultsContained
  <1> QED BY <1>2, <1>3, <1>4 DEF ShmInv, PoolInv
\* Requests that succeed

LEMMA AccessesTyped ==
  ASSUME TypeOK, NEW t \in Threads, NEW i \in 1 .. Len(access[t])
  PROVE  access[t][i] \in [buf : Buffers, moved : BOOLEAN]
  <1> DEFINE A == [buf : Buffers, moved : BOOLEAN]
  <1>1. access[t] \in Seq(A)
    BY DEF TypeOK
  <1> HIDE DEF A
  <1>2. access[t][i] \in A
    BY <1>1
  <1> QED BY <1>2 DEF A

LEMMA PoolReferenced ==
  ASSUME pool \in [Pools -> wl_shm_pool], NEW p \in Pools,
         pool' = [pool EXCEPT ![p].refcount = @ + 1]
  PROVE  /\ pool' \in [Pools -> wl_shm_pool]
         /\ pool'[p].refcount = pool[p].refcount + 1
         /\ \A q \in Pools : /\ pool'[q].size = pool[q].size
                             /\ pool'[q].made = pool[q].made
                             /\ pool'[q].resource = pool[q].resource
         /\ \A q \in Pools \ {p} : pool'[q] = pool[q]
  BY DEF wl_shm_pool

\* shm_pool_unref, and destroy_pool, which clears the resource too
LEMMA PoolUnreferenced ==
  ASSUME pool \in [Pools -> wl_shm_pool], NEW p \in Pools, pool[p].refcount > 0,
         NEW r \in BOOLEAN,
         \/ /\ pool' = [pool EXCEPT ![p].refcount = @ - 1, ![p].made = pool[p].refcount # 1]
            /\ r = pool[p].resource
         \/ /\ pool' = [pool EXCEPT ![p].resource = FALSE, ![p].refcount = @ - 1,
                                    ![p].made = pool[p].refcount # 1]
            /\ r = FALSE
  PROVE  /\ pool' \in [Pools -> wl_shm_pool]
         /\ pool'[p].refcount = pool[p].refcount - 1
         /\ pool'[p].made <=> pool'[p].refcount > 0
         /\ pool'[p].resource = r
         /\ \A q \in Pools : pool'[q].size = pool[q].size
         /\ \A q \in Pools \ {p} : pool'[q] = pool[q]
  <1>1. PICK made \in BOOLEAN : made = (pool[p].refcount # 1)
    OBVIOUS
  <1>2. pool[p].refcount - 1 \in Nat /\ (made <=> pool[p].refcount - 1 > 0)
    BY <1>1 DEF wl_shm_pool
  <1>3. CASE /\ pool' = [pool EXCEPT ![p].refcount = @ - 1, ![p].made = made]
             /\ r = pool[p].resource
    BY <1>2, <1>3 DEF wl_shm_pool
  <1>4. CASE /\ pool' = [pool EXCEPT ![p].resource = FALSE, ![p].refcount = @ - 1,
                                     ![p].made = made]
             /\ r = FALSE
    BY <1>2, <1>4 DEF wl_shm_pool
  <1> QED BY <1>1, <1>3, <1>4

CreatedPool(p, size) ==
  /\ Request /\ ~pool[p].made /\ pool[p].refcount = 0
  /\ size > 0
  /\ pool' = [pool EXCEPT ![p] = [made |-> TRUE, resource |-> TRUE,
                                  refcount |-> 1, size |-> size]]
  /\ anonymous' = anonymous \ {p}
  /\ UNCHANGED <<file, buffer, refs, threadVars, error, client, killed>>

LEMMA CreatePoolKeeps ==
  ASSUME ShmInv, NEW p \in Pools, NEW size \in Ints, shm_create_pool(p, size)
  PROVE  ShmInv'
  <1>1. CASE PostError(IF size <= 0 THEN "refused" ELSE "failed")
    BY <1>1, PostErrorKeeps
  <1>2. CASE CreatedPool(p, size)
    <2>1. UNCHANGED <<file, buffer, refs, sigbus, access, error, client, killed>>
      BY <1>2 DEF CreatedPool, threadVars
    <2>2. TypeOK /\ PoolLifetime /\ AccessInv /\ BuffersInPool
      BY DEF ShmInv, PoolInv
    <2>3. BuffersOf(p) = {} /\ refs[p] = 0 /\ ~pool[p].resource
      <3>1. refs[p] \in Nat
        BY <2>2, Bounds DEF TypeOK
      <3> QED BY <1>2, <2>2, <3>1, ReferenceHolds DEF CreatedPool
    <2>4. TypeOK'
      <3>1. [made |-> TRUE, resource |-> TRUE, refcount |-> 1, size |-> size] \in wl_shm_pool
        BY <1>2, Bounds DEF CreatedPool, wl_shm_pool, Ints
      <3>2. pool' \in [Pools -> wl_shm_pool]
        BY <1>2, <2>2, <3>1 DEF CreatedPool, TypeOK
      <3> QED BY <1>2, <2>1, <2>2, <3>2 DEF CreatedPool, TypeOK
    <2>5. PoolLifetime'
      <3> SUFFICES ASSUME NEW q \in Pools PROVE Counted(q)'
        BY DEF PoolLifetime, Counted, BuffersOf
      <3>1. BuffersOf(q)' = BuffersOf(q)
        BY <2>1 DEF BuffersOf
      <3>2. CASE q = p
        <4>1. pool'[q].refcount = 1 /\ pool'[q].made /\ pool'[q].resource
          BY <1>2, <2>2, <3>2 DEF CreatedPool, TypeOK
        <4>2. Cardinality(BuffersOf(q))' = 0 /\ refs'[q] = 0
          BY <2>1, <2>3, <3>1, <3>2, FS_EmptySet
        <4> QED BY <4>1, <4>2 DEF Counted
      <3>3. CASE q # p
        <4>1. pool'[q] = pool[q] /\ Counted(q)
          BY <1>2, <2>2, <3>3, LifetimeIsCounted DEF CreatedPool, TypeOK
        <4> QED BY <2>1, <3>1, <4>1 DEF Counted
      <3> QED BY <3>2, <3>3
    <2>6. AccessInv'
      BY <2>1, <2>2 DEF AccessInv
    <2>7. BuffersInPool'
      <3>1. \A b \in Buffers : buffer[b].made => pool'[buffer[b].pool] = pool[buffer[b].pool]
        BY <1>2, <2>2, <2>3 DEF CreatedPool, TypeOK, AccessInv, BuffersOf
      <3> QED BY <2>1, <2>2, <3>1 DEF BuffersInPool
    <2>8. ~ResizesHeld => FaultsContained'
      <3>1. \A q \in anonymous' : q \in anonymous /\ pool'[q] = pool[q]
        BY <1>2, <2>2 DEF CreatedPool, TypeOK
      <3> QED BY <2>1, <3>1 DEF FaultsContained, ShmInv
    <2> QED BY <2>4, <2>5, <2>6, <2>7, <2>8 DEF ShmInv, PoolInv
  <1> QED BY <1>1, <1>2 DEF shm_create_pool, CreatedPool

CreatedBuffer(p, b, offset, width, height, stride) ==
  /\ pool[p].resource /\ ~buffer[b].made
  /\ Fits(pool[p].size, offset, width, height, stride)
  /\ pool' = [pool EXCEPT ![p].refcount = @ + 1]
  /\ buffer' = [buffer EXCEPT ![b] =
                  [made |-> TRUE, resource |-> TRUE, pool |-> p,
                   offset |-> offset, stride |-> stride, height |-> height]]
  /\ UNCHANGED <<memVars, refs, threadVars, error, client, killed>>

LEMMA CreateBufferKeeps ==
  ASSUME ShmInv, NEW p \in Pools, NEW b \in Buffers, NEW offset \in Ints,
         NEW width \in Ints, NEW height \in Ints, NEW stride \in Ints,
         shm_pool_create_buffer(p, b, offset, width, height, stride)
  PROVE  ShmInv'
  <1>1. CASE PostError(IF Fits(pool[p].size, offset, width, height, stride)
                       THEN "failed" ELSE "refused")
    BY <1>1, PostErrorKeeps
  <1>2. CASE CreatedBuffer(p, b, offset, width, height, stride)
    <2>1. UNCHANGED <<file, anonymous, refs, sigbus, access, error, client, killed>>
      BY <1>2 DEF CreatedBuffer, memVars, threadVars
    <2>2. TypeOK /\ PoolLifetime /\ AccessInv /\ BuffersInPool
      BY DEF ShmInv, PoolInv
    <2> DEFINE new == [made |-> TRUE, resource |-> TRUE, pool |-> p,
                       offset |-> offset, stride |-> stride, height |-> height]
    <2>3. /\ \A c \in Buffers \ {b} : buffer'[c] = buffer[c]
          /\ buffer'[b] = new /\ buffer' \in [Buffers -> wl_shm_buffer]
      <3>1. new \in wl_shm_buffer
        BY DEF wl_shm_buffer
      <3> HIDE DEF new
      <3>2. buffer' = [buffer EXCEPT ![b] = new]
        BY <1>2 DEF CreatedBuffer, new
      <3> QED BY <2>2, <3>1, <3>2 DEF TypeOK
    <2>4. /\ \A q \in Pools \ {p} : pool'[q] = pool[q]
          /\ pool'[p].refcount = pool[p].refcount + 1
          /\ pool'[p].made = pool[p].made /\ pool'[p].resource = pool[p].resource
          /\ \A q \in Pools : pool'[q].size = pool[q].size /\ pool'[q].made = pool[q].made
          /\ pool' \in [Pools -> wl_shm_pool]
      BY <1>2, <2>2, PoolReferenced DEF CreatedBuffer, TypeOK
    <2> HIDE DEF new
    <2>5. TypeOK'
      BY <2>1, <2>2, <2>3, <2>4 DEF TypeOK
    <2>6. PoolLifetime'
      <3> SUFFICES ASSUME NEW q \in Pools PROVE Counted(q)'
        BY DEF PoolLifetime, Counted, BuffersOf
      <3>0. /\ Counted(q) /\ refs'[q] = refs[q]
            /\ refs[q] \in Nat /\ pool[q].refcount \in Nat
        BY <2>1, <2>2, LifetimeIsCounted, Bounds DEF TypeOK, wl_shm_pool
      <3>1. CASE q = p
        <4>1. BuffersOf(q)' = BuffersOf(q) \cup {b} /\ b \notin BuffersOf(q)
          BY <1>2, <2>3, <3>1 DEF BuffersOf, CreatedBuffer, new
        <4>2. Cardinality(BuffersOf(q))' = Cardinality(BuffersOf(q)) + 1
          BY <4>1, BuffersCounted, FS_AddElement
        <4>3. Cardinality(BuffersOf(q)) \in Nat
          BY BuffersCounted
        <4>4. pool[q].resource /\ pool'[q].resource /\ pool[q].made /\ pool'[q].made
          BY <1>2, <2>2, <2>4, <3>1, ReferenceHolds DEF CreatedBuffer
        <4>5. pool'[q].refcount = pool[q].refcount + 1
          BY <2>4, <3>1
        <4> HIDE DEF CreatedBuffer
        <4> QED BY <3>0, <4>2, <4>3, <4>4, <4>5 DEF Counted
      <3>2. CASE q # p
        <4>1. BuffersOf(q)' = BuffersOf(q)
          BY <1>2, <2>3, <3>2 DEF BuffersOf, CreatedBuffer, new
        <4>2. pool'[q] = pool[q]
          BY <2>4, <3>2
        <4> QED BY <3>0, <4>1, <4>2 DEF Counted
      <3> QED BY <3>1, <3>2
    <2>7. AccessInv'
      <3>1. \A t \in Threads : \A i \in 1 .. Len(access[t]) : access[t][i].buf \in Buffers
        BY <2>2, AccessesTyped
      <3>2. \A c \in Buffers : buffer[c].made => buffer'[c] = buffer[c]
        BY <1>2, <2>3 DEF CreatedBuffer
      <3>3. new.made /\ new.resource /\ new.pool = p
        BY DEF new
      <3> QED BY <2>1, <2>2, <2>3, <3>1, <3>2, <3>3 DEF AccessInv
    <2>8. BuffersInPool'
      <3> SUFFICES ASSUME NEW c \in Buffers, buffer'[c].made
                   PROVE  /\ buffer'[c].offset >= 0
                          /\ buffer'[c].offset + buffer'[c].stride * buffer'[c].height
                                <= pool'[buffer'[c].pool].size
        BY DEF BuffersInPool
      <3>1. CASE c = b
        <4>1. /\ buffer'[c].offset = offset /\ buffer'[c].stride = stride
              /\ buffer'[c].height = height /\ buffer'[c].pool = p
          BY <2>3, <3>1 DEF new
        <4>2. pool'[p].size = pool[p].size /\ pool[p].size \in 0 .. INT32_MAX
          BY <2>2, <2>4 DEF TypeOK, wl_shm_pool
        <4>3. offset >= 0 /\ offset + stride * height <= pool[p].size
          BY <1>2, <4>2, FitsMeansFits DEF CreatedBuffer
        <4> QED BY <4>1, <4>2, <4>3
      <3>2. CASE c # b
        <4>1. buffer'[c] = buffer[c]
          BY <2>3, <3>2
        <4>2. pool'[buffer[c].pool].size = pool[buffer[c].pool].size
          BY <2>2, <2>4, <4>1 DEF AccessInv
        <4> QED BY <2>2, <4>1, <4>2 DEF BuffersInPool
      <3> QED BY <3>1, <3>2
    <2>9. ~ResizesHeld => FaultsContained'
      BY <2>1, <2>2, <2>4 DEF FaultsContained, ShmInv, TypeOK
    <2> QED BY <2>5, <2>6, <2>7, <2>8, <2>9 DEF ShmInv, PoolInv
  <1> QED BY <1>1, <1>2 DEF shm_pool_create_buffer, CreatedBuffer
Resized(p, size) ==
  /\ Held(p) => ResizesHeld
  /\ size >= pool[p].size
  /\ pool' = [pool EXCEPT ![p].size = size]
  /\ \/ UNCHANGED access
     \/ access' = [t \in Threads |-> [i \in DOMAIN access[t] |->
            [access[t][i] EXCEPT !.moved = @ \/ buffer[access[t][i].buf].pool = p]]]
  /\ UNCHANGED <<memVars, buffer, refs, sigbus, error, client, killed>>

\* A mapping that moves is moved away from those only who access it.
LEMMA MovedAccess ==
  ASSUME ShmInv, NEW p \in Pools, NEW size, Resized(p, size), NEW t \in Threads
  PROVE  /\ access'[t] \in Seq([buf : Buffers, moved : BOOLEAN])
         /\ Len(access'[t]) = Len(access[t])
         /\ \A i \in 1 .. Len(access[t]) :
               /\ access'[t][i].buf = access[t][i].buf
               /\ ~ResizesHeld => ~access'[t][i].moved
  <1> DEFINE A == [buf : Buffers, moved : BOOLEAN]
  <1>1. TypeOK /\ AccessInv
    BY DEF ShmInv, PoolInv
  <1>2. access[t] \in Seq(A) /\ DOMAIN access[t] = 1 .. Len(access[t])
    <2>1. access[t] \in Seq(A)
      BY <1>1 DEF TypeOK
    <2> HIDE DEF A
    <2> QED BY <2>1
  <1>3. \A i \in 1 .. Len(access[t]) : access[t][i] \in A
    BY <1>1, AccessesTyped
  <1>4. \A i \in 1 .. Len(access[t]) : ~ResizesHeld => ~access[t][i].moved
    BY <1>1 DEF AccessInv
  <1>5. CASE UNCHANGED access
    BY <1>2, <1>4, <1>5
  <1>6. CASE access' = [u \in Threads |-> [i \in DOMAIN access[u] |->
               [access[u][i] EXCEPT !.moved = @ \/ buffer[access[u][i].buf].pool = p]]]
    <2> DEFINE new == [i \in 1 .. Len(access[t]) |->
                [access[t][i] EXCEPT !.moved = @ \/ buffer[access[t][i].buf].pool = p]]
    <2>1. access'[t] = new
      BY <1>2, <1>6
    <2>2. \A i \in 1 .. Len(access[t]) : new[i] \in A /\ new[i].buf = access[t][i].buf
      BY <1>3
    <2>3. \A i \in 1 .. Len(access[t]) : ~ResizesHeld => ~new[i].moved
      <3> SUFFICES ASSUME NEW i \in 1 .. Len(access[t]), ~ResizesHeld PROVE ~new[i].moved
        OBVIOUS
      <3>1. access[t][i].buf \in Buffers
        BY <1>3
      <3>2. buffer[access[t][i].buf].pool # p
        BY <3>1 DEF Resized, Held, Accessed
      <3> QED BY <1>3, <1>4, <3>2
    <2>4. Len(access[t]) \in Nat
      BY <1>2
    <2>5. new \in Seq(A) /\ Len(new) = Len(access[t])
      <3> DEFINE n == Len(access[t])
      <3>1. n \in Nat /\ \A i \in 1 .. n : new[i] \in A
        BY <2>2, <2>4
      <3>2. DOMAIN new = 1 .. n /\ new = [i \in 1 .. n |-> new[i]]
        OBVIOUS
      <3> HIDE DEF new, n, A
      <3>3. new \in [1 .. n -> A]
        BY <3>1, <3>2
      <3> QED BY <3>1, <3>3 DEF n
    <2> QED BY <2>1, <2>2, <2>3, <2>5
  <1> QED BY <1>5, <1>6 DEF Resized

LEMMA ResizeKeeps ==
  ASSUME ShmInv, NEW p \in Pools, NEW size \in Ints, shm_pool_resize(p, size)
  PROVE  ShmInv'
  <1>1. CASE PostError(IF size < pool[p].size THEN "refused" ELSE "failed")
    BY <1>1, PostErrorKeeps
  <1>2. CASE Resized(p, size)
    <2>1. UNCHANGED <<file, anonymous, buffer, refs, sigbus, error, client, killed>>
      BY <1>2 DEF Resized, memVars
    <2>2. TypeOK /\ PoolLifetime /\ AccessInv /\ BuffersInPool
      BY DEF ShmInv, PoolInv
    <2>3. size \in 0 .. INT32_MAX /\ size >= pool[p].size
      BY <1>2, <2>2, Bounds DEF Resized, Ints, TypeOK, wl_shm_pool
    <2>4. /\ pool' \in [Pools -> wl_shm_pool]
          /\ \A q \in Pools : /\ pool'[q].made = pool[q].made
                              /\ pool'[q].resource = pool[q].resource
                              /\ pool'[q].refcount = pool[q].refcount
                              /\ pool'[q].size >= pool[q].size
      <3>1. pool \in [Pools -> wl_shm_pool] /\ pool' = [pool EXCEPT ![p].size = size]
        BY <1>2, <2>2 DEF Resized, TypeOK
      <3>2. pool' \in [Pools -> wl_shm_pool]
        BY <2>3, <3>1 DEF wl_shm_pool
      <3>3. \A q \in Pools : pool[q].size \in Int
        BY <3>1, Bounds DEF wl_shm_pool
      <3>4. \A q \in Pools \ {p} : pool'[q] = pool[q]
        BY <3>1
      <3>5. /\ pool'[p].made = pool[p].made /\ pool'[p].resource = pool[p].resource
            /\ pool'[p].refcount = pool[p].refcount /\ pool'[p].size = size
        BY <3>1 DEF wl_shm_pool
      <3> QED BY <2>3, <3>2, <3>3, <3>4, <3>5
    <2>5. access' \in [Threads -> Seq([buf : Buffers, moved : BOOLEAN])]
      <3>1. access' = [t \in Threads |-> access'[t]]
        BY <1>2, <2>2 DEF Resized, TypeOK
      <3> QED BY <1>2, <3>1, MovedAccess
    <2>6. TypeOK'
      BY <2>1, <2>2, <2>4, <2>5 DEF TypeOK
    <2>7. PoolLifetime'
      BY <2>1, <2>2, <2>4 DEF PoolLifetime
    <2>8. AccessInv'
      BY <1>2, <2>1, <2>2, MovedAccess DEF AccessInv
    <2>9. BuffersInPool'
      <3> SUFFICES ASSUME NEW b \in Buffers, buffer[b].made
                   PROVE  /\ buffer[b].offset >= 0
                          /\ buffer[b].offset + buffer[b].stride * buffer[b].height
                                <= pool'[buffer[b].pool].size
        BY <2>1 DEF BuffersInPool
      <3> DEFINE end == buffer[b].offset + buffer[b].stride * buffer[b].height
      <3>1. buffer[b].offset \in Int /\ buffer[b].stride \in Int /\ buffer[b].height \in Int
        BY <2>2, Bounds DEF TypeOK, wl_shm_buffer, Ints
      <3>2. end \in Int
        BY <3>1
      <3>3. buffer[b].pool \in Pools
        BY <2>2 DEF AccessInv
      <3>4. pool[buffer[b].pool].size \in Int /\ pool'[buffer[b].pool].size \in Int
        BY <2>2, <2>4, <3>3, Bounds DEF TypeOK, wl_shm_pool
      <3>5. buffer[b].offset >= 0 /\ end <= pool[buffer[b].pool].size
        BY <2>2 DEF BuffersInPool
      <3> HIDE DEF end
      <3>6. end <= pool'[buffer[b].pool].size
        BY <2>4, <3>2, <3>3, <3>4, <3>5
      <3> QED BY <3>5, <3>6 DEF end
    <2>10. ~ResizesHeld => FaultsContained'
      BY <2>1, <2>2, <2>4 DEF FaultsContained, ShmInv, TypeOK
    <2> QED BY <2>6, <2>7, <2>8, <2>9, <2>10 DEF ShmInv, PoolInv
  <1> QED BY <1>1, <1>2 DEF shm_pool_resize, Resized

-----------------------------------------------------------------------------
\* References that go

LEMMA DestroyPoolKeeps ==
  ASSUME ShmInv, NEW p \in Pools, DestroyPool(p)
  PROVE  ShmInv'
  <1>1. UNCHANGED <<file, anonymous, buffer, refs, sigbus, access, error, client, killed>>
    BY DEF DestroyPool, memVars, threadVars
  <1>2. TypeOK /\ PoolLifetime /\ AccessInv /\ BuffersInPool
    BY DEF ShmInv, PoolInv
  <1>3. pool[p].resource /\ pool[p].refcount > 0 /\ pool[p].made
    BY <1>2, ReferenceHolds DEF DestroyPool
  <1>4. /\ pool' \in [Pools -> wl_shm_pool]
        /\ pool'[p].refcount = pool[p].refcount - 1
        /\ pool'[p].made <=> pool'[p].refcount > 0
        /\ pool'[p].resource = FALSE
        /\ \A q \in Pools : pool'[q].size = pool[q].size
        /\ \A q \in Pools \ {p} : pool'[q] = pool[q]
    BY <1>2, <1>3, PoolUnreferenced DEF DestroyPool, TypeOK
  <1>5. TypeOK'
    BY <1>1, <1>2, <1>4 DEF TypeOK
  <1>6. PoolLifetime'
    <2> SUFFICES ASSUME NEW q \in Pools PROVE Counted(q)'
      BY DEF PoolLifetime, Counted, BuffersOf
    <2>1. BuffersOf(q)' = BuffersOf(q) /\ Counted(q)
      BY <1>1, <1>2, LifetimeIsCounted DEF BuffersOf
    <2>2. CASE q = p
      <3>1. refs[q] \in Nat /\ pool[q].refcount \in Nat /\ Cardinality(BuffersOf(q)) \in Nat
        BY <1>2, Bounds, BuffersCounted DEF TypeOK, wl_shm_pool
      <3>2. pool[q].refcount = 1 + refs[q] + Cardinality(BuffersOf(q))
        BY <1>3, <2>1, <2>2 DEF Counted
      <3>3. pool'[q].refcount = 0 + refs'[q] + Cardinality(BuffersOf(q))'
        BY <1>1, <1>4, <2>1, <2>2, <3>1, <3>2
      <3> QED BY <1>4, <2>2, <3>3 DEF Counted
    <2>3. CASE q # p
      BY <1>1, <1>4, <2>1, <2>3 DEF Counted
    <2> QED BY <2>2, <2>3
  <1>7. AccessInv'
    BY <1>1, <1>2 DEF AccessInv
  <1>8. BuffersInPool'
    BY <1>1, <1>2, <1>4 DEF BuffersInPool, AccessInv
  <1>9. ~ResizesHeld => FaultsContained'
    <2>1. \A q \in Pools : pool'[q].made => pool[q].made
      BY <1>3, <1>4
    <2> QED BY <1>1, <1>2, <2>1 DEF FaultsContained, ShmInv, TypeOK
  <1> QED BY <1>5, <1>6, <1>7, <1>8, <1>9 DEF ShmInv, PoolInv

LEMMA DestroyBufferKeeps ==
  ASSUME ShmInv, NEW b \in Buffers, DestroyBuffer(b)
  PROVE  ShmInv'
  <1> DEFINE p == buffer[b].pool
  <1>1. UNCHANGED <<file, anonymous, refs, sigbus, access, error, client, killed>>
    BY DEF DestroyBuffer, memVars, threadVars
  <1>2. TypeOK /\ PoolLifetime /\ AccessInv /\ BuffersInPool
    BY DEF ShmInv, PoolInv
  <1>3. p \in Pools /\ buffer[b].made /\ b \in BuffersOf(p) /\ ~Accessed(b)
    BY <1>2 DEF DestroyBuffer, AccessInv, BuffersOf
  <1>4. pool[p].refcount > 0 /\ pool[p].made
    BY <1>2, <1>3, ReferenceHolds
  <1>5. /\ NoBuffer \in wl_shm_buffer
        /\ buffer' \in [Buffers -> wl_shm_buffer]
        /\ ~buffer'[b].made /\ ~buffer'[b].resource
        /\ \A c \in Buffers \ {b} : buffer'[c] = buffer[c]
    <2>1. NoBuffer \in wl_shm_buffer /\ ~NoBuffer.made /\ ~NoBuffer.resource
      BY Bounds DEF NoBuffer, wl_shm_buffer, Ints
    <2> QED BY <1>2, <2>1 DEF DestroyBuffer, TypeOK
  <1>6. /\ pool' \in [Pools -> wl_shm_pool]
        /\ pool'[p].refcount = pool[p].refcount - 1
        /\ pool'[p].made <=> pool'[p].refcount > 0
        /\ pool'[p].resource = pool[p].resource
        /\ \A q \in Pools : pool'[q].size = pool[q].size
        /\ \A q \in Pools \ {p} : pool'[q] = pool[q]
    <2>1. pool \in [Pools -> wl_shm_pool] /\ pool[p].resource \in BOOLEAN
      BY <1>2, <1>3 DEF TypeOK, wl_shm_pool
    <2>2. pool' = [pool EXCEPT ![p].refcount = @ - 1, ![p].made = pool[p].refcount # 1]
      BY DEF DestroyBuffer, shm_pool_unref
    <2> HIDE DEF p
    <2> QED BY <1>3, <1>4, <2>1, <2>2, PoolUnreferenced
  <1>7. TypeOK'
    BY <1>1, <1>2, <1>5, <1>6 DEF TypeOK
  <1>8. PoolLifetime'
    <2> SUFFICES ASSUME NEW q \in Pools PROVE Counted(q)'
      BY DEF PoolLifetime, Counted, BuffersOf
    <2>1. Counted(q)
      BY <1>2, LifetimeIsCounted
    <2>2. CASE q = p
      <3>1. BuffersOf(q)' = BuffersOf(q) \ {b} /\ b \in BuffersOf(q)
        BY <1>3, <1>5, <2>2 DEF BuffersOf
      <3>2. Cardinality(BuffersOf(q))' = Cardinality(BuffersOf(q)) - 1
        BY <3>1, BuffersCounted, FS_RemoveElement
      <3>3. refs[q] \in Nat /\ pool[q].refcount \in Nat /\ Cardinality(BuffersOf(q)) \in Nat
        BY <1>2, Bounds, BuffersCounted DEF TypeOK, wl_shm_pool
      <3> HIDE DEF p
      <3> QED BY <1>1, <1>6, <2>1, <2>2, <3>2, <3>3 DEF Counted
    <2>3. CASE q # p
      <3>1. BuffersOf(q)' = BuffersOf(q)
        BY <1>5, <2>3 DEF BuffersOf
      <3> HIDE DEF p
      <3> QED BY <1>1, <1>6, <2>1, <2>3, <3>1 DEF Counted
    <2> QED BY <2>2, <2>3
  <1>9. AccessInv'
    <2>1. \A t \in Threads : \A i \in 1 .. Len(access[t]) :
             access[t][i].buf \in Buffers \ {b}
      <3>1. \A t \in Threads : \A i \in 1 .. Len(access[t]) : access[t][i].buf \in Buffers
        BY <1>2, AccessesTyped
      <3> QED BY <1>3, <3>1 DEF Accessed
    <2> QED BY <1>1, <1>2, <1>5, <2>1 DEF AccessInv
  <1>10. BuffersInPool'
    BY <1>2, <1>5, <1>6 DEF BuffersInPool, AccessInv
  <1>11. ~ResizesHeld => FaultsContained'
    <2>1. \A q \in Pools : pool'[q].made => pool[q].made
      BY <1>4, <1>6
    <2> QED BY <1>1, <1>2, <2>1 DEF FaultsContained, ShmInv, TypeOK
  <1> QED BY <1>7, <1>8, <1>9, <1>10, <1>11 DEF ShmInv, PoolInv
-----------------------------------------------------------------------------
\* References of the compositor, and the client's end

LEMMA RefPoolKeeps ==
  ASSUME ShmInv, NEW b \in Buffers, RefPool(b)
  PROVE  ShmInv'
  <1> DEFINE p == buffer[b].pool
  <1>1. UNCHANGED <<file, anonymous, buffer, sigbus, access, error, client, killed>>
    BY DEF RefPool, memVars, threadVars
  <1>2. TypeOK /\ PoolLifetime /\ AccessInv /\ BuffersInPool
    BY DEF ShmInv, PoolInv
  <1>3. p \in Pools /\ b \in BuffersOf(p)
    BY <1>2 DEF RefPool, AccessInv, BuffersOf
  <1>4. pool[p].refcount > 0 /\ pool[p].made
    BY <1>2, <1>3, ReferenceHolds
  <1>5. /\ pool' \in [Pools -> wl_shm_pool]
        /\ pool'[p].refcount = pool[p].refcount + 1
        /\ \A q \in Pools : /\ pool'[q].size = pool[q].size
                            /\ pool'[q].made = pool[q].made
                            /\ pool'[q].resource = pool[q].resource
        /\ \A q \in Pools \ {p} : pool'[q] = pool[q]
    <2>1. pool \in [Pools -> wl_shm_pool] /\ pool' = [pool EXCEPT ![p].refcount = @ + 1]
      BY <1>2 DEF TypeOK, RefPool
    <2> HIDE DEF p
    <2> QED BY <1>3, <2>1, PoolReferenced
  <1>6. /\ refs' \in [Pools -> 0 .. MaxRefs] /\ refs'[p] = refs[p] + 1
        /\ \A q \in Pools \ {p} : refs'[q] = refs[q]
    <2>1. refs \in [Pools -> 0 .. MaxRefs] /\ refs[p] < MaxRefs /\ MaxRefs \in Nat
          /\ refs' = [refs EXCEPT ![p] = @ + 1]
      BY <1>2, Bounds DEF TypeOK, RefPool
    <2> HIDE DEF p
    <2> QED BY <1>3, <2>1
  <1>7. TypeOK'
    BY <1>1, <1>2, <1>5, <1>6 DEF TypeOK
  <1>8. PoolLifetime'
    <2> SUFFICES ASSUME NEW q \in Pools PROVE Counted(q)'
      BY DEF PoolLifetime, Counted, BuffersOf
    <2>1. Counted(q) /\ BuffersOf(q)' = BuffersOf(q)
      BY <1>1, <1>2, LifetimeIsCounted DEF BuffersOf
    <2>2. refs[q] \in Nat /\ pool[q].refcount \in Nat /\ Cardinality(BuffersOf(q)) \in Nat
      BY <1>2, Bounds, BuffersCounted DEF TypeOK, wl_shm_pool
    <2> HIDE DEF p
    <2>3. CASE q = p
      BY <1>4, <1>5, <1>6, <2>1, <2>2, <2>3 DEF Counted
    <2>4. CASE q # p
      BY <1>5, <1>6, <2>1, <2>4 DEF Counted
    <2> QED BY <2>3, <2>4
  <1>9. AccessInv'
    BY <1>1, <1>2 DEF AccessInv
  <1>10. BuffersInPool'
    BY <1>1, <1>2, <1>5 DEF BuffersInPool, AccessInv
  <1>11. ~ResizesHeld => FaultsContained'
    BY <1>1, <1>2, <1>5 DEF FaultsContained, ShmInv, TypeOK
  <1> QED BY <1>7, <1>8, <1>9, <1>10, <1>11 DEF ShmInv, PoolInv

LEMMA UnrefPoolKeeps ==
  ASSUME ShmInv, NEW p \in Pools, UnrefPool(p)
  PROVE  ShmInv'
  <1>1. UNCHANGED <<file, anonymous, buffer, sigbus, access, error, client, killed>>
    BY DEF UnrefPool, memVars, threadVars
  <1>2. TypeOK /\ PoolLifetime /\ AccessInv /\ BuffersInPool
    BY DEF ShmInv, PoolInv
  <1>3. refs[p] > 0 /\ pool[p].refcount > 0 /\ pool[p].made
    BY <1>2, ReferenceHolds DEF UnrefPool
  <1>4. /\ pool' \in [Pools -> wl_shm_pool]
        /\ pool'[p].refcount = pool[p].refcount - 1
        /\ pool'[p].made <=> pool'[p].refcount > 0
        /\ pool'[p].resource = pool[p].resource
        /\ \A q \in Pools : pool'[q].size = pool[q].size
        /\ \A q \in Pools \ {p} : pool'[q] = pool[q]
    <2>1. pool \in [Pools -> wl_shm_pool] /\ pool[p].resource \in BOOLEAN
      BY <1>2 DEF TypeOK, wl_shm_pool
    <2>2. pool' = [pool EXCEPT ![p].refcount = @ - 1, ![p].made = pool[p].refcount # 1]
      BY DEF UnrefPool, shm_pool_unref
    <2> QED BY <1>3, <2>1, <2>2, PoolUnreferenced
  <1>5. /\ refs' \in [Pools -> 0 .. MaxRefs] /\ refs'[p] = refs[p] - 1
        /\ \A q \in Pools \ {p} : refs'[q] = refs[q]
    BY <1>2, <1>3, Bounds DEF TypeOK, UnrefPool
  <1>6. TypeOK'
    BY <1>1, <1>2, <1>4, <1>5 DEF TypeOK
  <1>7. PoolLifetime'
    <2> SUFFICES ASSUME NEW q \in Pools PROVE Counted(q)'
      BY DEF PoolLifetime, Counted, BuffersOf
    <2>1. Counted(q) /\ BuffersOf(q)' = BuffersOf(q)
      BY <1>1, <1>2, LifetimeIsCounted DEF BuffersOf
    <2>2. refs[q] \in Nat /\ pool[q].refcount \in Nat /\ Cardinality(BuffersOf(q)) \in Nat
      BY <1>2, Bounds, BuffersCounted DEF TypeOK, wl_shm_pool
    <2>3. CASE q = p
      <3>1. pool[q].refcount
              = (IF pool[q].resource THEN 1 ELSE 0) + refs[q] + Cardinality(BuffersOf(q))
        BY <2>1 DEF Counted
      <3>2. pool'[q].refcount
              = (IF pool'[q].resource THEN 1 ELSE 0) + refs'[q] + Cardinality(BuffersOf(q))'
        BY <1>4, <1>5, <2>1, <2>2, <2>3, <3>1
      <3> QED BY <1>4, <2>3, <3>2 DEF Counted
    <2>4. CASE q # p
      BY <1>4, <1>5, <2>1, <2>4 DEF Counted
    <2> QED BY <2>3, <2>4
  <1>8. AccessInv'
    BY <1>1, <1>2 DEF AccessInv
  <1>9. BuffersInPool'
    BY <1>1, <1>2, <1>4 DEF BuffersInPool, AccessInv
  <1>10. ~ResizesHeld => FaultsContained'
    <2>1. \A q \in Pools : pool'[q].made => pool[q].made
      BY <1>3, <1>4
    <2> QED BY <1>1, <1>2, <2>1 DEF FaultsContained, ShmInv, TypeOK
  <1> QED BY <1>6, <1>7, <1>8, <1>9, <1>10 DEF ShmInv, PoolInv

LEMMA ClientDiesKeeps ==
  ASSUME ShmInv, ClientDies
  PROVE  ShmInv'
  <1>1. /\ UNCHANGED <<file, anonymous, pool, buffer, refs, sigbus, access, killed>>
        /\ client' \in {"dying", "gone"} /\ error' = "none"
    BY DEF ClientDies, memVars, threadVars
  <1>2. TypeOK'
    BY <1>1 DEF ShmInv, PoolInv, TypeOK
  <1>3. PoolLifetime' /\ AccessInv' /\ BuffersInPool'
    BY <1>1 DEF ShmInv, PoolInv, PoolLifetime, AccessInv, BuffersInPool
  <1>4. ~ResizesHeld => FaultsContained'
    BY <1>1 DEF ShmInv, FaultsContained
  <1> QED BY <1>2, <1>3, <1>4 DEF ShmInv, PoolInv

LEMMA TruncateKeeps ==
  ASSUME ShmInv, NEW p \in Pools, NEW n \in Lengths, Truncate(p, n)
  PROVE  ShmInv'
  <1>1. /\ UNCHANGED <<anonymous, pool, buffer, refs, sigbus, access, error, client, killed>>
        /\ file' = [file EXCEPT ![p] = n] /\ n \in Nat
    BY ShmAssumption DEF Truncate, threadVars
  <1>2. TypeOK'
    BY <1>1 DEF ShmInv, PoolInv, TypeOK
  <1>3. PoolLifetime' /\ AccessInv' /\ BuffersInPool'
    BY <1>1 DEF ShmInv, PoolInv, PoolLifetime, AccessInv, BuffersInPool
  <1>4. ~ResizesHeld => FaultsContained'
    BY <1>1 DEF ShmInv, FaultsContained
  <1> QED BY <1>2, <1>3, <1>4 DEF ShmInv, PoolInv

-----------------------------------------------------------------------------
\* Access

LEMMA BeginAccessKeeps ==
  ASSUME ShmInv, NEW t \in Threads, NEW b \in Buffers, begin_access(t, b)
  PROVE  ShmInv'
  <1> DEFINE A == [buf : Buffers, moved : BOOLEAN]
             a == [buf |-> b, moved |-> FALSE]
             p == buffer[b].pool
  <1>1. UNCHANGED <<file, anonymous, pool, buffer, refs, error, client, killed>>
    BY DEF begin_access, memVars
  <1>2. TypeOK /\ PoolLifetime /\ AccessInv /\ BuffersInPool
    BY DEF ShmInv, PoolInv
  <1>3. buffer[b].made /\ p \in Pools /\ p # NoPool
    BY <1>2, ShmAssumption DEF begin_access, AccessInv
  <1>4. access \in [Threads -> Seq(A)] /\ a \in A /\ access[t] \in Seq(A)
    BY <1>2 DEF TypeOK
  <1>5. access' = [access EXCEPT ![t] = Append(@, a)]
    BY DEF begin_access
  <1>6. a.buf = b /\ ~a.moved
    OBVIOUS
  <1> HIDE DEF A, a
  <1>7. /\ access' \in [Threads -> Seq(A)]
        /\ access'[t] = Append(access[t], a)
        /\ \A u \in Threads \ {t} : access'[u] = access[u]
    BY <1>4, <1>5
  <1>8. /\ sigbus' \in [Threads -> wl_shm_sigbus_data]
        /\ sigbus'[t].current_pool = p
        /\ sigbus'[t].access_count = sigbus[t].access_count + 1
        /\ sigbus'[t].fallback_mapping_used = sigbus[t].fallback_mapping_used
        /\ \A u \in Threads \ {t} : sigbus'[u] = sigbus[u]
    <2>1. /\ sigbus \in [Threads -> wl_shm_sigbus_data]
          /\ sigbus[t].access_count + 1 \in 0 .. MaxNesting
          /\ sigbus' = [sigbus EXCEPT ![t].current_pool = p, ![t].access_count = @ + 1]
      BY <1>2, Bounds DEF TypeOK, wl_shm_sigbus_data, begin_access
    <2> HIDE DEF p
    <2>2. sigbus' \in [Threads -> wl_shm_sigbus_data]
      BY <1>3, <2>1 DEF wl_shm_sigbus_data
    <2> QED BY <2>1, <2>2 DEF wl_shm_sigbus_data
  <1>9. sigbus[t].current_pool \in {NoPool, p}
    BY DEF begin_access
  <1>10. TypeOK'
    BY <1>1, <1>2, <1>7, <1>8 DEF TypeOK, A
  <1>11. PoolLifetime' /\ BuffersInPool'
    BY <1>1, <1>2 DEF PoolLifetime, BuffersInPool
  <1>12. AccessInv'
    <2> SUFFICES ASSUME NEW u \in Threads
                 PROVE  /\ sigbus'[u].access_count = Len(access'[u])
                        /\ \A i \in 1 .. Len(access'[u]) :
                              /\ buffer[access'[u][i].buf].made
                              /\ buffer[access'[u][i].buf].pool = sigbus'[u].current_pool
                              /\ ~ResizesHeld => ~access'[u][i].moved
      BY <1>1, <1>2 DEF AccessInv
    <2>1. CASE u # t
      BY <1>2, <1>7, <1>8, <2>1 DEF AccessInv
    <2>2. CASE u = t
      <3>1. Len(access'[t]) = Len(access[t]) + 1 /\ Len(access[t]) \in Nat
        BY <1>4, <1>7
      <3>2. sigbus'[t].access_count = Len(access'[t])
        BY <1>2, <1>8, <3>1 DEF AccessInv
      <3>3. ASSUME NEW i \in 1 .. Len(access'[t])
            PROVE  /\ buffer[access'[t][i].buf].made
                   /\ buffer[access'[t][i].buf].pool = sigbus'[t].current_pool
                   /\ ~ResizesHeld => ~access'[t][i].moved
        <4>1. CASE i = Len(access[t]) + 1
          <5>1. access'[t][i] = a
            BY <1>4, <1>7, <4>1
          <5> QED BY <1>3, <1>6, <1>8, <5>1
        <4>2. CASE i # Len(access[t]) + 1
          <5>1. i \in 1 .. Len(access[t]) /\ access'[t][i] = access[t][i]
            BY <1>4, <1>7, <3>1, <4>2
          <5>2. /\ buffer[access[t][i].buf].made
                /\ buffer[access[t][i].buf].pool = sigbus[t].current_pool
                /\ ~ResizesHeld => ~access[t][i].moved
            BY <1>2, <5>1 DEF AccessInv
          <5>3. access[t][i].buf \in Buffers
            BY <1>2, <5>1, AccessesTyped
          <5>4. sigbus[t].current_pool # NoPool
            BY <1>2, <5>2, <5>3, ShmAssumption DEF AccessInv
          <5> QED BY <1>8, <1>9, <5>1, <5>2, <5>4
        <4> QED BY <4>1, <4>2
      <3> QED BY <2>2, <3>2, <3>3
    <2> QED BY <2>1, <2>2
  <1>13. ~ResizesHeld => FaultsContained'
    <2> SUFFICES ASSUME FaultsContained PROVE FaultsContained'
      BY DEF ShmInv
    <2>1. ASSUME NEW q \in Pools, NEW u \in Threads,
                 sigbus[u].current_pool = q, sigbus[u].fallback_mapping_used
          PROVE  sigbus'[u].current_pool = q /\ sigbus'[u].fallback_mapping_used
      BY <1>8, <1>9, <2>1, ShmAssumption
    <2> QED BY <1>1, <1>2, <2>1 DEF FaultsContained, TypeOK
  <1> QED BY <1>10, <1>11, <1>12, <1>13 DEF ShmInv, PoolInv
LEMMA EndAccessKeeps ==
  ASSUME ShmInv, NEW t \in Threads, end_access(t)
  PROVE  ShmInv'
  <1> DEFINE A == [buf : Buffers, moved : BOOLEAN]
             n == Len(access[t])
             last == sigbus[t].access_count = 1
  <1>1. UNCHANGED <<file, anonymous, pool, buffer, refs, client, killed>>
    BY DEF end_access, memVars
  <1>2. TypeOK /\ PoolLifetime /\ AccessInv /\ BuffersInPool
    BY DEF ShmInv, PoolInv
  <1>3. access \in [Threads -> Seq(A)] /\ access[t] \in Seq(A) /\ access[t] # <<>>
    BY <1>2 DEF TypeOK, end_access
  <1>4. access' = [access EXCEPT ![t] = SubSeq(@, 1, Len(@) - 1)]
    BY DEF end_access
  <1>5. sigbus[t].access_count = n /\ (last <=> n = 1)
    BY <1>2 DEF AccessInv
  <1> HIDE DEF A
  <1>6. /\ access' \in [Threads -> Seq(A)]
        /\ n \in Nat \ {0} /\ Len(access'[t]) = n - 1
        /\ \A i \in 1 .. n - 1 : access'[t][i] = access[t][i]
        /\ \A u \in Threads \ {t} : access'[u] = access[u]
    <2>1. n \in Nat \ {0}
      BY <1>3
    <2>2. /\ SubSeq(access[t], 1, n - 1) \in Seq(A)
          /\ Len(SubSeq(access[t], 1, n - 1)) = n - 1
          /\ \A i \in 1 .. n - 1 : SubSeq(access[t], 1, n - 1)[i] = access[t][i]
      <3> DEFINE m == n - 1
      <3>1. 1 \in Int /\ m \in Int /\ \A i \in 1 .. m : access[t][i] \in A
        BY <1>3, <2>1
      <3>2. m = (IF 1 <= m THEN m - 1 + 1 ELSE 0) /\ m - 1 + 1 = m
        BY <2>1
      <3>3. \A i \in 1 .. m : 1 + i - 1 = i
        BY <3>1
      <3> HIDE DEF m
      <3>4. /\ SubSeq(access[t], 1, m) \in Seq(A)
            /\ Len(SubSeq(access[t], 1, m)) = IF 1 <= m THEN m - 1 + 1 ELSE 0
            /\ \A i \in 1 .. m - 1 + 1 : SubSeq(access[t], 1, m)[i] = access[t][1 + i - 1]
        BY <3>1, SubSeqProperties
      <3> QED BY <3>2, <3>3, <3>4 DEF m
    <2> QED BY <1>3, <1>4, <2>1, <2>2
  <1>7. /\ sigbus' \in [Threads -> wl_shm_sigbus_data]
        /\ sigbus'[t].access_count = n - 1
        /\ ~last => /\ sigbus'[t].current_pool = sigbus[t].current_pool
                    /\ sigbus'[t].fallback_mapping_used = sigbus[t].fallback_mapping_used
        /\ \A u \in Threads \ {t} : sigbus'[u] = sigbus[u]
    <2>1. sigbus \in [Threads -> wl_shm_sigbus_data] /\ sigbus[t] \in wl_shm_sigbus_data
      BY <1>2 DEF TypeOK
    <2>2. n - 1 \in 0 .. MaxNesting
      BY <1>5, <1>6, <2>1, Bounds DEF wl_shm_sigbus_data
    <2>3. CASE last
      <3>1. sigbus' = [sigbus EXCEPT ![t] = NewData]
        BY <2>3 DEF end_access
      <3>2. NewData \in wl_shm_sigbus_data /\ NewData.access_count = 0
        BY Bounds DEF NewData, wl_shm_sigbus_data
      <3> QED BY <1>5, <2>1, <2>3, <3>1, <3>2
    <2>4. CASE ~last
      <3>1. sigbus' = [sigbus EXCEPT ![t].access_count = @ - 1]
        BY <2>4 DEF end_access
      <3>2. sigbus' = [sigbus EXCEPT ![t].access_count = n - 1]
        BY <1>5, <3>1
      <3>3. sigbus' \in [Threads -> wl_shm_sigbus_data]
        BY <2>1, <2>2, <3>2 DEF wl_shm_sigbus_data
      <3> QED BY <2>1, <3>2, <3>3 DEF wl_shm_sigbus_data
    <2> QED BY <2>3, <2>4
  <1>8. /\ error' \in {error, "refused"}
        /\ last /\ sigbus[t].fallback_mapping_used => error' = "refused"
    BY DEF end_access
  <1>9. TypeOK'
    <2>1. error' \in {"none", "refused", "failed"}
      BY <1>2, <1>8 DEF TypeOK
    <2> QED BY <1>1, <1>2, <1>6, <1>7, <2>1 DEF TypeOK, A
  <1>10. PoolLifetime' /\ BuffersInPool'
    BY <1>1, <1>2 DEF PoolLifetime, BuffersInPool
  <1>11. AccessInv'
    <2> SUFFICES ASSUME NEW u \in Threads
                 PROVE  /\ sigbus'[u].access_count = Len(access'[u])
                        /\ \A i \in 1 .. Len(access'[u]) :
                              /\ buffer[access'[u][i].buf].made
                              /\ buffer[access'[u][i].buf].pool = sigbus'[u].current_pool
                              /\ ~ResizesHeld => ~access'[u][i].moved
      BY <1>1, <1>2 DEF AccessInv
    <2>1. CASE u # t
      BY <1>2, <1>6, <1>7, <2>1 DEF AccessInv
    <2>2. CASE u = t
      <3>1. ASSUME NEW i \in 1 .. n - 1
            PROVE  /\ i \in 1 .. n /\ n # 1
                   /\ buffer[access[t][i].buf].made
                   /\ buffer[access[t][i].buf].pool = sigbus[t].current_pool
                   /\ ~ResizesHeld => ~access[t][i].moved
        <4>1. i \in 1 .. n /\ n # 1
          <5>1. n \in Nat \ {0}
            BY <1>6
          <5> HIDE DEF n
          <5> QED BY <5>1
        <4> QED BY <1>2, <4>1 DEF AccessInv
      <3> HIDE DEF n
      <3> QED BY <1>5, <1>6, <1>7, <2>2, <3>1
    <2> QED BY <2>1, <2>2
  <1>12. ~ResizesHeld => FaultsContained'
    <2> SUFFICES ASSUME FaultsContained PROVE FaultsContained'
      BY DEF ShmInv
    <2>1. ASSUME NEW u \in Threads, sigbus[u].fallback_mapping_used, error' # "refused"
          PROVE  sigbus'[u].current_pool = sigbus[u].current_pool
                 /\ sigbus'[u].fallback_mapping_used
      BY <1>7, <1>8, <2>1
    <2>2. error # "none" => error' # "none"
      BY <1>8
    <2> QED BY <1>1, <1>2, <2>1, <2>2 DEF FaultsContained, TypeOK
  <1> QED BY <1>9, <1>10, <1>11, <1>12 DEF ShmInv, PoolInv

\* The address is in the mapping, of the pool that the handler is told of.
LEMMA TouchKeeps ==
  ASSUME ShmInv, NEW t \in Threads, NEW k \in 0 .. INT32_MAX, Touch(t, k)
  PROVE  ShmInv'
  <1> DEFINE a == access[t][Len(access[t])]
             p == buffer[a.buf].pool
  <1>1. UNCHANGED <<file, pool, buffer, refs, access, error, client>>
    BY DEF Touch
  <1>2. TypeOK /\ PoolLifetime /\ AccessInv /\ BuffersInPool
    BY DEF ShmInv, PoolInv
  <1>3. Len(access[t]) \in 1 .. Len(access[t])
    <2>1. access[t] \in Seq([buf : Buffers, moved : BOOLEAN]) /\ access[t] # <<>>
      BY <1>2 DEF TypeOK, Touch
    <2> DEFINE A == [buf : Buffers, moved : BOOLEAN]
    <2> HIDE DEF A
    <2> QED BY <2>1 DEF A
  <1>4. a \in [buf : Buffers, moved : BOOLEAN]
    BY <1>2, <1>3, AccessesTyped
  <1>5. /\ a.buf \in Buffers /\ buffer[a.buf].made
        /\ p = sigbus[t].current_pool /\ p \in Pools
        /\ ~ResizesHeld => ~a.moved
    BY <1>2, <1>3, <1>4 DEF AccessInv
  <1>6. pool[p].made
    BY <1>2, <1>5, ReferenceHolds DEF BuffersOf
  <1>7. Page(a, k) < pool[p].size
    <2> DEFINE area == buffer[a.buf].stride * buffer[a.buf].height
    <2>1. k < area
      BY DEF Touch
    <2>2. /\ buffer[a.buf].offset \in Int /\ buffer[a.buf].stride \in Int
          /\ buffer[a.buf].height \in Int /\ pool[p].size \in Int /\ k \in Int
      <3>1. buffer[a.buf] \in wl_shm_buffer /\ pool[p] \in wl_shm_pool
        BY <1>2, <1>5 DEF TypeOK
      <3>2. k \in Int
        OBVIOUS
      <3> HIDE DEF a, p
      <3> QED BY <3>1, <3>2, Bounds DEF wl_shm_buffer, wl_shm_pool, Ints
    <2>3. area \in Int
      BY <2>2
    <2>4. buffer[a.buf].offset + area <= pool[p].size
      BY <1>2, <1>5 DEF BuffersInPool
    <2> HIDE DEF area, a
    <2> QED BY <2>1, <2>2, <2>3, <2>4 DEF Page
  <1>8. /\ ~ResizesHeld => UNCHANGED killed
        /\ killed' \in BOOLEAN
        /\ \/ UNCHANGED <<anonymous, sigbus>>
           \/ /\ anonymous' = anonymous \cup {p}
              /\ sigbus' = [sigbus EXCEPT ![t].fallback_mapping_used = TRUE]
    <2>1. ~(Page(a, k) >= pool[p].size)
      <3>1. Page(a, k) \in Int /\ pool[p].size \in Int
        <4>1. buffer[a.buf] \in wl_shm_buffer /\ pool[p] \in wl_shm_pool /\ k \in Int
          BY <1>2, <1>5 DEF TypeOK, Touch
        <4> HIDE DEF a, p
        <4> QED BY <4>1, Bounds DEF wl_shm_buffer, wl_shm_pool, Ints, Page
      <3> HIDE DEF a
      <3> QED BY <1>7, <3>1
    <2>2. killed \in BOOLEAN
      BY <1>2 DEF TypeOK
    <2> QED BY <1>5, <1>6, <2>1, <2>2 DEF Touch
  <1>9. /\ sigbus' \in [Threads -> wl_shm_sigbus_data]
        /\ \A u \in Threads :
              /\ sigbus'[u].current_pool = sigbus[u].current_pool
              /\ sigbus'[u].access_count = sigbus[u].access_count
              /\ sigbus[u].fallback_mapping_used => sigbus'[u].fallback_mapping_used
        /\ anonymous' # anonymous => sigbus'[t].fallback_mapping_used
        /\ anonymous' \subseteq anonymous \cup {p}
    <2>1. sigbus \in [Threads -> wl_shm_sigbus_data]
      BY <1>2 DEF TypeOK
    <2>2. CASE UNCHANGED <<anonymous, sigbus>>
      BY <2>1, <2>2
    <2>3. CASE /\ anonymous' = anonymous \cup {p}
               /\ sigbus' = [sigbus EXCEPT ![t].fallback_mapping_used = TRUE]
      <3>1. sigbus' \in [Threads -> wl_shm_sigbus_data]
        BY <2>1, <2>3 DEF wl_shm_sigbus_data
      <3>2. sigbus'[t].fallback_mapping_used
        BY <2>1, <2>3 DEF wl_shm_sigbus_data
      <3> HIDE DEF p
      <3> QED BY <2>1, <2>3, <3>1, <3>2 DEF wl_shm_sigbus_data
    <2> QED BY <1>8, <2>2, <2>3
  <1> HIDE DEF a, p
  <1>10. TypeOK'
    BY <1>1, <1>2, <1>5, <1>8, <1>9 DEF TypeOK
  <1>11. PoolLifetime' /\ AccessInv' /\ BuffersInPool'
    BY <1>1, <1>2, <1>9 DEF PoolLifetime, AccessInv, BuffersInPool
  <1>12. ~ResizesHeld => FaultsContained'
    <2> SUFFICES ASSUME ~ResizesHeld, FaultsContained PROVE FaultsContained'
      BY DEF ShmInv
    <2>1. ~killed'
      BY <1>8 DEF FaultsContained
    <2>2. ASSUME NEW q \in anonymous', pool[q].made
          PROVE  \/ error # "none" \/ client # "open"
                 \/ \E u \in Threads : sigbus'[u].current_pool = q
                                       /\ sigbus'[u].fallback_mapping_used
      <3>1. CASE q \in anonymous
        BY <1>9, <2>2, <3>1 DEF FaultsContained
      <3>2. CASE q \notin anonymous
        BY <1>5, <1>9, <2>2, <3>2
      <3> QED BY <3>1, <3>2
    <2> QED BY <1>1, <2>1, <2>2 DEF FaultsContained
  <1> QED BY <1>10, <1>11, <1>12 DEF ShmInv, PoolInv

-----------------------------------------------------------------------------
LEMMA ClientKeeps ==
  ASSUME ShmInv, AnyClient
  PROVE  ShmInv'
  <1>1. Sizes \subseteq Ints
    BY ShmAssumption DEF Ints
  <1> QED BY <1>1, CreatePoolKeeps, ResizeKeeps, TruncateKeeps, CreateBufferKeeps,
             DestroyPoolKeeps, DestroyBufferKeeps DEF AnyClient, Destructors

LEMMA CompositorKeeps ==
  ASSUME ShmInv, Compositor
  PROVE  ShmInv'
  BY ClientDiesKeeps, DestroyPoolKeeps, DestroyBufferKeeps, UnrefPoolKeeps, RefPoolKeeps,
     BeginAccessKeeps, EndAccessKeeps, TouchKeeps DEF Compositor, Destructors

LEMMA ShmAlways == Spec => []ShmInv
  <1>1. ShmInv /\ UNCHANGED vars => ShmInv'
    <2> SUFFICES ASSUME ShmInv, UNCHANGED vars PROVE ShmInv'
      OBVIOUS
    <2>1. UNCHANGED <<file, anonymous, pool, buffer, refs, sigbus, access, error, client, killed>>
      BY DEF vars, memVars, threadVars
    <2> QED BY <2>1 DEF ShmInv, PoolInv, TypeOK, PoolLifetime, AccessInv, BuffersInPool,
                        FaultsContained
  <1>2. ShmInv /\ [Next]_vars => ShmInv'
    BY <1>1, ClientKeeps, CompositorKeeps DEF Next
  <1> HIDE DEF ShmInv
  <1> QED BY InitShm, <1>2, PTL DEF Spec

\* wl_shm_pool keeps the mapping (shm_pool_unref) as long as its resource, a buffer
\* of it or the compositor refers to it, whatever the client requests and in
\* whatever order the objects go, and wl_shm_sigbus_data says of every thread what
\* it accesses.
THEOREM PoolsLiveAsLongAsReferred == Spec => []PoolInv
  BY ShmAlways, PTL DEF ShmInv

\* shm_pool_create_buffer and shm_pool_resize leave every buffer in its pool's
\* mapping, for any integers a client sends and for integers of any width.
THEOREM BuffersStayInPool == Spec => []BuffersInPool
  BY ShmAlways, PTL DEF ShmInv

\* While the compositor holds a pool that it accesses, no access to a buffer ends
\* it, however many threads access and whatever the client does to its file:
\* sigbus_handler gets every fault, and wl_shm_buffer_end_access reports it.
THEOREM NoFaultKills ==
  ASSUME ~ResizesHeld
  PROVE  Spec => []FaultsContained
  <1>1. ShmInv => FaultsContained
    BY DEF ShmInv
  <1> QED BY <1>1, ShmAlways, PTL
-----------------------------------------------------------------------------
\* The cursor library as the client

\* The largest image
Largest ==
  CHOOSE largest \in 0 .. INT32_MAX :
    /\ \A n \in ImageSizes : n <= largest
    /\ largest * (2 * MaxImages + 1) <= INT32_MAX

\* Requests that say how long the pool is
Sizing(q) == q.op \in {"create_pool", "resize"}

\* What a theme and the requests of the library look like: the pool grows, and
\* stays below INT32_MAX.
ThemeInv ==
  /\ theme.used <= theme.size /\ theme.size <= INT32_MAX
  /\ theme.pool = NoPool => wire = <<>> /\ images = {} /\ theme.size = 0
  /\ theme.stage \in {"loading", "loaded"} => theme.pool \in Pools
  /\ theme.stage = "none" => theme.pool = NoPool
  /\ theme.stage = "loading" =>
        /\ IsFiniteSet(images) /\ Cardinality(images) \in 0 .. MaxImages
        /\ theme.used <= Largest * Cardinality(images)
        /\ theme.size <= Largest * (2 * Cardinality(images) + 1)
        /\ theme.size > 0
  /\ \A i \in images : i.offset + i.size <= theme.used
  /\ \A i, j \in images :
        i # j => i.offset + i.size <= j.offset \/ j.offset + j.size <= i.offset
  /\ \A k \in 1 .. Len(wire) :
        /\ wire[k].op \in {"create_pool", "resize", "destroy_pool"} => wire[k].id = theme.pool
        /\ wire[k].op \in {"create_buffer", "destroy_buffer"} => wire[k].id \in Buffers
        /\ wire[k].size <= INT32_MAX /\ wire[k].offset <= INT32_MAX

\* No page is missing, and no request in the wire will be refused.
RequestInv ==
  /\ theme.stage = "loading" => theme.mapped
  /\ error # "refused" /\ anonymous = {}
  /\ \A t \in Threads : ~sigbus[t].fallback_mapping_used
  /\ \A p \in Pools : pool[p].size <= file[p] /\ (p # theme.pool => pool[p].size = 0)
  /\ theme.pool \in Pools =>
        pool[theme.pool].size <= theme.size /\ theme.size <= file[theme.pool]
  /\ \A k \in 1 .. Len(wire) :
        /\ Sizing(wire[k]) =>
              /\ 0 < wire[k].size /\ wire[k].size <= theme.size
              /\ pool[theme.pool].size <= wire[k].size
              /\ \A j \in 1 .. k - 1 : Sizing(wire[j]) => wire[j].size <= wire[k].size
        /\ wire[k].op = "create_buffer" =>
              /\ theme.stage # "loading"
              /\ wire[k].size > 0 /\ 2 * wire[k].size <= INT32_MAX
              /\ wire[k].offset + wire[k].size <= theme.size
              /\ \A j \in k + 1 .. Len(wire) : ~Sizing(wire[j])
  /\ error = "none" /\ client = "open" /\ theme.pool \in Pools =>
        \/ pool[theme.pool].size = theme.size
        \/ \E k \in 1 .. Len(wire) : Sizing(wire[k]) /\ wire[k].size = theme.size

LibraryInv ==
  /\ ShmInv /\ LibTypeOK
  /\ library => ThemeInv /\ (~MmapFails => RequestInv)


WireSet == [op : {"create_pool", "resize", "create_buffer", "destroy_buffer", "destroy_pool"},
            id : Pools \cup Buffers, offset : Nat, size : Nat]

ImageSet == [offset : Nat, size : ImageSizes, buffer : Buffers \cup {NoId}]

LEMMA LargestSize ==
  /\ Largest \in 0 .. INT32_MAX /\ Largest \in Nat /\ INT32_MAX \in Nat \ {0}
  /\ MaxImages \in Nat \ {0}
  /\ \A n \in ImageSizes : n \in Nat \ {0} /\ n <= Largest
  /\ Largest * (2 * MaxImages + 1) <= INT32_MAX
  <1>1. /\ INT32_MAX \in Nat \ {0} /\ MaxImages \in Nat \ {0} /\ ImageSizes \subseteq Nat \ {0}
        /\ \E largest \in 0 .. INT32_MAX :
              /\ \A n \in ImageSizes : n <= largest
              /\ largest * (2 * MaxImages + 1) <= INT32_MAX
    BY ShmAssumption, CursorAssumption
  <1>2. /\ Largest \in 0 .. INT32_MAX
        /\ \A n \in ImageSizes : n <= Largest
        /\ Largest * (2 * MaxImages + 1) <= INT32_MAX
    BY <1>1, Zenon DEF Largest
  <1> QED BY <1>1, <1>2

\* The pool is at most doubled when an image does not fit.
LEMMA GrowthIsBounded ==
  ASSUME NEW c \in Nat, c < MaxImages, NEW n \in ImageSizes, NEW used \in Nat, NEW size \in Nat,
         used <= Largest * c, size <= Largest * (2 * c + 1)
  PROVE  /\ used + n <= Largest * (c + 1)
         /\ used + n > size => 2 * size + n <= Largest * (2 * (c + 1) + 1)
         /\ Largest * (2 * c + 1) <= Largest * (2 * (c + 1) + 1)
         /\ Largest * (2 * (c + 1) + 1) <= INT32_MAX
         /\ 2 * n <= INT32_MAX
  <1>1. /\ Largest \in Nat /\ MaxImages \in Nat /\ n \in Nat /\ n <= Largest
        /\ Largest * (2 * MaxImages + 1) <= INT32_MAX /\ INT32_MAX \in Nat
    BY LargestSize
  <1> DEFINE L == Largest
             x == L * c
             d == MaxImages - (c + 1)
  <1>2. d \in Nat /\ x \in Nat /\ L * d \in Nat
    BY <1>1
  <1>3. /\ L * (c + 1) = x + L
        /\ L * (2 * c + 1) = 2 * x + L
        /\ L * (2 * (c + 1) + 1) = 2 * x + 3 * L
        /\ L * (2 * MaxImages + 1) = 2 * x + 3 * L + 2 * (L * d)
    BY <1>1, <1>2
  <1> HIDE DEF L, x, d
  <1> QED BY <1>1, <1>2, <1>3 DEF L, x

LEMMA LibraryInit == CursorInit => LibraryInv
  <1> SUFFICES ASSUME CursorInit PROVE LibraryInv
    OBVIOUS
  <1>1. /\ ShmInv /\ theme = NoTheme /\ images = {} /\ wire = <<>> /\ library \in BOOLEAN
        /\ error = "none" /\ anonymous = {}
        /\ \A t \in Threads : sigbus[t] = NewData
        /\ \A p \in Pools : pool[p].size = 0 /\ file[p] = 0
    BY InitShm DEF CursorInit, Init
  <1>2. LibTypeOK
    BY <1>1 DEF LibTypeOK, NoTheme
  <1>3. NoPool \notin Pools /\ INT32_MAX \in Nat
    BY ShmAssumption
  <1>4. ThemeInv
    BY <1>1, <1>3 DEF ThemeInv, NoTheme
  <1>5. RequestInv
    BY <1>1, <1>3 DEF RequestInv, NoTheme, NewData
  <1> QED BY <1>1, <1>2, <1>4, <1>5 DEF LibraryInv

-----------------------------------------------------------------------------
\* The compositor's steps, with the library as the client

\* No pool changes its size, and nothing is refused.
Unrefused ==
  /\ file' = file /\ anonymous' = anonymous
  /\ \A p \in Pools : pool'[p].size = pool[p].size
  /\ \A t \in Threads : sigbus'[t].fallback_mapping_used => sigbus[t].fallback_mapping_used
  /\ error' \in {error, "none"}
  /\ error' = "none" /\ client' = "open" => error = "none" /\ client = "open"

LEMMA UnrefKeepsSizes ==
  ASSUME TypeOK, NEW p, shm_pool_unref(p)
  PROVE  \A q \in Pools : pool'[q].size = pool[q].size
  BY DEF TypeOK, shm_pool_unref, wl_shm_pool

LEMMA CompositorUnrefused ==
  ASSUME ShmInv, RequestInv, theme.pool \in Pools \cup {NoPool}, Compositor
  PROVE  Unrefused
  <1>0. TypeOK /\ AccessInv
    BY DEF ShmInv, PoolInv
  <1>1. CASE ClientDies
    BY <1>1 DEF ClientDies, Unrefused, memVars, threadVars
  <1>2. ASSUME NEW p \in Pools, DestroyPool(p) PROVE Unrefused
    <2>1. \A q \in Pools : pool'[q].size = pool[q].size
      BY <1>0, <1>2 DEF TypeOK, DestroyPool, wl_shm_pool
    <2> QED BY <1>2, <2>1 DEF DestroyPool, Unrefused, memVars, threadVars
  <1>3. ASSUME NEW b \in Buffers, DestroyBuffer(b) PROVE Unrefused
    <2>1. \A q \in Pools : pool'[q].size = pool[q].size
      BY <1>0, <1>3, UnrefKeepsSizes DEF DestroyBuffer
    <2> QED BY <1>3, <2>1 DEF DestroyBuffer, Unrefused, memVars, threadVars
  <1>4. ASSUME NEW p \in Pools, UnrefPool(p) PROVE Unrefused
    <2>1. \A q \in Pools : pool'[q].size = pool[q].size
      BY <1>0, <1>4, UnrefKeepsSizes DEF UnrefPool
    <2> QED BY <1>4, <2>1 DEF UnrefPool, Unrefused, memVars, threadVars
  <1>5. ASSUME NEW b \in Buffers, RefPool(b) PROVE Unrefused
    <2>1. \A q \in Pools : pool'[q].size = pool[q].size
      BY <1>0, <1>5 DEF TypeOK, RefPool, wl_shm_pool
    <2> QED BY <1>5, <2>1 DEF RefPool, Unrefused, memVars, threadVars
  <1>6. ASSUME NEW t \in Threads, NEW b \in Buffers, begin_access(t, b) PROVE Unrefused
    <2>1. \A u \in Threads : sigbus'[u].fallback_mapping_used = sigbus[u].fallback_mapping_used
      BY <1>0, <1>6 DEF TypeOK, begin_access, wl_shm_sigbus_data
    <2> QED BY <1>6, <2>1 DEF begin_access, Unrefused, memVars
  <1>7. ASSUME NEW t \in Threads, end_access(t) PROVE Unrefused
    <2>1. \A u \in Threads :
             sigbus'[u].fallback_mapping_used => sigbus[u].fallback_mapping_used
      BY <1>0, <1>7 DEF TypeOK, end_access, wl_shm_sigbus_data, NewData
    <2>2. ~sigbus[t].fallback_mapping_used
      BY DEF RequestInv
    <2>3. error' = error
      BY <1>7, <2>2 DEF end_access
    <2> QED BY <1>7, <2>1, <2>3 DEF end_access, Unrefused, memVars
  <1>8. ASSUME NEW t \in Threads, NEW k \in 0 .. INT32_MAX, Touch(t, k) PROVE Unrefused
    <2> DEFINE a == access[t][Len(access[t])]
               p == buffer[a.buf].pool
               n == Page(a, k)
    <2>1. Len(access[t]) \in 1 .. Len(access[t])
      BY <1>0, <1>8 DEF TypeOK, Touch
    <2>2. a.buf \in Buffers /\ buffer[a.buf].made /\ p \in Pools
      BY <1>0, <2>1, AccessesTyped DEF AccessInv
    <2>3. n \in Int /\ pool[p].size \in Nat /\ file[p] \in Nat /\ pool[p].size <= file[p]
      <3>1. buffer[a.buf] \in wl_shm_buffer /\ pool[p] \in wl_shm_pool /\ INT32_MAX \in Nat
        BY <1>0, <2>2, Bounds DEF TypeOK
      <3>2. pool[p].size <= file[p] /\ file[p] \in Nat
        BY <1>0, <2>2 DEF RequestInv, TypeOK
      <3> QED BY <3>1, <3>2 DEF wl_shm_buffer, wl_shm_pool, Page, Ints
    <2>4. UNCHANGED <<anonymous, sigbus>>
      <3> HIDE DEF a, p, n
      <3>1. ~(n >= pool[p].size) => n < file[p]
        BY <2>3
      <3> QED BY <1>8, <3>1 DEF Touch, a, p, n
    <2> QED BY <1>8, <2>4 DEF Touch, Unrefused
  <1> QED BY <1>1, <1>2, <1>3, <1>4, <1>5, <1>6, <1>7, <1>8 DEF Compositor, Destructors

LEMMA ServedKeeps ==
  ASSUME LibraryInv, Compositor, UNCHANGED libVars
  PROVE  LibraryInv'
  <1>1. ShmInv'
    BY CompositorKeeps DEF LibraryInv
  <1>2. UNCHANGED <<library, theme, images, wire>>
    BY DEF libVars
  <1>3. LibTypeOK' /\ (library => ThemeInv')
    BY <1>2 DEF LibraryInv, LibTypeOK, ThemeInv
  <1>4. ASSUME library, ~MmapFails PROVE RequestInv'
    <2>1. RequestInv /\ Unrefused /\ ThemeInv /\ theme.pool \in Pools \cup {NoPool}
      BY <1>4, CompositorUnrefused DEF LibraryInv, LibTypeOK
    <2>2. \A k \in 1 .. Len(wire) : Sizing(wire[k]) => theme.pool \in Pools
      BY <2>1 DEF ThemeInv
    <2>3. pool'[theme.pool].size = pool[theme.pool].size \/ theme.pool \notin Pools
      BY <2>1 DEF Unrefused
    <2> QED BY <1>2, <2>1, <2>2, <2>3 DEF RequestInv, Unrefused, Sizing
  <1> QED BY <1>1, <1>2, <1>3, <1>4 DEF LibraryInv

LEMMA OtherClientKeeps ==
  ASSUME LibraryInv, ~library, AnyClient, UNCHANGED libVars
  PROVE  LibraryInv'
  <1>1. ShmInv'
    BY ClientKeeps DEF LibraryInv
  <1> QED BY <1>1 DEF LibraryInv, LibTypeOK, libVars

-----------------------------------------------------------------------------
\* The library's own steps

LEMMA FileChanges ==
  ASSUME ShmInv, UNCHANGED Compositors, file' \in [Pools -> Nat]
  PROVE  ShmInv'
  <1>1. UNCHANGED <<anonymous, pool, buffer, refs, sigbus, access, error, client, killed>>
    BY DEF Compositors, threadVars
  <1>2. TypeOK'
    BY <1>1 DEF ShmInv, PoolInv, TypeOK
  <1> QED BY <1>1, <1>2 DEF ShmInv, PoolInv, PoolLifetime, AccessInv, BuffersInPool,
             FaultsContained

LEMMA Sent ==
  ASSUME LibTypeOK, NEW q \in WireSet
  PROVE  LET s == Append(wire, q)
         IN  /\ s \in Seq(WireSet) /\ Len(s) = Len(wire) + 1 /\ Len(wire) \in Nat
             /\ \A k \in 1 .. Len(wire) : s[k] = wire[k] /\ wire[k] \in WireSet
             /\ s[Len(wire) + 1] = q
  <1>1. wire \in Seq(WireSet)
    BY DEF LibTypeOK, WireSet
  <1> QED BY <1>1

LEMMA LoadKeeps ==
  ASSUME LibraryInv, NEW p \in Pools, NEW n \in ImageSizes, wl_cursor_theme_load(p, n)
  PROVE  LibraryInv'
  <1>0. /\ library /\ ShmInv /\ LibTypeOK /\ ThemeInv /\ theme.stage = "none"
        /\ UNCHANGED Compositors /\ UNCHANGED <<library, images>>
        /\ p # NoPool /\ NoPool \notin Pools /\ TypeOK
    BY ShmAssumption DEF LibraryInv, wl_cursor_theme_load, Runs, ShmInv, PoolInv
  <1>1. /\ n \in Nat \ {0} /\ n <= Largest /\ Largest \in Nat /\ INT32_MAX \in Nat
        /\ Largest <= INT32_MAX
    BY LargestSize
  <1>2. UNCHANGED <<anonymous, pool, buffer, refs, sigbus, access, error, client, killed>>
    BY <1>0 DEF Compositors, threadVars
  <1>3. theme.pool = NoPool /\ wire = <<>> /\ images = {} /\ theme.size = 0 /\ theme.used = 0
    BY <1>0, <1>1 DEF ThemeInv, LibTypeOK
  <1>4. CASE /\ theme' = [theme EXCEPT !.stage = "gone"]
             /\ UNCHANGED <<file, wire>>
    <2>1. ShmInv'
      BY <1>0, <1>4, FileChanges DEF TypeOK
    <2>2. LibTypeOK'
      BY <1>0, <1>4 DEF LibTypeOK
    <2>3. /\ theme'.stage = "gone" /\ theme'.pool = NoPool /\ theme'.size = 0
          /\ theme'.used = 0 /\ wire' = <<>> /\ images' = {}
      BY <1>0, <1>3, <1>4 DEF LibTypeOK
    <2>4. ThemeInv'
      BY <1>0, <1>1, <2>3 DEF ThemeInv
    <2>5. ~MmapFails => RequestInv'
      BY <1>0, <1>2, <1>3, <1>4, <2>3 DEF LibraryInv, RequestInv, Sizing
    <2> QED BY <2>1, <2>2, <2>4, <2>5 DEF LibraryInv
  <1>5. CASE /\ file' = [file EXCEPT ![p] = n]
             /\ theme' = [stage |-> "loading", pool |-> p, size |-> n, used |-> 0, mapped |-> TRUE]
             /\ wire' = Append(wire, Req("create_pool", p, 0, n))
    <2> DEFINE q == Req("create_pool", p, 0, n)
    <2>1. q \in WireSet /\ q.op = "create_pool" /\ q.id = p /\ q.offset = 0 /\ q.size = n
      BY <1>1 DEF Req, WireSet
    <2> HIDE DEF q
    <2>2. wire' \in Seq(WireSet) /\ Len(wire') = 1 /\ wire'[1] = q
      BY <1>3, <1>5, <2>1 DEF q
    <2>3. ShmInv'
      <3>1. file' \in [Pools -> Nat]
        BY <1>0, <1>1, <1>5 DEF TypeOK
      <3> QED BY <1>0, <3>1, FileChanges
    <2>4. LibTypeOK'
      BY <1>0, <1>1, <1>3, <1>5, <2>2 DEF LibTypeOK, WireSet
    <2>5. IsFiniteSet({}) /\ Cardinality({}) = 0
      BY FS_EmptySet
    <2>6. Largest * 0 = 0 /\ Largest * (2 * 0 + 1) = Largest /\ 0 \in 0 .. MaxImages
      BY <1>1, LargestSize
    <2>7. ThemeInv'
      BY <1>0, <1>1, <1>3, <1>5, <2>1, <2>2, <2>5, <2>6 DEF ThemeInv
    <2>8. ASSUME ~MmapFails PROVE RequestInv'
      <3>1. RequestInv
        BY <1>0, <2>8 DEF LibraryInv
      <3>2. \A r \in Pools : pool[r].size = 0
        BY <1>0, <1>3, <3>1 DEF RequestInv
      <3>3. file' = [r \in Pools |-> IF r = p THEN n ELSE file[r]]
        BY <1>0, <1>5 DEF TypeOK
      <3>4. \A r \in Pools : 0 <= file'[r]
        BY <1>0, <1>1, <3>3 DEF TypeOK
      <3> QED BY <1>0, <1>1, <1>2, <1>3, <1>5, <2>1, <2>2, <3>1, <3>2, <3>3, <3>4
              DEF RequestInv, Sizing
    <2> QED BY <1>0, <2>3, <2>4, <2>7, <2>8 DEF LibraryInv
  <1> QED BY <1>4, <1>5 DEF wl_cursor_theme_load

LEMMA LoadedKeeps ==
  ASSUME LibraryInv, Loaded
  PROVE  LibraryInv'
  <1>0. /\ library /\ ShmInv /\ LibTypeOK /\ ThemeInv /\ theme.stage = "loading" /\ TypeOK
        /\ UNCHANGED Compositors /\ UNCHANGED <<file, library, images, wire>>
        /\ theme' = [theme EXCEPT !.stage = "loaded"]
    BY DEF LibraryInv, Loaded, Runs, ShmInv, PoolInv
  <1>1. ShmInv'
    BY <1>0, FileChanges DEF TypeOK
  <1>2. LibTypeOK'
    BY <1>0 DEF LibTypeOK
  <1>3. /\ theme'.stage = "loaded" /\ theme'.pool = theme.pool /\ theme'.size = theme.size
        /\ theme'.used = theme.used
    BY <1>0 DEF LibTypeOK
  <1>4. ThemeInv'
    BY <1>0, <1>3 DEF ThemeInv
  <1>5. UNCHANGED <<anonymous, pool, buffer, refs, sigbus, access, error, client, killed>>
    BY <1>0 DEF Compositors, threadVars
  <1>6. ~MmapFails => RequestInv'
    BY <1>0, <1>3, <1>5 DEF LibraryInv, RequestInv, Sizing
  <1> QED BY <1>1, <1>2, <1>4, <1>6 DEF LibraryInv

\* An image that is put behind those there are.
LEMMA ImageAdded ==
  ASSUME LibTypeOK, ThemeInv, theme.stage = "loading", Cardinality(images) < MaxImages,
         NEW n \in ImageSizes
  PROVE  LET s == images \cup {Image(theme.used, n)}
         IN  /\ s \subseteq ImageSet
             /\ IsFiniteSet(s) /\ Cardinality(s) = Cardinality(images) + 1
             /\ \A i \in s : i.offset + i.size <= theme.used + n
             /\ \A i, j \in s :
                   i # j => i.offset + i.size <= j.offset \/ j.offset + j.size <= i.offset
  <1> DEFINE x == Image(theme.used, n)
             s == images \cup {x}
  <1>1. /\ theme.used \in Nat /\ n \in Nat \ {0} /\ images \subseteq ImageSet
    BY LargestSize DEF LibTypeOK, ImageSet
  <1>2. x \in ImageSet /\ x.offset = theme.used /\ x.size = n
    BY <1>1 DEF Image, ImageSet
  <1>3. \A i \in images : /\ i.offset \in Nat /\ i.size \in Nat \ {0}
                          /\ i.offset + i.size <= theme.used
    BY <1>1, LargestSize DEF ThemeInv, ImageSet
  <1>4. x \notin images
    BY <1>1, <1>2, <1>3
  <1>5. IsFiniteSet(images)
    BY DEF ThemeInv
  <1> HIDE DEF x
  <1>6. IsFiniteSet(s) /\ Cardinality(s) = Cardinality(images) + 1
    BY <1>4, <1>5, FS_AddElement
  <1>7. \A i \in s : i.offset + i.size <= theme.used + n
    BY <1>1, <1>2, <1>3
  <1>8. ASSUME NEW i \in s, NEW j \in s, i # j
        PROVE  i.offset + i.size <= j.offset \/ j.offset + j.size <= i.offset
    <2>1. CASE i \in images /\ j \in images
      BY <1>8, <2>1 DEF ThemeInv
    <2>2. CASE i = x
      BY <1>2, <1>3, <1>8, <2>2
    <2>3. CASE j = x
      BY <1>2, <1>3, <1>8, <2>3
    <2> QED BY <2>1, <2>2, <2>3
  <1> QED BY <1>1, <1>2, <1>6, <1>7, <1>8 DEF x

\* What shm_pool_allocate finds and may do.
LEMMA GrownSize ==
  ASSUME LibTypeOK, ThemeInv, theme.stage = "loading", Cardinality(images) < MaxImages,
         NEW n \in ImageSizes
  PROVE  /\ theme.size \in Nat \ {0} /\ theme.used \in Nat /\ n \in Nat \ {0}
         /\ theme.pool \in Pools
         /\ Grown(n) \in Nat /\ theme.size < Grown(n) /\ theme.used + n <= Grown(n)
         /\ theme.used + n <= Largest * (Cardinality(images) + 1)
         /\ theme.size <= Largest * (2 * (Cardinality(images) + 1) + 1)
         /\ theme.used + n > theme.size =>
               /\ Grown(n) <= Largest * (2 * (Cardinality(images) + 1) + 1)
               /\ Grown(n) <= INT32_MAX
         /\ Cardinality(images) + 1 \in 0 .. MaxImages
  <1> DEFINE c == Cardinality(images)
  <1>1. /\ theme.size \in Nat \ {0} /\ theme.used \in Nat /\ theme.used <= theme.size
        /\ theme.pool \in Pools /\ c \in Nat /\ c < MaxImages /\ c + 1 \in 0 .. MaxImages
        /\ theme.used <= Largest * c /\ theme.size <= Largest * (2 * c + 1)
    <2>1. /\ theme.size \in Nat /\ theme.used \in Nat
      BY DEF LibTypeOK
    <2>2. /\ theme.size > 0 /\ theme.used <= theme.size
          /\ theme.pool \in Pools /\ c \in 0 .. MaxImages
          /\ theme.used <= Largest * c /\ theme.size <= Largest * (2 * c + 1)
      BY DEF ThemeInv
    <2>3. MaxImages \in Nat /\ c < MaxImages
      BY LargestSize
    <2> HIDE DEF c
    <2>4. c \in Nat /\ c + 1 \in 0 .. MaxImages
      BY <2>2, <2>3
    <2> QED BY <2>1, <2>2, <2>3, <2>4
  <1>2. /\ n \in Nat \ {0} /\ Largest \in Nat /\ INT32_MAX \in Nat
    BY LargestSize
  <1> HIDE DEF c
  <1>3. /\ theme.used + n <= Largest * (c + 1)
        /\ theme.used + n > theme.size => 2 * theme.size + n <= Largest * (2 * (c + 1) + 1)
        /\ Largest * (2 * c + 1) <= Largest * (2 * (c + 1) + 1)
        /\ Largest * (2 * (c + 1) + 1) <= INT32_MAX
    BY <1>1, GrowthIsBounded
  <1> DEFINE a == Largest * (2 * c + 1)
             b == Largest * (2 * (c + 1) + 1)
  <1>4. a \in Nat /\ b \in Nat
    BY <1>1, <1>2
  <1>5. theme.size <= a /\ a <= b /\ b <= INT32_MAX
        /\ (theme.used + n > theme.size => 2 * theme.size + n <= b)
    BY <1>1, <1>3
  <1>6. theme.used + n <= Largest * (c + 1)
    BY <1>3
  <1> HIDE DEF a, b
  <1>7. /\ theme.size <= b
        /\ theme.used + n > theme.size => Grown(n) <= b /\ Grown(n) <= INT32_MAX
        /\ Grown(n) \in Nat /\ theme.size < Grown(n) /\ theme.used + n <= Grown(n)
    BY <1>1, <1>2, <1>4, <1>5 DEF Grown
  <1> QED BY <1>1, <1>2, <1>6, <1>7 DEF b, c

\* A file that is at least as long as the theme's pool
LEMMA FileGrows ==
  ASSUME LibraryInv, theme.pool \in Pools, UNCHANGED Compositors, NEW n \in Nat, theme.size <= n,
         file' \in {file, [file EXCEPT ![theme.pool] = n]}
  PROVE  /\ ShmInv'
         /\ RequestInv => /\ \A p \in Pools : pool'[p].size <= file'[p]
                          /\ theme.size <= file'[theme.pool]
  <1>0. ShmInv /\ TypeOK /\ LibTypeOK
    BY DEF LibraryInv, ShmInv, PoolInv
  <1>1. pool' = pool
    BY DEF Compositors
  <1>2. file' \in [Pools -> Nat]
    BY <1>0 DEF TypeOK
  <1>3. ASSUME RequestInv
        PROVE  /\ \A p \in Pools : pool'[p].size <= file'[p]
               /\ theme.size <= file'[theme.pool]
    <2>1. theme.size \in Nat /\ theme.size <= file[theme.pool]
      BY <1>0, <1>3 DEF LibTypeOK, RequestInv
    <2>2. \A p \in Pools : pool[p].size <= file[p]
      BY <1>3 DEF RequestInv
    <2>3. CASE file' = file
      BY <1>1, <2>1, <2>2, <2>3
    <2>4. CASE file' = [file EXCEPT ![theme.pool] = n]
      <3>1. /\ file'[theme.pool] = n
            /\ \A p \in Pools \ {theme.pool} : file'[p] = file[p]
        BY <1>0, <2>4 DEF TypeOK
      <3>2. pool[theme.pool].size <= theme.size
        BY <1>3 DEF RequestInv
      <3>3. pool[theme.pool].size \in Nat
        BY <1>0, Bounds DEF TypeOK, wl_shm_pool
      <3> QED BY <1>1, <2>1, <2>2, <3>1, <3>2, <3>3
    <2> QED BY <2>3, <2>4
  <1> QED BY <1>0, <1>2, <1>3, FileChanges

LEMMA CreateImageKeeps ==
  ASSUME LibraryInv, NEW n \in ImageSizes, CreateImage(n)
  PROVE  LibraryInv'
  <1> DEFINE c == Cardinality(images)
             x == Image(theme.used, n)
  <1>0. /\ library /\ library' = library /\ ShmInv /\ LibTypeOK /\ ThemeInv /\ TypeOK
        /\ theme.stage = "loading" /\ c < MaxImages
        /\ UNCHANGED Compositors
        /\ ~MmapFails => RequestInv
    BY DEF LibraryInv, CreateImage, Runs, ShmInv, PoolInv
  <1>1. UNCHANGED <<anonymous, pool, buffer, refs, sigbus, access, error, client, killed>>
    BY <1>0 DEF Compositors, threadVars
  <1>2. /\ theme.size \in Nat \ {0} /\ theme.used \in Nat /\ n \in Nat \ {0}
        /\ theme.pool \in Pools /\ theme.pool # NoPool
        /\ Grown(n) \in Nat /\ theme.size < Grown(n) /\ theme.used + n <= Grown(n)
        /\ theme.used + n <= Largest * (c + 1)
        /\ theme.size <= Largest * (2 * (c + 1) + 1)
        /\ theme.used + n > theme.size =>
              /\ Grown(n) <= Largest * (2 * (c + 1) + 1)
              /\ Grown(n) <= INT32_MAX
        /\ c + 1 \in 0 .. MaxImages
    BY <1>0, GrownSize, ShmAssumption
  <1>3. LET s == images \cup {x}
        IN  /\ s \subseteq ImageSet
            /\ IsFiniteSet(s) /\ Cardinality(s) = c + 1
            /\ \A i \in s : i.offset + i.size <= theme.used + n
            /\ \A i, j \in s :
                  i # j => i.offset + i.size <= j.offset \/ j.offset + j.size <= i.offset
    BY <1>0, ImageAdded
  <1>4. theme.size <= INT32_MAX /\ INT32_MAX \in Nat
    BY LargestSize, <1>0 DEF ThemeInv
  <1> DEFINE q == Req("resize", theme.pool, 0, Grown(n))
  <1>5. q \in WireSet /\ q.op = "resize" /\ q.id = theme.pool /\ q.offset = 0 /\ q.size = Grown(n)
    BY <1>2 DEF Req, WireSet
  <1> HIDE DEF c, x, q
  <1>6. CASE /\ theme.used + n <= theme.size /\ theme.mapped
             /\ images' = images \cup {x}
             /\ theme' = [theme EXCEPT !.used = @ + n]
             /\ UNCHANGED <<file, wire>>
    <2>1. ShmInv'
      BY <1>0, <1>6, FileChanges DEF TypeOK
    <2>2. /\ theme'.stage = theme.stage /\ theme'.pool = theme.pool /\ theme'.size = theme.size
          /\ theme'.used = theme.used + n /\ theme'.mapped = theme.mapped
      BY <1>0, <1>6 DEF LibTypeOK
    <2>3. LibTypeOK'
      <3>1. images' \subseteq ImageSet
        BY <1>3, <1>6
      <3>2. theme.used + n \in Nat
        BY <1>2
      <3> QED BY <1>0, <1>6, <3>1, <3>2 DEF LibTypeOK, ImageSet
    <2>4. ThemeInv'
      BY <1>0, <1>2, <1>3, <1>4, <1>6, <2>2 DEF ThemeInv
    <2>5. ~MmapFails => RequestInv'
      BY <1>0, <1>1, <1>6, <2>2 DEF RequestInv, Sizing
    <2> QED BY <2>1, <2>3, <2>4, <2>5 DEF LibraryInv
  <1>7. CASE /\ ~theme.mapped
             /\ theme' = [theme EXCEPT !.stage = "crashed"]
             /\ UNCHANGED <<images, file, wire>>
    <2>1. ShmInv'
      BY <1>0, <1>7, FileChanges DEF TypeOK
    <2>2. /\ theme'.stage = "crashed" /\ theme'.pool = theme.pool /\ theme'.size = theme.size
          /\ theme'.used = theme.used
      BY <1>0, <1>7 DEF LibTypeOK
    <2>3. LibTypeOK'
      BY <1>0, <1>7 DEF LibTypeOK
    <2>4. ThemeInv'
      BY <1>0, <1>2, <1>7, <2>2 DEF ThemeInv
    <2>5. MmapFails
      BY <1>0, <1>7 DEF RequestInv
    <2> QED BY <2>1, <2>3, <2>4, <2>5 DEF LibraryInv
  <1>8. CASE /\ theme.used + n > theme.size
             /\ file' \in {file, [file EXCEPT ![theme.pool] = Grown(n)]}
             /\ UNCHANGED <<theme, wire, images>>
    <2>1. /\ ShmInv'
          /\ RequestInv => /\ \A p \in Pools : pool'[p].size <= file'[p]
                           /\ theme.size <= file'[theme.pool]
      BY <1>0, <1>2, <1>8, FileGrows
    <2>2. LibTypeOK' /\ ThemeInv'
      BY <1>0, <1>8 DEF LibTypeOK, ThemeInv
    <2>3. ~MmapFails => RequestInv'
      BY <1>0, <1>1, <1>8, <2>1 DEF RequestInv, Sizing
    <2> QED BY <2>1, <2>2, <2>3 DEF LibraryInv
  <1>9. CASE /\ theme.used + n > theme.size /\ MmapFails
             /\ file' = [file EXCEPT ![theme.pool] = Grown(n)]
             /\ wire' = Append(wire, q)
             /\ theme' = [theme EXCEPT !.mapped = FALSE]
             /\ UNCHANGED images
    <2>1. ShmInv'
      <3>1. file' \in {file, [file EXCEPT ![theme.pool] = Grown(n)]} /\ theme.size <= Grown(n)
        BY <1>2, <1>9
      <3> QED BY <1>0, <1>2, <3>1, FileGrows
    <2>2. /\ theme'.stage = theme.stage /\ theme'.pool = theme.pool /\ theme'.size = theme.size
          /\ theme'.used = theme.used
      BY <1>0, <1>9 DEF LibTypeOK
    <2>3. /\ wire' \in Seq(WireSet) /\ Len(wire') = Len(wire) + 1 /\ Len(wire) \in Nat
          /\ \A k \in 1 .. Len(wire) : wire'[k] = wire[k] /\ wire[k] \in WireSet
          /\ wire'[Len(wire) + 1] = q
      BY <1>0, <1>5, <1>9, Sent
    <2>4. LibTypeOK'
      BY <1>0, <1>9, <2>3 DEF LibTypeOK, WireSet
    <2>5. ThemeInv'
      BY <1>0, <1>2, <1>4, <1>5, <1>9, <2>2, <2>3, SMTT(30) DEF ThemeInv
    <2> QED BY <1>9, <2>1, <2>4, <2>5 DEF LibraryInv
  <1>10. CASE /\ theme.used + n > theme.size
              /\ file' = [file EXCEPT ![theme.pool] = Grown(n)]
              /\ wire' = Append(wire, q)
              /\ theme' = [theme EXCEPT !.used = @ + n, !.size = Grown(n), !.mapped = TRUE]
              /\ images' = images \cup {x}
    <2>1. /\ ShmInv'
          /\ RequestInv => \A p \in Pools : pool'[p].size <= file'[p]
      <3>1. file' \in {file, [file EXCEPT ![theme.pool] = Grown(n)]} /\ theme.size <= Grown(n)
        BY <1>2, <1>10
      <3> QED BY <1>0, <1>2, <3>1, FileGrows
    <2>2. /\ theme'.stage = theme.stage /\ theme'.pool = theme.pool /\ theme'.size = Grown(n)
          /\ theme'.used = theme.used + n /\ theme'.mapped
      BY <1>0, <1>10 DEF LibTypeOK
    <2>3. /\ wire' \in Seq(WireSet) /\ Len(wire') = Len(wire) + 1 /\ Len(wire) \in Nat
          /\ \A k \in 1 .. Len(wire) : wire'[k] = wire[k] /\ wire[k] \in WireSet
          /\ wire'[Len(wire) + 1] = q
      BY <1>0, <1>5, <1>10, Sent
    <2>4. LibTypeOK'
      <3>1. images' \subseteq ImageSet
        BY <1>3, <1>10
      <3>2. theme.used + n \in Nat
        BY <1>2
      <3> QED BY <1>0, <1>2, <1>10, <2>3, <3>1, <3>2 DEF LibTypeOK, WireSet, ImageSet
    <2>5. ThemeInv'
      BY <1>0, <1>2, <1>3, <1>4, <1>5, <1>10, <2>2, <2>3, SMTT(30) DEF ThemeInv
    <2>6. ASSUME ~MmapFails PROVE RequestInv'
      <3>1. RequestInv /\ (error = "none" /\ client = "open" <=> error' = "none" /\ client' = "open")
        BY <1>0, <1>1, <2>6
      <3>2. file'[theme.pool] = Grown(n)
        BY <1>0, <1>2, <1>10 DEF TypeOK
      <3>3. pool[theme.pool].size \in Nat /\ pool[theme.pool].size <= theme.size
        BY <1>0, <1>2, <3>1, Bounds DEF TypeOK, wl_shm_pool, RequestInv
      <3>4. \A k \in 1 .. Len(wire) : wire[k].size \in Nat /\ wire[k].op # "create_buffer"
        BY <1>0, <2>3, <3>1 DEF WireSet, RequestInv
      <3>5. \A k \in 1 .. Len(wire') :
              /\ Sizing(wire'[k]) =>
                    /\ 0 < wire'[k].size /\ wire'[k].size <= theme'.size
                    /\ pool'[theme'.pool].size <= wire'[k].size
                    /\ \A j \in 1 .. k - 1 : Sizing(wire'[j]) => wire'[j].size <= wire'[k].size
              /\ wire'[k].op # "create_buffer"
        <4> SUFFICES ASSUME NEW k \in 1 .. Len(wire')
                     PROVE  /\ Sizing(wire'[k]) =>
                                  /\ 0 < wire'[k].size /\ wire'[k].size <= theme'.size
                                  /\ pool'[theme'.pool].size <= wire'[k].size
                                  /\ \A j \in 1 .. k - 1 :
                                        Sizing(wire'[j]) => wire'[j].size <= wire'[k].size
                            /\ wire'[k].op # "create_buffer"
          OBVIOUS
        <4>1. CASE k \in 1 .. Len(wire)
          <5>1. wire'[k] = wire[k] /\ \A j \in 1 .. k - 1 : wire'[j] = wire[j]
            BY <2>3, <4>1
          <5>2. /\ Sizing(wire[k]) =>
                      /\ 0 < wire[k].size /\ wire[k].size <= theme.size
                      /\ pool[theme.pool].size <= wire[k].size
                      /\ \A j \in 1 .. k - 1 : Sizing(wire[j]) => wire[j].size <= wire[k].size
                /\ wire[k].size \in Nat /\ wire[k].op # "create_buffer"
            BY <3>1, <3>4, <4>1 DEF RequestInv
          <5>3. wire[k].size <= theme.size => wire[k].size <= Grown(n)
            BY <1>2, <5>2
          <5> QED BY <1>1, <2>2, <5>1, <5>2, <5>3
        <4>2. CASE k = Len(wire) + 1
          <5>1. \A j \in 1 .. k - 1 : wire'[j] = wire[j] /\ j \in 1 .. Len(wire)
            BY <2>3, <4>2
          <5>2. \A j \in 1 .. Len(wire) : Sizing(wire[j]) => wire[j].size <= theme.size
            BY <3>1 DEF RequestInv
          <5>3. \A j \in 1 .. Len(wire) : Sizing(wire[j]) => wire[j].size <= Grown(n)
            BY <1>2, <3>4, <5>2
          <5>4. /\ wire'[k].op # "create_buffer" /\ wire'[k].size = Grown(n)
                /\ 0 < Grown(n) /\ pool[theme.pool].size <= Grown(n) /\ Grown(n) <= Grown(n)
            BY <1>2, <1>5, <2>3, <3>3, <4>2
          <5> QED BY <1>1, <2>2, <5>1, <5>3, <5>4
        <4> QED BY <2>3, <4>1, <4>2
      <3>6. /\ Len(wire) + 1 \in 1 .. Len(wire')
            /\ Sizing(wire'[Len(wire) + 1]) /\ wire'[Len(wire) + 1].size = theme'.size
        BY <1>5, <2>2, <2>3 DEF Sizing
      <3>7. \A p \in Pools : p # theme'.pool => pool'[p].size = 0
        BY <1>1, <2>2, <3>1 DEF RequestInv
      <3>8. pool'[theme'.pool].size <= theme'.size /\ theme'.size <= file'[theme'.pool]
        BY <1>1, <1>2, <2>2, <3>2, <3>3
      <3>9. /\ error' # "refused" /\ anonymous' = {}
            /\ \A t \in Threads : ~sigbus'[t].fallback_mapping_used
        BY <1>1, <3>1 DEF RequestInv
      <3> QED BY <2>1, <2>2, <3>1, <3>5, <3>6, <3>7, <3>8, <3>9 DEF RequestInv
    <2> QED BY <2>1, <2>4, <2>5, <2>6 DEF LibraryInv
  <1>11. theme.used + n <= theme.size \/ theme.used + n > theme.size
    BY <1>2
  <1> QED BY <1>6, <1>7, <1>8, <1>9, <1>10, <1>11 DEF CreateImage, ResizeFails, q, x, c

LEMMA GetBufferKeeps ==
  ASSUME LibraryInv, NEW image \in images, NEW b \in Buffers, wl_cursor_image_get_buffer(image, b)
  PROVE  LibraryInv'
  <1> DEFINE q == Req("create_buffer", b, image.offset, image.size)
             x == [image EXCEPT !.buffer = b]
  <1>0. /\ library /\ library' = library /\ ShmInv /\ LibTypeOK /\ ThemeInv /\ TypeOK
        /\ theme.stage = "loaded" /\ UNCHANGED Compositors /\ UNCHANGED <<file, theme>>
        /\ images' = (images \ {image}) \cup {x} /\ wire' = Append(wire, q)
        /\ ~MmapFails => RequestInv
    BY DEF LibraryInv, wl_cursor_image_get_buffer, Runs, ShmInv, PoolInv
  <1>1. UNCHANGED <<anonymous, pool, buffer, refs, sigbus, access, error, client, killed>>
    BY <1>0 DEF Compositors, threadVars
  <1>2. /\ theme.size \in Nat /\ theme.used \in Nat /\ theme.used <= theme.size
        /\ theme.size <= INT32_MAX /\ theme.pool \in Pools /\ NoPool \notin Pools
        /\ images \subseteq ImageSet
    BY <1>0, ShmAssumption DEF ThemeInv, LibTypeOK, ImageSet
  <1>3. \A i \in ImageSet : i.offset \in Nat /\ i.size \in ImageSizes /\ i.size \in Nat \ {0}
    BY LargestSize DEF ImageSet
  <1>4. x \in ImageSet /\ x.offset = image.offset /\ x.size = image.size
    BY <1>2 DEF ImageSet
  <1>5. image \in ImageSet /\ image.offset + image.size <= theme.used
    BY <1>0, <1>2 DEF ThemeInv
  <1>6. /\ q \in WireSet /\ q.op = "create_buffer" /\ q.id = b
        /\ q.offset = image.offset /\ q.size = image.size
    BY <1>3, <1>5 DEF Req, WireSet
  <1>7. /\ image.offset + image.size <= theme.size
        /\ image.size <= INT32_MAX /\ image.offset <= INT32_MAX
    BY <1>2, <1>3, <1>5, LargestSize
  <1>8. 2 * image.size <= INT32_MAX
    <2>1. 0 <= Largest * 0 /\ 0 <= Largest * (2 * 0 + 1) /\ 0 < MaxImages
      BY LargestSize
    <2> QED BY <1>3, <1>5, <2>1, GrowthIsBounded
  <1> HIDE DEF q, x
  <1>9. /\ wire' \in Seq(WireSet) /\ Len(wire') = Len(wire) + 1 /\ Len(wire) \in Nat
        /\ \A k \in 1 .. Len(wire) : wire'[k] = wire[k] /\ wire[k] \in WireSet
        /\ wire'[Len(wire) + 1] = q
    BY <1>0, <1>6, Sent
  <1>10. ShmInv'
    BY <1>0, FileChanges DEF TypeOK
  <1>11. LibTypeOK'
    <2>1. images' \subseteq ImageSet
      BY <1>0, <1>2, <1>4
    <2> QED BY <1>0, <1>9, <2>1 DEF LibTypeOK, ImageSet, WireSet
  <1>12. ThemeInv'
    <2>1. \A i \in images' : i.offset + i.size <= theme.used
      BY <1>0, <1>4, <1>5 DEF ThemeInv
    <2>2. ASSUME NEW i \in images', NEW j \in images', i # j
          PROVE  i.offset + i.size <= j.offset \/ j.offset + j.size <= i.offset
      <3>1. \A k, l \in images :
               k # l => k.offset + k.size <= l.offset \/ l.offset + l.size <= k.offset
        BY <1>0 DEF ThemeInv
      <3> QED BY <1>0, <1>4, <2>2, <3>1
    <2>3. \A k \in 1 .. Len(wire') :
        /\ wire'[k].op \in {"create_pool", "resize", "destroy_pool"} => wire'[k].id = theme.pool
        /\ wire'[k].op \in {"create_buffer", "destroy_buffer"} => wire'[k].id \in Buffers
        /\ wire'[k].size <= INT32_MAX /\ wire'[k].offset <= INT32_MAX
      BY <1>0, <1>6, <1>7, <1>9 DEF ThemeInv
    <2> QED BY <1>0, <1>2, <2>1, <2>2, <2>3 DEF ThemeInv
  <1>13. ASSUME ~MmapFails PROVE RequestInv'
    <2>1. RequestInv
      BY <1>0, <1>13
    <2>2. ASSUME NEW k \in 1 .. Len(wire)
          PROVE  /\ Sizing(wire'[k]) =>
                       /\ 0 < wire'[k].size /\ wire'[k].size <= theme.size
                       /\ pool[theme.pool].size <= wire'[k].size
                       /\ \A j \in 1 .. k - 1 : Sizing(wire'[j]) => wire'[j].size <= wire'[k].size
                 /\ wire'[k].op = "create_buffer" =>
                       /\ wire'[k].size > 0 /\ 2 * wire'[k].size <= INT32_MAX
                       /\ wire'[k].offset + wire'[k].size <= theme.size
                       /\ \A j \in k + 1 .. Len(wire') : ~Sizing(wire'[j])
      <3>1. wire'[k] = wire[k] /\ \A j \in 1 .. k - 1 : wire'[j] = wire[j]
        BY <1>9
      <3>2. \A j \in k + 1 .. Len(wire') :
               \/ wire'[j] = q
               \/ j \in k + 1 .. Len(wire) /\ wire'[j] = wire[j]
        BY <1>9
      <3>3. ~Sizing(q)
        BY <1>6 DEF Sizing
      <3> QED BY <2>1, <3>1, <3>2, <3>3 DEF RequestInv
    <2>3. wire'[Len(wire) + 1] = q /\ ~Sizing(q) /\ \A j \in Len(wire) + 2 .. Len(wire') : FALSE
      BY <1>6, <1>9 DEF Sizing
    <2>4. ASSUME NEW k \in 1 .. Len(wire')
          PROVE  /\ Sizing(wire'[k]) =>
                       /\ 0 < wire'[k].size /\ wire'[k].size <= theme.size
                       /\ pool[theme.pool].size <= wire'[k].size
                       /\ \A j \in 1 .. k - 1 : Sizing(wire'[j]) => wire'[j].size <= wire'[k].size
                 /\ wire'[k].op = "create_buffer" =>
                       /\ wire'[k].size > 0 /\ 2 * wire'[k].size <= INT32_MAX
                       /\ wire'[k].offset + wire'[k].size <= theme.size
                       /\ \A j \in k + 1 .. Len(wire') : ~Sizing(wire'[j])
      <3>1. k \in 1 .. Len(wire) \/ k = Len(wire) + 1
        BY <1>9
      <3>2. CASE k = Len(wire) + 1
        <4>1. q.size > 0
          BY <1>3, <1>5, <1>6
        <4> QED BY <1>6, <1>7, <1>8, <1>9, <2>3, <3>2, <4>1
      <3> QED BY <2>2, <3>1, <3>2
    <2>5. error = "none" /\ client = "open" =>
             \/ pool[theme.pool].size = theme.size
             \/ \E k \in 1 .. Len(wire') : Sizing(wire'[k]) /\ wire'[k].size = theme.size
      BY <1>2, <1>9, <2>1 DEF RequestInv
    <2> QED BY <1>0, <1>1, <1>2, <2>1, <2>4, <2>5 DEF RequestInv
  <1> QED BY <1>0, <1>10, <1>11, <1>12, <1>13 DEF LibraryInv

\* The destructors are sent after everything else.
LEMMA DestroyKeeps ==
  ASSUME LibraryInv, wl_cursor_theme_destroy
  PROVE  LibraryInv'
  <1>0. /\ library /\ library' = library /\ ShmInv /\ LibTypeOK /\ ThemeInv /\ TypeOK
        /\ theme.stage = "loaded" /\ UNCHANGED Compositors /\ file' = file
        /\ theme' = [theme EXCEPT !.stage = "gone"] /\ images' = {}
        /\ ~MmapFails => RequestInv
    BY DEF LibraryInv, wl_cursor_theme_destroy, Runs, ShmInv, PoolInv
  <1>1. UNCHANGED <<anonymous, pool, buffer, refs, sigbus, access, error, client, killed>>
    BY <1>0 DEF Compositors, threadVars
  <1>2. /\ theme.size \in Nat /\ theme.used \in Nat /\ theme.used <= theme.size
        /\ theme.size <= INT32_MAX /\ theme.pool \in Pools /\ NoPool \notin Pools
        /\ images \subseteq ImageSet /\ INT32_MAX \in Nat
        /\ theme'.stage = "gone" /\ theme'.pool = theme.pool /\ theme'.size = theme.size
        /\ theme'.used = theme.used
    BY <1>0, ShmAssumption DEF ThemeInv, LibTypeOK, ImageSet
  <1> DEFINE bs == {image.buffer : image \in images} \ {NoId}
             n == Cardinality(bs)
             last == Req("destroy_pool", theme.pool, 0, 0)
  <1>3. bs \subseteq Buffers /\ n \in Nat
    <2>1. bs \subseteq Buffers
      BY <1>2 DEF ImageSet
    <2> HIDE DEF bs
    <2> QED BY <2>1, ShmAssumption, FS_Subset, FS_CardinalityType
  <1>4. PICK order \in [1 .. n -> bs] :
           wire' = wire \o [i \in DOMAIN order |-> Req("destroy_buffer", order[i], 0, 0)]
                        \o <<last>>
    BY DEF wl_cursor_theme_destroy
  <1> HIDE DEF bs, n
  <1> DEFINE s == [i \in 1 .. n |-> Req("destroy_buffer", order[i], 0, 0)]
  <1>5. /\ s \in Seq(WireSet) /\ Len(s) = n
        /\ \A i \in 1 .. n : s[i] = Req("destroy_buffer", order[i], 0, 0) /\ order[i] \in Buffers
    <2>1. \A i \in 1 .. n : order[i] \in Buffers
      BY <1>3, <1>4
    <2>2. \A i \in 1 .. n : Req("destroy_buffer", order[i], 0, 0) \in WireSet
      BY <2>1 DEF Req, WireSet
    <2> QED BY <1>3, <2>1, <2>2
  <1>6. last \in WireSet /\ wire \in Seq(WireSet)
    BY <1>0, <1>2 DEF Req, WireSet, LibTypeOK
  <1>7. wire' = wire \o s \o <<last>>
    BY <1>4
  <1> HIDE DEF s
  <1>8. /\ wire' \in Seq(WireSet) /\ Len(wire') = Len(wire) + n + 1 /\ Len(wire) \in Nat
        /\ \A k \in 1 .. Len(wire) : wire'[k] = wire[k]
        /\ \A k \in Len(wire) + 1 .. Len(wire') :
              wire'[k] = last \/ \E i \in 1 .. n : wire'[k] = s[i]
    <2> DEFINE a == wire \o s
    <2>1. /\ a \in Seq(WireSet) /\ Len(a) = Len(wire) + n /\ Len(wire) \in Nat
          /\ \A k \in 1 .. Len(wire) : a[k] = wire[k]
          /\ \A k \in Len(wire) + 1 .. Len(wire) + n : a[k] = s[k - Len(wire)]
      BY <1>3, <1>5, <1>6
    <2> HIDE DEF a
    <2>2. /\ wire' \in Seq(WireSet) /\ Len(wire') = Len(a) + 1
          /\ \A k \in 1 .. Len(a) : wire'[k] = a[k]
          /\ wire'[Len(a) + 1] = last
      BY <1>6, <1>7, <2>1 DEF a
    <2>3. ASSUME NEW k \in Len(wire) + 1 .. Len(wire')
          PROVE  wire'[k] = last \/ \E i \in 1 .. n : wire'[k] = s[i]
      <3>1. CASE k = Len(a) + 1
        BY <2>2, <3>1
      <3>2. CASE k # Len(a) + 1
        <4>1. k \in Len(wire) + 1 .. Len(wire) + n /\ k - Len(wire) \in 1 .. n /\ k \in 1 .. Len(a)
          BY <1>3, <2>1, <2>2, <3>2
        <4> QED BY <2>1, <2>2, <4>1
      <3> QED BY <3>1, <3>2
    <2>4. 1 .. Len(wire) \subseteq 1 .. Len(a) /\ Len(wire') = Len(wire) + n + 1
      BY <1>3, <2>1, <2>2
    <2> QED BY <2>1, <2>2, <2>3, <2>4
  <1>9. \A k \in Len(wire) + 1 .. Len(wire') :
          /\ ~Sizing(wire'[k]) /\ wire'[k].op # "create_buffer"
          /\ wire'[k].op \in {"create_pool", "resize", "destroy_pool"} => wire'[k].id = theme.pool
          /\ wire'[k].op \in {"create_buffer", "destroy_buffer"} => wire'[k].id \in Buffers
          /\ wire'[k].size = 0 /\ wire'[k].offset = 0
    <2>1. /\ last.op = "destroy_pool" /\ last.id = theme.pool
          /\ last.size = 0 /\ last.offset = 0
      BY DEF Req
    <2>2. \A i \in 1 .. n : /\ s[i].op = "destroy_buffer" /\ s[i].id \in Buffers
                            /\ s[i].size = 0 /\ s[i].offset = 0
      BY <1>5 DEF Req
    <2> HIDE DEF last
    <2>3. ASSUME NEW k \in Len(wire) + 1 .. Len(wire')
          PROVE  /\ \/ wire'[k].op = "destroy_pool" /\ wire'[k].id = theme.pool
                    \/ wire'[k].op = "destroy_buffer" /\ wire'[k].id \in Buffers
                 /\ wire'[k].size = 0 /\ wire'[k].offset = 0
      BY <1>8, <2>1, <2>2, <2>3
    <2> QED BY <2>3 DEF Sizing
  <1>10. ShmInv'
    BY <1>0, FileChanges DEF TypeOK
  <1>11. LibTypeOK'
    <2>1. theme' \in [stage : {"none", "loading", "loaded", "gone", "crashed"},
                      pool : Pools \cup {NoPool}, size : Nat, used : Nat, mapped : BOOLEAN]
      BY <1>0 DEF LibTypeOK
    <2> QED BY <1>0, <1>8, <2>1 DEF LibTypeOK, WireSet
  <1>12. \A k \in 1 .. Len(wire') : k \in 1 .. Len(wire) \/ k \in Len(wire) + 1 .. Len(wire')
    BY <1>3, <1>8
  <1>13. ThemeInv'
    <2>1. \A k \in 1 .. Len(wire') :
        /\ wire'[k].op \in {"create_pool", "resize", "destroy_pool"} => wire'[k].id = theme.pool
        /\ wire'[k].op \in {"create_buffer", "destroy_buffer"} => wire'[k].id \in Buffers
        /\ wire'[k].size <= INT32_MAX /\ wire'[k].offset <= INT32_MAX
      BY <1>0, <1>2, <1>8, <1>9, <1>12 DEF ThemeInv
    <2> QED BY <1>0, <1>2, <2>1 DEF ThemeInv
  <1>14. ASSUME ~MmapFails PROVE RequestInv'
    <2>1. RequestInv
      BY <1>0, <1>14
    <2>2. ASSUME NEW k \in 1 .. Len(wire')
          PROVE  /\ Sizing(wire'[k]) =>
                       /\ 0 < wire'[k].size /\ wire'[k].size <= theme.size
                       /\ pool[theme.pool].size <= wire'[k].size
                       /\ \A j \in 1 .. k - 1 : Sizing(wire'[j]) => wire'[j].size <= wire'[k].size
                 /\ wire'[k].op = "create_buffer" =>
                       /\ wire'[k].size > 0 /\ 2 * wire'[k].size <= INT32_MAX
                       /\ wire'[k].offset + wire'[k].size <= theme.size
                       /\ \A j \in k + 1 .. Len(wire') : ~Sizing(wire'[j])
      <3>1. CASE k \in 1 .. Len(wire)
        <4>1. wire'[k] = wire[k] /\ \A j \in 1 .. k - 1 : wire'[j] = wire[j]
          BY <1>8, <3>1
        <4>2. \A j \in k + 1 .. Len(wire') :
                 \/ ~Sizing(wire'[j])
                 \/ j \in k + 1 .. Len(wire) /\ wire'[j] = wire[j]
          <5> SUFFICES ASSUME NEW j \in k + 1 .. Len(wire')
                       PROVE  ~Sizing(wire'[j]) \/ (j \in k + 1 .. Len(wire) /\ wire'[j] = wire[j])
            OBVIOUS
          <5>1. j \in 1 .. Len(wire')
            BY <1>8, <3>1
          <5>2. j \in 1 .. Len(wire) => j \in k + 1 .. Len(wire)
            BY <1>8, <3>1
          <5> QED BY <1>8, <1>9, <1>12, <5>1, <5>2
        <4> QED BY <2>1, <3>1, <4>1, <4>2 DEF RequestInv
      <3>2. CASE k \in Len(wire) + 1 .. Len(wire')
        BY <1>9, <3>2
      <3> QED BY <1>12, <3>1, <3>2
    <2>3. error = "none" /\ client = "open" =>
             \/ pool[theme.pool].size = theme.size
             \/ \E k \in 1 .. Len(wire') : Sizing(wire'[k]) /\ wire'[k].size = theme.size
      <3>1. 1 .. Len(wire) \subseteq 1 .. Len(wire')
        BY <1>3, <1>8
      <3> QED BY <1>2, <1>8, <2>1, <3>1 DEF RequestInv
    <2>4. theme'.stage # "loading"
      BY <1>2
    <2> QED BY <1>0, <1>1, <1>2, <2>1, <2>2, <2>3, <2>4 DEF RequestInv
  <1> QED BY <1>0, <1>10, <1>11, <1>13, <1>14 DEF LibraryInv

-----------------------------------------------------------------------------
\* The compositor handles a request of the library.

\* What becomes of the sizes and the error: a request that fails fails for want
\* of memory.
Handled(q) ==
  /\ file' = file /\ anonymous' \subseteq anonymous /\ sigbus' = sigbus /\ client' = client
  /\ error' \in {error, "failed"} /\ error = "none" /\ client = "open"
  /\ \/ /\ Sizing(q)
        /\ pool'[theme.pool].size = q.size
        /\ \A p \in Pools \ {theme.pool} : pool'[p].size = pool[p].size
     \/ /\ \A p \in Pools : pool'[p].size = pool[p].size
        /\ Sizing(q) => error' = "failed"

LEMMA ReceiveServes ==
  ASSUME LibraryInv, Receive
  PROVE  /\ ShmInv'
         /\ ~MmapFails => Handled(Head(wire))
  <1> DEFINE q == Head(wire)
             P == theme.pool
  <1>0. /\ library /\ wire # <<>> /\ ShmInv /\ LibTypeOK /\ ThemeInv /\ TypeOK
        /\ ~MmapFails => RequestInv
    BY DEF LibraryInv, Receive, ShmInv, PoolInv
  <1>1. /\ q = wire[1] /\ 1 \in 1 .. Len(wire) /\ q \in WireSet
    <2>1. wire \in Seq(WireSet)
      BY <1>0 DEF LibTypeOK, WireSet
    <2> QED BY <1>0, <2>1
  <1>2. /\ P \in Pools
        /\ q.op \in {"create_pool", "resize", "destroy_pool"} => q.id = P
        /\ q.op \in {"create_buffer", "destroy_buffer"} => q.id \in Buffers
        /\ q.size \in Ints /\ q.offset \in Ints /\ 1 \in Ints /\ q.size \in Nat /\ q.offset \in Nat
    <2>1. q.size \in Nat /\ q.offset \in Nat /\ INT32_MAX \in Nat \ {0}
      BY <1>1, LargestSize DEF WireSet
    <2>2. /\ P \in Pools \cup {NoPool} /\ P # NoPool
          /\ q.op \in {"create_pool", "resize", "destroy_pool"} => q.id = P
          /\ q.op \in {"create_buffer", "destroy_buffer"} => q.id \in Buffers
          /\ q.size <= INT32_MAX /\ q.offset <= INT32_MAX
      BY <1>0, <1>1 DEF ThemeInv, LibTypeOK
    <2> QED BY <2>1, <2>2 DEF Ints
  <1> HIDE DEF q, P
  <1>3. \/ q.op = "create_pool" /\ shm_create_pool(q.id, q.size)
        \/ q.op = "resize" /\ shm_pool_resize(q.id, q.size)
        \/ q.op = "create_buffer" /\ shm_pool_create_buffer(P, q.id, q.offset, q.size, 1, q.size)
        \/ Request /\ q.op = "destroy_buffer" /\ DestroyBuffer(q.id)
        \/ Request /\ q.op = "destroy_pool" /\ DestroyPool(q.id)
    BY DEF Receive, q, P
  <1>4. ShmInv'
    <2>1. CASE q.op = "create_pool" /\ shm_create_pool(q.id, q.size)
      BY <1>0, <1>2, <2>1, CreatePoolKeeps
    <2>2. CASE q.op = "resize" /\ shm_pool_resize(q.id, q.size)
      BY <1>0, <1>2, <2>2, ResizeKeeps
    <2>3. CASE q.op = "create_buffer"
               /\ shm_pool_create_buffer(P, q.id, q.offset, q.size, 1, q.size)
      BY <1>0, <1>2, <2>3, CreateBufferKeeps
    <2>4. CASE q.op = "destroy_buffer" /\ DestroyBuffer(q.id)
      BY <1>0, <1>2, <2>4, DestroyBufferKeeps
    <2>5. CASE q.op = "destroy_pool" /\ DestroyPool(q.id)
      BY <1>0, <1>2, <2>5, DestroyPoolKeeps
    <2> QED BY <1>3, <2>1, <2>2, <2>3, <2>4, <2>5
  <1>5. ASSUME ~MmapFails PROVE Handled(q)
    <2>0. /\ Sizing(q) => /\ 0 < q.size /\ q.size <= theme.size
                          /\ pool[P].size <= q.size
          /\ q.op = "create_buffer" =>
                /\ q.size > 0 /\ 2 * q.size <= INT32_MAX /\ q.offset + q.size <= theme.size
                /\ \A j \in 2 .. Len(wire) : ~Sizing(wire[j])
          /\ error = "none" /\ client = "open" =>
                \/ pool[P].size = theme.size
                \/ \E k \in 1 .. Len(wire) : Sizing(wire[k]) /\ wire[k].size = theme.size
      BY <1>0, <1>1, <1>2, <1>5 DEF RequestInv, P
    <2>1. pool[P].size \in 0 .. INT32_MAX /\ pool[P].size \in Nat /\ INT32_MAX \in Nat
      BY <1>0, <1>2, Bounds DEF TypeOK, wl_shm_pool
    <2>2. ASSUME PostError("failed"), Request PROVE Handled(q)
      BY <2>2 DEF PostError, Request, Handled, memVars, threadVars
    <2>3. CASE q.op = "create_pool" /\ shm_create_pool(q.id, q.size)
      <3>1. Request /\ 0 < q.size /\ ~(q.size <= 0)
        BY <1>2, <2>0, <2>3 DEF shm_create_pool, Sizing
      <3>2. CASE PostError(IF q.size <= 0 THEN "refused" ELSE "failed")
        BY <2>2, <3>1, <3>2
      <3>3. CASE /\ pool' = [pool EXCEPT ![P] = [made |-> TRUE, resource |-> TRUE,
                                                 refcount |-> 1, size |-> q.size]]
                 /\ anonymous' = anonymous \ {P}
                 /\ UNCHANGED <<file, buffer, refs, threadVars, error, client, killed>>
        <4>1. /\ pool'[P].size = q.size
              /\ \A p \in Pools \ {P} : pool'[p].size = pool[p].size
          BY <1>0, <1>2, <3>3 DEF TypeOK
        <4> QED BY <2>3, <3>1, <3>3, <4>1 DEF Handled, Sizing, Request, P, threadVars
      <3> QED BY <1>2, <2>3, <3>2, <3>3 DEF shm_create_pool
    <2>4. CASE q.op = "resize" /\ shm_pool_resize(q.id, q.size)
      <3>1. Request /\ ~(q.size < pool[P].size) /\ q.id = P
        BY <1>2, <2>0, <2>1, <2>4 DEF shm_pool_resize, Sizing
      <3>2. CASE PostError(IF q.size < pool[P].size THEN "refused" ELSE "failed")
        BY <2>2, <3>1, <3>2
      <3>3. CASE /\ pool' = [pool EXCEPT ![P].size = q.size]
                 /\ UNCHANGED <<memVars, buffer, refs, sigbus, error, client, killed>>
        <4>1. /\ pool'[P].size = q.size
              /\ \A p \in Pools \ {P} : pool'[p].size = pool[p].size
          BY <1>0, <1>2, <3>3 DEF TypeOK, wl_shm_pool
        <4> QED BY <2>4, <3>1, <3>3, <4>1 DEF Handled, Sizing, Request, P, memVars
      <3> QED BY <2>4, <3>1, <3>2, <3>3 DEF shm_pool_resize
    <2>5. CASE q.op = "create_buffer"
               /\ shm_pool_create_buffer(P, q.id, q.offset, q.size, 1, q.size)
      <3>1. Request /\ ~Sizing(q)
        BY <2>5 DEF shm_pool_create_buffer, Sizing
      <3>2. pool[P].size = theme.size
        <4>1. \A k \in 1 .. Len(wire) : k = 1 \/ k \in 2 .. Len(wire)
          OBVIOUS
        <4>2. \A k \in 1 .. Len(wire) : ~Sizing(wire[k])
          BY <1>1, <2>0, <2>5, <3>1, <4>1
        <4> QED BY <2>0, <3>1, <4>2 DEF Request
      <3>3. Fits(pool[P].size, q.offset, q.size, 1, q.size)
        <4>1. /\ q.size \in Nat \ {0} /\ 2 * q.size <= INT32_MAX
              /\ q.offset + q.size <= pool[P].size
          BY <1>2, <2>0, <2>5, <3>2
        <4>2. INT32_MAX \div q.size > 1
          <5> DEFINE d == INT32_MAX \div q.size
          <5>1. d \in Nat /\ INT32_MAX < q.size * (d + 1)
            BY <2>1, <4>1
          <5>2. d = 0 \/ d = 1 \/ d > 1
            BY <5>1
          <5> HIDE DEF d
          <5>3. d = 0 => q.size * (d + 1) = q.size
            BY <4>1
          <5>4. d = 1 => q.size * (d + 1) = 2 * q.size
            BY <4>1
          <5>5. d > 1
            BY <2>1, <4>1, <5>1, <5>2, <5>3, <5>4
          <5> QED BY <5>5 DEF d
        <4>3. Wrap(q.size * 1) = q.size
          BY <1>2, WrapIsIdentity
        <4>4. pool[P].size - q.size \in Ints
          BY <1>2, <2>1, <4>1 DEF Ints
        <4>5. q.offset <= Wrap(pool[P].size - Wrap(q.size * 1))
          <5>1. Wrap(pool[P].size - q.size) = pool[P].size - q.size
            BY <4>4, WrapIsIdentity
          <5> QED BY <1>2, <2>1, <4>1, <4>3, <5>1
        <4> QED BY <1>2, <4>1, <4>2, <4>5 DEF Fits
      <3>4. CASE PostError(IF Fits(pool[P].size, q.offset, q.size, 1, q.size)
                           THEN "failed" ELSE "refused")
        BY <2>2, <3>1, <3>3, <3>4
      <3>5. CASE /\ pool' = [pool EXCEPT ![P].refcount = @ + 1]
                 /\ UNCHANGED <<memVars, refs, threadVars, error, client, killed>>
        <4>1. \A p \in Pools : pool'[p].size = pool[p].size
          BY <1>0, <1>2, <3>5 DEF TypeOK, wl_shm_pool
        <4> QED BY <3>1, <3>5, <4>1 DEF Handled, Request, memVars, threadVars
      <3> QED BY <2>5, <3>4, <3>5 DEF shm_pool_create_buffer
    <2>6. CASE Request /\ q.op = "destroy_buffer" /\ DestroyBuffer(q.id)
      <3>1. \A p \in Pools : pool'[p].size = pool[p].size
        BY <1>0, <2>6, UnrefKeepsSizes DEF DestroyBuffer
      <3> QED BY <2>6, <3>1 DEF DestroyBuffer, Handled, Request, Sizing, memVars, threadVars
    <2>7. CASE Request /\ q.op = "destroy_pool" /\ DestroyPool(q.id)
      <3>1. \A p \in Pools : pool'[p].size = pool[p].size
        BY <1>0, <2>7 DEF TypeOK, DestroyPool, wl_shm_pool
      <3> QED BY <2>7, <3>1 DEF DestroyPool, Handled, Request, Sizing, memVars, threadVars
    <2> QED BY <1>3, <2>3, <2>4, <2>5, <2>6, <2>7
  <1> QED BY <1>4, <1>5 DEF q

LEMMA ReceiveKeeps ==
  ASSUME LibraryInv, Receive
  PROVE  LibraryInv'
  <1>0. /\ library /\ wire # <<>> /\ LibTypeOK /\ ThemeInv /\ TypeOK
        /\ ~MmapFails => RequestInv
        /\ wire' = Tail(wire) /\ UNCHANGED <<library, theme, images>>
        /\ ShmInv' /\ (~MmapFails => Handled(Head(wire)))
    BY ReceiveServes DEF LibraryInv, Receive, ShmInv, PoolInv
  <1>1. /\ wire' \in Seq(WireSet) /\ Len(wire') = Len(wire) - 1 /\ Len(wire) \in Nat \ {0}
        /\ \A k \in 1 .. Len(wire') : k + 1 \in 2 .. Len(wire) /\ wire'[k] = wire[k + 1]
        /\ Head(wire) = wire[1] /\ 1 \in 1 .. Len(wire)
    <2>1. wire \in Seq(WireSet)
      BY <1>0 DEF LibTypeOK, WireSet
    <2> QED BY <1>0, <2>1
  <1>2. LibTypeOK'
    BY <1>0, <1>1 DEF LibTypeOK, WireSet
  <1>3. ThemeInv'
    <2>1. \A k \in 1 .. Len(wire') :
        /\ wire'[k].op \in {"create_pool", "resize", "destroy_pool"} => wire'[k].id = theme.pool
        /\ wire'[k].op \in {"create_buffer", "destroy_buffer"} => wire'[k].id \in Buffers
        /\ wire'[k].size <= INT32_MAX /\ wire'[k].offset <= INT32_MAX
      <3>1. \A k \in 2 .. Len(wire) : k \in 1 .. Len(wire)
        OBVIOUS
      <3> QED BY <1>0, <1>1, <3>1 DEF ThemeInv
    <2>2. theme.pool # NoPool
      BY <1>0 DEF ThemeInv
    <2> QED BY <1>0, <2>1, <2>2 DEF ThemeInv
  <1>4. ASSUME ~MmapFails PROVE RequestInv'
    <2> DEFINE q == Head(wire)
               P == theme.pool
    <2>1. RequestInv /\ Handled(q) /\ P \in Pools /\ theme' = theme
      BY <1>0, <1>4 DEF ThemeInv, LibTypeOK
    <2>2. /\ \A k \in 1 .. Len(wire) :
             /\ Sizing(wire[k]) =>
                   /\ 0 < wire[k].size /\ wire[k].size <= theme.size
                   /\ pool[P].size <= wire[k].size
                   /\ \A j \in 1 .. k - 1 : Sizing(wire[j]) => wire[j].size <= wire[k].size
             /\ wire[k].op = "create_buffer" =>
                   /\ theme.stage # "loading"
                   /\ wire[k].size > 0 /\ 2 * wire[k].size <= INT32_MAX
                   /\ wire[k].offset + wire[k].size <= theme.size
                   /\ \A j \in k + 1 .. Len(wire) : ~Sizing(wire[j])
          /\ pool[P].size <= theme.size /\ theme.size <= file[P]
          /\ \A p \in Pools : pool[p].size <= file[p] /\ (p # P => pool[p].size = 0)
      BY <2>1 DEF RequestInv
    <2>3. /\ Sizing(q) => /\ q.size <= theme.size
                          /\ \A k \in 2 .. Len(wire) : Sizing(wire[k]) => q.size <= wire[k].size
          /\ q = wire[1]
      <3>1. \A k \in 2 .. Len(wire) : k \in 1 .. Len(wire) /\ 1 \in 1 .. k - 1
        BY <1>1
      <3>2. Sizing(wire[1]) => wire[1].size <= theme.size
        BY <1>1, <2>2
      <3>3. \A k \in 2 .. Len(wire) : Sizing(wire[k]) /\ Sizing(wire[1]) => wire[1].size <= wire[k].size
        BY <2>2, <3>1
      <3> QED BY <1>1, <3>2, <3>3
    <2>4. q.size \in Nat /\ theme.size \in Nat /\ file[P] \in Nat
      <3>1. q \in WireSet
        <4>1. wire \in Seq(WireSet)
          BY <1>0 DEF LibTypeOK, WireSet
        <4> QED BY <1>0, <4>1
      <3> QED BY <1>0, <2>1, <3>1 DEF WireSet, LibTypeOK, TypeOK
    <2> HIDE DEF q, P
    <2>5. /\ \A p \in Pools : pool'[p].size <= file'[p] /\ (p # P => pool'[p].size = 0)
          /\ pool'[P].size <= theme.size /\ theme.size <= file'[P]
          /\ \A k \in 2 .. Len(wire) : Sizing(wire[k]) => pool'[P].size <= wire[k].size
      <3>1. \A k \in 2 .. Len(wire) : k \in 1 .. Len(wire)
        OBVIOUS
      <3>2. CASE /\ Sizing(q) /\ pool'[P].size = q.size
                 /\ \A p \in Pools \ {P} : pool'[p].size = pool[p].size
        <4>1. q.size <= theme.size /\ theme.size <= file[P] /\ q.size <= file[P]
          BY <2>2, <2>3, <2>4, <3>2
        <4> QED BY <2>1, <2>2, <2>3, <3>2, <4>1 DEF Handled
      <3>3. CASE \A p \in Pools : pool'[p].size = pool[p].size
        BY <2>1, <2>2, <3>1, <3>3 DEF Handled
      <3> QED BY <2>1, <3>2, <3>3 DEF Handled, P
    <2>6. ASSUME NEW k \in 1 .. Len(wire')
          PROVE  /\ Sizing(wire'[k]) =>
                       /\ 0 < wire'[k].size /\ wire'[k].size <= theme.size
                       /\ pool'[P].size <= wire'[k].size
                       /\ \A j \in 1 .. k - 1 : Sizing(wire'[j]) => wire'[j].size <= wire'[k].size
                 /\ wire'[k].op = "create_buffer" =>
                       /\ theme.stage # "loading"
                       /\ wire'[k].size > 0 /\ 2 * wire'[k].size <= INT32_MAX
                       /\ wire'[k].offset + wire'[k].size <= theme.size
                       /\ \A j \in k + 1 .. Len(wire') : ~Sizing(wire'[j])
      <3>1. /\ wire'[k] = wire[k + 1] /\ k + 1 \in 1 .. Len(wire) /\ k + 1 \in 2 .. Len(wire)
            /\ \A j \in 1 .. k - 1 : wire'[j] = wire[j + 1] /\ j + 1 \in 1 .. (k + 1) - 1
            /\ \A j \in k + 1 .. Len(wire') : wire'[j] = wire[j + 1]
                                              /\ j + 1 \in (k + 1) + 1 .. Len(wire)
        BY <1>1
      <3> QED BY <2>2, <2>5, <3>1
    <2>7. error' = "none" /\ client' = "open" =>
             \/ pool'[P].size = theme.size
             \/ \E k \in 1 .. Len(wire') : Sizing(wire'[k]) /\ wire'[k].size = theme.size
      <3> SUFFICES ASSUME error' = "none", client' = "open", pool'[P].size # theme.size
                   PROVE  \E k \in 1 .. Len(wire') :
                             Sizing(wire'[k]) /\ wire'[k].size = theme.size
        OBVIOUS
      <3>1. error = "none" /\ client = "open"
        BY <2>1 DEF Handled
      <3>2. \/ pool[P].size = theme.size
            \/ \E k \in 1 .. Len(wire) : Sizing(wire[k]) /\ wire[k].size = theme.size
        BY <2>1, <3>1 DEF RequestInv, P
      <3>3. \/ Sizing(q) /\ pool'[P].size = q.size
            \/ ~Sizing(q) /\ pool'[P].size = pool[P].size
        BY <2>1 DEF Handled, P
      <3>4. pool[P].size # theme.size
        <4>1. pool[P].size \in Nat
          BY <1>0, <2>1, Bounds DEF TypeOK, wl_shm_pool, P
        <4>2. Sizing(q) => pool[P].size <= q.size /\ q.size <= theme.size
          BY <1>1, <2>2, <2>3
        <4> QED BY <2>4, <3>3, <4>1, <4>2
      <3>5. PICK k \in 1 .. Len(wire) : Sizing(wire[k]) /\ wire[k].size = theme.size
        BY <3>2, <3>4
      <3>6. k # 1
        BY <2>3, <3>3, <3>5
      <3>7. k - 1 \in 1 .. Len(wire') /\ wire'[k - 1] = wire[k]
        BY <1>1, <3>5, <3>6
      <3> QED BY <3>5, <3>7
    <2>8. /\ error' # "refused" /\ anonymous' = {}
          /\ \A t \in Threads : ~sigbus'[t].fallback_mapping_used
      BY <2>1 DEF Handled, RequestInv
    <2>9. theme.stage = "loading" => theme.mapped
      BY <2>1 DEF RequestInv
    <2> QED BY <2>1, <2>5, <2>6, <2>7, <2>8, <2>9 DEF RequestInv, P
  <1> QED BY <1>0, <1>2, <1>3, <1>4 DEF LibraryInv

LEMMA LibraryAlways == CursorSpec => []LibraryInv
  <1>1. ASSUME LibraryInv, CursorNext PROVE LibraryInv'
    BY <1>1, ServedKeeps, OtherClientKeeps, LoadKeeps, CreateImageKeeps, LoadedKeeps,
       GetBufferKeeps, DestroyKeeps, ReceiveKeeps DEF CursorNext, Library
  <1>2. ASSUME LibraryInv, UNCHANGED allVars PROVE LibraryInv'
    <2>1. UNCHANGED <<file, anonymous, pool, buffer, refs, sigbus, access, error, client, killed>>
          /\ UNCHANGED <<library, theme, images, wire>>
      BY <1>2 DEF allVars, libVars, vars, memVars, threadVars
    <2>2. ShmInv /\ TypeOK
      BY <1>2 DEF LibraryInv, ShmInv, PoolInv
    <2>3. UNCHANGED Compositors /\ file' \in [Pools -> Nat]
      BY <2>1, <2>2 DEF Compositors, threadVars, TypeOK
    <2>4. ShmInv'
      BY <2>2, <2>3, FileChanges
    <2>5. LibTypeOK'
      BY <1>2, <2>1 DEF LibraryInv, LibTypeOK
    <2>6. library => ThemeInv'
      BY <1>2, <2>1 DEF LibraryInv, ThemeInv
    <2>7. library /\ ~MmapFails => RequestInv'
      BY <1>2, <2>1 DEF LibraryInv, RequestInv, Sizing
    <2> QED BY <2>1, <2>4, <2>5, <2>6, <2>7 DEF LibraryInv
  <1> QED BY <1>1, <1>2, LibraryInit, PTL DEF CursorSpec

\* The compositor keeps its promises to the cursor library as to any client:
\* whatever the library sends can be handled as Spec has it.
THEOREM PoolsServeTheLibrary ==
  CursorSpec => [](PoolInv /\ BuffersInPool /\ (~ResizesHeld => FaultsContained))
  <1>1. LibraryInv => PoolInv /\ BuffersInPool /\ (~ResizesHeld => FaultsContained)
    BY DEF LibraryInv, ShmInv
  <1> QED BY <1>1, LibraryAlways, PTL

-----------------------------------------------------------------------------
\* Remainders
LEMMA DivUnique ==
  ASSUME NEW M \in Nat \ {0}, NEW q \in Int, NEW a \in 0 .. M - 1, NEW b \in Int,
         M * q + a = b, -M <= b, b < 2 * M
  PROVE  (q = -1 /\ b < 0) \/ (q = 0 /\ 0 <= b /\ b < M) \/ (q = 1 /\ M <= b)
  <1>1. CASE q >= 2
    <2>1. PICK d \in Nat : q = 2 + d
      <3>1. q - 2 \in Nat /\ q = 2 + (q - 2)
        BY <1>1
      <3> QED BY <3>1
    <2>2. M * q = 2 * M + M * d /\ M * d \in Nat
      BY <2>1
    <2> QED BY <2>2
  <1>2. CASE q <= -2
    <2>1. PICK d \in Nat : q = -2 - d
      <3>1. -2 - q \in Nat /\ q = -2 - (-2 - q)
        BY <1>2
      <3> QED BY <3>1
    <2>2. M * q = -(2 * M) - M * d /\ M * d \in Nat
      BY <2>1
    <2> QED BY <2>2
  <1>3. CASE q \in {-1, 0, 1}
    <2>1. M * (-1) = -M /\ M * 0 = 0 /\ M * 1 = M
      OBVIOUS
    <2> QED BY <1>3, <2>1
  <1> QED BY <1>1, <1>2, <1>3

LEMMA ModNear ==
  ASSUME NEW M \in Nat \ {0}, NEW n \in Int, -M <= n, n < 2 * M
  PROVE  n % M = IF n < 0 THEN n + M ELSE IF n < M THEN n ELSE n - M
  <1>1. PICK q \in Int, a \in 0 .. M - 1 : a = n % M /\ n = M * q + a
    <2>1. n \div M \in Int /\ n = M * (n \div M) + (n % M) /\ n % M \in 0 .. M - 1
      OBVIOUS
    <2> QED BY <2>1
  <1>2. (q = -1 /\ n < 0) \/ (q = 0 /\ 0 <= n /\ n < M) \/ (q = 1 /\ M <= n)
    BY <1>1, DivUnique
  <1>3. M * (-1) = -M /\ M * 0 = 0 /\ M * 1 = M
    OBVIOUS
  <1> QED BY <1>1, <1>2, <1>3

LEMMA ModLess ==
  ASSUME NEW M \in Nat \ {0}, NEW n \in Nat
  PROVE  n % M \in 0 .. M - 1 /\ n % M <= n
  <1>1. PICK q \in Int, a \in 0 .. M - 1 : a = n % M /\ n = M * q + a
    <2>1. n \div M \in Int /\ n = M * (n \div M) + (n % M) /\ n % M \in 0 .. M - 1
      OBVIOUS
    <2> QED BY <2>1
  <1>2. CASE q < 0
    <2>1. PICK d \in Nat : q = -1 - d
      <3>1. -1 - q \in Nat /\ q = -1 - (-1 - q)
        BY <1>2
      <3> QED BY <3>1
    <2>2. M * q = -M - M * d /\ M * d \in Nat
      BY <2>1
    <2> QED BY <1>1, <2>2
  <1>3. CASE q >= 0
    <2>1. M * q \in Nat
      BY <1>3
    <2> QED BY <1>1, <2>1
  <1> QED BY <1>2, <1>3

\* d steps on from n, the remainder is d more, or has come round to 0.
LEMMA ModShift ==
  ASSUME NEW M \in Nat \ {0}, NEW n \in Nat, NEW d \in Nat, (n % M) + d <= M
  PROVE  (n + d) % M = IF (n % M) + d = M THEN 0 ELSE (n % M) + d
  <1>1. PICK q \in Int, a \in 0 .. M - 1 : a = n % M /\ n = M * q + a
    <2>1. n \div M \in Int /\ n = M * (n \div M) + (n % M) /\ n % M \in 0 .. M - 1
      OBVIOUS
    <2> QED BY <2>1
  <1>2. PICK p \in Int, b \in 0 .. M - 1 : b = (n + d) % M /\ n + d = M * p + b
    <2>1. (n + d) \div M \in Int /\ n + d = M * ((n + d) \div M) + ((n + d) % M) /\ (n + d) % M \in 0 .. M - 1
      OBVIOUS
    <2> QED BY <2>1
  <1>3. M * (p - q) = M * p - M * q /\ p - q \in Int
    OBVIOUS
  <1>4. M * (p - q) + b = a + d
    BY <1>1, <1>2, <1>3
  <1>5. (p - q = 0 /\ a + d < M) \/ (p - q = 1 /\ M <= a + d)
    BY <1>1, <1>3, <1>4, DivUnique
  <1>6. M * 0 = 0 /\ M * 1 = M
    OBVIOUS
  <1>7. CASE p - q = 0 /\ a + d < M
    BY <1>1, <1>2, <1>4, <1>6, <1>7
  <1>8. CASE p - q = 1 /\ M <= a + d
    <2>1. a + d = M
      BY <1>1, <1>8
    <2>2. b = 0
      BY <1>4, <1>6, <1>8, <2>1
    <2> QED BY <1>1, <1>2, <2>1, <2>2
  <1> QED BY <1>5, <1>7, <1>8

-----------------------------------------------------------------------------
\* FoldLeft, which is defined by recursion on sets of places

Folds(h, P, b, q) ==
  h = [s \in SUBSET (DOMAIN q) |-> IF s = {} THEN b ELSE P[<<h[s \ {Max(s)}], q[Max(s)]>>]]

LEMMA GreatestPlace ==
  ASSUME NEW n \in Nat, NEW s \in SUBSET (1 .. n), s # {}
  PROVE  Max(s) \in s /\ \A y \in s : Max(s) >= y
  <1> DEFINE T == {t \in Nat : \E y \in s : t = n - y}
  <1>1. T \in SUBSET Nat /\ T # {}
    <2>1. PICK y \in s : TRUE
      OBVIOUS
    <2>2. n - y \in T
      BY <2>1
    <2> QED BY <2>2
  <1>2. PICK t \in T : \A u \in T : t <= u
    BY <1>1, LeastNumber
  <1>3. PICK x \in s : t = n - x
    OBVIOUS
  <1>4. \A y \in s : x >= y
    <2> SUFFICES ASSUME NEW y \in s PROVE x >= y
      OBVIOUS
    <2>1. n - y \in T
      OBVIOUS
    <2>2. n - x <= n - y
      BY <1>2, <1>3, <2>1
    <2> QED BY <2>2
  <1> QED BY <1>4 DEF Max

LEMMA FoldsExist ==
  ASSUME NEW A, NEW D, NEW P \in [A \X D -> A], NEW b \in A, NEW n \in Nat, NEW q \in [1 .. n -> D]
  PROVE  \E h \in [SUBSET (1 .. n) -> A] : Folds(h, P, b, q)
  <1> DEFINE Good(h, k) ==
               /\ h \in [SUBSET (1 .. k) -> A]
               /\ \A s \in SUBSET (1 .. k) : h[s] = IF s = {} THEN b ELSE P[<<h[s \ {Max(s)}], q[Max(s)]>>]
             T == {k \in Nat : k <= n => \E h : Good(h, k)}
  <1>1. 0 \in T
    <2> DEFINE h == [s \in SUBSET (1 .. 0) |-> b]
    <2>1. \A s \in SUBSET (1 .. 0) : s = {}
      OBVIOUS
    <2>2. Good(h, 0)
      BY <2>1
    <2> HIDE DEF Good, h
    <2> QED BY <2>2
  <1>2. ASSUME NEW k \in T PROVE k + 1 \in T
    <2>0. k \in Nat /\ k + 1 \in Nat
      <3> HIDE DEF Good
      <3>1. k \in Nat
        OBVIOUS
      <3> QED BY <3>1
    <2> SUFFICES ASSUME k + 1 <= n PROVE \E h : Good(h, k + 1)
      <3> HIDE DEF Good
      <3> QED BY <2>0
    <2>1. k \in Nat /\ k <= n
      BY <2>0
    <2>2. PICK h : Good(h, k)
      <3> HIDE DEF Good
      <3> QED BY <2>1
    <2> DEFINE g == [s \in SUBSET (1 .. k + 1) |->
                       IF s \in SUBSET (1 .. k) THEN h[s] ELSE P[<<h[s \ {k + 1}], q[k + 1]>>]]
    <2>3. ASSUME NEW s \in SUBSET (1 .. k)
          PROVE  g[s] = h[s] /\ h[s] \in A
      BY <2>1, <2>2
    <2>4. ASSUME NEW s \in SUBSET (1 .. k + 1), s \notin SUBSET (1 .. k)
          PROVE  /\ s # {} /\ Max(s) = k + 1 /\ s \ {k + 1} \in SUBSET (1 .. k)
                 /\ g[s] = P[<<g[s \ {k + 1}], q[k + 1]>>] /\ g[s] \in A
      <3>1. k + 1 \in s /\ s # {} /\ \A y \in s : y <= k + 1
        BY <2>1, <2>4
      <3>2. Max(s) = k + 1
        <4>1. k + 1 \in Nat
          BY <2>1
        <4>2. Max(s) \in s /\ \A y \in s : Max(s) >= y
          BY <3>1, <4>1, GreatestPlace
        <4>3. Max(s) \in 1 .. k + 1
          BY <4>2
        <4> QED BY <3>1, <4>2, <4>3
      <3>3. s \ {k + 1} \in SUBSET (1 .. k)
        BY <2>1
      <3>4. g[s] = P[<<h[s \ {k + 1}], q[k + 1]>>]
        BY <2>4
      <3>5. q[k + 1] \in D /\ h[s \ {k + 1}] \in A
        <4>1. k + 1 \in 1 .. n
          BY <2>1
        <4>2. q[k + 1] \in D
          BY <4>1
        <4>3. h[s \ {k + 1}] \in A
          BY <2>3, <3>3
        <4> QED BY <4>2, <4>3
      <3>6. g[s \ {k + 1}] = h[s \ {k + 1}]
        BY <2>3, <3>3
      <3> HIDE DEF g
      <3>7. P[<<h[s \ {k + 1}], q[k + 1]>>] \in A
        BY <3>5
      <3> QED BY <3>1, <3>2, <3>3, <3>4, <3>6, <3>7
    <2>5. g \in [SUBSET (1 .. k + 1) -> A]
      <3>1. \A s \in SUBSET (1 .. k + 1) : g[s] \in A
        BY <2>3, <2>4
      <3>2. g = [s \in SUBSET (1 .. k + 1) |-> g[s]]
        OBVIOUS
      <3> HIDE DEF g
      <3> QED BY <3>1, <3>2
    <2>6. ASSUME NEW s \in SUBSET (1 .. k + 1)
          PROVE  g[s] = IF s = {} THEN b ELSE P[<<g[s \ {Max(s)}], q[Max(s)]>>]
      <3>1. CASE s \in SUBSET (1 .. k)
        <4>1. g[s] = h[s] /\ h[s] = IF s = {} THEN b ELSE P[<<h[s \ {Max(s)}], q[Max(s)]>>]
          BY <2>2, <2>3, <3>1
        <4>2. s \ {Max(s)} \in SUBSET (1 .. k)
          BY <3>1
        <4>3. g[s \ {Max(s)}] = h[s \ {Max(s)}]
          BY <2>3, <4>2
        <4> HIDE DEF g
        <4> QED BY <4>1, <4>3
      <3>2. CASE s \notin SUBSET (1 .. k)
        BY <2>4, <3>2
      <3> QED BY <3>1, <3>2
    <2>7. Good(g, k + 1)
      BY <2>5, <2>6
    <2> HIDE DEF Good, g
    <2> QED BY <2>7
  <1>3. T = Nat
    <2>1. T \in SUBSET Nat
      OBVIOUS
    <2> HIDE DEF T
    <2> QED BY <1>1, <1>2, <2>1, SetInduction
  <1>4. PICK h : Good(h, n)
    <2>1. n \in T /\ n <= n
      <3> HIDE DEF T
      <3> QED BY <1>3
    <2> HIDE DEF Good
    <2> QED BY <2>1
  <1>5. DOMAIN q = 1 .. n /\ h = [s \in SUBSET (1 .. n) |-> h[s]]
    BY <1>4
  <1>6. Folds(h, P, b, q)
    BY <1>4, <1>5 DEF Folds
  <1>7. h \in [SUBSET (1 .. n) -> A]
    BY <1>4
  <1> QED BY <1>6, <1>7

LEMMA FoldPlaces ==
  ASSUME NEW n \in Nat, NEW k \in 0 .. n - 1
  PROVE  /\ k + 1 \in 1 .. n /\ 1 .. k + 1 \in SUBSET (1 .. n) /\ 1 .. k + 1 # {}
         /\ Max(1 .. k + 1) = k + 1 /\ (1 .. k + 1) \ {k + 1} = 1 .. k
  <1>1. k + 1 \in 1 .. n /\ 1 .. k + 1 \in SUBSET (1 .. n) /\ k + 1 \in 1 .. k + 1
    OBVIOUS
  <1>2. (1 .. k + 1) \ {k + 1} = 1 .. k
    OBVIOUS
  <1>3. PICK s : s = 1 .. k + 1
    OBVIOUS
  <1>4. Max(s) \in s /\ \A y \in s : Max(s) >= y
    BY <1>1, <1>3, GreatestPlace
  <1>5. Max(s) \in 1 .. k + 1 /\ Max(s) >= k + 1
    BY <1>1, <1>3, <1>4
  <1>6. Max(s) = k + 1
    BY <1>5
  <1> QED BY <1>1, <1>2, <1>3, <1>6

\* The sum of the delays, without and with 32 bits
SumFold(h, q) ==
  h = [s \in SUBSET (DOMAIN q) |-> IF s = {} THEN 0 ELSE h[s \ {Max(s)}] + q[Max(s)]]

TotalFold(h, q) ==
  h = [s \in SUBSET (DOMAIN q) |-> IF s = {} THEN 0 ELSE Unsigned(h[s \ {Max(s)}] + q[Max(s)])]

\* The loop, one image on
Frame(s, d) ==
  IF s.over \/ Unsigned(s.t - d) >= s.t THEN [s EXCEPT !.over = TRUE]
  ELSE [s EXCEPT !.i = @ + 1, !.t = @ - d]

FrameFold(h, b, q) ==
  h = [s \in SUBSET (DOMAIN q) |-> IF s = {} THEN b ELSE Frame(h[s \ {Max(s)}], q[Max(s)])]

LastFrame(b, q) == (CHOOSE h : FrameFold(h, b, q))[DOMAIN q]

SumOf(q) == FoldLeft(+, 0, q)

LEMMA SumIs == \A q : FoldLeft(+, 0, q) = (CHOOSE h : SumFold(h, q))[DOMAIN q]
  BY DEF FoldLeft, MapThenFoldSet, SumFold

LEMMA TotalIs == \A q : total_delay(q) = (CHOOSE h : TotalFold(h, q))[DOMAIN q]
  BY DEF total_delay, FoldLeft, MapThenFoldSet, TotalFold

LEMMA FrameIs ==
  ASSUME NEW q, NEW time
  PROVE  LET s == LastFrame([i |-> 1, t |-> time % total_delay(q), over |-> FALSE], q)
         IN  wl_cursor_frame_and_duration(q, time) =
               [image |-> s.i, duration |-> IF s.t >= q[s.i] THEN 1 ELSE q[s.i] - s.t]
  BY DEF wl_cursor_frame_and_duration, FoldLeft, MapThenFoldSet, LastFrame, FrameFold, Frame

LEMMA SumsAre ==
  ASSUME NEW n \in Nat, NEW q \in [1 .. n -> Nat]
  PROVE  \E v \in [0 .. n -> Nat] :
            /\ v[0] = 0 /\ \A k \in 0 .. n - 1 : v[k + 1] = v[k] + q[k + 1]
            /\ SumOf(q) = v[n]
  <1>1. PICK P : P = [x \in Nat \X Nat |-> x[1] + x[2]] /\ P \in [Nat \X Nat -> Nat]
    <2>1. [x \in Nat \X Nat |-> x[1] + x[2]] \in [Nat \X Nat -> Nat]
      OBVIOUS
    <2> QED BY <2>1
  <1>2. PICK g \in [SUBSET (1 .. n) -> Nat] : Folds(g, P, 0, q)
    BY <1>1, FoldsExist
  <1>3. SumFold(g, q)
    <2>1. ASSUME NEW s \in SUBSET (1 .. n), s # {}
          PROVE  P[<<g[s \ {Max(s)}], q[Max(s)]>>] = g[s \ {Max(s)}] + q[Max(s)]
      <3>1. Max(s) \in 1 .. n
        BY <2>1, GreatestPlace
      <3>2. g[s \ {Max(s)}] \in Nat /\ q[Max(s)] \in Nat
        BY <3>1
      <3> QED BY <1>1, <3>2
    <2>2. DOMAIN q = 1 .. n
      OBVIOUS
    <2>3. g = [s \in SUBSET (1 .. n) |-> IF s = {} THEN 0 ELSE P[<<g[s \ {Max(s)}], q[Max(s)]>>]]
      BY <1>2, <2>2 DEF Folds
    <2>4. \A s \in SUBSET (1 .. n) : (IF s = {} THEN 0 ELSE P[<<g[s \ {Max(s)}], q[Max(s)]>>])
                                     = (IF s = {} THEN 0 ELSE g[s \ {Max(s)}] + q[Max(s)])
      BY <2>1
    <2> QED BY <2>2, <2>3, <2>4 DEF SumFold
  <1>4. PICK h : h = (CHOOSE f : SumFold(f, q)) /\ SumFold(h, q)
    BY <1>3
  <1>5. \A s \in SUBSET (1 .. n) : h[s] = IF s = {} THEN 0 ELSE h[s \ {Max(s)}] + q[Max(s)]
    BY <1>4 DEF SumFold
  <1>6. h[1 .. 0] = 0
    <2>1. 1 .. 0 = {} /\ 1 .. 0 \in SUBSET (1 .. n)
      OBVIOUS
    <2> QED BY <1>5, <2>1
  <1>7. \A k \in 0 .. n - 1 : h[1 .. k + 1] = h[1 .. k] + q[k + 1]
    <2> SUFFICES ASSUME NEW k \in 0 .. n - 1 PROVE h[1 .. k + 1] = h[1 .. k] + q[k + 1]
      OBVIOUS
    <2>1. PICK s : s = 1 .. k + 1
      OBVIOUS
    <2>2. s \in SUBSET (1 .. n) /\ s # {} /\ Max(s) = k + 1 /\ s \ {k + 1} = 1 .. k
      BY <2>1, FoldPlaces
    <2>3. h[s] = h[s \ {Max(s)}] + q[Max(s)]
      BY <1>5, <2>2
    <2> QED BY <2>1, <2>2, <2>3
  <1>8. \A k \in 0 .. n : h[1 .. k] \in Nat
    <2> DEFINE T == {k \in Nat : k <= n => h[1 .. k] \in Nat}
    <2>1. 0 \in T
      BY <1>6
    <2>2. ASSUME NEW k \in T PROVE k + 1 \in T
      <3>1. k \in Nat /\ (k + 1 <= n => k \in 0 .. n - 1 /\ k + 1 \in 1 .. n /\ h[1 .. k] \in Nat)
        OBVIOUS
      <3>2. k + 1 <= n => h[1 .. k + 1] = h[1 .. k] + q[k + 1] /\ q[k + 1] \in Nat
        BY <1>7, <3>1
      <3> QED BY <3>1, <3>2
    <2>3. T = Nat
      <3>1. T \in SUBSET Nat
        OBVIOUS
      <3> HIDE DEF T
      <3> QED BY <2>1, <2>2, <3>1, SetInduction
    <2> QED BY <2>3
  <1>9. PICK v : v = [k \in 0 .. n |-> h[1 .. k]]
    OBVIOUS
  <1>10. v \in [0 .. n -> Nat] /\ \A k \in 0 .. n : v[k] = h[1 .. k]
    BY <1>8, <1>9
  <1>11. \A k \in 0 .. n - 1 : k \in 0 .. n /\ k + 1 \in 0 .. n
    OBVIOUS
  <1>12. FoldLeft(+, 0, q) = v[n]
    <2>1. DOMAIN q = 1 .. n /\ n \in 0 .. n
      OBVIOUS
    <2> QED BY <1>4, <1>10, <2>1, SumIs
  <1>13. v[0] = 0
    BY <1>6, <1>10
  <1>14. \A k \in 0 .. n - 1 : v[k + 1] = v[k] + q[k + 1]
    BY <1>7, <1>10, <1>11
  <1> QED BY <1>10, <1>12, <1>13, <1>14 DEF SumOf

LEMMA UnsignedType ==
  /\ INT32_MAX \in Nat /\ 2 * INT32_MAX + 2 \in Nat \ {0}
  /\ \A n \in Int : Unsigned(n) \in 0 .. 2 * INT32_MAX + 1
  /\ \A n \in Nat : Unsigned(n) \in Nat /\ Unsigned(n) <= n
  <1>1. PICK M : M = 2 * INT32_MAX + 2
    OBVIOUS
  <1>2. INT32_MAX \in Nat /\ M \in Nat \ {0}
    BY <1>1, ShmAssumption
  <1>3. \A n \in Int : Unsigned(n) = n % M
    BY <1>1 DEF Unsigned
  <1>4. \A n \in Int : n % M \in 0 .. M - 1
    BY <1>2
  <1>5. \A n \in Nat : n % M \in Nat /\ n % M <= n
    BY <1>2, ModLess
  <1>6. M - 1 = 2 * INT32_MAX + 1
    BY <1>1, <1>2
  <1>7. \A n \in Int : Unsigned(n) \in 0 .. M - 1
    BY <1>3, <1>4
  <1>8. \A n \in Nat : Unsigned(n) \in Nat /\ Unsigned(n) <= n
    BY <1>3, <1>5
  <1> QED BY <1>1, <1>2, <1>6, <1>7, <1>8

LEMMA TotalsAre ==
  ASSUME NEW n \in Nat, NEW q \in [1 .. n -> Nat]
  PROVE  \E v \in [0 .. n -> Nat] :
            /\ v[0] = 0 /\ \A k \in 0 .. n - 1 : v[k + 1] = Unsigned(v[k] + q[k + 1])
            /\ total_delay(q) = v[n]
  <1>1. PICK P : P = [x \in Nat \X Nat |-> Unsigned(x[1] + x[2])] /\ P \in [Nat \X Nat -> Nat]
    <2>1. \A x \in Nat \X Nat : Unsigned(x[1] + x[2]) \in Nat
      <3> SUFFICES ASSUME NEW x \in Nat \X Nat PROVE Unsigned(x[1] + x[2]) \in Nat
        OBVIOUS
      <3>1. x[1] + x[2] \in Nat
        OBVIOUS
      <3> QED BY <3>1, UnsignedType
    <2>2. PICK P : P = [x \in Nat \X Nat |-> Unsigned(x[1] + x[2])]
      OBVIOUS
    <2>3. P \in [Nat \X Nat -> Nat]
      BY <2>1, <2>2
    <2> QED BY <2>2, <2>3
  <1>2. PICK g \in [SUBSET (1 .. n) -> Nat] : Folds(g, P, 0, q)
    BY <1>1, FoldsExist
  <1>3. TotalFold(g, q)
    <2>1. ASSUME NEW s \in SUBSET (1 .. n), s # {}
          PROVE  P[<<g[s \ {Max(s)}], q[Max(s)]>>] = Unsigned(g[s \ {Max(s)}] + q[Max(s)])
      <3>1. Max(s) \in 1 .. n
        BY <2>1, GreatestPlace
      <3>2. g[s \ {Max(s)}] \in Nat /\ q[Max(s)] \in Nat
        BY <3>1
      <3> QED BY <1>1, <3>2
    <2>2. DOMAIN q = 1 .. n
      OBVIOUS
    <2>3. g = [s \in SUBSET (1 .. n) |-> IF s = {} THEN 0 ELSE P[<<g[s \ {Max(s)}], q[Max(s)]>>]]
      BY <1>2, <2>2 DEF Folds
    <2>4. \A s \in SUBSET (1 .. n) : (IF s = {} THEN 0 ELSE P[<<g[s \ {Max(s)}], q[Max(s)]>>])
                                     = (IF s = {} THEN 0 ELSE Unsigned(g[s \ {Max(s)}] + q[Max(s)]))
      BY <2>1
    <2> QED BY <2>2, <2>3, <2>4 DEF TotalFold
  <1>4. PICK h : h = (CHOOSE f : TotalFold(f, q)) /\ TotalFold(h, q)
    BY <1>3
  <1>5. \A s \in SUBSET (1 .. n) : h[s] = IF s = {} THEN 0 ELSE Unsigned(h[s \ {Max(s)}] + q[Max(s)])
    BY <1>4 DEF TotalFold
  <1>6. h[1 .. 0] = 0
    <2>1. 1 .. 0 = {} /\ 1 .. 0 \in SUBSET (1 .. n)
      OBVIOUS
    <2> QED BY <1>5, <2>1
  <1>7. \A k \in 0 .. n - 1 : h[1 .. k + 1] = Unsigned(h[1 .. k] + q[k + 1])
    <2> SUFFICES ASSUME NEW k \in 0 .. n - 1 PROVE h[1 .. k + 1] = Unsigned(h[1 .. k] + q[k + 1])
      OBVIOUS
    <2>1. PICK s : s = 1 .. k + 1
      OBVIOUS
    <2>2. s \in SUBSET (1 .. n) /\ s # {} /\ Max(s) = k + 1 /\ s \ {k + 1} = 1 .. k
      BY <2>1, FoldPlaces
    <2>3. h[s] = Unsigned(h[s \ {Max(s)}] + q[Max(s)])
      BY <1>5, <2>2
    <2> QED BY <2>1, <2>2, <2>3
  <1>8. \A k \in 0 .. n : h[1 .. k] \in Nat
    <2> DEFINE T == {k \in Nat : k <= n => h[1 .. k] \in Nat}
    <2>1. 0 \in T
      BY <1>6
    <2>2. ASSUME NEW k \in T PROVE k + 1 \in T
      <3>1. k \in Nat /\ (k + 1 <= n => k \in 0 .. n - 1 /\ k + 1 \in 1 .. n /\ h[1 .. k] \in Nat)
        OBVIOUS
      <3>2. k + 1 <= n => h[1 .. k + 1] = Unsigned(h[1 .. k] + q[k + 1]) /\ q[k + 1] \in Nat
        BY <1>7, <3>1
      <3>3. k + 1 <= n => h[1 .. k] + q[k + 1] \in Nat
        BY <3>1, <3>2
      <3>4. k + 1 <= n => Unsigned(h[1 .. k] + q[k + 1]) \in Nat
        BY <3>3, UnsignedType
      <3> QED BY <3>1, <3>2, <3>4
    <2>3. T = Nat
      <3>1. T \in SUBSET Nat
        OBVIOUS
      <3> HIDE DEF T
      <3> QED BY <2>1, <2>2, <3>1, SetInduction
    <2> QED BY <2>3
  <1>9. PICK v : v = [k \in 0 .. n |-> h[1 .. k]]
    OBVIOUS
  <1>10. v \in [0 .. n -> Nat] /\ \A k \in 0 .. n : v[k] = h[1 .. k]
    BY <1>8, <1>9
  <1>11. \A k \in 0 .. n - 1 : k \in 0 .. n /\ k + 1 \in 0 .. n
    OBVIOUS
  <1>12. total_delay(q) = v[n]
    <2>1. DOMAIN q = 1 .. n /\ n \in 0 .. n
      OBVIOUS
    <2> QED BY <1>4, <1>10, <2>1, TotalIs
  <1>13. v[0] = 0
    BY <1>6, <1>10
  <1>14. \A k \in 0 .. n - 1 : v[k + 1] = Unsigned(v[k] + q[k + 1])
    BY <1>7, <1>10, <1>11
  <1> QED BY <1>10, <1>12, <1>13, <1>14

FrameStates == [i : Nat, t : Int, over : BOOLEAN]

LEMMA FrameType == \A s \in FrameStates : \A d \in Nat : Frame(s, d) \in FrameStates
  <1> SUFFICES ASSUME NEW s \in FrameStates, NEW d \in Nat PROVE Frame(s, d) \in FrameStates
    OBVIOUS
  <1>1. [s EXCEPT !.over = TRUE] \in FrameStates
    BY DEF FrameStates
  <1>2. [s EXCEPT !.i = @ + 1, !.t = @ - d] \in FrameStates
    <2>1. PICK a \in Nat, e \in Int : a = s.i + 1 /\ e = s.t - d
      BY DEF FrameStates
    <2>2. [s EXCEPT !.i = a, !.t = e] \in FrameStates
      BY DEF FrameStates
    <2> QED BY <2>1, <2>2
  <1> QED BY <1>1, <1>2 DEF Frame

FramesOf(v, b, q, n) ==
  /\ v \in [0 .. n -> FrameStates]
  /\ v[0] = b /\ \A k \in 0 .. n - 1 : v[k + 1] = Frame(v[k], q[k + 1])
  /\ LastFrame(b, q) = v[n]

LEMMA FramesAre ==
  ASSUME NEW n \in Nat, NEW q \in [1 .. n -> Nat], NEW b \in FrameStates
  PROVE  \E v : FramesOf(v, b, q, n)
  <1>1. PICK P : P = [x \in FrameStates \X Nat |-> Frame(x[1], x[2])] /\ P \in [FrameStates \X Nat -> FrameStates]
    <2>1. [x \in FrameStates \X Nat |-> Frame(x[1], x[2])] \in [FrameStates \X Nat -> FrameStates]
      BY FrameType
    <2> QED BY <2>1
  <1>2. PICK g \in [SUBSET (1 .. n) -> FrameStates] : Folds(g, P, b, q)
    BY <1>1, FoldsExist
  <1>3. FrameFold(g, b, q)
    <2>1. ASSUME NEW s \in SUBSET (1 .. n), s # {}
          PROVE  P[<<g[s \ {Max(s)}], q[Max(s)]>>] = Frame(g[s \ {Max(s)}], q[Max(s)])
      <3>1. Max(s) \in 1 .. n
        BY <2>1, GreatestPlace
      <3>2. g[s \ {Max(s)}] \in FrameStates /\ q[Max(s)] \in Nat
        BY <3>1
      <3> QED BY <1>1, <3>2
    <2>2. DOMAIN q = 1 .. n
      OBVIOUS
    <2>3. g = [s \in SUBSET (1 .. n) |-> IF s = {} THEN b ELSE P[<<g[s \ {Max(s)}], q[Max(s)]>>]]
      BY <1>2, <2>2 DEF Folds
    <2>4. \A s \in SUBSET (1 .. n) : (IF s = {} THEN b ELSE P[<<g[s \ {Max(s)}], q[Max(s)]>>])
                                     = (IF s = {} THEN b ELSE Frame(g[s \ {Max(s)}], q[Max(s)]))
      BY <2>1
    <2> QED BY <2>2, <2>3, <2>4 DEF FrameFold
  <1>4. PICK h : h = (CHOOSE f : FrameFold(f, b, q)) /\ FrameFold(h, b, q)
    BY <1>3
  <1>5. \A s \in SUBSET (1 .. n) : h[s] = IF s = {} THEN b ELSE Frame(h[s \ {Max(s)}], q[Max(s)])
    BY <1>4 DEF FrameFold
  <1>6. h[1 .. 0] = b
    <2>1. 1 .. 0 = {} /\ 1 .. 0 \in SUBSET (1 .. n)
      OBVIOUS
    <2> QED BY <1>5, <2>1
  <1>7. \A k \in 0 .. n - 1 : h[1 .. k + 1] = Frame(h[1 .. k], q[k + 1])
    <2> SUFFICES ASSUME NEW k \in 0 .. n - 1 PROVE h[1 .. k + 1] = Frame(h[1 .. k], q[k + 1])
      OBVIOUS
    <2>1. PICK s : s = 1 .. k + 1
      OBVIOUS
    <2>2. s \in SUBSET (1 .. n) /\ s # {} /\ Max(s) = k + 1 /\ s \ {k + 1} = 1 .. k
      BY <2>1, FoldPlaces
    <2>3. h[s] = Frame(h[s \ {Max(s)}], q[Max(s)])
      BY <1>5, <2>2
    <2> QED BY <2>1, <2>2, <2>3
  <1>8. \A k \in 0 .. n : h[1 .. k] \in FrameStates
    <2> DEFINE T == {k \in Nat : k <= n => h[1 .. k] \in FrameStates}
    <2>1. 0 \in T
      BY <1>6
    <2>2. ASSUME NEW k \in T PROVE k + 1 \in T
      <3>1. k \in Nat /\ (k + 1 <= n => k \in 0 .. n - 1 /\ k + 1 \in 1 .. n /\ h[1 .. k] \in FrameStates)
        OBVIOUS
      <3>2. k + 1 <= n => h[1 .. k + 1] = Frame(h[1 .. k], q[k + 1]) /\ q[k + 1] \in Nat
        BY <1>7, <3>1
      <3> QED BY <3>1, <3>2, FrameType
    <2>3. T = Nat
      <3>1. T \in SUBSET Nat
        OBVIOUS
      <3> HIDE DEF T
      <3> QED BY <2>1, <2>2, <3>1, SetInduction
    <2> QED BY <2>3
  <1>9. PICK v : v = [k \in 0 .. n |-> h[1 .. k]]
    OBVIOUS
  <1>10. v \in [0 .. n -> FrameStates] /\ \A k \in 0 .. n : v[k] = h[1 .. k]
    BY <1>8, <1>9
  <1>11. \A k \in 0 .. n - 1 : k \in 0 .. n /\ k + 1 \in 0 .. n
    OBVIOUS
  <1>12. LastFrame(b, q) = v[n]
    <2>1. DOMAIN q = 1 .. n /\ n \in 0 .. n
      OBVIOUS
    <2> QED BY <1>4, <1>10, <2>1 DEF LastFrame
  <1>13. v[0] = b
    BY <1>6, <1>10
  <1>14. \A k \in 0 .. n - 1 : v[k + 1] = Frame(v[k], q[k + 1])
    BY <1>7, <1>10, <1>11
  <1> QED BY <1>10, <1>12, <1>13, <1>14 DEF FramesOf

LEMMA FrameMoves ==
  ASSUME NEW s \in FrameStates, NEW d \in 0 .. 2 * INT32_MAX + 1, 0 <= s.t, s.t <= 2 * INT32_MAX + 1
  PROVE  LET f  == Frame(s, d)
             on == ~s.over /\ 0 < d /\ d <= s.t
         IN  /\ f.over <=> ~on
             /\ f.i = IF on THEN s.i + 1 ELSE s.i
             /\ f.t = IF on THEN s.t - d ELSE s.t
  <1>1. PICK M \in Nat \ {0} : M = 2 * INT32_MAX + 2
    BY UnsignedType
  <1>2. s.t \in Int /\ s.i \in Nat /\ s.over \in BOOLEAN
    BY DEF FrameStates
  <1>3. PICK t \in Int : t = s.t
    BY <1>2
  <1>4. 0 <= t /\ t < M /\ 0 <= d /\ d < M /\ d \in Int
    BY <1>1, <1>3, UnsignedType
  <1>5. Unsigned(t - d) = IF t - d < 0 THEN t - d + M ELSE t - d
    <2>1. t - d \in Int /\ -M <= t - d /\ t - d < M /\ t - d < 2 * M
      BY <1>4
    <2>2. (t - d) % M = IF t - d < 0 THEN t - d + M ELSE IF t - d < M THEN t - d ELSE t - d - M
      BY <2>1, ModNear
    <2> QED BY <1>1, <2>1, <2>2 DEF Unsigned
  <1>6. Unsigned(t - d) >= t <=> ~(0 < d /\ d <= t)
    BY <1>4, <1>5
  <1>7. CASE ~s.over /\ 0 < d /\ d <= t
    <2>1. PICK a, e : a = s.i + 1 /\ e = s.t - d
      OBVIOUS
    <2>2. Frame(s, d) = [s EXCEPT !.i = a, !.t = e]
      BY <1>3, <1>6, <1>7, <2>1 DEF Frame
    <2>3. Frame(s, d).i = a /\ Frame(s, d).t = e /\ Frame(s, d).over = s.over
      BY <2>2 DEF FrameStates
    <2> QED BY <1>3, <1>7, <2>1, <2>3
  <1>8. CASE ~(~s.over /\ 0 < d /\ d <= t)
    <2>1. Frame(s, d) = [s EXCEPT !.over = TRUE]
      BY <1>3, <1>6, <1>8 DEF Frame
    <2>2. Frame(s, d).i = s.i /\ Frame(s, d).t = s.t /\ Frame(s, d).over = TRUE
      BY <2>1 DEF FrameStates
    <2> QED BY <1>3, <1>8, <2>2
  <1> QED BY <1>7, <1>8

\* The times at which the images of an animation end
Ends(v, q, n) ==
  /\ v \in [0 .. n -> Nat]
  /\ v[0] = 0 /\ \A k \in 0 .. n - 1 : v[k + 1] = v[k] + q[k + 1]

LEMMA EndsGrow ==
  ASSUME NEW n \in Nat, NEW q \in [1 .. n -> Nat], NEW v, Ends(v, q, n)
  PROVE  \A j, k \in 0 .. n : /\ j <= k => v[j] <= v[k]
                              /\ j < k /\ q[k] > 0 => v[j] < v[k]
  <1> DEFINE T == {k \in Nat : k <= n => \A j \in 0 .. k : v[j] <= v[k]}
  <1>1. v \in [0 .. n -> Nat] /\ \A k \in 0 .. n - 1 : v[k + 1] = v[k] + q[k + 1]
    BY DEF Ends
  <1>2. 0 \in T
    BY <1>1
  <1>3. ASSUME NEW k \in T PROVE k + 1 \in T
    <2>1. k \in Nat
      OBVIOUS
    <2>2. ASSUME k + 1 <= n, NEW j \in 0 .. k + 1 PROVE v[j] <= v[k + 1]
      <3>1. v[k + 1] = v[k] + q[k + 1] /\ q[k + 1] \in Nat /\ v[k] \in Nat /\ v[k + 1] \in Nat
        BY <1>1, <2>1, <2>2
      <3>2. CASE j = k + 1
        BY <3>1, <3>2
      <3>3. CASE j \in 0 .. k
        <4>1. v[j] <= v[k] /\ v[j] \in Nat
          BY <1>1, <2>1, <2>2, <3>3
        <4> QED BY <3>1, <4>1
      <3> QED BY <2>1, <3>2, <3>3
    <2> QED BY <2>1, <2>2
  <1>4. T = Nat
    <2>1. T \in SUBSET Nat
      OBVIOUS
    <2> HIDE DEF T
    <2> QED BY <1>2, <1>3, <2>1, SetInduction
  <1>5. \A j, k \in 0 .. n : j <= k => v[j] <= v[k]
    <2> SUFFICES ASSUME NEW j \in 0 .. n, NEW k \in 0 .. n, j <= k PROVE v[j] <= v[k]
      OBVIOUS
    <2>1. k \in T /\ k <= n /\ j \in 0 .. k
      <3> HIDE DEF T
      <3> QED BY <1>4
    <2> QED BY <2>1
  <1>6. ASSUME NEW j \in 0 .. n, NEW k \in 0 .. n, j < k, q[k] > 0 PROVE v[j] < v[k]
    <2>1. PICK l \in 0 .. n - 1 : k = l + 1 /\ l \in 0 .. n /\ j <= l
      <3>1. k - 1 \in 0 .. n - 1 /\ k = (k - 1) + 1 /\ k - 1 \in 0 .. n /\ j <= k - 1
        BY <1>6
      <3> QED BY <3>1
    <2>2. v[j] <= v[l] /\ v[k] = v[l] + q[k] /\ v[j] \in Nat /\ v[l] \in Nat /\ v[k] \in Nat
      BY <1>1, <1>5, <2>1
    <2>3. q[k] \in Nat
      BY <2>1
    <2> QED BY <1>6, <2>2, <2>3
  <1> QED BY <1>5, <1>6

\* In 32 bits, the delays do not add up to more.
LEMMA TotalAtMost ==
  ASSUME NEW n \in Nat, NEW q \in [1 .. n -> Nat], NEW v, Ends(v, q, n)
  PROVE  total_delay(q) \in Nat /\ total_delay(q) <= v[n] /\ (n > 0 => total_delay(q) <= 2 * INT32_MAX + 1)
  <1>1. PICK u \in [0 .. n -> Nat] : /\ u[0] = 0
                                     /\ \A k \in 0 .. n - 1 : u[k + 1] = Unsigned(u[k] + q[k + 1])
                                     /\ total_delay(q) = u[n]
    BY TotalsAre
  <1>2. v \in [0 .. n -> Nat] /\ v[0] = 0 /\ \A k \in 0 .. n - 1 : v[k + 1] = v[k] + q[k + 1]
    BY DEF Ends
  <1> DEFINE T == {k \in Nat : k <= n => u[k] <= v[k]}
  <1>3. 0 \in T
    BY <1>1, <1>2
  <1>4. ASSUME NEW k \in T PROVE k + 1 \in T
    <2>1. k \in Nat
      OBVIOUS
    <2>2. ASSUME k + 1 <= n PROVE u[k + 1] <= v[k + 1]
      <3>1. k \in 0 .. n - 1 /\ k \in 0 .. n /\ k + 1 \in 1 .. n /\ k + 1 \in 0 .. n /\ k <= n
        BY <2>1, <2>2
      <3>2. u[k] \in Nat /\ v[k] \in Nat /\ q[k + 1] \in Nat /\ u[k + 1] \in Nat /\ u[k] <= v[k]
        BY <1>2, <3>1
      <3>3. u[k + 1] = Unsigned(u[k] + q[k + 1]) /\ v[k + 1] = v[k] + q[k + 1]
        BY <1>1, <1>2, <3>1
      <3>4. u[k] + q[k + 1] \in Nat
        BY <3>2
      <3>5. u[k + 1] <= u[k] + q[k + 1]
        BY <3>3, <3>4, UnsignedType
      <3> QED BY <3>2, <3>3, <3>5
    <2> QED BY <2>1, <2>2
  <1>5. T = Nat
    <2>1. T \in SUBSET Nat
      OBVIOUS
    <2> HIDE DEF T
    <2> QED BY <1>3, <1>4, <2>1, SetInduction
  <1>6. u[n] <= v[n] /\ u[n] \in Nat
    <2>1. n \in T
      <3> HIDE DEF T
      <3> QED BY <1>5
    <2> QED BY <2>1
  <1>7. n > 0 => u[n] <= 2 * INT32_MAX + 1
    <2> SUFFICES ASSUME n > 0 PROVE u[n] <= 2 * INT32_MAX + 1
      OBVIOUS
    <2>1. PICK k \in 0 .. n - 1 : n = k + 1 /\ k \in 0 .. n /\ n \in 1 .. n
      <3>1. n - 1 \in 0 .. n - 1 /\ n = (n - 1) + 1 /\ n - 1 \in 0 .. n /\ n \in 1 .. n
        OBVIOUS
      <3> QED BY <3>1
    <2>2. u[k] + q[n] \in Int
      BY <2>1
    <2>3. u[n] = Unsigned(u[k] + q[n])
      BY <1>1, <2>1
    <2>4. Unsigned(u[k] + q[n]) \in 0 .. 2 * INT32_MAX + 1
      BY <2>2, UnsignedType
    <2> QED BY <2>3, <2>4, UnsignedType
  <1> QED BY <1>1, <1>6, <1>7

\* What is shown at a time r since the first image was
Shown(w, r, v, q, n) ==
  /\ w.image \in 1 .. n
  /\ \A k \in 1 .. w.image - 1 : q[k] > 0
  /\ v[w.image - 1] <= r
  /\ q[w.image] = 0 \/ r < v[w.image]
  /\ w.duration = IF r - v[w.image - 1] >= q[w.image] THEN 1
                  ELSE q[w.image] - (r - v[w.image - 1])

LEMMA TimeLeft ==
  ASSUME NEW r \in Nat, NEW a \in Nat, NEW d \in Nat, NEW t \in Int, t = r - a, d <= t
  PROVE  t - d = r - (a + d) /\ 0 <= t - d
  OBVIOUS

LEMMA ImageShown ==
  ASSUME NEW n \in Nat, n > 0, NEW q \in [1 .. n -> Nat], \A k \in 1 .. n : q[k] <= 2 * INT32_MAX + 1,
         NEW v, Ends(v, q, n), NEW time \in Nat, total_delay(q) > 0
  PROVE  /\ time % total_delay(q) \in Nat /\ time % total_delay(q) < total_delay(q)
         /\ Shown(wl_cursor_frame_and_duration(q, time), time % total_delay(q), v, q, n)
  <1>1. PICK T \in Nat \ {0} : T = total_delay(q) /\ T <= v[n] /\ T <= 2 * INT32_MAX + 1
    BY TotalAtMost
  <1>2. PICK r \in 0 .. T - 1 : r = time % T
    OBVIOUS
  <1>3. /\ v \in [0 .. n -> Nat] /\ v[0] = 0
        /\ \A k \in 0 .. n - 1 : v[k + 1] = v[k] + q[k + 1]
    BY DEF Ends
  <1>4. PICK b : /\ b \in FrameStates /\ b = [i |-> 1, t |-> r, over |-> FALSE]
                 /\ b.i = 1 /\ b.t = r /\ ~b.over
    <2>1. PICK b : b = [i |-> 1, t |-> r, over |-> FALSE]
      OBVIOUS
    <2>2. 1 \in Nat /\ r \in Int /\ FALSE \in BOOLEAN
      OBVIOUS
    <2>3. b \in FrameStates
      BY <2>1, <2>2 DEF FrameStates
    <2>4. b.i = 1 /\ b.t = r /\ ~b.over
      BY <2>1
    <2> QED BY <2>1, <2>3, <2>4
  <1>5. PICK f \in [0 .. n -> FrameStates] :
           /\ f[0] = b /\ \A k \in 0 .. n - 1 : f[k + 1] = Frame(f[k], q[k + 1])
           /\ LastFrame(b, q) = f[n]
    <2>1. b \in FrameStates
      BY <1>4
    <2>2. PICK f : FramesOf(f, b, q, n)
      BY <2>1, FramesAre
    <2> QED BY <2>2 DEF FramesOf
  <1>6. PICK w : w = wl_cursor_frame_and_duration(q, time)
    OBVIOUS
  <1>7. w = [image |-> f[n].i, duration |-> IF f[n].t >= q[f[n].i] THEN 1 ELSE q[f[n].i] - f[n].t]
    <2>1. b = [i |-> 1, t |-> time % total_delay(q), over |-> FALSE]
      BY <1>1, <1>2, <1>4
    <2>2. PICK s : s = LastFrame(b, q)
      OBVIOUS
    <2>3. w = [image |-> s.i, duration |-> IF s.t >= q[s.i] THEN 1 ELSE q[s.i] - s.t]
      BY <1>6, <2>1, <2>2, FrameIs
    <2> QED BY <1>5, <2>2, <2>3
  <1> DEFINE Where(k, i, t, over) ==
               /\ i \in 1 .. k + 1 /\ t = r - v[i - 1] /\ 0 <= t
               /\ \A j \in 1 .. i - 1 : q[j] > 0
               /\ ~over => i = k + 1
               /\ over => i <= k /\ ~(0 < q[i] /\ q[i] <= t)
             W == {k \in Nat : k <= n => Where(k, f[k].i, f[k].t, f[k].over)}
  <1>8. 0 \in W
    <2>1. f[0].i = 1 /\ f[0].t = r /\ ~f[0].over
      BY <1>4, <1>5
    <2>2. r - v[1 - 1] = r /\ 1 - 1 = 0
      BY <1>3
    <2>3. Where(0, 1, r, FALSE)
      BY <2>2
    <2>4. Where(0, f[0].i, f[0].t, f[0].over)
      BY <2>1, <2>2
    <2> HIDE DEF Where
    <2> QED BY <2>4
  <1>9. ASSUME NEW k \in W PROVE k + 1 \in W
    <2>1. k \in Nat /\ k + 1 \in Nat
      <3> HIDE DEF Where
      <3>1. k \in Nat
        OBVIOUS
      <3> QED BY <3>1
    <2>2. ASSUME k + 1 <= n PROVE Where(k + 1, f[k + 1].i, f[k + 1].t, f[k + 1].over)
      <3>1. k \in 0 .. n - 1 /\ k \in 0 .. n /\ k + 1 \in 1 .. n /\ k <= n /\ k + 1 \in 0 .. n
        BY <2>1, <2>2
      <3>2. PICK s : s = f[k] /\ s \in FrameStates
        BY <3>1
      <3>3. Where(k, s.i, s.t, s.over)
        <4> HIDE DEF Where
        <4> QED BY <3>1, <3>2
      <3>4. PICK i, t : i = s.i /\ t = s.t
        OBVIOUS
      <3>5. i \in Nat /\ t \in Int /\ s.over \in BOOLEAN
        BY <3>2, <3>4 DEF FrameStates
      <3>6. i \in 1 .. k + 1 /\ t = r - v[i - 1] /\ 0 <= t /\ v[i - 1] \in Nat /\ t <= r
        <4>1. i \in 1 .. k + 1 /\ t = r - v[i - 1] /\ 0 <= t
          BY <3>3, <3>4
        <4>2. i - 1 \in 0 .. n
          BY <3>1, <4>1
        <4>3. v[i - 1] \in Nat
          BY <1>3, <4>2
        <4> QED BY <4>1, <4>3
      <3>7. PICK d \in Nat : d = q[k + 1] /\ d \in 0 .. 2 * INT32_MAX + 1
        BY <3>1, UnsignedType
      <3>8. 0 <= s.t /\ s.t <= 2 * INT32_MAX + 1
        <4>1. INT32_MAX \in Nat
          BY UnsignedType
        <4> QED BY <1>1, <3>4, <3>6, <4>1
      <3>9. PICK g : g = f[k + 1] /\ g = Frame(s, d)
        BY <1>5, <3>1, <3>2, <3>7
      <3>10. /\ g.over <=> ~(~s.over /\ 0 < d /\ d <= s.t)
             /\ g.i = IF ~s.over /\ 0 < d /\ d <= s.t THEN s.i + 1 ELSE s.i
             /\ g.t = IF ~s.over /\ 0 < d /\ d <= s.t THEN s.t - d ELSE s.t
        <4>1. /\ Frame(s, d).over <=> ~(~s.over /\ 0 < d /\ d <= s.t)
              /\ Frame(s, d).i = IF ~s.over /\ 0 < d /\ d <= s.t THEN s.i + 1 ELSE s.i
              /\ Frame(s, d).t = IF ~s.over /\ 0 < d /\ d <= s.t THEN s.t - d ELSE s.t
          BY <3>2, <3>7, <3>8, FrameMoves
        <4> QED BY <3>9, <4>1
      <3>11. CASE ~s.over /\ 0 < d /\ d <= t
        <4>1. ~g.over /\ g.i = i + 1 /\ g.t = t - d
          BY <3>4, <3>11, <3>10
        <4>2. i = k + 1 /\ q[i] = d
          BY <3>3, <3>4, <3>7, <3>11
        <4>3. v[i] = v[i - 1] + d
          BY <1>3, <3>1, <3>7, <4>2
        <4>4. \A j \in 1 .. i : q[j] > 0
          <5>1. \A j \in 1 .. i - 1 : q[j] > 0
            BY <3>3, <3>4
          <5>2. \A j \in 1 .. i : j = i \/ j \in 1 .. i - 1
            BY <3>5
          <5> QED BY <3>11, <4>2, <5>1, <5>2
        <4>5. t - d = r - v[i] /\ 0 <= t - d /\ (i + 1) - 1 = i /\ i + 1 \in 1 .. (k + 1) + 1
          <5>1. PICK a \in Nat, c \in Nat : a = v[i - 1] /\ c = v[i] /\ c = a + d
            BY <3>6, <4>3
          <5>2. t - d = r - c /\ 0 <= t - d
            <6>1. t = r - a /\ r \in Nat /\ t \in Int /\ d <= t
              BY <3>5, <3>6, <3>11, <5>1
            <6>2. c = a + d
              BY <5>1
            <6> QED BY <6>1, <6>2, TimeLeft
          <5>3. (i + 1) - 1 = i /\ i + 1 \in 1 .. (k + 1) + 1
            BY <2>1, <3>5, <3>6
          <5> QED BY <5>1, <5>2, <5>3
        <4>6. Where(k + 1, i + 1, t - d, FALSE)
          BY <4>2, <4>4, <4>5
        <4>7. g.over = FALSE
          <5>1. g \in FrameStates
            BY <3>1, <3>9
          <5> QED BY <4>1, <5>1 DEF FrameStates
        <4> HIDE DEF Where
        <4> QED BY <3>9, <4>1, <4>6, <4>7
      <3>12. CASE ~(~s.over /\ 0 < d /\ d <= t)
        <4>1. g.over /\ g.i = i /\ g.t = t
          BY <3>4, <3>12, <3>10
        <4>2. i <= k + 1 /\ i \in 1 .. (k + 1) + 1
          BY <2>1, <3>6
        <4>3. ~(0 < q[i] /\ q[i] <= t)
          BY <3>3, <3>4, <3>7, <3>12
        <4>4. \A j \in 1 .. i - 1 : q[j] > 0
          BY <3>3, <3>4
        <4>5. Where(k + 1, i, t, TRUE)
          BY <3>6, <4>2, <4>3, <4>4
        <4>6. g.over = TRUE
          <5>1. g \in FrameStates
            BY <3>1, <3>9
          <5> QED BY <4>1, <5>1 DEF FrameStates
        <4> HIDE DEF Where
        <4> QED BY <3>9, <4>1, <4>5, <4>6
      <3> HIDE DEF Where
      <3> QED BY <3>11, <3>12
    <2> HIDE DEF Where
    <2> QED BY <2>1, <2>2
  <1>10. W = Nat
    <2>1. W \in SUBSET Nat
      <3> HIDE DEF Where
      <3> QED OBVIOUS
    <2> HIDE DEF W
    <2> QED BY <1>8, <1>9, <2>1, SetInduction
  <1>11. PICK i, t, over : i = f[n].i /\ t = f[n].t /\ over = f[n].over
    OBVIOUS
  <1>12. Where(n, i, t, over)
    <2>1. n \in W /\ n <= n
      <3> HIDE DEF W
      <3> QED BY <1>10
    <2> HIDE DEF Where
    <2> QED BY <1>11, <2>1
  <1>13. i \in 1 .. n
    <2>1. CASE over
      BY <1>12, <2>1
    <2>2. CASE ~over
      <3>1. i = n + 1 /\ t = r - v[n] /\ 0 <= t /\ v[n] \in Nat
        BY <1>3, <1>12, <2>2
      <3> QED BY <1>1, <1>2, <3>1
    <2> QED BY <2>1, <2>2
  <1>14. over
    BY <1>12, <1>13
  <1>15. /\ v[i - 1] \in Nat /\ v[i] \in Nat /\ q[i] \in Nat /\ v[i] = v[i - 1] + q[i]
    <2>1. PICK k \in 0 .. n - 1 : i = k + 1 /\ i - 1 = k /\ k \in 0 .. n /\ i \in 0 .. n
      <3>1. i - 1 \in 0 .. n - 1 /\ i = (i - 1) + 1 /\ i - 1 \in 0 .. n /\ i \in 0 .. n
        BY <1>13
      <3> QED BY <3>1
    <2> QED BY <1>3, <1>13, <2>1
  <1>16. t = r - v[i - 1] /\ 0 <= t /\ ~(0 < q[i] /\ q[i] <= t) /\ \A j \in 1 .. i - 1 : q[j] > 0
    BY <1>12, <1>14
  <1>17. v[i - 1] <= r /\ (q[i] = 0 \/ r < v[i])
    BY <1>15, <1>16
  <1>18. w.image = i /\ w.duration = IF t >= q[i] THEN 1 ELSE q[i] - t
    BY <1>7, <1>11
  <1>19. r \in Nat /\ r < T
    BY <1>2
  <1>20. Shown(w, r, v, q, n)
    BY <1>6, <1>13, <1>16, <1>17, <1>18 DEF Shown
  <1> QED BY <1>1, <1>2, <1>6, <1>19, <1>20

LEMMA PartialSum ==
  ASSUME NEW n \in Nat, NEW q \in [1 .. n -> Nat], NEW v, Ends(v, q, n), NEW m \in 0 .. n
  PROVE  SumOf(SubSeq(q, 1, m)) = v[m]
  <1>1. PICK p : p = SubSeq(q, 1, m)
    OBVIOUS
  <1>2. p \in [1 .. m -> Nat] /\ \A k \in 1 .. m : p[k] = q[k]
    <2>1. p = [k \in 1 .. m |-> q[k]]
      <3>1. p = [k \in 1 .. (1 + m - 1) |-> q[1 + k - 1]]
        BY <1>1
      <3>2. 1 + m - 1 = m /\ \A k \in 1 .. m : 1 + k - 1 = k
        OBVIOUS
      <3> QED BY <3>1, <3>2
    <2>2. \A k \in 1 .. m : k \in 1 .. n
      OBVIOUS
    <2> QED BY <2>1, <2>2
  <1>3. PICK u \in [0 .. m -> Nat] : /\ u[0] = 0 /\ \A k \in 0 .. m - 1 : u[k + 1] = u[k] + p[k + 1]
                                     /\ SumOf(p) = u[m]
    <2>1. m \in Nat
      OBVIOUS
    <2> QED BY <1>2, <2>1, SumsAre
  <1>4. v \in [0 .. n -> Nat] /\ v[0] = 0 /\ \A k \in 0 .. n - 1 : v[k + 1] = v[k] + q[k + 1]
    BY DEF Ends
  <1> DEFINE T == {k \in Nat : k <= m => u[k] = v[k]}
  <1>5. 0 \in T
    BY <1>3, <1>4
  <1>6. ASSUME NEW k \in T PROVE k + 1 \in T
    <2>1. k \in Nat
      OBVIOUS
    <2>2. ASSUME k + 1 <= m PROVE u[k + 1] = v[k + 1]
      <3>1. k \in 0 .. m - 1 /\ k \in 0 .. n - 1 /\ k + 1 \in 1 .. m /\ k <= m
        BY <2>1, <2>2
      <3>2. u[k] = v[k]
        BY <3>1
      <3>3. u[k + 1] = u[k] + p[k + 1] /\ v[k + 1] = v[k] + q[k + 1] /\ p[k + 1] = q[k + 1]
        BY <1>2, <1>3, <1>4, <3>1
      <3> QED BY <3>2, <3>3
    <2> QED BY <2>1, <2>2
  <1>7. T = Nat
    <2>1. T \in SUBSET Nat
      OBVIOUS
    <2> HIDE DEF T
    <2> QED BY <1>5, <1>6, <2>1, SetInduction
  <1>8. u[m] = v[m]
    <2>1. m \in T /\ m <= m
      <3> HIDE DEF T
      <3> QED BY <1>7
    <2> QED BY <2>1
  <1> QED BY <1>1, <1>3, <1>8

\* The images follow each other.
LEMMA NextImage ==
  ASSUME NEW n \in Nat, n > 0, NEW q \in [1 .. n -> Nat], \A k \in 1 .. n : q[k] <= 2 * INT32_MAX + 1,
         NEW v, Ends(v, q, n), NEW time \in Nat, total_delay(q) > 0,
         \A k \in 1 .. n : q[k] # 0, v[n] = total_delay(q)
  PROVE  LET w == wl_cursor_frame_and_duration(q, time)
         IN  wl_cursor_frame_and_duration(q, time + w.duration).image = (w.image % n) + 1
  <1>1. PICK T \in Nat \ {0} : T = total_delay(q) /\ T = v[n]
    BY TotalAtMost
  <1>2. PICK w, r : w = wl_cursor_frame_and_duration(q, time) /\ r = time % T
    OBVIOUS
  <1>3. PICK i : i = w.image
    OBVIOUS
  <1>4. /\ r \in Nat /\ r < T /\ i \in 1 .. n /\ v[i - 1] <= r
        /\ q[i] = 0 \/ r < v[i]
        /\ w.duration = IF r - v[i - 1] >= q[i] THEN 1 ELSE q[i] - (r - v[i - 1])
    <2>1. r \in Nat /\ r < T /\ Shown(w, r, v, q, n)
      BY <1>1, <1>2, ImageShown
    <2> QED BY <1>3, <2>1 DEF Shown
  <1>5. v \in [0 .. n -> Nat] /\ v[0] = 0 /\ \A k \in 0 .. n - 1 : v[k + 1] = v[k] + q[k + 1]
    BY DEF Ends
  <1>6. /\ i \in 0 .. n /\ i - 1 \in 0 .. n - 1 /\ i - 1 \in 0 .. n /\ (i - 1) + 1 = i /\ i \in Nat
        /\ n \in 0 .. n /\ i <= n
    BY <1>4
  <1>7. v[i - 1] \in Nat /\ v[i] \in Nat /\ q[i] \in Nat /\ q[i] # 0 /\ v[i] = v[i - 1] + q[i]
    BY <1>4, <1>5, <1>6
  <1>8. PICK d \in Nat : d = w.duration /\ r + d = v[i]
    <2>1. ~(r - v[i - 1] >= q[i])
      BY <1>4, <1>7
    <2>2. PICK e : e = w.duration
      OBVIOUS
    <2>3. e = q[i] - (r - v[i - 1])
      BY <1>4, <2>1, <2>2
    <2>4. PICK a \in Nat, c \in Nat : a = v[i - 1] /\ c = q[i] /\ v[i] = a + c
      BY <1>7
    <2>5. a <= r /\ r < a + c /\ r \in Nat
      BY <1>4, <1>7, <2>4
    <2>6. e = c - (r - a)
      BY <2>3, <2>4
    <2>7. e \in Nat /\ r + e = a + c
      BY <2>5, <2>6
    <2> QED BY <2>2, <2>4, <2>7
  <1>9. v[i] <= T
    BY <1>1, <1>6, EndsGrow
  <1>10. time + d \in Nat /\ (time + d) % T = IF v[i] = T THEN 0 ELSE v[i]
    <2>1. time % T = r /\ r \in Nat /\ v[i] \in Nat
      BY <1>2, <1>1, <1>4, <1>7
    <2>2. (time % T) + d <= T
      BY <1>8, <1>9, <2>1
    <2>3. (time + d) % T = IF (time % T) + d = T THEN 0 ELSE (time % T) + d
      BY <2>2, ModShift
    <2>4. PICK y, a : y = (time + d) % T /\ a = time % T
      OBVIOUS
    <2>5. y = IF v[i] = T THEN 0 ELSE v[i]
      BY <1>8, <2>1, <2>3, <2>4
    <2>6. time + d \in Nat
      OBVIOUS
    <2> QED BY <2>4, <2>5, <2>6
  <1>11. PICK z, j : z = wl_cursor_frame_and_duration(q, time + d) /\ j = z.image
    OBVIOUS
  <1>12. PICK e : e = (time + d) % T
    OBVIOUS
  <1>13. j \in 1 .. n /\ v[j - 1] <= e /\ (q[j] = 0 \/ e < v[j])
    <2>1. time + d \in Nat
      BY <1>10
    <2>2. Shown(z, e, v, q, n)
      BY <1>1, <1>11, <1>12, <2>1, ImageShown
    <2> QED BY <1>11, <2>2 DEF Shown
  <1>14. /\ j \in Nat /\ j \in 0 .. n /\ j - 1 \in 0 .. n /\ q[j] # 0 /\ e < v[j]
         /\ v[j] \in Nat /\ v[j - 1] \in Nat
    BY <1>5, <1>13
  <1>15. \A k, l \in 0 .. n : k < l => v[k] < v[l]
    <2> SUFFICES ASSUME NEW k \in 0 .. n, NEW l \in 0 .. n, k < l PROVE v[k] < v[l]
      OBVIOUS
    <2>1. l \in 1 .. n
      OBVIOUS
    <2>2. q[l] > 0
      <3>1. q[l] \in Nat /\ q[l] # 0
        BY <2>1
      <3> QED BY <3>1
    <2> QED BY <2>2, EndsGrow
  <1>16. CASE i = n
    <2>1. e = 0 /\ i % n = 0
      <3>1. e = 0
        BY <1>1, <1>10, <1>12, <1>16
      <3>2. n % n = 0
        <4>1. n % n = IF n < 0 THEN n + n ELSE IF n < n THEN n ELSE n - n
          BY ModNear
        <4> QED BY <4>1
      <3> QED BY <1>16, <3>1, <3>2
    <2>2. v[j - 1] = 0
      BY <1>13, <1>14, <2>1
    <2>3. ~(0 < j - 1)
      <3>1. 0 \in 0 .. n
        OBVIOUS
      <3>2. 0 < j - 1 => v[0] < v[j - 1]
        BY <1>14, <1>15, <3>1
      <3> QED BY <1>5, <2>2, <3>2
    <2>4. j = 1
      BY <1>13, <2>3
    <2> QED BY <1>2, <1>3, <1>8, <1>11, <2>1, <2>4
  <1>17. CASE i # n
    <2>1. i < n
      BY <1>6, <1>17
    <2>2. v[i] < T
      BY <1>1, <1>6, <1>15, <2>1
    <2>3. e = v[i]
      BY <1>7, <1>10, <1>12, <2>2
    <2>4. ~(i < j - 1)
      <3>1. i < j - 1 => v[i] < v[j - 1]
        BY <1>6, <1>14, <1>15
      <3> QED BY <1>7, <1>13, <1>14, <2>3, <3>1
    <2>5. ~(j <= i)
      <3>1. j <= i => v[j] <= v[i]
        BY <1>6, <1>14, EndsGrow
      <3> QED BY <1>7, <1>14, <2>3, <3>1
    <2>6. j = i + 1
      BY <1>6, <1>14, <2>4, <2>5
    <2>7. i % n = i
      <3>1. n \in Nat \ {0} /\ i \in Int /\ -n <= i /\ i < 2 * n /\ ~(i < 0)
        BY <1>6, <2>1
      <3> QED BY <2>1, <3>1, ModNear
    <2> QED BY <1>2, <1>3, <1>8, <1>11, <2>6, <2>7
  <1> QED BY <1>16, <1>17

\* wl_cursor_frame_and_duration, for animations of any length
LEMMA Animated == AnimationsGoOn
  <1> SUFFICES ASSUME NEW n \in 2 .. MaxImages, NEW q \in TupleOf(Delays, n),
                      NEW time \in 0 .. 2 * INT32_MAX + 1, total_delay(q) > 0
               PROVE  LET shown  == wl_cursor_frame_and_duration(q, time)
                          t      == time % total_delay(q)
                          before == SumOf(SubSeq(q, 1, shown.image - 1))
                          after  == wl_cursor_frame_and_duration(q, time + shown.duration)
                      IN  /\ \A k \in 1 .. shown.image - 1 : q[k] > 0
                          /\ before <= t
                          /\ t < before + q[shown.image] \/ q[shown.image] = 0
                          /\ shown.duration > 0
                          /\ (/\ 0 \notin Range(q)
                              /\ SumOf(q) = total_delay(q)
                              /\ time + shown.duration <= 2 * INT32_MAX + 1) =>
                                 after.image = (shown.image % Len(q)) + 1
    BY DEF AnimationsGoOn, SumOf
  <1>1. n \in Nat /\ n > 0 /\ time \in Nat
    <2>1. MaxImages \in Nat /\ INT32_MAX \in Nat
      BY CursorAssumption, UnsignedType
    <2> QED BY <2>1
  <1>2. q \in [1 .. n -> Nat] /\ \A k \in 1 .. n : q[k] <= 2 * INT32_MAX + 1
    <2>1. q \in [1 .. n -> Delays] /\ Delays \subseteq 0 .. 2 * INT32_MAX + 1
      BY CursorAssumption DEF TupleOf
    <2>2. \A d \in Delays : d \in Nat /\ d <= 2 * INT32_MAX + 1
      BY <2>1, UnsignedType
    <2> QED BY <2>1, <2>2
  <1>3. PICK v \in [0 .. n -> Nat] : /\ v[0] = 0 /\ \A k \in 0 .. n - 1 : v[k + 1] = v[k] + q[k + 1]
                                     /\ SumOf(q) = v[n]
    BY <1>1, <1>2, SumsAre
  <1>4. Ends(v, q, n)
    BY <1>3 DEF Ends
  <1>5. PICK w, r : w = wl_cursor_frame_and_duration(q, time) /\ r = time % total_delay(q)
    OBVIOUS
  <1>6. PICK i, d : i = w.image /\ d = w.duration
    OBVIOUS
  <1>7. /\ r \in Nat /\ i \in 1 .. n /\ \A k \in 1 .. i - 1 : q[k] > 0
        /\ v[i - 1] <= r /\ (q[i] = 0 \/ r < v[i])
        /\ d = IF r - v[i - 1] >= q[i] THEN 1 ELSE q[i] - (r - v[i - 1])
    <2>1. r \in Nat /\ Shown(w, r, v, q, n)
      BY <1>1, <1>2, <1>4, <1>5, ImageShown
    <2> QED BY <1>6, <2>1 DEF Shown
  <1>8. i - 1 \in 0 .. n - 1 /\ i - 1 \in 0 .. n /\ (i - 1) + 1 = i
    BY <1>1, <1>7
  <1>9. v[i - 1] \in Nat /\ q[i] \in Nat /\ v[i] = v[i - 1] + q[i]
    BY <1>2, <1>3, <1>7, <1>8
  <1>10. SumOf(SubSeq(q, 1, i - 1)) = v[i - 1]
    <2>1. PICK m \in 0 .. n : m = i - 1
      BY <1>8
    <2>2. n \in Nat /\ q \in [1 .. n -> Nat]
      BY <1>1, <1>2
    <2>3. SumOf(SubSeq(q, 1, m)) = v[m]
      BY <1>4, <2>2, PartialSum
    <2> QED BY <2>1, <2>3
  <1>11. d > 0
    <2>1. PICK a \in Nat, e \in Nat : a = v[i - 1] /\ e = q[i]
      BY <1>9
    <2>2. d = IF r - a >= e THEN 1 ELSE e - (r - a)
      BY <1>7, <2>1
    <2> QED BY <1>7, <2>2
  <1>12. Len(q) = n
    BY <1>1, <1>2
  <1>13. ASSUME 0 \notin Range(q), SumOf(q) = total_delay(q)
         PROVE  wl_cursor_frame_and_duration(q, time + d).image = (i % n) + 1
    <2>1. \A k \in 1 .. n : q[k] # 0
      BY <1>2, <1>13 DEF Range
    <2>2. v[n] = total_delay(q)
      BY <1>3, <1>13
    <2> QED BY <1>1, <1>2, <1>4, <1>5, <1>6, <2>1, <2>2, NextImage
  <1> QED BY <1>5, <1>6, <1>7, <1>9, <1>10, <1>11, <1>12, <1>13

\* wl_cursor_theme_load, shm_pool_allocate and wl_cursor_image_get_buffer: unless
\* mmap fails in shm_pool_resize, no request of the library is refused, no page of
\* its file is missing and no two images overlap, however far the compositor is
\* behind; and wl_cursor_frame_and_duration shows every image of an animation in
\* its turn, however many there are and whatever their delays.
THEOREM LibraryIsNeverRefused ==
  ASSUME ~MmapFails
  PROVE  CursorSpec => []CursorInv
  <1>1. LibraryInv => CursorInv
    BY Animated DEF LibraryInv, ThemeInv, RequestInv, LibraryRespected, CursorInv
  <1> QED BY <1>1, LibraryAlways, PTL
=============================================================================
