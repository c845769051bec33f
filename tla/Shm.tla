--------------------------------- MODULE Shm ---------------------------------
(***************************************************************************)
(* wl_shm on the server (wayland-shm.c): pools that map a file of the      *)
(* client, buffers in them, references to pools, and access to buffers by  *)
(* several threads under the SIGBUS handler, while the client makes the    *)
(* file smaller, sends any request and goes away.  Sizes are counted in    *)
(* pages; integers end at INT32_MAX and wrap.                              *)
(***************************************************************************)
EXTENDS Integers, Sequences, FiniteSets

CONSTANTS
    Pools, Buffers,  \* wl_shm_pool and wl_buffer objects of the client
    Threads,         \* threads of the compositor that access buffers
    Main,            \* the one that handles requests
    NoPool,
    INT32_MAX,
    Sizes,           \* the integers that clients try in requests
    Lengths,         \* the lengths they give their files
    MaxRefs,         \* bound: references the compositor takes to one pool
    MaxNesting,      \* bound: nested accesses of one thread
    ResizesHeld      \* whether a pool is resized while a thread accesses it
                     \* or the compositor holds a reference to it

ASSUME ShmAssumption ==
    /\ IsFiniteSet(Pools) /\ IsFiniteSet(Buffers) /\ IsFiniteSet(Threads)
    /\ Main \in Threads /\ NoPool \notin Pools
    /\ INT32_MAX \in Nat \ {0}
    /\ Sizes \subseteq -(INT32_MAX + 1) .. INT32_MAX
    /\ Lengths \subseteq Nat
    /\ {MaxRefs, MaxNesting} \subseteq Nat
    /\ ResizesHeld \in BOOLEAN

VARIABLES
    file,      \* the length of each pool's file
    pool,      \* struct wl_shm_pool, its mapping being as long as its size
    anonymous, \* pools whose mapping the SIGBUS handler has replaced
    buffer,    \* struct wl_shm_buffer and whether it exists
    refs,      \* references taken with wl_shm_buffer_ref_pool
    sigbus,    \* each thread's wl_shm_sigbus_data
    access,    \* ghost: the accesses a thread is in, innermost last, and
               \* whether the mapping has moved since wl_shm_buffer_get_data
    error,     \* client->error: "refused" for what the client did, "failed" for
               \* want of memory or address space
    client,    \* "open", or its resources are being destroyed, "dying", or "gone"
    killed     \* a signal has ended the compositor

memVars    == <<file, anonymous>>
threadVars == <<sigbus, access>>
vars == <<memVars, pool, buffer, refs, threadVars, error, client, killed>>

Ints == -(INT32_MAX + 1) .. INT32_MAX

wl_shm_pool == [made : BOOLEAN, resource : BOOLEAN, refcount : Nat,
                size : 0 .. INT32_MAX]

wl_shm_buffer == [made : BOOLEAN, resource : BOOLEAN, pool : Pools \cup {NoPool},
                  offset : Ints, stride : Ints, height : Ints]

wl_shm_sigbus_data == [current_pool : Pools \cup {NoPool},
                       access_count : 0 .. MaxNesting,
                       fallback_mapping_used : BOOLEAN]

TypeOK ==
    /\ file \in [Pools -> Nat]
    /\ pool \in [Pools -> wl_shm_pool]
    /\ anonymous \subseteq Pools
    /\ buffer \in [Buffers -> wl_shm_buffer]
    /\ refs \in [Pools -> 0 .. MaxRefs]
    /\ sigbus \in [Threads -> wl_shm_sigbus_data]
    /\ access \in [Threads -> Seq([buf : Buffers, moved : BOOLEAN])]
    /\ error \in {"none", "refused", "failed"}
    /\ client \in {"open", "dying", "gone"}
    /\ killed \in BOOLEAN

NoBuffer == [made |-> FALSE, resource |-> FALSE, pool |-> NoPool, offset |-> 0,
             stride |-> 0, height |-> 0]
NewData  == [current_pool |-> NoPool, access_count |-> 0,
             fallback_mapping_used |-> FALSE]

Init ==
    /\ file = [p \in Pools |-> 0]
    /\ pool = [p \in Pools |-> [made |-> FALSE, resource |-> FALSE,
                                refcount |-> 0, size |-> 0]]
    /\ anonymous = {}
    /\ buffer = [b \in Buffers |-> NoBuffer]
    /\ refs = [p \in Pools |-> 0]
    /\ sigbus = [t \in Threads |-> NewData]
    /\ access = [t \in Threads |-> <<>>]
    /\ error = "none" /\ client = "open" /\ killed = FALSE

-----------------------------------------------------------------------------
(* 32-bit arithmetic.                                                      *)
Wrap(n) == ((n + INT32_MAX + 1) % (2 * (INT32_MAX + 1))) - (INT32_MAX + 1)

(* Mutation: the end of the buffer is computed, and wraps, before it is    *)
(* compared.                                                               *)
FitsBySum(size, offset, width, height, stride) ==
    /\ offset >= 0 /\ width > 0 /\ height > 0 /\ stride >= width
    /\ Wrap(offset + Wrap(stride * height)) <= size

(* What shm_pool_create_buffer accepts.                                    *)
Fits(size, offset, width, height, stride) ==
    /\ offset >= 0 /\ width > 0 /\ height > 0 /\ stride >= width
    /\ INT32_MAX \div stride > height
    /\ offset <= Wrap(size - Wrap(stride * height))

-----------------------------------------------------------------------------
(* References.                                                             *)

(* Mutation: the memory goes with the pool's resource.                     *)
UnrefByResource(p) ==
    pool' = [pool EXCEPT ![p].refcount = @ - 1, ![p].resource = FALSE,
                         ![p].made = pool[p].resource]

(* shm_pool_unref: the last reference unmaps and frees.                    *)
shm_pool_unref(p) ==
    pool' = [pool EXCEPT ![p].refcount = @ - 1,
                         ![p].made = pool[p].refcount # 1]

(* wl_shm_buffer_ref_pool and wl_shm_pool_unref                            *)
RefPool(b) ==
    /\ buffer[b].made /\ refs[buffer[b].pool] < MaxRefs
    /\ refs' = [refs EXCEPT ![buffer[b].pool] = @ + 1]
    /\ pool' = [pool EXCEPT ![buffer[b].pool].refcount = @ + 1]
    /\ UNCHANGED <<memVars, buffer, threadVars, error, client, killed>>

UnrefPool(p) ==
    /\ refs[p] > 0
    /\ refs' = [refs EXCEPT ![p] = @ - 1]
    /\ shm_pool_unref(p)
    /\ UNCHANGED <<memVars, buffer, threadVars, error, client, killed>>

-----------------------------------------------------------------------------
(* Requests, handled by Main between its own accesses.  The compositor     *)
(* keeps threads from accessing a buffer whose destroy listeners run.      *)
Accessed(b) == \E t \in Threads : \E i \in 1 .. Len(access[t]) : access[t][i].buf = b
Held(p)     == refs[p] > 0 \/ \E b \in Buffers : Accessed(b) /\ buffer[b].pool = p

Request == client = "open" /\ error = "none" /\ ~killed /\ access[Main] = <<>>
Dying   == client = "dying" /\ ~killed /\ access[Main] = <<>>

PostError(what) ==
    /\ error' = what
    /\ UNCHANGED <<memVars, pool, buffer, refs, threadVars, client, killed>>

(* mmap, which does not ask how long the file is, may fail, and so may     *)
(* wl_resource_create.                                                     *)
shm_create_pool(p, size) ==
    /\ Request /\ ~pool[p].made /\ pool[p].refcount = 0
    /\ \/ PostError(IF size <= 0 THEN "refused" ELSE "failed")
       \/ /\ size > 0
          /\ pool' = [pool EXCEPT ![p] = [made |-> TRUE, resource |-> TRUE,
                                          refcount |-> 1, size |-> size]]
          /\ anonymous' = anonymous \ {p}
          /\ UNCHANGED <<file, buffer, refs, threadVars, error, client, killed>>

shm_pool_create_buffer(p, b, offset, width, height, stride) ==
    /\ Request /\ pool[p].resource /\ ~buffer[b].made
    /\ \/ PostError(IF Fits(pool[p].size, offset, width, height, stride)
                    THEN "failed" ELSE "refused")
       \/ /\ Fits(pool[p].size, offset, width, height, stride)
          /\ pool' = [pool EXCEPT ![p].refcount = @ + 1]
          /\ buffer' = [buffer EXCEPT ![b] =
                          [made |-> TRUE, resource |-> TRUE, pool |-> p,
                           offset |-> offset, stride |-> stride, height |-> height]]
          /\ UNCHANGED <<memVars, refs, threadVars, error, client, killed>>

(* mremap keeps the replaced mapping if there is one, and may move it.     *)
shm_pool_resize(p, size) ==
    /\ Request /\ pool[p].resource /\ (Held(p) => ResizesHeld)
    /\ \/ PostError(IF size < pool[p].size THEN "refused" ELSE "failed")
       \/ /\ size >= pool[p].size
          /\ pool' = [pool EXCEPT ![p].size = size]
          /\ \/ UNCHANGED access
             \/ access' = [t \in Threads |-> [i \in DOMAIN access[t] |->
                    [access[t][i] EXCEPT !.moved = @ \/ buffer[access[t][i].buf].pool = p]]]
          /\ UNCHANGED <<memVars, buffer, refs, sigbus, error, client, killed>>

(* destroy_pool and destroy_buffer, the destructors of the two resources,  *)
(* called on request or, in any order, when the client is destroyed.       *)
DestroyPool(p) ==
    /\ Request \/ Dying
    /\ pool[p].resource
    /\ pool' = [pool EXCEPT ![p].resource = FALSE,
                            ![p].refcount = @ - 1,
                            ![p].made = pool[p].refcount # 1]
    /\ UNCHANGED <<memVars, buffer, refs, threadVars, error, client, killed>>

DestroyBuffer(b) ==
    /\ Request \/ Dying
    /\ buffer[b].resource /\ ~Accessed(b)
    /\ buffer' = [buffer EXCEPT ![b] = NoBuffer]
    /\ shm_pool_unref(buffer[b].pool)
    /\ UNCHANGED <<memVars, refs, threadVars, error, client, killed>>

(* wl_client_destroy, after an error or when the client has hung up.       *)
ClientDies ==
    /\ ~killed /\ access[Main] = <<>>
    /\ \/ client = "open" /\ client' = "dying"
       \/ /\ client = "dying" /\ client' = "gone"
          /\ \A p \in Pools : ~pool[p].resource
          /\ \A b \in Buffers : ~buffer[b].resource
    /\ error' = "none"
    /\ UNCHANGED <<memVars, pool, buffer, refs, threadVars, killed>>

(* The client has the file too, and may outlive the connection.            *)
Truncate(p, n) ==
    /\ ~killed /\ pool[p].made
    /\ file' = [file EXCEPT ![p] = n]
    /\ UNCHANGED <<anonymous, pool, buffer, refs, threadVars, error, client, killed>>

-----------------------------------------------------------------------------
(* Access.                                                                 *)

(* wl_shm_buffer_begin_access, then wl_shm_buffer_get_data.  Nested ones   *)
(* have to be of the same pool, as the assertion says.                     *)
begin_access(t, b) ==
    /\ ~killed /\ buffer[b].made
    /\ sigbus[t].current_pool \in {NoPool, buffer[b].pool}
    /\ sigbus[t].access_count < MaxNesting
    /\ sigbus' = [sigbus EXCEPT ![t].current_pool = buffer[b].pool,
                                ![t].access_count = @ + 1]
    /\ access' = [access EXCEPT ![t] = Append(@, [buf |-> b, moved |-> FALSE])]
    /\ UNCHANGED <<memVars, pool, buffer, refs, error, client, killed>>

(* Mutation: each nested end forgets the fault.                            *)
end_access_forgets(t) ==
    /\ ~killed /\ access[t] # <<>>
    /\ LET last == sigbus[t].access_count = 1
       IN  /\ error' = IF last /\ sigbus[t].fallback_mapping_used
                       THEN "refused" ELSE error
           /\ sigbus' = IF last THEN [sigbus EXCEPT ![t] = NewData]
                        ELSE [sigbus EXCEPT ![t].access_count = @ - 1,
                                            ![t].fallback_mapping_used = FALSE]
    /\ access' = [access EXCEPT ![t] = SubSeq(@, 1, Len(@) - 1)]
    /\ UNCHANGED <<memVars, pool, buffer, refs, client, killed>>

end_access(t) ==
    /\ ~killed /\ access[t] # <<>>
    /\ LET last == sigbus[t].access_count = 1
       IN  /\ error' = IF last /\ sigbus[t].fallback_mapping_used
                       THEN "refused" ELSE error
           /\ sigbus' = IF last THEN [sigbus EXCEPT ![t] = NewData]
                        ELSE [sigbus EXCEPT ![t].access_count = @ - 1]
    /\ access' = [access EXCEPT ![t] = SubSeq(@, 1, Len(@) - 1)]
    /\ UNCHANGED <<memVars, pool, buffer, refs, client, killed>>

(* A page of the buffer is read.  Outside every mapping that is a SIGSEGV. *)
(* Behind the end of the file it is a SIGBUS, and sigbus_handler replaces  *)
(* the mapping of the thread's pool if the address is in it.               *)
Page(a, k) == buffer[a.buf].offset + k

Touch(t, k) ==
    /\ ~killed /\ access[t] # <<>>
    /\ LET a == access[t][Len(access[t])]
           p == buffer[a.buf].pool
           n == Page(a, k)
       IN  /\ k < buffer[a.buf].stride * buffer[a.buf].height
           /\ IF ~pool[p].made \/ a.moved \/ n >= pool[p].size
              THEN killed' = TRUE /\ UNCHANGED <<anonymous, sigbus>>
              ELSE IF p \in anonymous \/ n < file[p]
              THEN UNCHANGED <<anonymous, sigbus, killed>>
              ELSE IF sigbus[t].current_pool = p
              THEN /\ anonymous' = anonymous \cup {p}
                   /\ sigbus' = [sigbus EXCEPT ![t].fallback_mapping_used = TRUE]
                   /\ UNCHANGED killed
              ELSE killed' = TRUE /\ UNCHANGED <<anonymous, sigbus>>
    /\ UNCHANGED <<file, pool, buffer, refs, access, error, client>>

Destructors == (\E p \in Pools : DestroyPool(p)) \/ (\E b \in Buffers : DestroyBuffer(b))

(* A client that sends any request and does to its files what it likes.    *)
AnyClient ==
    \/ \E p \in Pools, n \in Sizes : shm_create_pool(p, n) \/ shm_pool_resize(p, n)
    \/ \E p \in Pools, n \in Lengths : Truncate(p, n)
    \/ \E p \in Pools, b \in Buffers, offset, width, height, stride \in Sizes :
         shm_pool_create_buffer(p, b, offset, width, height, stride)
    \/ Request /\ Destructors

(* Whoever the client is.                                                  *)
Compositor ==
    \/ ClientDies
    \/ Dying /\ Destructors
    \/ \E p \in Pools : UnrefPool(p)
    \/ \E b \in Buffers : RefPool(b)
    \/ \E t \in Threads, b \in Buffers : begin_access(t, b)
    \/ \E t \in Threads : end_access(t)
    \/ \E t \in Threads, k \in 0 .. INT32_MAX : Touch(t, k)

Next == AnyClient \/ Compositor

Spec == Init /\ [][Next]_vars

-----------------------------------------------------------------------------
(* A pool's memory lasts as long as its resource, the last of its buffers  *)
(* and the last reference of the compositor, in whatever order they go,    *)
(* and not longer.                                                         *)
PoolLifetime ==
    \A p \in Pools :
        /\ pool[p].refcount =
              (IF pool[p].resource THEN 1 ELSE 0) + refs[p]
              + Cardinality({b \in Buffers : buffer[b].made /\ buffer[b].pool = p})
        /\ pool[p].made <=> pool[p].refcount > 0

(* A thread accesses buffers that exist, of the one pool that the handler  *)
(* of its faults knows, as often as that has counted; and their memory has *)
(* stayed where it was, if the compositor holds what it uses.              *)
AccessInv ==
    /\ \A b \in Buffers : buffer[b].made =>
          buffer[b].resource /\ buffer[b].pool \in Pools
    /\ \A b \in Buffers : buffer[b].resource => buffer[b].made
    /\ \A t \in Threads :
          /\ sigbus[t].access_count = Len(access[t])
          /\ \A i \in 1 .. Len(access[t]) :
                LET b == access[t][i].buf
                IN  /\ buffer[b].made /\ buffer[b].pool = sigbus[t].current_pool
                    /\ ~ResizesHeld => ~access[t][i].moved

(* The reference counts of struct wl_shm_pool, what wl_shm_sigbus_data says *)
(* of a thread's accesses, and the types                                   *)
PoolInv == TypeOK /\ PoolLifetime /\ AccessInv

(* A buffer lies in the pool's mapping, whatever numbers the client sends: *)
(* an accepted product or difference has not wrapped.                      *)
BuffersInPool ==
    \A b \in Buffers : buffer[b].made =>
        /\ buffer[b].offset >= 0
        /\ buffer[b].offset + buffer[b].stride * buffer[b].height
              <= pool[buffer[b].pool].size

(* No client can end the compositor by the size of its file, and a client  *)
(* that made a read fault is told so when the thread that noticed it ends  *)
(* its outermost access.                                                   *)
FaultsContained ==
    /\ ~killed
    /\ \A p \in anonymous : pool[p].made =>
          \/ error # "none" \/ client # "open"
          \/ \E t \in Threads : sigbus[t].current_pool = p
                                /\ sigbus[t].fallback_mapping_used
=============================================================================
