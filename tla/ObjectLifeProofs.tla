-------------------------- MODULE ObjectLifeProofs --------------------------
(***************************************************************************)
(* Proofs about ObjectLife, for any number of objects and any bound on what*)
(* is under way: the tables of both ends stay sound, proxies are counted   *)
(* right, messages find the objects they were sent for, and two ends that  *)
(* keep the rules never fail.                                              *)
(***************************************************************************)
EXTENDS ObjectLife, ListProofs

-----------------------------------------------------------------------------
\* Messages under way, by what they say.
Ops == {"create", "use", "destroy", "event", "done", "offer", "delete_id"}

Messages == [op : Ops, id : Nat, obj : Nat, arg : Nat, argobj : Nat]
Closures == [op : {"event", "done", "offer"}, proxy : Nat, arg : Nat]

CreateId(i)  == {m \in Messages : m.op = "create" /\ m.arg = i}
CreateOf(x)  == {m \in Messages : m.op = "create" /\ m.argobj = x}
DestroyOf(x) == {m \in Messages : m.op = "destroy" /\ m.obj = x}
OfferId(i)   == {m \in Messages : m.op = "offer" /\ m.arg = i}
DeleteId(i)  == {m \in Messages : m.op = "delete_id" /\ m.arg = i}

\* Where there are messages of a set M in a queue q.
Some(q, M)      == \E k \in 1 .. Len(q) : q[k] \in M
Before(q, k, M) == \E j \in 1 .. k - 1 : q[j] \in M
After(q, k, M)  == \E j \in k + 1 .. Len(q) : q[j] \in M
Once(q, M)      == \A j, k \in 1 .. Len(q) : q[j] \in M /\ q[k] \in M => j = k

\* A queue after its head h was taken, and after h was put at its end
Taken(q, h, t) ==
  /\ \A k \in 1 .. Len(t) : k + 1 \in 1 .. Len(q) /\ t[k] = q[k + 1]
  /\ 1 \in 1 .. Len(q) /\ q[1] = h
  /\ \A M : Some(q, M) <=> h \in M \/ Some(t, M)
  /\ \A M : \A k \in 1 .. Len(t) : Before(q, k + 1, M) <=> h \in M \/ Before(t, k, M)
  /\ \A M : \A k \in 1 .. Len(t) : After(q, k + 1, M) <=> After(t, k, M)
  /\ \A M : ~Before(q, 1, M)
  /\ \A M : Once(q, M) => Once(t, M) /\ (h \in M => ~Some(t, M))

Added(q, h, a) ==
  /\ Len(a) = Len(q) + 1 /\ a[Len(q) + 1] = h /\ Len(q) + 1 \in 1 .. Len(a)
  /\ \A k \in 1 .. Len(a) : k = Len(q) + 1 \/ (k \in 1 .. Len(q) /\ a[k] = q[k])
  /\ \A k \in 1 .. Len(q) : k # Len(q) + 1
  /\ \A M : Some(a, M) <=> Some(q, M) \/ h \in M
  /\ \A M : \A k \in 1 .. Len(q) : Before(a, k, M) <=> Before(q, k, M)
  /\ \A M : \A k \in 1 .. Len(q) : After(a, k, M) <=> After(q, k, M) \/ h \in M
  /\ \A M : Before(a, Len(q) + 1, M) <=> Some(q, M)
  /\ \A M : ~After(a, Len(q) + 1, M)
  /\ \A M : Once(q, M) /\ (h \in M => ~Some(q, M)) => Once(a, M)

LEMMA TakeHead ==
  ASSUME NEW T, NEW q \in Seq(T), q # <<>>
  PROVE  Head(q) \in T /\ Tail(q) \in Seq(T) /\ Taken(q, Head(q), Tail(q))
  <1>1. PICK t, h : t = Tail(q) /\ h = Head(q)
    OBVIOUS
  <1>2. /\ t \in Seq(T) /\ h \in T /\ Len(t) \in Nat /\ Len(q) = Len(t) + 1 /\ q[1] = h
        /\ \A k \in 1 .. Len(t) : k + 1 \in 1 .. Len(q) /\ t[k] = q[k + 1]
        /\ \A k \in 2 .. Len(q) : k - 1 \in 1 .. Len(t) /\ t[k - 1] = q[k]
        /\ 1 \in 1 .. Len(q)
    BY <1>1
  <1>3. \A M : Some(q, M) <=> h \in M \/ Some(t, M)
    <2> SUFFICES ASSUME NEW M PROVE Some(q, M) <=> h \in M \/ Some(t, M)
      OBVIOUS
    <2>1. ASSUME NEW k \in 1 .. Len(q), q[k] \in M PROVE h \in M \/ Some(t, M)
      <3>1. k = 1 \/ k \in 2 .. Len(q)
        BY <1>2
      <3> QED BY <1>2, <2>1, <3>1 DEF Some
    <2> QED BY <1>2, <2>1 DEF Some
  <1>4. \A M : \A k \in 1 .. Len(t) : Before(q, k + 1, M) <=> h \in M \/ Before(t, k, M)
    <2> SUFFICES ASSUME NEW M, NEW k \in 1 .. Len(t)
                 PROVE  Before(q, k + 1, M) <=> h \in M \/ Before(t, k, M)
      OBVIOUS
    <2>1. ASSUME NEW j \in 1 .. k + 1 - 1, q[j] \in M PROVE h \in M \/ Before(t, k, M)
      <3>1. j = 1 \/ (j \in 2 .. Len(q) /\ j - 1 \in 1 .. k - 1)
        BY <1>2
      <3> QED BY <1>2, <2>1, <3>1 DEF Before
    <2>2. ASSUME NEW j \in 1 .. k - 1, t[j] \in M PROVE Before(q, k + 1, M)
      <3>1. j \in 1 .. Len(t) /\ j + 1 \in 1 .. k + 1 - 1
        BY <1>2
      <3> QED BY <1>2, <2>2, <3>1 DEF Before
    <2>3. h \in M => Before(q, k + 1, M)
      <3>1. 1 \in 1 .. k + 1 - 1
        BY <1>2
      <3> QED BY <1>2, <3>1 DEF Before
    <2> QED BY <2>1, <2>2, <2>3 DEF Before
  <1>5. \A M : \A k \in 1 .. Len(t) : After(q, k + 1, M) <=> After(t, k, M)
    <2> SUFFICES ASSUME NEW M, NEW k \in 1 .. Len(t)
                 PROVE  After(q, k + 1, M) <=> After(t, k, M)
      OBVIOUS
    <2>1. ASSUME NEW j \in k + 1 + 1 .. Len(q), q[j] \in M PROVE After(t, k, M)
      <3>1. j \in 2 .. Len(q) /\ j - 1 \in k + 1 .. Len(t)
        BY <1>2
      <3> QED BY <1>2, <2>1, <3>1 DEF After
    <2>2. ASSUME NEW j \in k + 1 .. Len(t), t[j] \in M PROVE After(q, k + 1, M)
      <3>1. j \in 1 .. Len(t) /\ j + 1 \in k + 1 + 1 .. Len(q)
        BY <1>2
      <3> QED BY <1>2, <2>2, <3>1 DEF After
    <2> QED BY <2>1, <2>2 DEF After
  <1>6. \A M : ~Before(q, 1, M)
    BY DEF Before
  <1>7. \A M : Once(q, M) => Once(t, M) /\ (h \in M => ~Some(t, M))
    <2> SUFFICES ASSUME NEW M, Once(q, M) PROVE Once(t, M) /\ (h \in M => ~Some(t, M))
      OBVIOUS
    <2>1. ASSUME NEW j \in 1 .. Len(t), NEW k \in 1 .. Len(t), t[j] \in M, t[k] \in M
          PROVE  j = k
      <3>1. j + 1 = k + 1
        BY <1>2, <2>1 DEF Once
      <3> QED BY <3>1
    <2>2. ASSUME NEW k \in 1 .. Len(t), t[k] \in M, h \in M PROVE FALSE
      <3>1. k + 1 = 1
        BY <1>2, <2>2 DEF Once
      <3> QED BY <3>1
    <2> QED BY <2>1, <2>2 DEF Once, Some
  <1> QED BY <1>1, <1>2, <1>3, <1>4, <1>5, <1>6, <1>7 DEF Taken

LEMMA AddLast ==
  ASSUME NEW T, NEW q \in Seq(T), NEW h \in T
  PROVE  Append(q, h) \in Seq(T) /\ Added(q, h, Append(q, h))
  <1>1. PICK a : a = Append(q, h)
    OBVIOUS
  <1> DEFINE n == Len(q) + 1
  <1>2. /\ a \in Seq(T) /\ Len(q) \in Nat /\ Len(a) = n /\ a[n] = h
        /\ \A k \in 1 .. Len(q) : a[k] = q[k] /\ k \in 1 .. Len(a) /\ k # n
        /\ \A k \in 1 .. Len(a) : k = n \/ k \in 1 .. Len(q)
        /\ n \in 1 .. Len(a) /\ n \in Nat /\ n - 1 = Len(q)
    BY <1>1
  <1> HIDE DEF n
  <1>3. \A M : Some(a, M) <=> Some(q, M) \/ h \in M
    BY <1>2 DEF Some
  <1>4. \A M : \A k \in 1 .. Len(q) : Before(a, k, M) <=> Before(q, k, M)
    <2> SUFFICES ASSUME NEW M, NEW k \in 1 .. Len(q), NEW j \in 1 .. k - 1
                 PROVE  a[j] = q[j]
      BY DEF Before
    <2>1. j \in 1 .. Len(q)
      BY <1>2
    <2> QED BY <1>2, <2>1
  <1>5. \A M : \A k \in 1 .. Len(q) : After(a, k, M) <=> After(q, k, M) \/ h \in M
    <2> SUFFICES ASSUME NEW M, NEW k \in 1 .. Len(q)
                 PROVE  After(a, k, M) <=> After(q, k, M) \/ h \in M
      OBVIOUS
    <2>1. ASSUME NEW j \in k + 1 .. Len(a), a[j] \in M PROVE After(q, k, M) \/ h \in M
      <3>1. j \in 1 .. Len(a)
        BY <1>2
      <3>2. j # n => j \in 1 .. Len(q)
        BY <1>2, <3>1
      <3>3. j # n => j \in k + 1 .. Len(q)
        BY <3>2
      <3> QED BY <1>2, <2>1, <3>2, <3>3 DEF After
    <2>2. ASSUME NEW j \in k + 1 .. Len(q), q[j] \in M PROVE After(a, k, M)
      <3>1. j \in 1 .. Len(q) /\ j \in k + 1 .. Len(a)
        BY <1>2 DEF n
      <3> QED BY <1>2, <2>2, <3>1 DEF After
    <2>3. n \in k + 1 .. Len(a)
      BY <1>2 DEF n
    <2> QED BY <1>2, <2>1, <2>2, <2>3 DEF After
  <1>6. \A M : Before(a, n, M) <=> Some(q, M)
    BY <1>2 DEF Before, Some
  <1>7. \A M : ~After(a, n, M)
    BY <1>2 DEF After
  <1>8. \A M : Once(q, M) /\ (h \in M => ~Some(q, M)) => Once(a, M)
    BY <1>2 DEF Once, Some
  <1> QED BY <1>1, <1>2, <1>3, <1>4, <1>5, <1>6, <1>7, <1>8 DEF Added, n

-----------------------------------------------------------------------------
\* What there is in the tables at an id, and whether the arrays reach as far
C(i)    == IdEntry(cmap, i)
S(i)    == IdEntry(smap, i)
HasC(i) == HasId(cmap, i)
HasS(i) == HasId(smap, i)

ClientId(i) == i < WL_SERVER_ID_START

Gone(x)  == cst[x] \in {"none", "destroyed"}
Offer(x) == kind[x] = "offer"

\* The client's table has what it should have for object x: its proxy, or what is
\* left of it as long as the server has not given the id up.
Held(x) == C(id[x]) = IF ~Gone(x) THEN x ELSE IF Offer(x) THEN 0 ELSE Zombie

\* The client has the id back, or gets it back when it destroys the proxy.
Back(i) == C(i) <= 0 \/ C(i) \in iddel

\* A delete_id of i is on its way.
Pending(i) == i \in deleting \/ Some(display_queue, {i}) \/ Some(s2c, DeleteId(i))

\* A request that makes an object with id i is on its way.
Making(i) == Some(c2s, CreateId(i))

\* The premises of the proofs.  The client's ids do not run into the server's.  Events
\* name no object that the server has created, and no destructor of such an object is
\* interrupted: README.md says what happens otherwise.
Premises ==
  /\ MaxObjects <= WL_SERVER_ID_START
  /\ ~NamesOffers
  /\ "offer" \notin SplitKinds

TypesInv ==
  /\ last \in Numbers
  /\ kind \in [Created -> Kinds \cup {"display"}]
  /\ id \in [Created -> Nat]
  /\ cst \in [Numbers -> ClientStates]
  /\ iddel \subseteq Created
  /\ failed = FALSE /\ serror = FALSE
  /\ c2s \in Seq(Messages) /\ s2c \in Seq(Messages)
  /\ queue \in Seq(Closures)
  /\ display_queue \in Seq(Nat) /\ deleting \subseteq Nat

\* Which objects there are, and what state the client has them in
ObjectsInv ==
  /\ \A x \in Created : kind[x] = "display" <=> x = display
  /\ device \in Created /\ kind[device] = "plain" /\ id[display] = 1 /\ id[device] = 2
  /\ \A x \in Created : IF Offer(x) THEN ~ClientId(id[x]) /\ HasS(id[x])
                                    ELSE ClientId(id[x]) /\ HasC(id[x])
  /\ \A x \in Numbers : x \notin Created => cst[x] = "none"
  /\ cst[display] = "live" /\ cst[device] = "live"
  /\ \A x \in Created : /\ cst[x] = "over" => kind[x] = "callback"
                        /\ cst[x] = "leaving" => kind[x] = "plain"
                        /\ cst[x] \in {"none", "unseen"} => Offer(x)
  /\ \A x \in iddel : ~Offer(x)

MapsInv ==
  /\ cmap \in MapOf("client") /\ smap \in MapOf("server")
  /\ FreePlaces(cmap, {1}) /\ FreePlaces(smap, {})
  /\ Len(cmap.client) <= last
  /\ HasC(0) /\ HasS(0) /\ C(0) = 0 /\ S(0) = 0
  /\ \A i \in Nat : ~ClientId(i) => C(i) >= 0
  /\ \A i \in Nat : ClientId(i) => S(i) >= 0

ClientTable ==
  /\ \A x \in Created : ~Gone(x) => C(id[x]) = x
  /\ \A i \in Nat : C(i) > 0 =>
        \/ ClientId(i) /\ C(i) = Zombie
        \/ C(i) \in Created /\ id[C(i)] = i /\ ~Gone(C(i))

ServerTable ==
  /\ \A i \in Nat : S(i) > 0 =>
        /\ S(i) \in Created /\ id[S(i)] = i /\ Held(S(i))
        /\ ClientId(i) => ~Back(i)
  /\ S(1) = display /\ S(2) = device
  /\ \A x \in Created : Offer(x) /\ cst[x] # "destroyed" => S(id[x]) = x
  /\ \A x \in Created : kind[x] = "plain" /\ cst[x] = "live" =>
        S(id[x]) = x \/ Some(c2s, CreateOf(x))
  /\ \A x \in Created : cst[x] = "none" => Some(s2c, OfferId(id[x]))

\* An id is on its way to one end only, and only once.
SentOnce(i) ==
  /\ Once(c2s, CreateId(i)) /\ Once(s2c, OfferId(i))
  /\ Once(s2c, DeleteId(i)) /\ Once(display_queue, {i})
  /\ i \in deleting => ~Some(display_queue, {i}) /\ ~Some(s2c, DeleteId(i))
  /\ ~(Some(display_queue, {i}) /\ Some(s2c, DeleteId(i)))

IdsInv ==
  /\ \A i \in Nat : Pending(i) => ClientId(i) /\ ~Back(i) /\ S(i) = 0
  /\ \A i \in Nat : Making(i) => ClientId(i) /\ ~Back(i) /\ S(i) = 0 /\ ~Pending(i)
  /\ \A i \in Nat : SentOnce(i)

\* The messages that make an array longer arrive in the order of the ids.
RequestGrowth ==
  /\ \A k \in 1 .. Len(c2s) : c2s[k].op = "create" =>
        \A q \in Nat : q < c2s[k].arg /\ ~HasS(q) => Before(c2s, k, CreateId(q))
  /\ \A q \in Nat : ClientId(q) /\ HasC(q) /\ ~HasS(q) => Making(q)

EventGrowth ==
  /\ \A k \in 1 .. Len(s2c) : s2c[k].op = "offer" =>
        \A q \in Nat : ~ClientId(q) /\ q < s2c[k].arg /\ ~HasC(q) => Before(s2c, k, OfferId(q))
  /\ \A q \in Nat : ~ClientId(q) /\ HasS(q) /\ ~HasC(q) => Some(s2c, OfferId(q))

\* The server has object x when it gets to message k.
Ready(x, k) ==
  /\ S(id[x]) = x \/ Before(c2s, k, CreateOf(x))
  /\ ~Before(c2s, k, DestroyOf(x))

CreateOK(m) ==
  /\ m.obj = display /\ m.id = 1
  /\ m.argobj \in Created /\ kind[m.argobj] \in {"plain", "callback"}
  /\ id[m.argobj] = m.arg /\ Held(m.argobj)

UseOK(m, k) ==
  /\ m.obj = device /\ m.id = 2
  /\ m.argobj \in Created \ {display, device} /\ kind[m.argobj] \in {"plain", "offer"}
  /\ id[m.argobj] = m.arg /\ Ready(m.argobj, k)

DestroyOK(m, k) ==
  /\ m.obj \in Created \ {display, device} /\ kind[m.obj] \in {"plain", "offer"}
  /\ id[m.obj] = m.id /\ Ready(m.obj, k)
  /\ cst[m.obj] \in {"leaving", "destroyed"}

RequestOK(m, k) ==
  \/ m.op = "create" /\ CreateOK(m)
  \/ m.op = "use" /\ UseOK(m, k)
  \/ m.op = "destroy" /\ DestroyOK(m, k)

RequestsInv == \A k \in 1 .. Len(c2s) : RequestOK(c2s[k], k)

\* The client knows what message k means with x, when it gets there.
Mention(x, k) ==
  /\ x \in Created \ {display} /\ Held(x)
  /\ Offer(x) => /\ cst[x] = "none" => Before(s2c, k, OfferId(id[x]))
                 /\ cst[x] = "destroyed" => ~Before(s2c, k, OfferId(id[x]))
  /\ ~Offer(x) => S(id[x]) = x \/ After(s2c, k, DeleteId(id[x]))

EventOK(m, k) ==
  /\ Mention(m.obj, k) /\ id[m.obj] = m.id
  /\ \/ m.arg = 0
     \/ /\ m.argobj # device /\ Mention(m.argobj, k) /\ kind[m.argobj] = "plain"
        /\ m.arg = id[m.argobj]

DoneOK(m, k) ==
  Mention(m.obj, k) /\ id[m.obj] = m.id /\ kind[m.obj] = "callback" /\ m.arg = 0

OfferOK(m) ==
  /\ m.obj = device /\ m.id = 2
  /\ m.argobj \in Created /\ Offer(m.argobj) /\ m.arg = id[m.argobj]
  /\ cst[m.argobj] = "none"

ArrivalOK(m, k) ==
  \/ m.op = "event" /\ EventOK(m, k)
  \/ m.op = "done" /\ DoneOK(m, k)
  \/ m.op = "offer" /\ OfferOK(m)
  \/ m.op = "delete_id" /\ m.obj = display /\ m.id = 1

EventsInv == \A k \in 1 .. Len(s2c) : ArrivalOK(s2c[k], k)

ClosureOK(e) ==
  /\ e.proxy \in Created \ {display} /\ cst[e.proxy] # "none"
  /\ e.arg = 0 \/ (e.arg \in Created \ {display} /\ cst[e.arg] # "none")
  /\ e.op = "done" => kind[e.proxy] = "callback"
  /\ e.op = "offer" => e.arg # 0 /\ cst[e.arg] = "unseen"

QueueInv ==
  /\ \A k \in 1 .. Len(queue) : ClosureOK(queue[k])
  /\ \A j, k \in 1 .. Len(queue) :
        queue[j].op = "offer" /\ queue[k].op = "offer" /\ queue[j].arg = queue[k].arg => j = k

\* The references of a queue's closures to proxy x
References(q, x) ==
  Cardinality({i \in 1 .. Len(q) : q[i].proxy = x}) + Cardinality({i \in 1 .. Len(q) : q[i].arg = x})

RefsInv ==
  refcount = [x \in Numbers |-> (IF Gone(x) THEN 0 ELSE 1) + References(queue, x)]

LifeInv ==
  /\ TypesInv /\ ObjectsInv /\ MapsInv
  /\ ClientTable /\ ServerTable /\ IdsInv /\ RequestGrowth /\ EventGrowth
  /\ RequestsInv /\ EventsInv /\ QueueInv /\ RefsInv

-----------------------------------------------------------------------------
\* What everything below needs of the invariant
LEMMA LifeTypes ==
  ASSUME LifeInv, Premises
  PROVE  /\ MaxObjects \in Nat /\ WL_SERVER_ID_START \in Nat /\ WL_SERVER_ID_START > 1
         /\ MaxObjects <= WL_SERVER_ID_START
         /\ last \in Nat /\ last >= 3 /\ last <= MaxObjects
         /\ display = 2 /\ device = 3 /\ display \in Created /\ device \in Created
         /\ \A x \in Created : x \in Numbers /\ id[x] \in Nat /\ kind[x] \in Kinds \cup {"display"}
         /\ \A x \in Numbers : x \in Nat /\ x > 1 /\ cst[x] \in ClientStates
         /\ \A i \in Nat : C(i) \in Int /\ S(i) \in Int
  <1>1. /\ MaxObjects \in Nat /\ WL_SERVER_ID_START \in Nat /\ WL_SERVER_ID_START > 1
        /\ MaxObjects <= WL_SERVER_ID_START
    BY LifeAssumption, IdAssumption DEF Premises
  <1>2. last \in Nat /\ last >= 3 /\ last <= MaxObjects /\ display = 2 /\ device = 3
    BY <1>1 DEF LifeInv, TypesInv, ObjectsInv, Numbers, Created, display, device
  <1>3. display \in Created /\ device \in Created
    BY <1>2 DEF Created
  <1>4. \A x \in Created : x \in Numbers
    BY <1>1, <1>2 DEF Created, Numbers
  <1>5. \A x \in Created : id[x] \in Nat /\ kind[x] \in Kinds \cup {"display"}
    BY DEF LifeInv, TypesInv
  <1>6. \A x \in Numbers : x \in Nat /\ x > 1 /\ cst[x] \in ClientStates
    BY <1>1, <1>2 DEF LifeInv, TypesInv, Numbers
  <1>7. \A i \in Nat : C(i) \in Int /\ S(i) \in Int
    BY EntryIsNumber DEF LifeInv, MapsInv, C, S, Sides
  <1> QED BY <1>1, <1>2, <1>3, <1>4, <1>5, <1>6, <1>7

LEMMA LookupIs ==
  /\ \A i \in Nat : wl_map_lookup(cmap, i) = IF C(i) < 0 THEN 0 ELSE C(i)
  /\ \A i \in Nat : wl_map_lookup(smap, i) = IF S(i) < 0 THEN 0 ELSE S(i)
  BY LookupEntry DEF C, S

\* An object keeps its kind and its id.
ObjectsStay ==
  \A x \in Created : x \in Created' /\ kind'[x] = kind[x] /\ id'[x] = id[x]

\* Requests name these kinds of object.
Asked(x) == kind[x] \in {"plain", "offer"}

LEMMA RequestsKept ==
  ASSUME LifeInv, ObjectsStay, NEW d \in {0, 1},
         \A k \in 1 .. Len(c2s') :
            \/ RequestOK(c2s[k], k)'
            \/ /\ k + d \in 1 .. Len(c2s) /\ c2s'[k] = c2s[k + d]
               /\ \A x \in Created : Asked(x) /\ Ready(x, k + d) => Ready(x, k)',
         \A x \in Created : Some(c2s', CreateOf(x)) /\ Held(x) => Held(x)',
         \A x \in Created : cst[x] \in {"leaving", "destroyed"} => cst'[x] \in {"leaving", "destroyed"}
  PROVE  RequestsInv'
  <1> SUFFICES ASSUME NEW k \in 1 .. Len(c2s'),
                      k + d \in 1 .. Len(c2s), c2s'[k] = c2s[k + d],
                      \A x \in Created : Asked(x) /\ Ready(x, k + d) => Ready(x, k)'
               PROVE  RequestOK(c2s[k], k)'
    BY DEF RequestsInv
  <1>1. PICK m : m = c2s[k + d]
    OBVIOUS
  <1>2. m \in Messages /\ c2s'[k] = m /\ RequestOK(m, k + d)
    BY <1>1 DEF LifeInv, TypesInv, RequestsInv
  <1>3. CASE m.op = "create" /\ CreateOK(m)
    <2>1. m \in CreateOf(m.argobj)
      BY <1>2, <1>3 DEF CreateOf
    <2>2. Some(c2s', CreateOf(m.argobj))
      BY <1>2, <2>1 DEF Some
    <2>3. m.argobj \in Created /\ Held(m.argobj)'
      BY <1>3, <2>2 DEF CreateOK
    <2>4. CreateOK(m)'
      BY <1>3, <2>3 DEF CreateOK, ObjectsStay
    <2> QED BY <1>2, <1>3, <2>4 DEF RequestOK
  <1>4. CASE m.op = "use" /\ UseOK(m, k + d)
    BY <1>2, <1>4 DEF RequestOK, UseOK, ObjectsStay, Asked
  <1>5. CASE m.op = "destroy" /\ DestroyOK(m, k + d)
    BY <1>2, <1>5 DEF RequestOK, DestroyOK, ObjectsStay, Asked
  <1> QED BY <1>2, <1>3, <1>4, <1>5 DEF RequestOK

LEMMA EventsKept ==
  ASSUME LifeInv, ObjectsStay, NEW d \in {0, 1},
         \A k \in 1 .. Len(s2c') :
            \/ ArrivalOK(s2c[k], k)'
            \/ /\ k + d \in 1 .. Len(s2c) /\ s2c'[k] = s2c[k + d]
               /\ \A x \in Created : Mention(x, k + d) => Mention(x, k)',
         \A x \in Created : Some(s2c', OfferId(id[x])) /\ cst[x] = "none" => cst'[x] = "none"
  PROVE  EventsInv'
  <1> SUFFICES ASSUME NEW k \in 1 .. Len(s2c'),
                      k + d \in 1 .. Len(s2c), s2c'[k] = s2c[k + d],
                      \A x \in Created : Mention(x, k + d) => Mention(x, k)'
               PROVE  ArrivalOK(s2c[k], k)'
    BY DEF EventsInv
  <1>1. PICK m : m = s2c[k + d]
    OBVIOUS
  <1>2. m \in Messages /\ s2c'[k] = m /\ ArrivalOK(m, k + d)
    BY <1>1 DEF LifeInv, TypesInv, EventsInv
  <1>3. CASE m.op = "event" /\ EventOK(m, k + d)
    <2>1. Mention(m.obj, k + d) /\ m.obj \in Created /\ Mention(m.obj, k)'
      BY <1>3 DEF EventOK, Mention
    <2>2. m.arg # 0 => Mention(m.argobj, k + d) /\ m.argobj \in Created /\ Mention(m.argobj, k)'
      BY <1>3 DEF EventOK, Mention
    <2>3. EventOK(m, k)'
      BY <1>3, <2>1, <2>2 DEF EventOK, ObjectsStay
    <2> QED BY <1>2, <1>3, <2>3 DEF ArrivalOK
  <1>4. CASE m.op = "done" /\ DoneOK(m, k + d)
    <2>1. m.obj \in Created /\ Mention(m.obj, k)'
      BY <1>4 DEF DoneOK, Mention
    <2>2. DoneOK(m, k)'
      BY <1>4, <2>1 DEF DoneOK, ObjectsStay
    <2> QED BY <1>2, <1>4, <2>2 DEF ArrivalOK
  <1>5. CASE m.op = "offer" /\ OfferOK(m)
    <2>1. m \in OfferId(id[m.argobj])
      BY <1>2, <1>5 DEF OfferId, OfferOK
    <2>2. Some(s2c', OfferId(id[m.argobj]))
      BY <1>2, <2>1 DEF Some
    <2>3. m.argobj \in Created /\ cst'[m.argobj] = "none"
      BY <1>5, <2>2 DEF OfferOK
    <2>4. OfferOK(m)'
      BY <1>5, <2>3 DEF OfferOK, ObjectsStay, Offer
    <2> QED BY <1>2, <1>5, <2>4 DEF ArrivalOK
  <1>6. CASE m.op = "delete_id" /\ m.obj = display /\ m.id = 1
    BY <1>2, <1>6 DEF ArrivalOK
  <1> QED BY <1>2, <1>3, <1>4, <1>5, <1>6 DEF ArrivalOK

LEMMA TablesSame ==
  /\ cmap' = cmap => \A i : C(i)' = C(i) /\ (HasC(i)' <=> HasC(i))
  /\ smap' = smap => \A i : S(i)' = S(i) /\ (HasS(i)' <=> HasS(i))
  BY DEF C, S, HasC, HasS

\* A step that leaves the tables and the numbers of the objects alone, and neither
\* makes an object known to the client nor destroys one
Calm ==
  /\ UNCHANGED <<cmap, smap, last, kind, id, iddel>>
  /\ cst' \in [Numbers -> ClientStates]
  /\ \A x \in Numbers :
        \/ cst'[x] = cst[x]
        \/ x \in Created /\ kind[x] = "offer" /\ cst[x] = "unseen" /\ cst'[x] = "live"
        \/ x \in Created /\ kind[x] = "callback" /\ ~Gone(x) /\ cst'[x] = "over"
        \/ /\ x \in Created \ {display, device} /\ kind[x] = "plain"
           /\ cst[x] = "live" /\ cst'[x] = "leaving"

LEMMA CalmSame ==
  ASSUME LifeInv, Premises, Calm
  PROVE  /\ ObjectsStay /\ Created' = Created
         /\ \A i : C(i)' = C(i) /\ S(i)' = S(i) /\ (HasC(i)' <=> HasC(i)) /\ (HasS(i)' <=> HasS(i))
         /\ \A i : Back(i)' <=> Back(i)
         /\ \A x \in Numbers : (cst'[x] = "none" <=> cst[x] = "none")
                               /\ (cst'[x] = "destroyed" <=> cst[x] = "destroyed")
         /\ \A x : Offer(x)' <=> Offer(x)
         /\ \A x \in Created : (Gone(x)' <=> Gone(x)) /\ (Held(x)' <=> Held(x))
  <1>1. ObjectsStay /\ Created' = Created
    BY DEF Calm, ObjectsStay, Created
  <1>2. \A i : C(i)' = C(i) /\ S(i)' = S(i) /\ (HasC(i)' <=> HasC(i)) /\ (HasS(i)' <=> HasS(i))
    BY TablesSame DEF Calm
  <1>3. \A i : Back(i)' <=> Back(i)
    BY <1>2 DEF Back, Calm
  <1>4. \A x \in Numbers : (cst'[x] = "none" <=> cst[x] = "none")
                           /\ (cst'[x] = "destroyed" <=> cst[x] = "destroyed")
    BY DEF Calm, Gone
  <1>5. \A x : Offer(x)' <=> Offer(x)
    BY DEF Offer, Calm
  <1>6. \A x \in Created : Gone(x)' <=> Gone(x)
    BY <1>4, LifeTypes DEF Gone
  <1>7. \A x \in Created : Held(x)' <=> Held(x)
    BY <1>2, <1>5, <1>6 DEF Held, Calm
  <1> QED BY <1>1, <1>2, <1>3, <1>4, <1>5, <1>6, <1>7

LEMMA CalmKeeps ==
  ASSUME LifeInv, Premises, Calm,
         \A x \in Created : Some(c2s, CreateOf(x)) => Some(c2s', CreateOf(x)),
         \A x \in Created : cst[x] = "none" /\ Some(s2c, OfferId(id[x])) => Some(s2c', OfferId(id[x]))
  PROVE  ObjectsInv' /\ MapsInv' /\ ClientTable' /\ ServerTable'
  <1>1. ObjectsInv'
    <2> USE DEF ObjectsInv
    <2>1. ObjectsInv
      BY DEF LifeInv
    <2>2. /\ \A x \in Created' : kind'[x] = "display" <=> x = display
          /\ device \in Created' /\ kind'[device] = "plain" /\ id'[display] = 1 /\ id'[device] = 2
          /\ \A x \in Created' : IF Offer(x)' THEN ~ClientId(id'[x]) /\ HasS(id[x])'
                                              ELSE ClientId(id'[x]) /\ HasC(id[x])'
      <3>1. kind' = kind /\ id' = id
        BY DEF Calm
      <3>2. \A x \in Created : (HasS(id[x])' <=> HasS(id[x])) /\ (HasC(id[x])' <=> HasC(id[x]))
        BY CalmSame, <3>1
      <3> QED BY <2>1, <3>1, <3>2, CalmSame DEF ClientId
    <2>3. \A x \in Numbers : x \notin Created' => cst'[x] = "none"
      BY <2>1, CalmSame
    <2>4. cst'[display] = "live" /\ cst'[device] = "live"
      BY <2>1, LifeTypes DEF Calm
    <2>5. \A x \in Created' : /\ cst'[x] = "over" => kind'[x] = "callback"
                              /\ cst'[x] = "leaving" => kind'[x] = "plain"
                              /\ cst'[x] \in {"none", "unseen"} => Offer(x)'
      BY <2>1, CalmSame, LifeTypes DEF Calm
    <2>6. \A x \in iddel' : ~Offer(x)'
      BY <2>1, CalmSame DEF Calm
    <2> QED BY <2>2, <2>3, <2>4, <2>5, <2>6 DEF Numbers
  <1>2. MapsInv'
    <2>1. cmap' = cmap /\ smap' = smap /\ last' = last
      BY DEF Calm
    <2> QED BY <2>1, CalmSame DEF LifeInv, MapsInv, ClientId
  <1>3. ClientTable'
    <2>1. id' = id
      BY DEF Calm
    <2>2. \A i \in Nat : C(i) > 0 /\ C(i) \in Created => (Gone(C(i))' <=> Gone(C(i)))
      BY CalmSame
    <2> QED BY <2>1, <2>2, CalmSame DEF LifeInv, ClientTable, ClientId
  <1>4. ServerTable'
    <2>1. id' = id /\ kind' = kind
      BY DEF Calm
    <2>2. \A i \in Nat : S(i)' > 0 =>
             /\ S(i)' \in Created' /\ id'[S(i)'] = i /\ Held(S(i))'
             /\ ClientId(i) => ~Back(i)'
      <3> SUFFICES ASSUME NEW i \in Nat, S(i) > 0
                   PROVE  /\ S(i) \in Created /\ id[S(i)] = i /\ Held(S(i))'
                          /\ ClientId(i) => ~Back(i)'
        BY <2>1, CalmSame
      <3>1. PICK x : x = S(i)
        OBVIOUS
      <3>2. S(i)' = x /\ x \in Created /\ id[x] = i /\ Held(x) /\ (ClientId(i) => ~Back(i))
        BY <3>1, CalmSame DEF LifeInv, ServerTable
      <3>3. Held(x)' /\ (ClientId(i) => ~Back(i)')
        BY <3>2, CalmSame
      <3>4. Held(S(i))'
        BY <3>2, <3>3
      <3> QED BY <3>1, <3>2, <3>3, <3>4
    <2>3. S(1)' = display /\ S(2)' = device
      BY CalmSame DEF LifeInv, ServerTable
    <2>4. \A x \in Created' : Offer(x)' /\ cst'[x] # "destroyed" => S(id[x])' = x
      BY <2>1, CalmSame, LifeTypes DEF LifeInv, ServerTable
    <2>5. \A x \in Created' : kind'[x] = "plain" /\ cst'[x] = "live" =>
             S(id[x])' = x \/ Some(c2s', CreateOf(x))
      <3>1. \A x \in Created : kind[x] = "plain" /\ cst'[x] = "live" => cst[x] = "live"
        BY LifeTypes DEF Calm
      <3> QED BY <2>1, <3>1, CalmSame DEF LifeInv, ServerTable
    <2>6. \A x \in Created' : cst'[x] = "none" => Some(s2c', OfferId(id'[x]))
      BY <2>1, CalmSame, LifeTypes DEF LifeInv, ServerTable
    <2> QED BY <2>2, <2>3, <2>4, <2>5, <2>6 DEF ServerTable, ClientId
  <1> QED BY <1>1, <1>2, <1>3, <1>4

-----------------------------------------------------------------------------
\* How many messages of M there are in a queue
Count(q, M) == Cardinality({k \in 1 .. Len(q) : q[k] \in M})

LEMMA PlacesFinite ==
  ASSUME NEW n \in Nat, NEW A, A \subseteq 1 .. n
  PROVE  IsFiniteSet(A) /\ Cardinality(A) \in Nat
  <1>1. IsFiniteSet(1 .. n)
    BY FS_Interval
  <1> QED BY <1>1, FS_Subset, FS_CardinalityType

LEMMA CountAdded ==
  ASSUME NEW T, NEW q \in Seq(T), NEW h \in T, NEW M
  PROVE  /\ Count(q, M) \in Nat
         /\ Count(Append(q, h), M) = Count(q, M) + (IF h \in M THEN 1 ELSE 0)
  <1>1. PICK a, n : a = Append(q, h) /\ n = Len(q) + 1
    OBVIOUS
  <1> DEFINE A == {k \in 1 .. Len(q) : q[k] \in M}
             B == {k \in 1 .. Len(a) : a[k] \in M}
  <1>2. Len(q) \in Nat /\ n \in Nat /\ n \notin A /\ IsFiniteSet(A) /\ Cardinality(A) \in Nat
    <2>1. Len(q) \in Nat /\ n \in Nat /\ n \notin 1 .. Len(q)
      BY <1>1
    <2> QED BY <2>1, PlacesFinite
  <1>3. B = IF h \in M THEN A \cup {n} ELSE A
    <2>1. /\ Len(a) = n /\ a[n] = h /\ n \in 1 .. Len(a)
          /\ \A k \in 1 .. Len(q) : k \in 1 .. Len(a) /\ a[k] = q[k]
          /\ \A k \in 1 .. Len(a) : k = n \/ k \in 1 .. Len(q)
      BY <1>1
    <2> QED BY <2>1
  <1> HIDE DEF A, B
  <1>4. Cardinality(B) = Cardinality(A) + (IF h \in M THEN 1 ELSE 0)
    <2>1. Cardinality(A \cup {n}) = Cardinality(A) + 1
      BY <1>2, FS_AddElement
    <2> QED BY <1>2, <1>3, <2>1
  <1> QED BY <1>1, <1>2, <1>4 DEF Count, A, B

LEMMA CountTaken ==
  ASSUME NEW T, NEW q \in Seq(T), q # <<>>, NEW M
  PROVE  /\ Count(Tail(q), M) \in Nat
         /\ Count(q, M) = Count(Tail(q), M) + (IF Head(q) \in M THEN 1 ELSE 0)
  <1>1. PICK t, h : t = Tail(q) /\ h = Head(q)
    OBVIOUS
  <1> DEFINE A == {k \in 1 .. Len(t) : t[k] \in M}
             B == {k \in 1 .. Len(q) : q[k] \in M}
             D == B \ {1}
             f == [k \in A |-> k + 1]
  <1>2. /\ t \in Seq(T) /\ Len(t) \in Nat /\ Len(q) = Len(t) + 1 /\ q[1] = h
        /\ \A k \in 1 .. Len(t) : k + 1 \in 1 .. Len(q) /\ t[k] = q[k + 1] /\ k + 1 # 1
        /\ \A k \in 1 .. Len(q) : k = 1 \/ (k - 1 \in 1 .. Len(t) /\ k - 1 + 1 = k /\ t[k - 1] = q[k])
        /\ 1 \in 1 .. Len(q)
    BY <1>1
  <1>3. IsFiniteSet(A) /\ Cardinality(A) \in Nat /\ IsFiniteSet(D)
    <2>1. D \subseteq 1 .. Len(q) /\ Len(q) \in Nat
      BY <1>2
    <2> QED BY <1>2, <2>1, PlacesFinite
  <1>4. f \in Bijection(A, D)
    <2>1. \A k \in A : f[k] \in D
      BY <1>2
    <2>2. \A k, l \in A : f[k] = f[l] => k = l
      OBVIOUS
    <2>3. \A d \in D : \E k \in A : f[k] = d
      <3> SUFFICES ASSUME NEW d \in D PROVE \E k \in A : f[k] = d
        OBVIOUS
      <3>1. d - 1 \in A /\ f[d - 1] = d
        BY <1>2
      <3> QED BY <3>1
    <2>4. f \in [A -> D]
      BY <2>1
    <2> HIDE DEF f, A, D
    <2> QED BY <2>2, <2>3, <2>4 DEF Bijection, Injection, Surjection, IsInjective
  <1>5. Cardinality(D) = Cardinality(A)
    <2> HIDE DEF f, A, D
    <2> QED BY <1>3, <1>4, FS_Bijection DEF ExistsBijection
  <1>6. B = IF h \in M THEN D \cup {1} ELSE D
    BY <1>2
  <1>7. 1 \notin D
    OBVIOUS
  <1> HIDE DEF A, B, D
  <1>8. Cardinality(B) = Cardinality(A) + (IF h \in M THEN 1 ELSE 0)
    <2>1. Cardinality(D \cup {1}) = Cardinality(D) + 1
      BY <1>3, <1>7, FS_AddElement
    <2> QED BY <1>3, <1>5, <1>6, <2>1
  <1> QED BY <1>1, <1>3, <1>8 DEF Count, A, B

\* What a closure adds to the references to x
RefsOf(e, x) == (IF e.proxy = x THEN 1 ELSE 0) + (IF e.arg = x THEN 1 ELSE 0)

LEMMA ReferencesCount ==
  ASSUME NEW q \in Seq(Closures), NEW x
  PROVE  References(q, x) = Count(q, {e \in Closures : e.proxy = x})
                            + Count(q, {e \in Closures : e.arg = x})
  <1>1. \A k \in 1 .. Len(q) : q[k] \in Closures
    OBVIOUS
  <1>2. {k \in 1 .. Len(q) : q[k].proxy = x} = {k \in 1 .. Len(q) : q[k] \in {e \in Closures : e.proxy = x}}
    BY <1>1
  <1>3. {k \in 1 .. Len(q) : q[k].arg = x} = {k \in 1 .. Len(q) : q[k] \in {e \in Closures : e.arg = x}}
    BY <1>1
  <1> QED BY <1>2, <1>3 DEF References, Count

LEMMA ReferencesAdded ==
  ASSUME NEW q \in Seq(Closures), NEW h \in Closures, NEW x
  PROVE  /\ References(q, x) \in Nat
         /\ References(Append(q, h), x) = References(q, x) + RefsOf(h, x)
  <1>1. PICK M, N : M = {e \in Closures : e.proxy = x} /\ N = {e \in Closures : e.arg = x}
    OBVIOUS
  <1>2. /\ Append(q, h) \in Seq(Closures)
        /\ References(q, x) = Count(q, M) + Count(q, N)
    BY <1>1, ReferencesCount
  <1>3. References(Append(q, h), x) = Count(Append(q, h), M) + Count(Append(q, h), N)
    BY <1>1, <1>2, ReferencesCount
  <1>4. /\ Count(q, M) \in Nat /\ Count(q, N) \in Nat
        /\ Count(Append(q, h), M) = Count(q, M) + (IF h \in M THEN 1 ELSE 0)
        /\ Count(Append(q, h), N) = Count(q, N) + (IF h \in N THEN 1 ELSE 0)
    BY CountAdded
  <1>5. (h \in M <=> h.proxy = x) /\ (h \in N <=> h.arg = x)
    BY <1>1
  <1> QED BY <1>2, <1>3, <1>4, <1>5 DEF RefsOf

LEMMA ReferencesTaken ==
  ASSUME NEW q \in Seq(Closures), q # <<>>, NEW x
  PROVE  /\ References(Tail(q), x) \in Nat
         /\ References(q, x) = References(Tail(q), x) + RefsOf(Head(q), x)
  <1>1. PICK M, N : M = {e \in Closures : e.proxy = x} /\ N = {e \in Closures : e.arg = x}
    OBVIOUS
  <1>2. /\ Tail(q) \in Seq(Closures) /\ Head(q) \in Closures
        /\ References(q, x) = Count(q, M) + Count(q, N)
    BY <1>1, ReferencesCount
  <1>3. References(Tail(q), x) = Count(Tail(q), M) + Count(Tail(q), N)
    BY <1>1, <1>2, ReferencesCount
  <1>4. /\ Count(Tail(q), M) \in Nat /\ Count(Tail(q), N) \in Nat
        /\ Count(q, M) = Count(Tail(q), M) + (IF Head(q) \in M THEN 1 ELSE 0)
        /\ Count(q, N) = Count(Tail(q), N) + (IF Head(q) \in N THEN 1 ELSE 0)
    BY CountTaken
  <1>5. PICK h : h = Head(q)
    OBVIOUS
  <1>6. (h \in M <=> h.proxy = x) /\ (h \in N <=> h.arg = x)
    BY <1>1, <1>2, <1>5
  <1> QED BY <1>2, <1>3, <1>4, <1>5, <1>6 DEF RefsOf

LEMMA ReferencesNone == ASSUME NEW x PROVE References(<<>>, x) = 0
  <1>1. {i \in 1 .. Len(<<>>) : <<>>[i].proxy = x} = {} /\ {i \in 1 .. Len(<<>>) : <<>>[i].arg = x} = {}
    OBVIOUS
  <1> QED BY <1>1, FS_EmptySet DEF References

-----------------------------------------------------------------------------
\* What messages under way say of their objects
LEMMA DestroysGone ==
  ASSUME LifeInv, NEW x, Some(c2s, DestroyOf(x))
  PROVE  /\ x \in Created \ {display, device} /\ kind[x] \in {"plain", "offer"}
         /\ cst[x] \in {"leaving", "destroyed"}
  <1>1. PICK k \in 1 .. Len(c2s) : c2s[k] \in DestroyOf(x)
    BY DEF Some
  <1>2. RequestOK(c2s[k], k)
    BY DEF LifeInv, RequestsInv
  <1> QED BY <1>1, <1>2 DEF DestroyOf, RequestOK, DestroyOK

LEMMA CreatesHeld ==
  ASSUME LifeInv, NEW x, Some(c2s, CreateOf(x))
  PROVE  /\ x \in Created /\ kind[x] \in {"plain", "callback"} /\ Held(x)
         /\ Making(id[x])
  <1>1. PICK k \in 1 .. Len(c2s) : c2s[k] \in CreateOf(x)
    BY DEF Some
  <1>2. RequestOK(c2s[k], k)
    BY DEF LifeInv, RequestsInv
  <1>3. CreateOK(c2s[k]) /\ c2s[k].argobj = x
    BY <1>1, <1>2 DEF CreateOf, RequestOK
  <1>4. c2s[k] \in CreateId(id[x])
    BY <1>1, <1>3 DEF CreateOf, CreateId, CreateOK
  <1> QED BY <1>3, <1>4 DEF CreateOK, Making, Some

LEMMA MakingOf ==
  ASSUME LifeInv, NEW i, Making(i)
  PROVE  \E x \in Created : id[x] = i /\ Some(c2s, CreateOf(x)) /\ Held(x)
  <1>1. PICK k \in 1 .. Len(c2s) : c2s[k] \in CreateId(i)
    BY DEF Making, Some
  <1>2. PICK m : m = c2s[k]
    OBVIOUS
  <1>3. RequestOK(m, k) /\ m \in CreateId(i)
    BY <1>1, <1>2 DEF LifeInv, RequestsInv
  <1>4. CreateOK(m) /\ m.arg = i
    BY <1>3 DEF CreateId, RequestOK
  <1>5. m \in CreateOf(m.argobj)
    BY <1>3 DEF CreateId, CreateOf
  <1>6. Some(c2s, CreateOf(m.argobj))
    BY <1>2, <1>5 DEF Some
  <1> QED BY <1>4, <1>6 DEF CreateOK

LEMMA OffersUnknown ==
  ASSUME LifeInv, NEW i \in Nat, Some(s2c, OfferId(i))
  PROVE  /\ S(i) \in Created /\ Offer(S(i)) /\ id[S(i)] = i /\ cst[S(i)] = "none"
         /\ ~ClientId(i)
  <1>1. PICK k \in 1 .. Len(s2c) : s2c[k] \in OfferId(i)
    BY DEF Some
  <1>2. ArrivalOK(s2c[k], k)
    BY DEF LifeInv, EventsInv
  <1>3. OfferOK(s2c[k]) /\ s2c[k].arg = i
    BY <1>1, <1>2 DEF OfferId, ArrivalOK
  <1>4. PICK x \in Created : Offer(x) /\ id[x] = i /\ cst[x] = "none"
    BY <1>3 DEF OfferOK
  <1>5. S(i) = x
    BY <1>4 DEF LifeInv, ServerTable
  <1> QED BY <1>4, <1>5 DEF LifeInv, ObjectsInv

\* The server has, or will have, what is alive at the client.
LEMMA LiveReached ==
  ASSUME LifeInv, NEW x \in Created, cst[x] \in {"live", "leaving"}, kind[x] \in {"plain", "offer"},
         cst[x] = "leaving" => kind[x] = "offer"
  PROVE  S(id[x]) = x \/ Some(c2s, CreateOf(x))
  BY DEF LifeInv, ServerTable, Offer

\* Where two objects have the same id, the client holds one of them at most.
LEMMA HeldOnce ==
  ASSUME LifeInv, Premises, NEW x \in Created, NEW y \in Created, id[x] = id[y], ~Gone(x), Held(y)
  PROVE  x = y
  <1>1. C(id[x]) = x /\ x > 1
    BY LifeTypes DEF LifeInv, ClientTable
  <1> QED BY <1>1, LifeTypes DEF Held, Zombie

LEMMA MessageTypes ==
  ASSUME LifeInv, Premises, NEW x \in Created, NEW op \in Ops, NEW i \in Nat, NEW y \in Nat
  PROVE  /\ Message(op, x, i, y) \in Messages
         /\ Message(op, x, i, y).op = op /\ Message(op, x, i, y).id = id[x]
         /\ Message(op, x, i, y).obj = x /\ Message(op, x, i, y).arg = i
         /\ Message(op, x, i, y).argobj = y
  BY LifeTypes DEF Message, Messages

\* A message belongs to the classes of its kind only.
LEMMA Classes ==
  ASSUME NEW m \in Messages
  PROVE  \A i : /\ m \in CreateId(i) <=> m.op = "create" /\ m.arg = i
                /\ m \in CreateOf(i) <=> m.op = "create" /\ m.argobj = i
                /\ m \in DestroyOf(i) <=> m.op = "destroy" /\ m.obj = i
                /\ m \in OfferId(i) <=> m.op = "offer" /\ m.arg = i
                /\ m \in DeleteId(i) <=> m.op = "delete_id" /\ m.arg = i
  BY DEF CreateId, CreateOf, DestroyOf, OfferId, DeleteId

-----------------------------------------------------------------------------
\* What each part of the invariant needs from a step that leaves it alone

LEMMA IdsKept ==
  ASSUME LifeInv, \A i \in Nat : S(i)' = S(i) /\ (Back(i)' <=> Back(i)),
         \A i \in Nat : (Pending(i)' => Pending(i)) /\ (Making(i)' => Making(i)) /\ SentOnce(i)'
  PROVE  IdsInv'
  BY DEF LifeInv, IdsInv, ClientId

LEMMA SameRequests ==
  ASSUME LifeInv, Premises, Calm, UNCHANGED c2s
  PROVE  RequestGrowth' /\ RequestsInv'
  <1>1. \A k \in 1 .. Len(c2s) : k + 0 = k /\ \A x \in Created : Ready(x, k) => Ready(x, k)'
    BY CalmSame DEF Ready, Calm
  <1>2. \A x \in Created : cst[x] \in {"leaving", "destroyed"} => cst'[x] \in {"leaving", "destroyed"}
    BY LifeTypes, CalmSame DEF Calm, LifeInv, ObjectsInv
  <1>3. RequestsInv'
    BY <1>1, <1>2, CalmSame, RequestsKept
  <1>4. RequestGrowth'
    BY CalmSame DEF LifeInv, RequestGrowth, Making, ClientId
  <1> QED BY <1>3, <1>4

LEMMA SameEvents ==
  ASSUME LifeInv, Premises, Calm, UNCHANGED s2c
  PROVE  EventGrowth' /\ EventsInv'
  <1>0. id' = id
    BY DEF Calm
  <1>1. ASSUME NEW k \in 1 .. Len(s2c), NEW x \in Created, Mention(x, k) PROVE Mention(x, k)'
    <2>1. /\ Held(x)' /\ x \in Created' \ {display} /\ (Offer(x)' <=> Offer(x)) /\ S(id[x])' = S(id[x])
      BY <1>0, <1>1, CalmSame DEF Mention
    <2>2. (cst'[x] = "none" <=> cst[x] = "none") /\ (cst'[x] = "destroyed" <=> cst[x] = "destroyed")
      BY LifeTypes, CalmSame
    <2> QED BY <1>0, <1>1, <2>1, <2>2 DEF Mention
  <1>2. EventsInv'
    <2>1. \A x \in Created : Some(s2c', OfferId(id[x])) /\ cst[x] = "none" => cst'[x] = "none"
      BY LifeTypes, CalmSame
    <2>2. \A k \in 1 .. Len(s2c') : /\ k + 0 \in 1 .. Len(s2c) /\ s2c'[k] = s2c[k + 0]
                                   /\ \A x \in Created : Mention(x, k + 0) => Mention(x, k)'
      BY <1>1
    <2> QED BY <2>1, <2>2, CalmSame, EventsKept
  <1>3. EventGrowth'
    BY CalmSame DEF LifeInv, EventGrowth, ClientId
  <1> QED BY <1>2, <1>3

LEMMA QueueKept ==
  ASSUME LifeInv, UNCHANGED queue, ObjectsStay,
         \A x \in Created : cst[x] # "none" => cst'[x] # "none",
         \A x \in Created : cst[x] = "unseen" => cst'[x] = "unseen"
  PROVE  QueueInv'
  <1>1. ASSUME NEW k \in 1 .. Len(queue) PROVE ClosureOK(queue[k])'
    <2>1. ClosureOK(queue[k])
      BY DEF LifeInv, QueueInv
    <2>2. /\ queue[k].proxy \in Created /\ (queue[k].arg # 0 => queue[k].arg \in Created)
      BY <2>1 DEF ClosureOK
    <2> QED BY <2>1, <2>2 DEF ClosureOK, ObjectsStay
  <1> QED BY <1>1 DEF LifeInv, QueueInv

LEMMA RefsKept ==
  ASSUME LifeInv, UNCHANGED <<queue, refcount>>, \A x \in Numbers : Gone(x)' <=> Gone(x)
  PROVE  RefsInv'
  BY DEF LifeInv, RefsInv, Numbers

\* A client request without an effect on the tables
LEMMA UseObjectKeeps ==
  ASSUME LifeInv, Premises, NEW y \in Created \ {display}, UseObject(y)
  PROVE  LifeInv'
  <1>0. PICK m : m = Message("use", device, id[y], y)
    OBVIOUS
  <1>1. /\ y # device /\ cst[y] = "live" /\ kind[y] \in {"plain", "offer"} /\ c2s' = Append(c2s, m)
        /\ UNCHANGED <<tables, s2c, clientVars, objectVars, failed, serror>>
    BY <1>0, LifeTypes DEF UseObject, SendRequest, Kinds, LifeInv, ObjectsInv
  <1>2. /\ m \in Messages /\ m.op = "use" /\ m.id = id[device] /\ m.obj = device
        /\ m.arg = id[y] /\ m.argobj = y
    <2>1. device \in Created /\ y \in Nat /\ id[y] \in Nat /\ "use" \in Ops
      BY LifeTypes DEF Ops
    <2> QED BY <1>0, <2>1, MessageTypes
  <1>3. c2s' \in Seq(Messages) /\ Added(c2s, m, c2s')
    BY <1>1, <1>2, AddLast DEF LifeInv, TypesInv
  <1>4. Calm
    BY <1>1 DEF Calm, tables, clientVars, objectVars, LifeInv, TypesInv
  <1>5. \A i : m \notin CreateId(i) /\ m \notin CreateOf(i) /\ m \notin DestroyOf(i)
    BY <1>2, Classes
  <1>6. ObjectsInv' /\ MapsInv' /\ ClientTable' /\ ServerTable'
    BY <1>1, <1>3, <1>4, CalmKeeps DEF Added
  <1>7. TypesInv'
    BY <1>1, <1>3 DEF LifeInv, TypesInv, clientVars, objectVars, Created
  <1>8. IdsInv'
    <2>1. \A i \in Nat : (Pending(i)' => Pending(i)) /\ (Making(i)' => Making(i))
      BY <1>1, <1>3, <1>5 DEF Pending, Making, Added, clientVars
    <2>2. \A i \in Nat : SentOnce(i)'
      BY <1>1, <1>3, <1>5 DEF LifeInv, IdsInv, SentOnce, Added, clientVars
    <2> QED BY <1>4, <2>1, <2>2, IdsKept, CalmSame
  <1>9. RequestGrowth'
    <2>1. \A k \in 1 .. Len(c2s') : c2s'[k].op = "create" =>
             \A q \in Nat : q < c2s'[k].arg /\ ~HasS(q)' => Before(c2s', k, CreateId(q))
      BY <1>2, <1>3, <1>4, CalmSame DEF LifeInv, RequestGrowth, Added
    <2>2. \A q \in Nat : ClientId(q)' /\ HasC(q)' /\ ~HasS(q)' => Making(q)'
      BY <1>3, <1>4, CalmSame DEF LifeInv, RequestGrowth, Added, Making, ClientId
    <2> QED BY <2>1, <2>2 DEF RequestGrowth
  <1>10. EventGrowth' /\ EventsInv'
    BY <1>1, <1>4, SameEvents DEF clientVars
  <1>11. RequestsInv'
    <2>0. PICK n : n = Len(c2s) + 1
      OBVIOUS
    <2>1. UseOK(m, n)'
      <3>1. S(id[y]) = y \/ Some(c2s, CreateOf(y))
        BY <1>1, LiveReached
      <3>2. ~Some(c2s, DestroyOf(y))
        BY <1>1, DestroysGone
      <3>3. Before(c2s', n, CreateOf(y)) <=> Some(c2s, CreateOf(y))
        BY <1>3, <2>0 DEF Added
      <3>4. Before(c2s', n, DestroyOf(y)) <=> Some(c2s, DestroyOf(y))
        BY <1>3, <2>0 DEF Added
      <3>5. S(id[y])' = S(id[y]) /\ id' = id /\ kind' = kind /\ Created' = Created
        BY <1>1, <1>4, CalmSame DEF objectVars
      <3>6. Ready(y, n)'
        BY <3>1, <3>2, <3>3, <3>4, <3>5 DEF Ready
      <3> QED BY <1>1, <1>2, <3>5, <3>6 DEF UseOK, LifeInv, ObjectsInv
    <2>2. \A k \in 1 .. Len(c2s) : \A x \in Created : Ready(x, k) => Ready(x, k)'
      BY <1>1, <1>3, <1>4, <1>5, CalmSame DEF Ready, Added, objectVars
    <2>3. \A k \in 1 .. Len(c2s') :
            \/ RequestOK(c2s[k], k)'
            \/ /\ k + 0 \in 1 .. Len(c2s) /\ c2s'[k] = c2s[k + 0]
               /\ \A x \in Created : Ready(x, k + 0) => Ready(x, k)'
      <3>1. \A k \in 1 .. Len(c2s') : k = n \/ (k \in 1 .. Len(c2s) /\ c2s'[k] = c2s[k] /\ k + 0 = k)
        BY <1>3, <2>0 DEF Added
      <3>2. c2s'[n] = m
        BY <1>3, <2>0 DEF Added
      <3>3. RequestOK(c2s[n], n)'
        BY <1>2, <2>1, <3>2 DEF RequestOK
      <3> QED BY <2>2, <3>1, <3>3
    <2> QED BY <1>1, <1>4, <2>3, CalmSame, RequestsKept DEF clientVars
  <1>12. QueueInv' /\ RefsInv'
    BY <1>1, <1>4, CalmSame, QueueKept, RefsKept DEF clientVars, Gone
  <1> QED BY <1>6, <1>7, <1>8, <1>9, <1>10, <1>11, <1>12 DEF LifeInv

-----------------------------------------------------------------------------
\* Reading an event that brings no object
ReadsPlain ==
  /\ s2c # <<>> /\ s2c' = Tail(s2c) /\ Head(s2c).op # "offer"
  /\ UNCHANGED <<tables, c2s, cst, iddel, objectVars>>

LEMMA ReadHead ==
  ASSUME LifeInv, s2c # <<>>
  PROVE  /\ Head(s2c) \in Messages /\ ArrivalOK(Head(s2c), 1) /\ Tail(s2c) \in Seq(Messages)
         /\ Taken(s2c, Head(s2c), Tail(s2c))
  <1>1. Head(s2c) \in Messages /\ Tail(s2c) \in Seq(Messages) /\ Taken(s2c, Head(s2c), Tail(s2c))
    BY TakeHead DEF LifeInv, TypesInv
  <1>2. 1 \in 1 .. Len(s2c) /\ s2c[1] = Head(s2c)
    BY <1>1 DEF Taken
  <1> QED BY <1>1, <1>2 DEF LifeInv, EventsInv

LEMMA ReadKeeps ==
  ASSUME LifeInv, Premises, ReadsPlain
  PROVE  /\ ObjectsInv' /\ MapsInv' /\ ClientTable' /\ ServerTable'
         /\ RequestGrowth' /\ EventGrowth' /\ RequestsInv' /\ EventsInv'
  <1>1. PICK h : h = Head(s2c)
    OBVIOUS
  <1>2. h \in Messages /\ Taken(s2c, h, s2c') /\ h.op # "offer"
    BY <1>1, ReadHead DEF ReadsPlain
  <1>3. \A i : h \notin OfferId(i)
    BY <1>2, Classes
  <1>4. Calm
    BY DEF Calm, ReadsPlain, tables, objectVars, LifeInv, TypesInv
  <1>5. ObjectsInv' /\ MapsInv' /\ ClientTable' /\ ServerTable'
    BY <1>2, <1>3, <1>4, CalmKeeps DEF Taken, ReadsPlain
  <1>6. RequestGrowth' /\ RequestsInv'
    BY <1>4, SameRequests DEF ReadsPlain
  <1>7. EventGrowth'
    <2>1. \A k \in 1 .. Len(s2c') : s2c'[k].op = "offer" =>
             \A q \in Nat : ~ClientId(q) /\ q < s2c'[k].arg /\ ~HasC(q) => Before(s2c', k, OfferId(q))
      BY <1>2, <1>3 DEF LifeInv, EventGrowth, Taken
    <2>2. \A q \in Nat : ~ClientId(q) /\ HasS(q) /\ ~HasC(q) => Some(s2c', OfferId(q))
      BY <1>2, <1>3 DEF LifeInv, EventGrowth, Taken
    <2> QED BY <1>4, <2>1, <2>2, CalmSame DEF EventGrowth, ClientId
  <1>8. EventsInv'
    <2>1. ASSUME NEW k \in 1 .. Len(s2c'), NEW x \in Created, Mention(x, k + 1)
          PROVE  Mention(x, k)'
      <3>1. /\ Before(s2c, k + 1, OfferId(id[x])) <=> Before(s2c', k, OfferId(id[x]))
            /\ After(s2c, k + 1, DeleteId(id[x])) <=> After(s2c', k, DeleteId(id[x]))
        BY <1>2, <1>3 DEF Taken
      <3> QED BY <1>4, <2>1, <3>1, CalmSame, LifeTypes DEF Mention, ReadsPlain, objectVars
    <2>2. \A k \in 1 .. Len(s2c') : k + 1 \in 1 .. Len(s2c) /\ s2c'[k] = s2c[k + 1]
      BY <1>2 DEF Taken
    <2> QED BY <1>4, <2>1, <2>2, CalmSame, EventsKept DEF ReadsPlain
  <1> QED BY <1>5, <1>6, <1>7, <1>8

LEMMA SkipEventKeeps ==
  ASSUME LifeInv, Premises, SkipEvent
  PROVE  LifeInv'
  <1>1. PICK h : h = Head(s2c)
    OBVIOUS
  <1>2. /\ s2c # <<>> /\ wl_map_lookup(cmap, h.id) \in {0, Zombie} /\ s2c' = Tail(s2c)
        /\ UNCHANGED <<tables, c2s, clientVars, objectVars, failed, serror>>
    BY <1>1 DEF SkipEvent
  <1>3. h \in Messages /\ ArrivalOK(h, 1) /\ s2c' \in Seq(Messages) /\ Taken(s2c, h, s2c')
    BY <1>1, <1>2, ReadHead
  <1>4. h.op # "offer" /\ h.op # "delete_id"
    <2>1. C(1) = display /\ C(2) = device
      BY LifeTypes DEF LifeInv, ObjectsInv, ClientTable, Gone
    <2>2. wl_map_lookup(cmap, 1) = 2 /\ wl_map_lookup(cmap, 2) = 3
      BY <2>1, LookupIs, LifeTypes
    <2>3. h.op = "offer" => h.id = 2
      BY <1>3 DEF ArrivalOK, OfferOK
    <2>4. h.op = "delete_id" => h.id = 1
      BY <1>3 DEF ArrivalOK
    <2> QED BY <1>2, <2>2, <2>3, <2>4 DEF Zombie
  <1>5. ReadsPlain
    BY <1>1, <1>2, <1>4 DEF ReadsPlain, clientVars
  <1>6. Calm
    BY <1>2 DEF Calm, tables, objectVars, clientVars, LifeInv, TypesInv
  <1>7. TypesInv'
    BY <1>2, <1>3 DEF LifeInv, TypesInv, clientVars, objectVars, Created
  <1>8. IdsInv'
    <2>1. \A i : h \notin DeleteId(i)
      BY <1>3, <1>4, Classes
    <2>2. \A i \in Nat : (Pending(i)' => Pending(i)) /\ (Making(i)' => Making(i))
      BY <1>2, <1>3 DEF Pending, Making, Taken, clientVars
    <2>3. \A i \in Nat : SentOnce(i)'
      BY <1>2, <1>3, <2>1 DEF LifeInv, IdsInv, SentOnce, Taken, clientVars
    <2> QED BY <1>6, <2>2, <2>3, IdsKept, CalmSame
  <1>9. QueueInv' /\ RefsInv'
    BY <1>2, <1>6, CalmSame, QueueKept, RefsKept DEF clientVars, Gone
  <1> QED BY <1>5, <1>7, <1>8, <1>9, ReadKeeps DEF LifeInv

LEMMA QueueDeleteIdKeeps ==
  ASSUME LifeInv, Premises, QueueDeleteId
  PROVE  LifeInv'
  <1>1. PICK h, i : h = Head(s2c) /\ i = h.arg
    OBVIOUS
  <1>2. /\ s2c # <<>> /\ h.op = "delete_id" /\ s2c' = Tail(s2c)
        /\ display_queue' = Append(display_queue, i)
        /\ UNCHANGED <<tables, c2s, queue, deleting, cst, iddel, refcount, objectVars, failed, serror>>
    BY <1>1 DEF QueueDeleteId
  <1>3. h \in Messages /\ s2c' \in Seq(Messages) /\ Taken(s2c, h, s2c') /\ i \in Nat
    <2>1. h \in Messages /\ s2c' \in Seq(Messages) /\ Taken(s2c, h, s2c')
      BY <1>1, <1>2, ReadHead
    <2> QED BY <1>1, <2>1 DEF Messages
  <1>4. display_queue' \in Seq(Nat) /\ Added(display_queue, i, display_queue')
    BY <1>2, <1>3, AddLast DEF LifeInv, TypesInv
  <1>5. ReadsPlain
    BY <1>1, <1>2 DEF ReadsPlain
  <1>6. Calm
    BY <1>2 DEF Calm, tables, objectVars, LifeInv, TypesInv
  <1>7. TypesInv'
    BY <1>2, <1>3, <1>4 DEF LifeInv, TypesInv, objectVars, Created
  <1>8. IdsInv'
    <2>1. \A j \in Nat : h \in DeleteId(j) <=> j = i
      BY <1>1, <1>2, <1>3, Classes
    <2>2. \A j \in Nat : i \in {j} <=> j = i
      OBVIOUS
    <2>3. \A j \in Nat : (Pending(j)' => Pending(j)) /\ (Making(j)' => Making(j))
      BY <1>2, <1>3, <1>4, <2>1, <2>2 DEF Pending, Making, Taken, Added
    <2>4. \A j \in Nat : h \notin OfferId(j)
      BY <1>2, <1>3, Classes
    <2>5. ASSUME NEW j \in Nat PROVE SentOnce(j)'
      <3>1. SentOnce(j)
        BY DEF LifeInv, IdsInv
      <3>2. Some(s2c, DeleteId(j)) <=> j = i \/ Some(s2c', DeleteId(j))
        BY <1>3, <2>1 DEF Taken
      <3>3. Once(s2c', DeleteId(j)) /\ (j = i => ~Some(s2c', DeleteId(j))) /\ Once(s2c', OfferId(j))
        BY <1>3, <2>1, <3>1 DEF SentOnce, Taken
      <3>4. Some(display_queue', {j}) <=> Some(display_queue, {j}) \/ j = i
        BY <1>4, <2>2 DEF Added
      <3>5. Once(display_queue', {j})
        BY <1>4, <2>2, <3>1, <3>2 DEF Added, SentOnce
      <3> QED BY <1>2, <3>1, <3>2, <3>3, <3>4, <3>5 DEF SentOnce
    <2> QED BY <1>6, <2>3, <2>5, IdsKept, CalmSame
  <1>9. QueueInv' /\ RefsInv'
    BY <1>2, <1>6, CalmSame, QueueKept, RefsKept DEF Gone
  <1> QED BY <1>5, <1>7, <1>8, <1>9, ReadKeeps DEF LifeInv

\* Reading an event that gives no id back
LEMMA ReadIds ==
  ASSUME LifeInv, Premises, ReadsPlain, Head(s2c).op # "delete_id", UNCHANGED <<display_queue, deleting>>
  PROVE  IdsInv'
  <1>1. PICK h : h = Head(s2c)
    OBVIOUS
  <1>2. h \in Messages /\ Taken(s2c, h, s2c') /\ h.op # "delete_id"
    BY <1>1, ReadHead DEF ReadsPlain
  <1>3. UNCHANGED <<cmap, smap, c2s, iddel>>
    BY DEF ReadsPlain, tables
  <1>4. \A i : h \notin DeleteId(i)
    BY <1>2, Classes
  <1>5. \A i \in Nat : S(i)' = S(i) /\ (Back(i)' <=> Back(i))
    BY <1>3, TablesSame DEF Back
  <1>6. \A i \in Nat : (Pending(i)' => Pending(i)) /\ (Making(i)' => Making(i))
    BY <1>2, <1>3 DEF Pending, Making, Taken
  <1>7. \A i \in Nat : SentOnce(i)'
    BY <1>2, <1>3, <1>4 DEF LifeInv, IdsInv, SentOnce, Taken
  <1> QED BY <1>5, <1>6, <1>7, IdsKept

\* A closure is queued: f has the references of the proxies before.
LEMMA RefsAdded ==
  ASSUME LifeInv, NEW e \in Closures, queue' = Append(queue, e), NEW f,
         \A x \in Numbers : f[x] = (IF Gone(x)' THEN 0 ELSE 1) + References(queue, x),
         refcount' = AddRefs(f, e.proxy, e.arg, 1)
  PROVE  RefsInv'
  <1>1. queue \in Seq(Closures)
    BY DEF LifeInv, TypesInv
  <1>2. ASSUME NEW x \in Numbers
        PROVE  f[x] + (IF x = e.proxy THEN 1 ELSE 0) + (IF x = e.arg THEN 1 ELSE 0)
               = (IF Gone(x)' THEN 0 ELSE 1) + References(queue', x)
    <2>1. References(queue', x) = References(queue, x) + RefsOf(e, x) /\ References(queue, x) \in Nat
      BY <1>1, ReferencesAdded
    <2>2. f[x] = (IF Gone(x)' THEN 0 ELSE 1) + References(queue, x)
      OBVIOUS
    <2> HIDE DEF References, Gone
    <2> QED BY <2>1, <2>2 DEF RefsOf
  <1> QED BY <1>2 DEF RefsInv, AddRefs, Numbers

LEMMA QueueAdded ==
  ASSUME LifeInv, NEW e \in Closures, queue' = Append(queue, e), ClosureOK(e)', ObjectsStay,
         \A x \in Created : cst[x] # "none" => cst'[x] # "none",
         \A x \in Created : cst[x] = "unseen" => cst'[x] = "unseen",
         e.op = "offer" => cst[e.arg] = "none"
  PROVE  QueueInv' /\ queue' \in Seq(Closures)
  <1>1. queue' \in Seq(Closures) /\ Added(queue, e, queue')
    BY AddLast DEF LifeInv, TypesInv
  <1>2. ASSUME NEW k \in 1 .. Len(queue), NEW g, g = queue[k]
        PROVE  ClosureOK(g) /\ ClosureOK(g)'
    <2>1. ClosureOK(g)
      BY <1>2 DEF LifeInv, QueueInv
    <2>2. g.proxy \in Created /\ (g.arg # 0 => g.arg \in Created)
      BY <2>1 DEF ClosureOK
    <2> QED BY <2>1, <2>2 DEF ClosureOK, ObjectsStay
  <1>3. ASSUME NEW k \in 1 .. Len(queue') PROVE ClosureOK(queue[k])'
    <2>1. PICK g : g = queue'[k]
      OBVIOUS
    <2>2. g = e \/ (k \in 1 .. Len(queue) /\ g = queue[k])
      BY <1>1, <2>1 DEF Added
    <2>3. ClosureOK(g)'
      BY <1>2, <2>2
    <2> QED BY <2>1, <2>3
  <1>4. ASSUME NEW k \in 1 .. Len(queue), queue[k].op = "offer", e.op = "offer"
        PROVE  queue[k].arg # e.arg
    <2>1. ClosureOK(queue[k])
      BY DEF LifeInv, QueueInv
    <2> QED BY <1>4, <2>1 DEF ClosureOK
  <1>5. ASSUME NEW j \in 1 .. Len(queue'), NEW k \in 1 .. Len(queue'),
               queue'[j].op = "offer", queue'[k].op = "offer", queue'[j].arg = queue'[k].arg
        PROVE  j = k
    <2>1. \/ j = Len(queue) + 1 /\ queue'[j] = e
          \/ j \in 1 .. Len(queue) /\ queue'[j] = queue[j]
      BY <1>1 DEF Added
    <2>2. \/ k = Len(queue) + 1 /\ queue'[k] = e
          \/ k \in 1 .. Len(queue) /\ queue'[k] = queue[k]
      BY <1>1 DEF Added
    <2> QED BY <1>4, <1>5, <2>1, <2>2 DEF LifeInv, QueueInv
  <1> QED BY <1>1, <1>3, <1>5 DEF QueueInv

LEMMA QueueEventKeeps ==
  ASSUME LifeInv, Premises, QueueEvent
  PROVE  LifeInv'
  <1>1. PICK h, p, y, a, e : /\ h = Head(s2c) /\ p = wl_map_lookup(cmap, h.id)
                             /\ y = wl_map_lookup(cmap, h.arg)
                             /\ a = IF y = Zombie THEN NoObject ELSE y
                             /\ e = [op |-> h.op, proxy |-> p, arg |-> a]
    OBVIOUS
  <1>2. /\ s2c # <<>> /\ s2c' = Tail(s2c) /\ h.op \in {"event", "done"} /\ p \notin {0, Zombie}
        /\ UNCHANGED <<smap, c2s, display_queue, deleting, iddel, objectVars, serror>>
        /\ IF h.arg # 0 /\ y = 0 THEN QueueFails
           ELSE /\ queue' = Append(queue, e) /\ refcount' = AddRefs(refcount, p, a, 1)
                /\ UNCHANGED <<cmap, cst, failed>>
    BY <1>1 DEF QueueEvent
  <1>3. h \in Messages /\ ArrivalOK(h, 1) /\ s2c' \in Seq(Messages) /\ Taken(s2c, h, s2c')
    BY <1>1, <1>2, ReadHead
  <1>4. h.id \in Nat /\ h.arg \in Nat
    BY <1>3 DEF Messages
  <1>5. /\ Mention(h.obj, 1) /\ id[h.obj] = h.id /\ (h.op = "done" => kind[h.obj] = "callback")
        /\ \/ h.arg = 0
           \/ Mention(h.argobj, 1) /\ h.arg = id[h.argobj] /\ kind[h.argobj] = "plain"
    BY <1>2, <1>3 DEF ArrivalOK, EventOK, DoneOK
  <1>6. p = h.obj /\ p \in Created \ {display} /\ ~Gone(p)
    <2>1. h.obj \in Created \ {display} /\ Held(h.obj)
      BY <1>5 DEF Mention
    <2>2. p = IF C(h.id) < 0 THEN 0 ELSE C(h.id)
      BY <1>1, <1>4, LookupIs
    <2> QED BY <1>2, <1>5, <2>1, <2>2 DEF Held, Zombie
  <1>7. /\ h.arg # 0 => y # 0
        /\ a = 0 \/ (a \in Created \ {display} /\ ~Gone(a))
    <2>1. y = IF C(h.arg) < 0 THEN 0 ELSE C(h.arg)
      BY <1>1, <1>4, LookupIs
    <2>2. CASE h.arg = 0
      BY <1>1, <2>1, <2>2 DEF LifeInv, MapsInv, NoObject, Zombie
    <2>3. CASE Mention(h.argobj, 1) /\ h.arg = id[h.argobj] /\ kind[h.argobj] = "plain"
      <3>0. PICK z : z = h.argobj
        OBVIOUS
      <3>1. z \in Created \ {display} /\ Held(z) /\ ~Offer(z) /\ z \in Nat /\ z > 1
        BY <2>3, <3>0, LifeTypes DEF Mention, Offer
      <3>2. C(h.arg) = IF ~Gone(z) THEN z ELSE 1
        BY <2>3, <3>0, <3>1 DEF Held, Zombie
      <3>3. y = IF Gone(z) THEN 1 ELSE z
        <4> HIDE DEF C, Gone
        <4> QED BY <2>1, <3>1, <3>2
      <3> QED BY <1>1, <3>1, <3>3 DEF NoObject, Zombie
    <2> QED BY <1>5, <2>2, <2>3
  <1>8. /\ queue' = Append(queue, e) /\ refcount' = AddRefs(refcount, p, a, 1)
        /\ UNCHANGED <<cmap, cst, failed>>
    BY <1>2, <1>7
  <1>9. e \in Closures /\ e.op = h.op /\ e.proxy = p /\ e.arg = a
    <2>1. p \in Nat /\ a \in Nat
      BY <1>6, <1>7, LifeTypes
    <2> QED BY <1>1, <1>2, <2>1 DEF Closures
  <1>10. ReadsPlain
    BY <1>1, <1>2, <1>8 DEF ReadsPlain, tables
  <1>11. Calm
    BY <1>2, <1>8 DEF Calm, objectVars, LifeInv, TypesInv
  <1>12. ClosureOK(e)'
    <2>1. UNCHANGED <<cst, kind, last>> /\ p \in Numbers /\ (a # 0 => a \in Numbers)
      BY <1>2, <1>6, <1>7, <1>8, LifeTypes DEF objectVars
    <2> QED BY <1>2, <1>5, <1>6, <1>7, <1>9, <2>1 DEF ClosureOK, Created, Gone
  <1>13. QueueInv' /\ queue' \in Seq(Closures)
    BY <1>2, <1>8, <1>9, <1>11, <1>12, CalmSame, QueueAdded
  <1>14. RefsInv'
    <2>1. \A x \in Numbers : refcount[x] = (IF Gone(x)' THEN 0 ELSE 1) + References(queue, x)
      BY <1>8 DEF LifeInv, RefsInv, Gone
    <2> QED BY <1>8, <1>9, <2>1, RefsAdded
  <1>15. TypesInv'
    BY <1>2, <1>3, <1>8, <1>13 DEF LifeInv, TypesInv, objectVars, Created
  <1>16. IdsInv'
    BY <1>1, <1>2, <1>10, ReadIds
  <1> QED BY <1>10, <1>13, <1>14, <1>15, <1>16, ReadKeeps DEF LifeInv

-----------------------------------------------------------------------------
\* A calm step of the client's program
LEMMA CalmLife ==
  ASSUME LifeInv, Premises, Calm, UNCHANGED <<c2s, s2c>>
  PROVE  /\ ObjectsInv' /\ MapsInv' /\ ClientTable' /\ ServerTable'
         /\ RequestGrowth' /\ EventGrowth' /\ RequestsInv' /\ EventsInv'
  BY CalmKeeps, SameRequests, SameEvents

LEMMA CalmIds ==
  ASSUME LifeInv, Premises, Calm, UNCHANGED <<c2s, s2c, display_queue, deleting>>
  PROVE  IdsInv'
  <1>1. \A i \in Nat : Pending(i)' = Pending(i) /\ Making(i)' = Making(i) /\ SentOnce(i)' = SentOnce(i)
    BY DEF Pending, Making, SentOnce
  <1> QED BY <1>1, CalmSame, IdsKept DEF LifeInv, IdsInv

LEMMA DispatchEventKeeps ==
  ASSUME LifeInv, Premises, DispatchEvent
  PROVE  LifeInv'
  <1>1. PICK e : e = Head(queue)
    OBVIOUS
  <1>2. /\ queue # <<>> /\ queue' = Tail(queue)
        /\ cst' = IF Destroyed(e.proxy) THEN cst
                  ELSE IF e.op = "done" THEN [cst EXCEPT ![e.proxy] = "over"]
                  ELSE IF e.op = "offer" THEN [cst EXCEPT ![e.arg] = "live"]
                  ELSE cst
        /\ refcount' = AddRefs(refcount, e.proxy, e.arg, -1)
        /\ UNCHANGED <<tables, c2s, s2c, display_queue, deleting, iddel, objectVars, failed, serror>>
    BY <1>1 DEF DispatchEvent
  <1>3. e \in Closures /\ queue' \in Seq(Closures) /\ Taken(queue, e, queue')
    BY <1>1, <1>2, TakeHead DEF LifeInv, TypesInv
  <1>4. 1 \in 1 .. Len(queue) /\ queue[1] = e
    BY <1>3 DEF Taken
  <1>5. ClosureOK(e)
    BY <1>4 DEF LifeInv, QueueInv
  <1>6. /\ e.op = "done" /\ ~Destroyed(e.proxy) =>
             e.proxy \in Created /\ kind[e.proxy] = "callback" /\ ~Gone(e.proxy)
        /\ e.op = "offer" => e.arg \in Created /\ kind[e.arg] = "offer" /\ cst[e.arg] = "unseen"
    BY <1>5 DEF ClosureOK, Destroyed, Gone, LifeInv, ObjectsInv, Offer
  <1>7. Calm
    <2>1. cst \in [Numbers -> ClientStates]
      BY DEF LifeInv, TypesInv
    <2>2. cst' \in [Numbers -> ClientStates]
      BY <1>2, <2>1 DEF ClientStates
    <2>3. \A x \in Numbers : cst'[x] = IF x = e.proxy /\ e.op = "done" /\ ~Destroyed(e.proxy) THEN "over"
                                       ELSE IF x = e.arg /\ e.op = "offer" /\ ~Destroyed(e.proxy) THEN "live"
                                       ELSE cst[x]
      BY <1>2, <2>1
    <2> QED BY <1>2, <1>6, <2>2, <2>3 DEF Calm, tables, objectVars
  <1>8. QueueInv'
    <2>1. ASSUME NEW k \in 1 .. Len(queue'), NEW g, g = queue'[k]
          PROVE  ClosureOK(g)'
      <3>1. k + 1 \in 1 .. Len(queue) /\ g = queue[k + 1] /\ k + 1 # 1
        BY <1>3, <2>1 DEF Taken
      <3>2. ClosureOK(g)
        BY <3>1 DEF LifeInv, QueueInv
      <3>3. e.op = "offer" /\ g.op = "offer" => e.arg # g.arg
        BY <1>4, <3>1 DEF LifeInv, QueueInv
      <3>4. /\ g.proxy \in Created \ {display} /\ cst'[g.proxy] # "none"
            /\ g.arg = 0 \/ (g.arg \in Created \ {display} /\ cst'[g.arg] # "none")
        BY <1>7, <3>2, LifeTypes, CalmSame DEF ClosureOK
      <3>5. g.op = "offer" => cst'[g.arg] = "unseen"
        <4>1. g.op = "offer" => g.arg \in Created /\ cst[g.arg] = "unseen" /\ kind[g.arg] = "offer"
          BY <3>2 DEF ClosureOK, LifeInv, ObjectsInv, Offer
        <4> QED BY <1>2, <1>6, <3>3, <4>1
      <3> QED BY <1>7, <3>2, <3>4, <3>5, CalmSame DEF ClosureOK, Calm
    <2>2. \A k \in 1 .. Len(queue') : ClosureOK(queue[k])'
      BY <2>1
    <2>3. \A j, k \in 1 .. Len(queue') :
             queue'[j].op = "offer" /\ queue'[k].op = "offer" /\ queue'[j].arg = queue'[k].arg => j = k
      <3>1. ASSUME NEW j \in 1 .. Len(queue'), NEW k \in 1 .. Len(queue'),
                   queue'[j].op = "offer", queue'[k].op = "offer", queue'[j].arg = queue'[k].arg
            PROVE  j = k
        <4>1. j + 1 = k + 1
          BY <1>3, <3>1 DEF LifeInv, QueueInv, Taken
        <4> QED BY <4>1
      <3> QED BY <3>1
    <2> QED BY <2>2, <2>3 DEF QueueInv
  <1>9. RefsInv'
    <2>1. ASSUME NEW x \in Numbers
          PROVE  refcount[x] + (IF x = e.proxy THEN -1 ELSE 0) + (IF x = e.arg THEN -1 ELSE 0)
                 = (IF Gone(x)' THEN 0 ELSE 1) + References(queue', x)
      <3>1. References(queue, x) = References(queue', x) + RefsOf(e, x) /\ References(queue', x) \in Nat
        BY <1>1, <1>2, ReferencesTaken DEF LifeInv, TypesInv
      <3>2. refcount[x] = (IF Gone(x) THEN 0 ELSE 1) + References(queue, x)
        BY DEF LifeInv, RefsInv
      <3>3. Gone(x)' <=> Gone(x)
        BY <1>7, CalmSame DEF Gone
      <3> HIDE DEF References, Gone
      <3> QED BY <3>1, <3>2, <3>3 DEF RefsOf
    <2> QED BY <1>2, <2>1 DEF RefsInv, AddRefs, Numbers
  <1>10. TypesInv'
    BY <1>2, <1>3, <1>7 DEF LifeInv, TypesInv, objectVars, Created, Calm
  <1>11. IdsInv'
    BY <1>2, <1>7, CalmIds
  <1> QED BY <1>2, <1>7, <1>8, <1>9, <1>10, <1>11, CalmLife DEF LifeInv

LEMMA DispatchDeleteIdKeeps ==
  ASSUME LifeInv, Premises, DispatchDeleteId
  PROVE  LifeInv'
  <1>1. PICK i : i = Head(display_queue)
    OBVIOUS
  <1>2. /\ display_queue # <<>> /\ display_queue' = Tail(display_queue) /\ deleting' = deleting \cup {i}
        /\ UNCHANGED <<tables, c2s, s2c, queue, cst, iddel, refcount, objectVars, failed, serror>>
    BY <1>1 DEF DispatchDeleteId
  <1>3. i \in Nat /\ display_queue' \in Seq(Nat) /\ Taken(display_queue, i, display_queue')
    BY <1>1, <1>2, TakeHead DEF LifeInv, TypesInv
  <1>4. Calm
    BY <1>2 DEF Calm, tables, objectVars, LifeInv, TypesInv
  <1>5. TypesInv'
    BY <1>2, <1>3 DEF LifeInv, TypesInv, objectVars, Created
  <1>6. IdsInv'
    <2>1. ASSUME NEW j \in Nat
          PROVE  /\ (Pending(j)' => Pending(j)) /\ (Making(j)' => Making(j)) /\ SentOnce(j)'
      <3>1. i \in {j} <=> j = i
        OBVIOUS
      <3>2. SentOnce(j)
        BY DEF LifeInv, IdsInv
      <3>3. Some(display_queue, {j}) <=> j = i \/ Some(display_queue', {j})
        BY <1>3, <3>1 DEF Taken
      <3>4. Once(display_queue', {j}) /\ (j = i => ~Some(display_queue', {j}))
        BY <1>3, <3>1, <3>2 DEF Taken, SentOnce
      <3>5. SentOnce(j)'
        BY <1>2, <3>2, <3>3, <3>4 DEF SentOnce
      <3> QED BY <1>2, <3>3, <3>5 DEF Pending, Making
    <2> QED BY <1>4, <2>1, IdsKept, CalmSame
  <1>7. QueueInv' /\ RefsInv'
    BY <1>2, <1>4, CalmSame, QueueKept, RefsKept DEF Gone
  <1> QED BY <1>2, <1>4, <1>5, <1>6, <1>7, CalmLife DEF LifeInv

-----------------------------------------------------------------------------
\* Steps of the client that change what its table has at one id
CmapAt(i, v) ==
  /\ cmap' \in MapOf("client") /\ FreePlaces(cmap', {1})
  /\ Len(cmap'.client) = Len(cmap.client)
  /\ \A j \in Nat : C(j)' = IF j = i THEN v ELSE C(j)
  /\ \A j \in Nat : HasC(j)' <=> HasC(j)

\* The server has no object with client id i, and no message is about one.
Unused(i) ==
  ClientId(i) /\ S(i) = 0 /\ ~Making(i) /\ ~Some(s2c, DeleteId(i))

\* Such a step keeps what the client holds, apart from an id that is not used.
KeepsHeld(i) ==
  /\ \A x \in Created : Held(x) /\ ~(id[x] = i /\ Unused(i)) => Held(x)'
  /\ \A j \in Nat : ClientId(j) /\ Back(j)' => Back(j) \/ (j = i /\ Unused(i))

LEMMA CmapAtMaps ==
  ASSUME LifeInv, Premises, NEW i \in Nat, NEW v \in Int, CmapAt(i, v), i # 0,
         ~ClientId(i) => v >= 0, UNCHANGED <<smap, last>>
  PROVE  MapsInv'
  <1>1. MapsInv
    BY DEF LifeInv
  <1>2. \A j : S(j)' = S(j) /\ (HasS(j)' <=> HasS(j))
    BY TablesSame
  <1>3. cmap' \in MapOf("client") /\ FreePlaces(cmap', {1}) /\ Len(cmap'.client) <= last'
    BY <1>1 DEF CmapAt, MapsInv
  <1>4. HasC(0)' /\ C(0)' = 0 /\ (\A j \in Nat : ~ClientId(j) => C(j)' >= 0)
    BY <1>1 DEF CmapAt, MapsInv
  <1> QED BY <1>1, <1>2, <1>3, <1>4 DEF MapsInv, ClientId

LEMMA MentionUsed ==
  ASSUME LifeInv, Premises, NEW x \in Created, NEW k \in 1 .. Len(s2c), Mention(x, k)
  PROVE  ~Unused(id[x])
  <1>1. After(s2c, k, DeleteId(id[x])) => Some(s2c, DeleteId(id[x]))
    BY DEF After, Some
  <1>2. Offer(x) => ~ClientId(id[x])
    BY DEF LifeInv, ObjectsInv
  <1>3. x > 1
    BY LifeTypes
  <1> QED BY <1>1, <1>2, <1>3 DEF Mention, Unused

LEMMA ClientStep ==
  ASSUME LifeInv, Premises, NEW i \in Nat, KeepsHeld(i),
         UNCHANGED <<smap, s2c, last, kind, id>>, \A j \in Nat : HasC(j)' <=> HasC(j),
         \A x \in Created : Some(c2s, CreateOf(x)) => Some(c2s', CreateOf(x)),
         \A x \in Created : /\ cst'[x] = "none" <=> cst[x] = "none"
                            /\ cst'[x] = "live" => cst[x] = "live"
                            /\ Offer(x) /\ cst'[x] # "destroyed" => cst[x] # "destroyed"
  PROVE  ServerTable' /\ EventGrowth' /\ EventsInv'
  <1>1. /\ ObjectsStay /\ Created' = Created /\ \A x : Offer(x)' <=> Offer(x)
        /\ \A j : S(j)' = S(j) /\ (HasS(j)' <=> HasS(j))
    BY TablesSame DEF ObjectsStay, Created, Offer
  <1>2. ServerTable'
    <2>1. ASSUME NEW j \in Nat, S(j) > 0
          PROVE  S(j) \in Created /\ id[S(j)] = j /\ Held(S(j))' /\ (ClientId(j) => ~Back(j)')
      <3>1. PICK x : x = S(j)
        OBVIOUS
      <3>2. x \in Created /\ id[x] = j /\ Held(x) /\ (ClientId(j) => ~Back(j)) /\ S(j) # 0
        BY <2>1, <3>1 DEF LifeInv, ServerTable
      <3>3. Held(x)' /\ (ClientId(j) => ~Back(j)')
        BY <3>2 DEF KeepsHeld, Unused
      <3>4. S(j)' = x
        BY <1>1, <3>1
      <3> QED BY <3>1, <3>2, <3>3, <3>4
    <2>2. \A j \in Nat : S(j)' > 0 =>
             /\ S(j)' \in Created' /\ id'[S(j)'] = j /\ Held(S(j))'
             /\ ClientId(j) => ~Back(j)'
      BY <1>1, <2>1
    <2>3. S(1)' = display /\ S(2)' = device
      BY <1>1 DEF LifeInv, ServerTable
    <2>4. \A x \in Created' : Offer(x)' /\ cst'[x] # "destroyed" => S(id[x])' = x
      BY <1>1 DEF LifeInv, ServerTable
    <2>5. \A x \in Created' : kind'[x] = "plain" /\ cst'[x] = "live" =>
             S(id[x])' = x \/ Some(c2s', CreateOf(x))
      BY <1>1 DEF LifeInv, ServerTable
    <2>6. \A x \in Created' : cst'[x] = "none" => Some(s2c', OfferId(id'[x]))
      BY <1>1 DEF LifeInv, ServerTable
    <2> QED BY <2>2, <2>3, <2>4, <2>5, <2>6 DEF ServerTable, ClientId
  <1>3. EventGrowth'
    <2>1. \A k \in 1 .. Len(s2c) : s2c[k] \in Messages
      BY DEF LifeInv, TypesInv
    <2> QED BY <1>1, <2>1 DEF LifeInv, EventGrowth, ClientId, Messages
  <1>4. EventsInv'
    <2>1. ASSUME NEW k \in 1 .. Len(s2c), NEW x \in Created, Mention(x, k)
          PROVE  Mention(x, k)'
      <3>1. Held(x)' /\ x \in Created \ {display}
        BY <2>1, MentionUsed DEF KeepsHeld, Mention
      <3>2. ASSUME Offer(x), cst'[x] = "destroyed", cst[x] # "destroyed"
            PROVE  ~Before(s2c, k, OfferId(id[x]))
        <4>1. S(id[x]) = x /\ cst[x] # "none" /\ id[x] \in Nat
          BY <3>2, LifeTypes DEF LifeInv, ServerTable
        <4>2. ~Some(s2c, OfferId(id[x]))
          BY <4>1, OffersUnknown
        <4> QED BY <4>2 DEF Before, Some
      <3>3. Offer(x) => /\ cst'[x] = "none" => Before(s2c, k, OfferId(id[x]))
                        /\ cst'[x] = "destroyed" => ~Before(s2c, k, OfferId(id[x]))
        BY <2>1, <3>2 DEF Mention
      <3> QED BY <1>1, <2>1, <3>1, <3>3 DEF Mention
    <2>2. \A k \in 1 .. Len(s2c') : /\ k + 0 \in 1 .. Len(s2c) /\ s2c'[k] = s2c[k + 0]
                                   /\ \A x \in Created : Mention(x, k + 0) => Mention(x, k)'
      BY <2>1
    <2> QED BY <1>1, <2>2, EventsKept
  <1> QED BY <1>2, <1>3, <1>4

\* An object a request makes is at an id that is used.
LEMMA CreatesUsed ==
  ASSUME LifeInv, NEW i \in Nat, KeepsHeld(i), NEW x, Some(c2s, CreateOf(x))
  PROVE  Held(x)'
  BY CreatesHeld DEF KeepsHeld, Unused

LEMMA ClientStepRequests ==
  ASSUME LifeInv, Premises, NEW i \in Nat, KeepsHeld(i),
         UNCHANGED <<smap, c2s, last, kind, id>>, \A j \in Nat : HasC(j)' <=> HasC(j),
         \A x \in Created : cst[x] \in {"leaving", "destroyed"} => cst'[x] \in {"leaving", "destroyed"}
  PROVE  RequestGrowth' /\ RequestsInv'
  <1>1. /\ ObjectsStay /\ \A j : S(j)' = S(j) /\ (HasS(j)' <=> HasS(j))
    BY TablesSame DEF ObjectsStay, Created
  <1>2. \A k \in 1 .. Len(c2s) : k + 0 = k /\ \A x \in Created : Ready(x, k) => Ready(x, k)'
    BY <1>1 DEF Ready
  <1>3. RequestsInv'
    BY <1>1, <1>2, CreatesUsed, RequestsKept
  <1>4. RequestGrowth'
    BY <1>1 DEF LifeInv, RequestGrowth, Making, ClientId
  <1> QED BY <1>3, <1>4

LEMMA HandleDeleteIdKeeps ==
  ASSUME LifeInv, Premises, NEW i \in deleting, HandleDeleteId(i)
  PROVE  LifeInv'
  <1>1. PICK p : p = wl_map_lookup(cmap, i)
    OBVIOUS
  <1>2. /\ IF p \notin {0, Zombie} THEN iddel' = iddel \cup {p} /\ UNCHANGED cmap
           ELSE cmap' = wl_map_remove(cmap, i) /\ UNCHANGED iddel
        /\ deleting' = deleting \ {i}
        /\ UNCHANGED <<smap, c2s, s2c, queue, display_queue, cst, refcount, objectVars, failed, serror>>
    BY <1>1 DEF HandleDeleteId
  <1>3. i \in Nat /\ Pending(i)
    BY DEF LifeInv, TypesInv, Pending
  <1>4. ClientId(i) /\ ~Back(i) /\ S(i) = 0 /\ ~Making(i)
    BY <1>3 DEF LifeInv, IdsInv
  <1>5. ~Some(display_queue, {i}) /\ ~Some(s2c, DeleteId(i)) /\ SentOnce(i)
    BY <1>3 DEF LifeInv, IdsInv, SentOnce
  <1>6. Unused(i)
    BY <1>4, <1>5 DEF Unused
  <1>7. C(i) \in Int /\ C(i) > 0 /\ C(i) \notin iddel /\ p = C(i) /\ i # 0
    <2>1. C(i) \in Int /\ C(i) > 0 /\ C(i) \notin iddel
      BY <1>3, <1>4, LifeTypes DEF Back
    <2> QED BY <1>1, <1>3, <2>1, LookupIs DEF LifeInv, MapsInv
  <1>8. /\ ObjectsStay /\ Created' = Created
        /\ \A x : (Offer(x)' <=> Offer(x)) /\ (Gone(x)' <=> Gone(x))
        /\ \A j : S(j)' = S(j) /\ (HasS(j)' <=> HasS(j))
    BY <1>2, TablesSame DEF ObjectsStay, Created, Offer, Gone, objectVars
  <1>9. /\ KeepsHeld(i) /\ MapsInv' /\ ClientTable' /\ iddel' \subseteq Created
        /\ \A x \in iddel' : ~Offer(x)
        /\ \A j \in Nat : HasC(j)' <=> HasC(j)
    <2>1. CASE p # Zombie
      <3>1. cmap' = cmap /\ iddel' = iddel \cup {p}
        BY <1>2, <1>7, <2>1
      <3>2. \A j : C(j)' = C(j) /\ (HasC(j)' <=> HasC(j))
        BY <3>1, TablesSame
      <3>3. p \in Created /\ id[p] = i /\ ~Gone(p)
        BY <1>3, <1>7, <2>1 DEF LifeInv, ClientTable
      <3>4. iddel' \subseteq Created /\ \A x \in iddel' : ~Offer(x)
        BY <1>4, <3>1, <3>3 DEF LifeInv, TypesInv, ObjectsInv
      <3>5. \A x \in Created : Held(x)' <=> Held(x)
        BY <1>2, <1>8, <3>2 DEF Held, objectVars
      <3>6. \A j \in Nat : Back(j)' => Back(j) \/ j = i
        <4> SUFFICES ASSUME NEW j \in Nat, Back(j)' PROVE Back(j) \/ j = i
          OBVIOUS
        <4>1. Back(j) \/ C(j) = p
          BY <3>1, <3>2 DEF Back
        <4>2. C(j) = p => id[p] = j
          BY <1>7, <2>1, <3>3 DEF LifeInv, ClientTable
        <4> QED BY <3>3, <4>1, <4>2
      <3>7. MapsInv'
        <4>1. cmap' = cmap /\ smap' = smap /\ last' = last
          BY <1>2, <3>1 DEF objectVars
        <4> QED BY <1>8, <3>2, <4>1 DEF LifeInv, MapsInv, ClientId
      <3>8. ClientTable'
        <4>1. id' = id
          BY <1>2 DEF objectVars
        <4>2. \A j \in Nat : C(j) > 0 /\ C(j) \in Created => (Gone(C(j))' <=> Gone(C(j)))
          BY <1>2, <3>2 DEF Gone
        <4> QED BY <1>8, <3>2, <4>1, <4>2 DEF LifeInv, ClientTable, ClientId
      <3> QED BY <1>6, <3>2, <3>4, <3>5, <3>6, <3>7, <3>8 DEF KeepsHeld
    <2>2. CASE p = Zombie
      <3>1. cmap' = wl_map_remove(cmap, i) /\ iddel' = iddel
        BY <1>2, <2>2
      <3>2. PICK v : v = cmap.free_list
        OBVIOUS
      <3>3. CmapAt(i, v) /\ v \in Int /\ v <= 0
        <4>1. cmap \in MapOf("client") /\ FreePlaces(cmap, {1}) /\ "client" \in Sides
          BY DEF LifeInv, MapsInv, Sides
        <4>2. Space(i) = "client" /\ Place(i) \notin {1} /\ IdEntry(cmap, i) > 0
          BY <1>3, <1>4, <1>7, PlaceIs DEF ClientId, C
        <4> QED BY <1>3, <3>1, <3>2, <4>1, <4>2, RemoveIs, MapTypes DEF CmapAt, C, HasC
      <3>4. MapsInv'
        BY <1>2, <1>3, <1>4, <1>7, <3>3, CmapAtMaps DEF objectVars
      <3>5. \A x \in Created : Held(x) /\ id[x] # i => Held(x)'
        BY <1>2, <1>8, <3>3, LifeTypes DEF Held, CmapAt, objectVars
      <3>6. \A j \in Nat : Back(j)' => Back(j) \/ j = i
        BY <3>1, <3>3 DEF Back, CmapAt
      <3>7. ClientTable'
        <4>1. id' = id
          BY <1>2 DEF objectVars
        <4>2. ASSUME NEW y \in Created, ~Gone(y) PROVE C(id[y])' = y
          <5>1. C(id[y]) = y /\ y # 1 /\ id[y] \in Nat
            BY <4>2, LifeTypes DEF LifeInv, ClientTable
          <5>2. id[y] # i
            BY <1>7, <2>2, <5>1 DEF Zombie
          <5>3. PICK j \in Nat : j = id[y]
            BY <5>1
          <5>4. C(j)' = y /\ j = id'[y]
            BY <3>3, <4>1, <5>1, <5>2, <5>3 DEF CmapAt
          <5> QED BY <5>4
        <4>3. ASSUME NEW j \in Nat, C(j)' > 0
              PROVE  \/ ClientId(j) /\ C(j)' = Zombie
                     \/ C(j)' \in Created /\ id[C(j)'] = j /\ ~Gone(C(j))'
          <5>1. j # i /\ C(j)' = C(j) /\ C(j) > 0
            BY <3>3, <4>3 DEF CmapAt
          <5>2. PICK z : z = C(j)
            OBVIOUS
          <5>3. (ClientId(j) /\ z = Zombie) \/ (z \in Created /\ id[z] = j /\ ~Gone(z)')
            BY <1>8, <5>1, <5>2 DEF LifeInv, ClientTable
          <5> QED BY <5>1, <5>2, <5>3
        <4> QED BY <1>8, <4>1, <4>2, <4>3 DEF ClientTable, ClientId
      <3>8. KeepsHeld(i)
        BY <1>6, <3>5, <3>6 DEF KeepsHeld
      <3>9. iddel' \subseteq Created /\ \A x \in iddel' : ~Offer(x)
        BY <3>1 DEF LifeInv, TypesInv, ObjectsInv
      <3> QED BY <3>3, <3>4, <3>7, <3>8, <3>9 DEF CmapAt
    <2> QED BY <2>1, <2>2
  <1>10. ObjectsInv'
    <2>1. UNCHANGED <<cst, kind, id, last>>
      BY <1>2 DEF objectVars
    <2> QED BY <1>8, <1>9, <2>1, LifeTypes DEF LifeInv, ObjectsInv, ClientId, Numbers
  <1>11. ServerTable' /\ EventGrowth' /\ EventsInv'
    <2>1. UNCHANGED <<smap, s2c, c2s, cst, kind, id, last>>
      BY <1>2 DEF objectVars
    <2> QED BY <1>3, <1>9, <2>1, ClientStep
  <1>12. RequestGrowth' /\ RequestsInv'
    <2>1. UNCHANGED <<smap, c2s, cst, kind, id, last>>
      BY <1>2 DEF objectVars
    <2> QED BY <1>3, <1>9, <2>1, ClientStepRequests
  <1>13. IdsInv'
    <2>1. ASSUME NEW j \in Nat
          PROVE  /\ Pending(j)' => Pending(j) /\ j # i
                 /\ Making(j)' => Making(j) /\ j # i
                 /\ SentOnce(j)'
      <3>1. SentOnce(j)
        BY DEF LifeInv, IdsInv
      <3> QED BY <1>2, <1>4, <1>5, <3>1 DEF Pending, Making, SentOnce
    <2>2. ASSUME NEW j \in Nat, j # i, ClientId(j), ~Back(j) PROVE ~Back(j)'
      BY <1>9, <2>2 DEF KeepsHeld
    <2> QED BY <1>8, <2>1, <2>2 DEF LifeInv, IdsInv, ClientId
  <1>14. QueueInv' /\ RefsInv'
    BY <1>2, <1>8, QueueKept, RefsKept
  <1>15. TypesInv'
    BY <1>2, <1>8, <1>9 DEF LifeInv, TypesInv, objectVars
  <1> QED BY <1>9, <1>10, <1>11, <1>12, <1>13, <1>14, <1>15 DEF LifeInv

-----------------------------------------------------------------------------
\* The client destroys a proxy.
ProxyGoes(x) ==
  /\ x \in Created \ {display, device} /\ cst[x] \in {"live", "leaving", "over"}
  /\ ProxyDestroy(x, cst)
  /\ UNCHANGED <<smap, s2c, queue, display_queue, deleting, iddel, last, kind, id, failed, serror>>

LEMMA ProxyGoesCmap ==
  ASSUME LifeInv, Premises, NEW x, ProxyGoes(x), NEW i, i = id[x]
  PROVE  /\ i \in Nat /\ i # 0 /\ C(i) = x /\ x \in Nat /\ x > 1 /\ ~Gone(x)
         /\ x \in iddel => Unused(i) /\ ~Pending(i)
         /\ \E v \in Int : /\ CmapAt(i, v)
                           /\ x \in iddel => v <= 0
                           /\ x \notin iddel => v = IF ClientId(i) THEN Zombie ELSE 0
                           /\ ~ClientId(i) => v >= 0
  <1>1. x \in Created /\ x \in Nat /\ x > 1 /\ ~Gone(x) /\ i \in Nat
    BY LifeTypes DEF ProxyGoes, Gone
  <1>2. C(i) = x /\ HasC(i) /\ i # 0
    <2>1. C(i) = x
      BY <1>1 DEF LifeInv, ClientTable
    <2> QED BY <1>1, <2>1 DEF C, HasC, IdEntry, LifeInv, MapsInv
  <1>3. x \in iddel => ClientId(i)
    BY <1>1 DEF LifeInv, ObjectsInv
  <1>4. x \in iddel => Unused(i) /\ ~Pending(i)
    <2> HAVE x \in iddel
    <2>1. Back(i)
      BY <1>2 DEF Back
    <2>2. ~Pending(i) /\ ~Making(i)
      BY <1>1, <2>1 DEF LifeInv, IdsInv
    <2>3. S(i) = 0
      <3>1. ~(S(i) > 0)
        BY <1>1, <1>3, <2>1 DEF LifeInv, ServerTable
      <3>2. S(i) \in Int /\ S(i) >= 0
        BY <1>1, <1>3, LifeTypes DEF LifeInv, MapsInv
      <3> QED BY <3>1, <3>2
    <2> QED BY <1>3, <2>2, <2>3 DEF Unused, Pending
  <1>5. cmap \in MapOf("client") /\ FreePlaces(cmap, {1}) /\ "client" \in Sides
    BY DEF LifeInv, MapsInv, Sides
  <1>6. cmap' = IF x \in iddel THEN wl_map_remove(cmap, i)
                ELSE wl_map_insert_at(cmap, i, IF ClientId(i) THEN Zombie ELSE 0)
    BY DEF ProxyGoes, ProxyDestroy, ClientId
  <1>7. CASE x \in iddel
    <2>1. PICK v : v = cmap.free_list
      OBVIOUS
    <2>2. Space(i) = "client" /\ Place(i) \notin {1} /\ IdEntry(cmap, i) > 0
      BY <1>1, <1>2, <1>3, <1>7, PlaceIs DEF ClientId, C
    <2>3. CmapAt(i, v) /\ v \in Int /\ v <= 0
      <3>1. PICK n : n = wl_map_remove(cmap, i) /\ n = cmap'
        BY <1>6, <1>7
      <3>2. /\ n \in MapOf("client") /\ FreePlaces(n, {1}) /\ v <= 0
            /\ \A j \in Nat : IdEntry(n, j) = IF j = i THEN v ELSE IdEntry(cmap, j)
            /\ \A j \in Nat : HasId(n, j) <=> HasId(cmap, j)
            /\ Len(n["client"]) = Len(cmap["client"])
        <4>1. /\ wl_map_remove(cmap, i) \in MapOf("client") /\ FreePlaces(wl_map_remove(cmap, i), {1})
              /\ cmap.free_list <= 0
              /\ \A j \in Nat : IdEntry(wl_map_remove(cmap, i), j) = IF j = i THEN cmap.free_list ELSE IdEntry(cmap, j)
              /\ \A j \in Nat : HasId(wl_map_remove(cmap, i), j) <=> HasId(cmap, j)
              /\ Len(wl_map_remove(cmap, i)["client"]) = Len(cmap["client"])
          BY <1>1, <1>5, <2>2, RemoveIs
        <4> QED BY <2>1, <3>1, <4>1
      <3>3. v \in Int /\ Len(n.client) = Len(cmap.client)
        BY <1>5, <2>1, <3>2, MapTypes
      <3> QED BY <3>1, <3>2, <3>3 DEF CmapAt, C, HasC
    <2> QED BY <1>1, <1>2, <1>3, <1>4, <1>7, <2>3
  <1>8. CASE x \notin iddel
    <2>1. PICK v \in Int : v = IF ClientId(i) THEN Zombie ELSE 0
      BY DEF Zombie
    <2>2. cmap' = wl_map_insert_at(cmap, i, v)
      BY <1>6, <1>8, <2>1
    <2>3. CanInsertAt(cmap, i)
      <3>1. Len(cmap[Space(i)]) \in Nat
        BY <1>1, <1>5, MapTypes, PlaceIs
      <3> QED BY <1>2, <3>1 DEF CanInsertAt, HasC, HasId
    <2>4. Space(i) = "client" => IdEntry(cmap, i) > 0 /\ v > 0
      BY <1>1, <1>2, <2>1, PlaceIs DEF C, ClientId, Zombie
    <2>5. FreePlaces(cmap', {1})
      BY <1>1, <1>5, <2>2, <2>3, <2>4, ReplaceKeepsFree
    <2>6. CmapAt(i, v)
      <3>1. /\ cmap' \in MapOf("client")
            /\ \A s \in Sides : s # Space(i) => cmap'[s] = cmap[s]
            /\ \A j \in Nat : IdEntry(cmap', j) = IF j = i THEN v ELSE IdEntry(cmap, j)
            /\ \A j \in Nat : HasId(cmap', j) <=> HasId(cmap, j) \/ j = i
            /\ HasId(cmap, i) => Len(cmap'[Space(i)]) = Len(cmap[Space(i)])
        BY <1>1, <1>5, <2>2, <2>3, InsertAtIs
      <3>2. Len(cmap'["client"]) = Len(cmap["client"])
        BY <1>2, <1>5, <3>1 DEF HasC
      <3>3. Len(cmap'.client) = Len(cmap.client)
        BY <1>5, <3>1, <3>2, MapTypes
      <3> QED BY <1>2, <2>5, <3>1, <3>2 DEF CmapAt, C, HasC
    <2> QED BY <1>1, <1>2, <1>8, <2>1, <2>6
  <1> QED BY <1>7, <1>8

\* What of the invariant has nothing to do with the request
LEMMA ProxyGoesKeeps ==
  ASSUME LifeInv, Premises, NEW x, ProxyGoes(x),
         \A y \in Created : Some(c2s, CreateOf(y)) => Some(c2s', CreateOf(y)),
         \A j \in Nat : Making(j)' => Making(j), \A j \in Nat : Once(c2s', CreateId(j))
  PROVE  /\ KeepsHeld(id[x]) /\ id[x] \in Nat /\ \A j \in Nat : HasC(j)' <=> HasC(j)
         /\ cst' = [cst EXCEPT ![x] = "destroyed"] /\ x \in Numbers
         /\ ObjectsInv' /\ MapsInv' /\ ClientTable' /\ ServerTable' /\ IdsInv'
         /\ EventGrowth' /\ EventsInv' /\ QueueInv' /\ RefsInv'
  <1>1. PICK i : i = id[x]
    OBVIOUS
  <1>2. /\ i \in Nat /\ i # 0 /\ C(i) = x /\ x \in Nat /\ x > 1 /\ ~Gone(x)
        /\ x \in iddel => Unused(i) /\ ~Pending(i)
    BY <1>1, ProxyGoesCmap
  <1>3. PICK v \in Int : /\ CmapAt(i, v)
                         /\ x \in iddel => v <= 0
                         /\ x \notin iddel => v = IF ClientId(i) THEN Zombie ELSE 0
                         /\ ~ClientId(i) => v >= 0
    BY <1>1, ProxyGoesCmap
  <1>4. /\ x \in Created \ {display, device} /\ cst[x] \in {"live", "leaving", "over"} /\ x \in Numbers
        /\ cst' = [cst EXCEPT ![x] = "destroyed"] /\ refcount' = [refcount EXCEPT ![x] = @ - 1]
        /\ UNCHANGED <<smap, s2c, queue, display_queue, deleting, iddel, last, kind, id>>
    BY LifeTypes DEF ProxyGoes, ProxyDestroy
  <1>5. \A y \in Numbers : cst'[y] = IF y = x THEN "destroyed" ELSE cst[y]
    BY <1>4 DEF LifeInv, TypesInv
  <1>6. /\ ObjectsStay /\ Created' = Created
        /\ \A y : (Offer(y)' <=> Offer(y))
        /\ \A y \in Numbers : Gone(y)' <=> (Gone(y) \/ y = x)
        /\ \A j : S(j)' = S(j) /\ (HasS(j)' <=> HasS(j))
    BY <1>4, <1>5, TablesSame DEF ObjectsStay, Created, Offer, Gone
  <1>7. KeepsHeld(i) /\ \A j \in Nat : ClientId(j) /\ Back(j)' => Back(j) \/ (j = i /\ x \in iddel)
    <2>1. ASSUME NEW y \in Created, Held(y), ~(id[y] = i /\ Unused(i)) PROVE Held(y)'
      <3>1. PICK j \in Nat : j = id[y] /\ j = id'[y]
        BY <1>4, LifeTypes
      <3>2. CASE y = x
        <4>1. j = i /\ x \notin iddel /\ Gone(x)' /\ (ClientId(i) <=> ~Offer(x)')
          BY <1>1, <1>2, <1>4, <1>6, <2>1, <3>1, <3>2 DEF LifeInv, ObjectsInv
        <4>2. C(j)' = IF Offer(x)' THEN 0 ELSE Zombie
          BY <1>3, <4>1 DEF CmapAt
        <4> QED BY <3>1, <3>2, <4>1, <4>2 DEF Held
      <3>3. CASE y # x
        <4>1. j # i
          BY <1>1, <1>2, <1>4, <2>1, <3>1, <3>3, HeldOnce
        <4>2. C(j)' = C(j)
          BY <1>3, <4>1 DEF CmapAt
        <4>3. C(j) = IF ~Gone(y) THEN y ELSE IF Offer(y) THEN 0 ELSE Zombie
          BY <2>1, <3>1 DEF Held
        <4>4. (Gone(y)' <=> Gone(y)) /\ (Offer(y)' <=> Offer(y))
          BY <1>6, <3>3, LifeTypes
        <4> QED BY <3>1, <4>2, <4>3, <4>4 DEF Held
      <3> QED BY <3>2, <3>3
    <2>2. ASSUME NEW j \in Nat, ClientId(j), Back(j)' PROVE Back(j) \/ (j = i /\ x \in iddel)
      <3>1. CASE j # i
        BY <1>3, <1>4, <2>2, <3>1 DEF Back, CmapAt
      <3>2. CASE j = i /\ x \notin iddel
        <4>1. C(j)' = 1
          BY <1>3, <2>2, <3>2 DEF CmapAt, Zombie
        <4>2. 1 \notin iddel'
          <5>1. 1 \notin Created
            BY LifeTypes
          <5> QED BY <1>4, <5>1 DEF LifeInv, TypesInv
        <4> QED BY <2>2, <4>1, <4>2 DEF Back
      <3> QED BY <3>1, <3>2
    <2>3. \A j \in Nat : ClientId(j) /\ Back(j)' => Back(j) \/ (j = i /\ Unused(i))
      BY <1>2, <2>2
    <2> QED BY <2>1, <2>2, <2>3 DEF KeepsHeld
  <1>8. \A j \in Nat : HasC(j)' <=> HasC(j)
    BY <1>3 DEF CmapAt
  <1>9. ObjectsInv'
    <2>1. /\ \A y \in Created' : kind'[y] = "display" <=> y = display
          /\ device \in Created' /\ kind'[device] = "plain" /\ id'[display] = 1 /\ id'[device] = 2
      BY <1>4, <1>6 DEF LifeInv, ObjectsInv
    <2>2. ASSUME NEW y \in Created
          PROVE  IF Offer(y)' THEN ~ClientId(id'[y]) /\ HasS(id[y])' ELSE ClientId(id'[y]) /\ HasC(id[y])'
      <3>1. PICK j \in Nat : j = id[y] /\ j = id'[y]
        BY <1>4, LifeTypes
      <3>2. IF Offer(y) THEN ~ClientId(j) /\ HasS(j) ELSE ClientId(j) /\ HasC(j)
        BY <3>1 DEF LifeInv, ObjectsInv
      <3>3. IF Offer(y)' THEN ~ClientId(j) /\ HasS(j)' ELSE ClientId(j) /\ HasC(j)'
        BY <1>6, <1>8, <3>2
      <3> QED BY <3>1, <3>3
    <2>3. \A y \in Numbers : y \notin Created' => cst'[y] = "none"
      BY <1>4, <1>5, <1>6 DEF LifeInv, ObjectsInv
    <2>4. cst'[display] = "live" /\ cst'[device] = "live"
      BY <1>4, <1>5, LifeTypes DEF LifeInv, ObjectsInv
    <2>5. \A y \in Created' : /\ cst'[y] = "over" => kind'[y] = "callback"
                              /\ cst'[y] = "leaving" => kind'[y] = "plain"
                              /\ cst'[y] \in {"none", "unseen"} => Offer(y)'
      BY <1>4, <1>5, <1>6, LifeTypes DEF LifeInv, ObjectsInv
    <2>6. \A y \in iddel' : ~Offer(y)'
      BY <1>4, <1>6 DEF LifeInv, ObjectsInv
    <2> QED BY <1>6, <2>1, <2>2, <2>3, <2>4, <2>5, <2>6 DEF ObjectsInv, ClientId, Numbers
  <1>10. MapsInv'
    BY <1>2, <1>3, <1>4, CmapAtMaps
  <1>11. ClientTable'
    <2>1. ASSUME NEW y \in Created, ~Gone(y)' PROVE C(id[y])' = y
      <3>1. y # x /\ ~Gone(y)
        BY <1>6, <2>1, LifeTypes
      <3>2. PICK j \in Nat : j = id[y] /\ j = id'[y]
        BY <1>4, LifeTypes
      <3>3. C(j) = y
        BY <3>1, <3>2 DEF LifeInv, ClientTable
      <3>4. C(j)' = y
        BY <1>2, <1>3, <3>1, <3>3 DEF CmapAt
      <3> QED BY <3>2, <3>4
    <2>2. ASSUME NEW j \in Nat, C(j)' > 0
          PROVE  \/ ClientId(j) /\ C(j)' = Zombie
                 \/ C(j)' \in Created /\ id[C(j)'] = j /\ ~Gone(C(j))'
      <3>1. CASE j = i
        <4>1. C(j)' = v
          BY <1>3, <3>1 DEF CmapAt
        <4> QED BY <1>3, <2>2, <3>1, <4>1
      <3>2. CASE j # i
        <4>1. C(j)' = C(j) /\ C(j) > 0
          BY <1>3, <2>2, <3>2 DEF CmapAt
        <4>2. PICK z : z = C(j)
          OBVIOUS
        <4>3. (ClientId(j) /\ z = Zombie) \/ (z \in Created /\ id[z] = j /\ ~Gone(z))
          BY <4>1, <4>2 DEF LifeInv, ClientTable
        <4>4. z \in Created /\ id[z] = j /\ ~Gone(z) => ~Gone(z)'
          BY <1>1, <1>6, <3>2, LifeTypes
        <4> QED BY <4>1, <4>2, <4>3, <4>4
      <3> QED BY <3>1, <3>2
    <2> QED BY <1>4, <1>6, <2>1, <2>2 DEF ClientTable, ClientId
  <1>12. ServerTable' /\ EventGrowth' /\ EventsInv'
    <2>1. \A y \in Created : /\ cst'[y] = "none" <=> cst[y] = "none"
                             /\ cst'[y] = "live" => cst[y] = "live"
                             /\ Offer(y) /\ cst'[y] # "destroyed" => cst[y] # "destroyed"
      BY <1>4, <1>5, LifeTypes
    <2> QED BY <1>2, <1>4, <1>7, <1>8, <2>1, ClientStep
  <1>13. IdsInv'
    <2>1. ASSUME NEW j \in Nat
          PROVE  (Pending(j)' => Pending(j)) /\ (Making(j)' => Making(j)) /\ SentOnce(j)'
      BY <1>4 DEF Pending, LifeInv, IdsInv, SentOnce
    <2>2. ASSUME NEW j \in Nat, ClientId(j), ~Back(j), Pending(j) \/ Making(j) PROVE ~Back(j)'
      BY <1>2, <1>7, <2>2 DEF Unused
    <2> QED BY <1>6, <2>1, <2>2 DEF LifeInv, IdsInv, ClientId
  <1>14. QueueInv'
    BY <1>4, <1>5, <1>6, LifeTypes, QueueKept
  <1>15. RefsInv'
    <2>1. refcount = [y \in Numbers |-> (IF Gone(y) THEN 0 ELSE 1) + References(queue, y)]
      BY DEF LifeInv, RefsInv
    <2>2. ASSUME NEW y \in Numbers PROVE References(queue, y) \in Nat
      <3>1. queue \in Seq(Closures)
        BY DEF LifeInv, TypesInv
      <3>2. [op |-> "event", proxy |-> 0, arg |-> 0] \in Closures
        BY DEF Closures
      <3> QED BY <3>1, <3>2, ReferencesAdded
    <2>3. ASSUME NEW y \in Numbers
          PROVE  refcount'[y] = (IF Gone(y)' THEN 0 ELSE 1) + References(queue, y)
      <3>1. refcount'[y] = IF y = x THEN refcount[x] - 1 ELSE refcount[y]
        BY <1>4, <2>1
      <3>2. refcount[y] = (IF Gone(y) THEN 0 ELSE 1) + References(queue, y) /\ References(queue, y) \in Nat
        BY <2>1, <2>2
      <3>3. Gone(y)' <=> (Gone(y) \/ y = x)
        BY <1>6
      <3> HIDE DEF Gone, References
      <3>4. CASE y = x
        BY <1>2, <3>1, <3>2, <3>3, <3>4
      <3>5. CASE y # x
        BY <3>1, <3>2, <3>3, <3>5
      <3> QED BY <3>4, <3>5
    <2>4. refcount' = [y \in Numbers |-> (IF Gone(y)' THEN 0 ELSE 1) + References(queue, y)]
      <3>1. refcount' = [y \in Numbers |-> refcount'[y]]
        BY <1>4, <2>1
      <3> QED BY <2>3, <3>1
    <2> QED BY <1>4, <2>4 DEF RefsInv, Numbers
  <1> QED BY <1>1, <1>2, <1>4, <1>7, <1>8, <1>9, <1>10, <1>11, <1>12, <1>13, <1>14, <1>15

LEMMA FinishDestroyKeeps ==
  ASSUME LifeInv, Premises, NEW x \in Created \ {display}, FinishDestroy(x)
  PROVE  LifeInv'
  <1>1. /\ cst[x] \in {"leaving", "over"}
        /\ UNCHANGED <<smap, c2s, s2c, queue, display_queue, deleting, iddel, last, kind, id, failed, serror>>
    BY DEF FinishDestroy, objectVars
  <1>2. ProxyGoes(x)
    BY <1>1 DEF FinishDestroy, ProxyGoes, LifeInv, ObjectsInv, objectVars
  <1>3. \A j \in Nat : (Making(j)' => Making(j)) /\ Once(c2s', CreateId(j))
    BY <1>1 DEF Making, LifeInv, IdsInv, SentOnce
  <1>4. /\ KeepsHeld(id[x]) /\ id[x] \in Nat /\ \A j \in Nat : HasC(j)' <=> HasC(j)
        /\ cst' = [cst EXCEPT ![x] = "destroyed"] /\ x \in Numbers
        /\ ObjectsInv' /\ MapsInv' /\ ClientTable' /\ ServerTable' /\ IdsInv'
        /\ EventGrowth' /\ EventsInv' /\ QueueInv' /\ RefsInv'
    BY <1>1, <1>2, <1>3, ProxyGoesKeeps
  <1>5. RequestGrowth' /\ RequestsInv'
    <2>1. \A y \in Created : cst[y] \in {"leaving", "destroyed"} => cst'[y] \in {"leaving", "destroyed"}
      BY <1>4, LifeTypes DEF LifeInv, TypesInv
    <2> QED BY <1>1, <1>4, <2>1, ClientStepRequests
  <1>6. TypesInv'
    BY <1>1, <1>4 DEF LifeInv, TypesInv, Created, ClientStates, Numbers
  <1> QED BY <1>4, <1>5, <1>6 DEF LifeInv

LEMMA DestroySent ==
  ASSUME LifeInv, Premises, NEW x \in Created \ {display, device}, kind[x] \in {"plain", "offer"},
         cst[x] = "live", NEW m, m = Message("destroy", x, 0, NoObject), c2s' = Append(c2s, m),
         UNCHANGED <<smap, last, kind, id>>, cst'[x] \in {"leaving", "destroyed"},
         \A y : Some(c2s, CreateOf(y)) => Held(y)',
         \A y \in Created : cst[y] \in {"leaving", "destroyed"} => cst'[y] \in {"leaving", "destroyed"},
         \A j \in Nat : HasC(j)' <=> HasC(j)
  PROVE  /\ RequestGrowth' /\ RequestsInv' /\ c2s' \in Seq(Messages) /\ Added(c2s, m, c2s')
         /\ \A j \in Nat : (Making(j)' => Making(j)) /\ Once(c2s', CreateId(j))
         /\ \A y \in Created : Some(c2s, CreateOf(y)) => Some(c2s', CreateOf(y))
  <1>1. /\ m \in Messages /\ m.op = "destroy" /\ m.id = id[x] /\ m.obj = x
    <2>1. NoObject \in Nat /\ 0 \in Nat /\ "destroy" \in Ops
      BY DEF NoObject, Ops
    <2> QED BY <2>1, MessageTypes
  <1>2. c2s' \in Seq(Messages) /\ Added(c2s, m, c2s')
    BY <1>1, AddLast DEF LifeInv, TypesInv
  <1>3. \A j : m \notin CreateId(j) /\ m \notin CreateOf(j) /\ (m \in DestroyOf(j) <=> j = x)
    BY <1>1, Classes
  <1>4. /\ ObjectsStay /\ Created' = Created /\ \A j : S(j)' = S(j) /\ (HasS(j)' <=> HasS(j))
    BY TablesSame DEF ObjectsStay, Created
  <1>5. PICK n : n = Len(c2s) + 1
    OBVIOUS
  <1>6. DestroyOK(m, n)'
    <2>1. S(id[x]) = x \/ Some(c2s, CreateOf(x))
      BY LiveReached
    <2>2. ~Some(c2s, DestroyOf(x))
      BY DestroysGone
    <2>3. Before(c2s', n, CreateOf(x)) <=> Some(c2s, CreateOf(x))
      BY <1>2, <1>5 DEF Added
    <2>4. Before(c2s', n, DestroyOf(x)) <=> Some(c2s, DestroyOf(x))
      BY <1>2, <1>5 DEF Added
    <2>5. Ready(x, n)'
      BY <1>4, <2>1, <2>2, <2>3, <2>4 DEF Ready
    <2> QED BY <1>1, <1>4, <2>5 DEF DestroyOK
  <1>7. \A k \in 1 .. Len(c2s) : \A y \in Created : Ready(y, k) => Ready(y, k)'
    BY <1>2, <1>4 DEF Ready, Added
  <1>8. RequestsInv'
    <2>1. \A k \in 1 .. Len(c2s') :
            \/ RequestOK(c2s[k], k)'
            \/ /\ k + 0 \in 1 .. Len(c2s) /\ c2s'[k] = c2s[k + 0]
               /\ \A y \in Created : Ready(y, k + 0) => Ready(y, k)'
      <3>1. \A k \in 1 .. Len(c2s') : k = n \/ (k \in 1 .. Len(c2s) /\ c2s'[k] = c2s[k] /\ k + 0 = k)
        BY <1>2, <1>5 DEF Added
      <3>2. c2s'[n] = m
        BY <1>2, <1>5 DEF Added
      <3>3. RequestOK(c2s[n], n)'
        BY <1>1, <1>6, <3>2 DEF RequestOK
      <3> QED BY <1>7, <3>1, <3>3
    <2>2. \A y \in Created : Some(c2s', CreateOf(y)) /\ Held(y) => Held(y)'
      BY <1>2, <1>3 DEF Added
    <2> QED BY <1>4, <2>1, <2>2, RequestsKept
  <1>9. RequestGrowth'
    <2>1. \A k \in 1 .. Len(c2s') : c2s'[k].op = "create" =>
             \A q \in Nat : q < c2s'[k].arg /\ ~HasS(q) => Before(c2s', k, CreateId(q))
      BY <1>1, <1>2 DEF LifeInv, RequestGrowth, Added
    <2>2. \A q \in Nat : ClientId(q) /\ HasC(q) /\ ~HasS(q) => Making(q)'
      BY <1>2 DEF LifeInv, RequestGrowth, Added, Making
    <2> QED BY <1>4, <2>1, <2>2 DEF RequestGrowth, ClientId
  <1>10. \A j \in Nat : (Making(j)' => Making(j)) /\ Once(c2s', CreateId(j))
    BY <1>2, <1>3 DEF Making, LifeInv, IdsInv, SentOnce, Added
  <1>11. \A y \in Created : Some(c2s, CreateOf(y)) => Some(c2s', CreateOf(y))
    BY <1>2 DEF Added
  <1> QED BY <1>2, <1>8, <1>9, <1>10, <1>11

LEMMA SendDestroyKeeps ==
  ASSUME LifeInv, Premises, NEW x \in Created \ {display}, SendDestroy(x)
  PROVE  LifeInv'
  <1>1. PICK m : m = Message("destroy", x, 0, NoObject)
    OBVIOUS
  <1>2. /\ x \in Created \ {display, device} /\ kind[x] \in {"plain", "offer"} /\ cst[x] = "live"
        /\ x \in Numbers /\ c2s' = Append(c2s, m)
        /\ UNCHANGED <<smap, s2c, queue, display_queue, deleting, iddel, last, kind, id, failed, serror>>
        /\ IF kind[x] \in SplitKinds
           THEN cst' = [cst EXCEPT ![x] = "leaving"] /\ UNCHANGED <<cmap, refcount>>
           ELSE ProxyDestroy(x, cst)
    BY <1>1, LifeTypes DEF SendDestroy, SendRequest, objectVars
  <1>3. \A y : Some(c2s, CreateOf(y)) => y \in Created /\ Held(y)
    BY CreatesHeld
  <1>4. CASE kind[x] \in SplitKinds
    <2>1. kind[x] = "plain"
      BY <1>2, <1>4 DEF Premises
    <2>2. /\ cst \in [Numbers -> ClientStates] /\ cst' = [cst EXCEPT ![x] = "leaving"]
          /\ UNCHANGED <<cmap, refcount>> /\ cst'[x] = "leaving"
      BY <1>2, <1>4 DEF LifeInv, TypesInv
    <2>3. Calm
      BY <1>2, <2>1, <2>2 DEF Calm, ClientStates
    <2>4. /\ RequestGrowth' /\ RequestsInv' /\ c2s' \in Seq(Messages) /\ Added(c2s, m, c2s')
          /\ \A j \in Nat : (Making(j)' => Making(j)) /\ Once(c2s', CreateId(j))
          /\ \A y \in Created : Some(c2s, CreateOf(y)) => Some(c2s', CreateOf(y))
      <3>1. \A y : Some(c2s, CreateOf(y)) => Held(y)'
        BY <1>3, <2>3, CalmSame
      <3>2. \A y \in Created : cst[y] \in {"leaving", "destroyed"} => cst'[y] \in {"leaving", "destroyed"}
        BY <2>2, LifeTypes
      <3> QED BY <1>1, <1>2, <2>2, <2>3, <3>1, <3>2, CalmSame, DestroySent
    <2>5. ObjectsInv' /\ MapsInv' /\ ClientTable' /\ ServerTable'
      BY <1>2, <2>3, <2>4, CalmKeeps
    <2>6. EventGrowth' /\ EventsInv'
      BY <1>2, <2>3, SameEvents
    <2>7. IdsInv'
      <3>1. \A j \in Nat : (Pending(j)' => Pending(j)) /\ SentOnce(j)'
        BY <1>2, <2>4 DEF Pending, LifeInv, IdsInv, SentOnce
      <3> QED BY <2>3, <2>4, <3>1, IdsKept, CalmSame
    <2>8. QueueInv' /\ RefsInv'
      <3>1. \A y \in Numbers : Gone(y)' <=> Gone(y)
        BY <2>3, CalmSame DEF Gone
      <3>2. \A y \in Created : /\ cst[y] # "none" => cst'[y] # "none"
                               /\ cst[y] = "unseen" => cst'[y] = "unseen"
        BY <1>2, <2>2, LifeTypes
      <3> QED BY <1>2, <2>2, <2>3, <3>1, <3>2, CalmSame, QueueKept, RefsKept
    <2>9. TypesInv'
      BY <1>2, <2>3, <2>4 DEF LifeInv, TypesInv, Created, Calm
    <2> QED BY <2>4, <2>5, <2>6, <2>7, <2>8, <2>9 DEF LifeInv
  <1>5. CASE kind[x] \notin SplitKinds
    <2>1. ProxyGoes(x)
      BY <1>2, <1>5 DEF ProxyGoes
    <2>2. PICK i : i = id[x]
      OBVIOUS
    <2>3. c2s' \in Seq(Messages) /\ Added(c2s, m, c2s') /\ \A j : m \notin CreateId(j)
      <3>1. m \in Messages /\ m.op = "destroy"
        <4>1. NoObject \in Nat /\ 0 \in Nat /\ "destroy" \in Ops /\ x \in Created
          BY DEF NoObject, Ops
        <4>2. /\ Message("destroy", x, 0, NoObject) \in Messages
              /\ Message("destroy", x, 0, NoObject).op = "destroy"
          BY <4>1, MessageTypes
        <4> QED BY <1>1, <4>2
      <3> QED BY <1>2, <3>1, AddLast, Classes DEF LifeInv, TypesInv
    <2>4. /\ \A j \in Nat : (Making(j)' => Making(j)) /\ Once(c2s', CreateId(j))
          /\ \A y \in Created : Some(c2s, CreateOf(y)) => Some(c2s', CreateOf(y))
      BY <2>3 DEF Making, LifeInv, IdsInv, SentOnce, Added
    <2>5. /\ KeepsHeld(i) /\ i \in Nat /\ \A j \in Nat : HasC(j)' <=> HasC(j)
          /\ cst' = [cst EXCEPT ![x] = "destroyed"] /\ x \in Numbers
          /\ ObjectsInv' /\ MapsInv' /\ ClientTable' /\ ServerTable' /\ IdsInv'
          /\ EventGrowth' /\ EventsInv' /\ QueueInv' /\ RefsInv'
      BY <2>1, <2>2, <2>4, ProxyGoesKeeps
    <2>6. cst \in [Numbers -> ClientStates]
      BY DEF LifeInv, TypesInv
    <2>7. RequestGrowth' /\ RequestsInv'
      <3>1. \A y : Some(c2s, CreateOf(y)) => Held(y)'
        BY <2>5, CreatesUsed
      <3>2. \A y \in Created : cst[y] \in {"leaving", "destroyed"} => cst'[y] \in {"leaving", "destroyed"}
        BY <2>5, <2>6, LifeTypes
      <3>3. cst'[x] = "destroyed"
        BY <2>5, <2>6
      <3> QED BY <1>1, <1>2, <2>5, <3>1, <3>2, <3>3, DestroySent
    <2>8. TypesInv'
      BY <1>2, <2>3, <2>5, <2>6 DEF LifeInv, TypesInv, Created, ClientStates
    <2> QED BY <2>5, <2>7, <2>8 DEF LifeInv
  <1> QED BY <1>4, <1>5

-----------------------------------------------------------------------------
\* A new object
LEMMA NewObjectIs ==
  ASSUME LifeInv, Premises, NEW k \in Kinds, NEW i \in Nat, NewObject(k, i), NEW x, x = last + 1
  PROVE  /\ x \in Nat /\ x > 3 /\ x \in Numbers /\ x \notin Created /\ Created' = Created \cup {x}
         /\ last' = x /\ last' \in Numbers /\ last < MaxObjects /\ cst[x] = "none"
         /\ kind' \in [Created' -> Kinds \cup {"display"}] /\ id' \in [Created' -> Nat]
         /\ kind'[x] = k /\ id'[x] = i /\ ObjectsStay
         /\ \A y \in Created : y # x /\ (Offer(y)' <=> Offer(y)) /\ id'[y] = id[y] /\ kind'[y] = kind[y]
         /\ \A y \in Created' : y \in Created \/ y = x
  <1>1. /\ last < MaxObjects /\ last' = x
        /\ kind' = [y \in display .. x |-> IF y = x THEN k ELSE kind[y]]
        /\ id' = [y \in display .. x |-> IF y = x THEN i ELSE id[y]]
    BY DEF NewObject
  <1>2. last \in Nat /\ MaxObjects \in Nat /\ last >= 3 /\ display = 2
    BY LifeTypes
  <1>3. /\ x \in Nat /\ x > 3 /\ x \in Numbers /\ x \notin Created
        /\ display .. x = Created \cup {x} /\ Created' = Created \cup {x}
    BY <1>1, <1>2 DEF Numbers, Created
  <1>4. \A y \in Created : kind[y] \in Kinds \cup {"display"} /\ id[y] \in Nat
    BY LifeTypes
  <1>5. kind' \in [Created' -> Kinds \cup {"display"}] /\ id' \in [Created' -> Nat]
    BY <1>1, <1>3, <1>4
  <1>6. /\ kind'[x] = k /\ id'[x] = i
        /\ \A y \in Created : y # x /\ kind'[y] = kind[y] /\ id'[y] = id[y]
    BY <1>1, <1>3
  <1>7. ObjectsStay /\ \A y \in Created : Offer(y)' <=> Offer(y)
    BY <1>3, <1>6 DEF ObjectsStay, Offer
  <1>8. cst[x] = "none"
    BY <1>3 DEF LifeInv, ObjectsInv
  <1> QED BY <1>1, <1>3, <1>5, <1>6, <1>7, <1>8

\* Nobody's closures mention an object that is not created yet, or not known.
LEMMA NoReferences ==
  ASSUME LifeInv, NEW x, x # 0, x \notin Created \/ cst[x] = "none"
  PROVE  References(queue, x) = 0
  <1>1. \A j \in 1 .. Len(queue) : queue[j].proxy # x /\ queue[j].arg # x
    <2> SUFFICES ASSUME NEW j \in 1 .. Len(queue) PROVE queue[j].proxy # x /\ queue[j].arg # x
      OBVIOUS
    <2>1. ClosureOK(queue[j])
      BY DEF LifeInv, QueueInv
    <2> QED BY <2>1 DEF ClosureOK
  <1>2. PICK A, B : /\ A = {j \in 1 .. Len(queue) : queue[j].proxy = x}
                    /\ B = {j \in 1 .. Len(queue) : queue[j].arg = x}
    OBVIOUS
  <1>3. A = {} /\ B = {}
    BY <1>1, <1>2
  <1>4. Cardinality(A) = 0 /\ Cardinality(B) = 0
    BY <1>3, FS_EmptySet
  <1>5. References(queue, x) = Cardinality(A) + Cardinality(B)
    BY <1>2 DEF References
  <1> QED BY <1>4, <1>5

LEMMA CreateObjectKeeps ==
  ASSUME LifeInv, Premises, NEW k \in {"plain", "callback"}, CreateObject(k)
  PROVE  LifeInv'
  <1>1. PICK i, x, m : /\ i = NewId(cmap) /\ x = last + 1
                       /\ m = [op |-> "create", id |-> id[display], obj |-> display,
                               arg |-> i, argobj |-> x]
    OBVIOUS
  <1>2. /\ NewObject(k, i) /\ last' = x /\ cmap' = wl_map_insert_new(cmap, x) /\ c2s' = Append(c2s, m)
        /\ cst' = [cst EXCEPT ![x] = "live"] /\ refcount' = [refcount EXCEPT ![x] = 1]
        /\ UNCHANGED <<smap, s2c, queue, display_queue, deleting, iddel, failed, serror>>
    BY <1>1 DEF CreateObject, NewObject, SendRequest
  <1>3. x \in Nat /\ x > 0 /\ Len(cmap.client) < WL_SERVER_ID_START
    <2>1. last \in Nat /\ last < MaxObjects /\ Len(cmap.client) <= last
      BY <1>2, LifeTypes DEF NewObject, LifeInv, MapsInv
    <2>2. Len(cmap.client) \in Nat
      BY MapTypes DEF LifeInv, MapsInv, Sides
    <2>3. MaxObjects \in Nat /\ WL_SERVER_ID_START \in Nat /\ MaxObjects <= WL_SERVER_ID_START
      BY LifeTypes
    <2> QED BY <1>1, <2>1, <2>2, <2>3
  <1>4. /\ i \in Nat /\ Space(i) = "client" /\ C(i) <= 0 /\ (HasC(i) => Place(i) # 1)
        /\ \A q \in Nat : Space(q) = "client" /\ q < i => HasC(q)
        /\ cmap' \in MapOf("client") /\ FreePlaces(cmap', {1})
        /\ \A j \in Nat : C(j)' = IF j = i THEN x ELSE C(j)
        /\ \A j \in Nat : HasC(j)' <=> HasC(j) \/ j = i
        /\ Len(cmap'["client"]) = IF HasC(i) THEN Len(cmap["client"]) ELSE Len(cmap["client"]) + 1
    <2>1. cmap \in MapOf("client") /\ FreePlaces(cmap, {1}) /\ "client" \in Sides /\ x \in Int
      BY <1>3 DEF LifeInv, MapsInv, Sides
    <2> QED BY <1>1, <1>2, <1>3, <2>1, InsertNewIs DEF C, HasC
  <1>5. Len(cmap'.client) <= Len(cmap.client) + 1
    <2>1. cmap \in MapOf("client") /\ cmap' \in MapOf("client") /\ "client" \in Sides
      BY <1>4 DEF LifeInv, MapsInv, Sides
    <2>2. Len(cmap["client"]) \in Nat /\ cmap["client"] = cmap.client /\ cmap'["client"] = cmap'.client
      BY <2>1, MapTypes
    <2> QED BY <1>4, <2>2
  <1>6. ClientId(i) /\ i # 0 /\ \A q \in Nat : q < i => HasC(q) /\ ClientId(q)
    <2>1. ClientId(i) /\ \A q \in Nat : q < i => ClientId(q) /\ Space(q) = "client"
      BY <1>4, PlaceIs, IdAssumption DEF ClientId
    <2>2. i # 0
      <3>1. Place(0) = 1
        BY PlaceIs, IdAssumption
      <3> QED BY <1>4, <3>1 DEF LifeInv, MapsInv
    <2> QED BY <1>4, <2>1, <2>2
  <1>7. /\ x \in Nat /\ x > 3 /\ x \in Numbers /\ x \notin Created /\ Created' = Created \cup {x}
        /\ last' = x /\ last' \in Numbers /\ last < MaxObjects /\ cst[x] = "none"
        /\ kind' \in [Created' -> Kinds \cup {"display"}] /\ id' \in [Created' -> Nat]
        /\ kind'[x] = k /\ id'[x] = i /\ ObjectsStay
        /\ \A y \in Created : y # x /\ (Offer(y)' <=> Offer(y)) /\ id'[y] = id[y] /\ kind'[y] = kind[y]
        /\ \A y \in Created' : y \in Created \/ y = x
    BY <1>1, <1>2, <1>4, NewObjectIs DEF Kinds
  <1>8. \A j : S(j)' = S(j) /\ (HasS(j)' <=> HasS(j))
    BY <1>2, TablesSame
  <1>9. ~Pending(i) /\ ~Making(i) /\ S(i) = 0
    <2>1. Back(i)
      BY <1>4 DEF Back
    <2>2. ~(S(i) > 0) /\ S(i) >= 0 /\ S(i) \in Int
      BY <1>4, <1>6, <2>1, LifeTypes DEF LifeInv, ServerTable, MapsInv
    <2> QED BY <1>4, <2>1, <2>2 DEF LifeInv, IdsInv
  <1>10. /\ x \notin iddel /\ ~Back(i)'
         /\ \A j \in Nat : j # i => (Back(j)' <=> Back(j))
    BY <1>2, <1>4, <1>7 DEF Back, LifeInv, TypesInv
  <1>11. /\ cst'[x] = "live" /\ \A y \in Numbers : y # x => cst'[y] = cst[y]
         /\ ~Gone(x)' /\ (\A y \in Numbers : y # x => (Gone(y)' <=> Gone(y))) /\ ~Offer(x)'
         /\ cst' \in [Numbers -> ClientStates]
    BY <1>2, <1>7 DEF LifeInv, TypesInv, Gone, Offer, ClientStates
  <1>12. ASSUME NEW y \in Created, NEW j \in Nat, j = id[y]
         PROVE  /\ Held(y) => j # i /\ Held(y)'
                /\ ~Gone(y) => j # i
    <2>1. y # x /\ y \in Numbers /\ y > 1 /\ id'[y] = j /\ (Offer(y)' <=> Offer(y)) /\ (Gone(y)' <=> Gone(y))
      BY <1>7, <1>11, <1>12, LifeTypes
    <2>2. Offer(y) => j # i
      BY <1>6, <1>12 DEF LifeInv, ObjectsInv
    <2>3. y \in Nat /\ ~(y <= 0) /\ ~(1 <= 0)
      BY LifeTypes
    <2>4. ~Gone(y) => j # i
      BY <1>4, <1>12, <2>3 DEF LifeInv, ClientTable
    <2>7. Held(y) => j # i
      BY <1>4, <1>12, <2>2, <2>3 DEF Held, Zombie
    <2>5. j # i => C(j)' = C(j)
      BY <1>4
    <2>6. Held(y) => Held(y)'
      BY <1>12, <2>1, <2>5, <2>7 DEF Held
    <2> QED BY <2>4, <2>6, <2>7
  <1>13. Held(x)'
    <2>1. C(i)' = x
      BY <1>4
    <2> QED BY <1>7, <1>11, <2>1 DEF Held
  <1>14. /\ m \in Messages /\ m.op = "create" /\ m.id = 1 /\ m.obj = display /\ m.arg = i /\ m.argobj = x
    <2>1. id[display] = 1 /\ display \in Nat
      BY LifeTypes DEF LifeInv, ObjectsInv
    <2> QED BY <1>1, <1>4, <1>7, <2>1 DEF Messages, Ops
  <1>15. c2s' \in Seq(Messages) /\ Added(c2s, m, c2s')
    BY <1>2, <1>14, AddLast DEF LifeInv, TypesInv
  <1>16. \A j : /\ m \in CreateId(j) <=> j = i
                /\ m \in CreateOf(j) <=> j = x
                /\ m \notin DestroyOf(j)
    BY <1>14, Classes
  <1>17. TypesInv'
    BY <1>2, <1>7, <1>11, <1>15 DEF LifeInv, TypesInv
  <1>18. ObjectsInv'
    <2>1. /\ \A y \in Created' : kind'[y] = "display" <=> y = display
          /\ device \in Created' /\ kind'[device] = "plain" /\ id'[display] = 1 /\ id'[device] = 2
      <3>1. kind'[x] # "display" /\ x # display /\ display \in Created /\ device \in Created
        BY <1>7, LifeTypes
      <3> QED BY <1>7, <3>1 DEF LifeInv, ObjectsInv
    <2>2. ASSUME NEW y \in Created'
          PROVE  IF Offer(y)' THEN ~ClientId(id'[y]) /\ HasS(id[y])' ELSE ClientId(id'[y]) /\ HasC(id[y])'
      <3>1. PICK j \in Nat : j = id'[y]
        BY <1>7
      <3>2. IF Offer(y)' THEN ~ClientId(j) /\ HasS(j) ELSE ClientId(j) /\ (HasC(j) \/ j = i)
        <4>1. CASE y \in Created
          <5>1. j = id[y] /\ (Offer(y)' <=> Offer(y))
            BY <1>7, <3>1, <4>1
          <5> QED BY <4>1, <5>1 DEF LifeInv, ObjectsInv
        <4>2. CASE y = x
          BY <1>6, <1>7, <1>11, <3>1, <4>2
        <4> QED BY <1>7, <4>1, <4>2
      <3>3. IF Offer(y)' THEN ~ClientId(j) /\ HasS(j)' ELSE ClientId(j) /\ HasC(j)'
        BY <1>4, <1>8, <3>2
      <3> QED BY <3>1, <3>3
    <2>3. \A y \in Numbers : y \notin Created' => cst'[y] = "none"
      BY <1>7, <1>11 DEF LifeInv, ObjectsInv
    <2>4. cst'[display] = "live" /\ cst'[device] = "live"
      BY <1>7, <1>11, LifeTypes DEF LifeInv, ObjectsInv
    <2>5. \A y \in Created' : /\ cst'[y] = "over" => kind'[y] = "callback"
                              /\ cst'[y] = "leaving" => kind'[y] = "plain"
                              /\ cst'[y] \in {"none", "unseen"} => Offer(y)'
      <3>1. \A y \in Created : y \in Numbers /\ y # x
        BY <1>7, LifeTypes
      <3>2. ASSUME NEW y \in Created
            PROVE  /\ cst'[y] = "over" => kind'[y] = "callback"
                   /\ cst'[y] = "leaving" => kind'[y] = "plain"
                   /\ cst'[y] \in {"none", "unseen"} => Offer(y)'
        <4>1. cst'[y] = cst[y] /\ kind'[y] = kind[y] /\ (Offer(y)' <=> Offer(y))
          BY <1>7, <1>11, <3>1
        <4> QED BY <4>1 DEF LifeInv, ObjectsInv
      <3> QED BY <1>7, <1>11, <3>2
    <2>6. \A y \in iddel' : ~Offer(y)'
      BY <1>2, <1>7 DEF LifeInv, ObjectsInv, TypesInv
    <2> QED BY <2>1, <2>2, <2>3, <2>4, <2>5, <2>6 DEF ObjectsInv, ClientId, Numbers
  <1>19. MapsInv'
    <2>1. smap' = smap /\ Len(cmap'.client) <= last' /\ (HasC(0)' /\ C(0)' = 0)
      <3>1. last \in Nat /\ Len(cmap.client) <= last /\ Len(cmap.client) \in Nat /\ Len(cmap'.client) \in Nat
        BY <1>4, LifeTypes, MapTypes DEF LifeInv, MapsInv, Sides
      <3>2. HasC(0)' /\ C(0)' = 0
        BY <1>4, <1>6 DEF LifeInv, MapsInv
      <3> QED BY <1>1, <1>2, <1>5, <3>1, <3>2
    <2>2. \A j \in Nat : ~ClientId(j) => C(j)' >= 0
      BY <1>4, <1>6 DEF LifeInv, MapsInv
    <2> QED BY <1>4, <1>8, <2>1, <2>2 DEF LifeInv, MapsInv, ClientId
  <1>20. ClientTable'
    <2>1. ASSUME NEW y \in Created', ~Gone(y)' PROVE C(id[y])' = y
      <3>1. PICK j \in Nat : j = id'[y]
        BY <1>7
      <3>2. C(j)' = y
        <4>1. CASE y = x
          BY <1>4, <1>7, <3>1, <4>1
        <4>2. CASE y \in Created
          <5>1. j = id[y] /\ ~Gone(y)
            BY <1>7, <1>11, <2>1, <3>1, <4>2, LifeTypes
          <5>2. C(j) = y /\ j # i
            BY <1>12, <4>2, <5>1 DEF LifeInv, ClientTable
          <5> QED BY <1>4, <5>2
        <4> QED BY <1>7, <4>1, <4>2
      <3> QED BY <3>1, <3>2
    <2>2. ASSUME NEW j \in Nat, C(j)' > 0
          PROVE  \/ ClientId(j) /\ C(j)' = Zombie
                 \/ C(j)' \in Created' /\ id'[C(j)'] = j /\ ~Gone(C(j))'
      <3>1. CASE j = i
        <4>1. C(j)' = x
          BY <1>4, <3>1
        <4> QED BY <1>7, <1>11, <3>1, <4>1
      <3>2. CASE j # i
        <4>1. C(j)' = C(j) /\ C(j) > 0
          BY <1>4, <2>2, <3>2
        <4>2. PICK z : z = C(j)
          OBVIOUS
        <4>3. (ClientId(j) /\ z = Zombie) \/ (z \in Created /\ id[z] = j /\ ~Gone(z))
          BY <4>1, <4>2 DEF LifeInv, ClientTable
        <4>4. z \in Created /\ id[z] = j /\ ~Gone(z) => z \in Created' /\ id'[z] = j /\ ~Gone(z)'
          BY <1>7, <1>11, LifeTypes
        <4> QED BY <4>1, <4>2, <4>3, <4>4
      <3> QED BY <3>1, <3>2
    <2> QED BY <2>1, <2>2 DEF ClientTable, ClientId
  <1>21. ServerTable'
    <2>1. ASSUME NEW j \in Nat, S(j) > 0
          PROVE  S(j) \in Created' /\ id'[S(j)] = j /\ Held(S(j))' /\ (ClientId(j) => ~Back(j)')
      <3>1. PICK y : y = S(j)
        OBVIOUS
      <3>2. y \in Created /\ id[y] = j /\ Held(y) /\ (ClientId(j) => ~Back(j)) /\ j # i
        BY <1>9, <2>1, <3>1 DEF LifeInv, ServerTable
      <3>3. Held(y)' /\ (ClientId(j) => ~Back(j)') /\ y \in Created' /\ id'[y] = j
        BY <1>7, <1>10, <1>12, <3>2
      <3>4. S(j)' = y
        BY <1>8, <3>1
      <3> QED BY <3>1, <3>2, <3>3, <3>4
    <2>2. \A j \in Nat : S(j)' > 0 =>
             /\ S(j)' \in Created' /\ id'[S(j)'] = j /\ Held(S(j))'
             /\ ClientId(j) => ~Back(j)'
      BY <1>8, <2>1
    <2>3. S(1)' = display /\ S(2)' = device
      BY <1>8 DEF LifeInv, ServerTable
    <2>4. \A y \in Created' : Offer(y)' /\ cst'[y] # "destroyed" => S(id[y])' = y
      <3>1. ASSUME NEW y \in Created, Offer(y)', cst'[y] # "destroyed" PROVE S(id[y])' = y
        <4>1. y \in Numbers /\ y # x /\ Offer(y) /\ cst'[y] = cst[y] /\ id'[y] = id[y]
          BY <1>7, <1>11, <3>1, LifeTypes
        <4>2. S(id[y]) = y
          BY <3>1, <4>1 DEF LifeInv, ServerTable
        <4>3. PICK j : j = id[y] /\ j = id'[y]
          BY <4>1
        <4>4. S(j)' = y
          BY <1>8, <4>2, <4>3
        <4> QED BY <4>3, <4>4
      <3> QED BY <1>7, <1>11, <3>1
    <2>5. \A y \in Created' : kind'[y] = "plain" /\ cst'[y] = "live" =>
             S(id[y])' = y \/ Some(c2s', CreateOf(y))
      <3>1. Some(c2s', CreateOf(x))
        BY <1>15, <1>16 DEF Added
      <3>2. ASSUME NEW y \in Created, kind[y] = "plain", cst[y] = "live", S(id[y]) # y
            PROVE  Some(c2s', CreateOf(y))
        <4>1. Some(c2s, CreateOf(y))
          BY <3>2 DEF LifeInv, ServerTable
        <4> QED BY <1>15, <4>1 DEF Added
      <3>3. \A y \in Created : y \in Numbers /\ y # x
        BY <1>7, LifeTypes
      <3> QED BY <1>7, <1>8, <1>11, <3>1, <3>2, <3>3
    <2>6. \A y \in Created' : cst'[y] = "none" => Some(s2c', OfferId(id'[y]))
      BY <1>2, <1>7, <1>11, LifeTypes DEF LifeInv, ServerTable
    <2> QED BY <2>2, <2>3, <2>4, <2>5, <2>6 DEF ServerTable, ClientId
  <1>22. IdsInv'
    <2>1. ASSUME NEW j \in Nat
          PROVE  /\ Pending(j)' <=> Pending(j)
                 /\ Making(j)' <=> Making(j) \/ j = i
                 /\ SentOnce(j)'
      <3>1. SentOnce(j)
        BY DEF LifeInv, IdsInv
      <3> QED BY <1>2, <1>9, <1>15, <1>16, <3>1 DEF Pending, Making, SentOnce, Added
    <2> QED BY <1>6, <1>8, <1>9, <1>10, <2>1 DEF LifeInv, IdsInv, ClientId
  <1>23. RequestGrowth'
    <2>1. ASSUME NEW n \in 1 .. Len(c2s'), c2s'[n].op = "create", NEW q \in Nat, q < c2s'[n].arg, ~HasS(q)
          PROVE  Before(c2s', n, CreateId(q))
      <3>1. CASE n = Len(c2s) + 1
        <4>1. q < i
          BY <1>14, <1>15, <2>1, <3>1 DEF Added
        <4>2. Making(q)
          BY <1>6, <2>1, <4>1 DEF LifeInv, RequestGrowth
        <4> QED BY <1>15, <3>1, <4>2 DEF Added, Making
      <3>2. CASE n \in 1 .. Len(c2s) /\ c2s'[n] = c2s[n]
        <4>1. Before(c2s, n, CreateId(q))
          BY <2>1, <3>2 DEF LifeInv, RequestGrowth
        <4> QED BY <1>15, <3>2, <4>1 DEF Added
      <3> QED BY <1>15, <3>1, <3>2 DEF Added
    <2>2. \A q \in Nat : ClientId(q) /\ HasC(q)' /\ ~HasS(q) => Making(q)'
      BY <1>4, <1>15, <1>16 DEF LifeInv, RequestGrowth, Added, Making
    <2> QED BY <1>8, <2>1, <2>2 DEF RequestGrowth, ClientId
  <1>24. RequestsInv'
    <2>1. CreateOK(m)'
      BY <1>7, <1>13, <1>14 DEF CreateOK
    <2>2. ASSUME NEW n \in 1 .. Len(c2s), NEW y \in Created, Ready(y, n) PROVE Ready(y, n)'
      BY <1>7, <1>8, <1>15, <2>2 DEF Ready, Added
    <2>3. \A n \in 1 .. Len(c2s') :
            \/ RequestOK(c2s[n], n)'
            \/ /\ n + 0 \in 1 .. Len(c2s) /\ c2s'[n] = c2s[n + 0]
               /\ \A y \in Created : Ready(y, n + 0) => Ready(y, n)'
      <3>1. PICK n : n = Len(c2s) + 1
        OBVIOUS
      <3>2. \A l \in 1 .. Len(c2s') : l = n \/ (l \in 1 .. Len(c2s) /\ c2s'[l] = c2s[l] /\ l + 0 = l)
        BY <1>15, <3>1 DEF Added
      <3>3. c2s'[n] = m
        BY <1>15, <3>1 DEF Added
      <3>4. RequestOK(c2s[n], n)'
        BY <1>14, <2>1, <3>3 DEF RequestOK
      <3> QED BY <2>2, <3>2, <3>4
    <2>4. \A y \in Created : Some(c2s', CreateOf(y)) /\ Held(y) => Held(y)'
      BY <1>12, LifeTypes
    <2>5. \A y \in Created : cst[y] \in {"leaving", "destroyed"} => cst'[y] \in {"leaving", "destroyed"}
      BY <1>7, <1>11, LifeTypes
    <2> QED BY <1>7, <2>3, <2>4, <2>5, RequestsKept
  <1>25. EventGrowth'
    <2>1. \A n \in 1 .. Len(s2c) : s2c[n].op = "offer" =>
             \A q \in Nat : ~ClientId(q) /\ q < s2c[n].arg /\ ~HasC(q)' => Before(s2c, n, OfferId(q))
      BY <1>4 DEF LifeInv, EventGrowth
    <2>2. \A q \in Nat : ~ClientId(q) /\ HasS(q) /\ ~HasC(q)' => Some(s2c, OfferId(q))
      BY <1>4 DEF LifeInv, EventGrowth
    <2> QED BY <1>2, <1>8, <2>1, <2>2 DEF EventGrowth, ClientId
  <1>26. EventsInv'
    <2>1. ASSUME NEW n \in 1 .. Len(s2c), NEW y \in Created, Mention(y, n) PROVE Mention(y, n)'
      <3>1. PICK j \in Nat : j = id[y] /\ j = id'[y]
        BY <1>7, LifeTypes
      <3>2. Held(y)' /\ y \in Created' \ {display} /\ cst'[y] = cst[y] /\ (Offer(y)' <=> Offer(y))
        BY <1>7, <1>11, <1>12, <2>1, <3>1, LifeTypes DEF Mention
      <3> QED BY <1>2, <1>8, <2>1, <3>1, <3>2 DEF Mention
    <2>2. \A n \in 1 .. Len(s2c') : /\ n + 0 \in 1 .. Len(s2c) /\ s2c'[n] = s2c[n + 0]
                                   /\ \A y \in Created : Mention(y, n + 0) => Mention(y, n)'
      BY <1>2, <2>1
    <2>3. \A y \in Created : cst[y] = "none" => cst'[y] = "none"
      BY <1>7, <1>11, LifeTypes
    <2> QED BY <1>7, <2>2, <2>3, EventsKept
  <1>27. QueueInv'
    BY <1>2, <1>7, <1>11, LifeTypes, QueueKept
  <1>28. RefsInv'
    <2>1. refcount = [y \in Numbers |-> (IF Gone(y) THEN 0 ELSE 1) + References(queue, y)]
      BY DEF LifeInv, RefsInv
    <2>2. References(queue, x) = 0
      BY <1>7, NoReferences
    <2>3. ASSUME NEW y \in Numbers
          PROVE  refcount'[y] = (IF Gone(y)' THEN 0 ELSE 1) + References(queue, y)
      <3>1. refcount'[y] = IF y = x THEN 1 ELSE refcount[y]
        BY <1>2, <2>1
      <3> HIDE DEF Gone, References
      <3> QED BY <1>11, <2>1, <2>2, <3>1
    <2>4. refcount' = [y \in Numbers |-> refcount'[y]]
      BY <1>2, <2>1
    <2> QED BY <1>2, <2>3, <2>4 DEF RefsInv, Numbers
  <1> QED BY <1>17, <1>18, <1>19, <1>20, <1>21, <1>22, <1>23, <1>24, <1>25, <1>26, <1>27, <1>28 DEF LifeInv

-----------------------------------------------------------------------------
\* An object the server has announced becomes known to the client.
LEMMA QueueOfferKeeps ==
  ASSUME LifeInv, Premises, QueueOffer
  PROVE  LifeInv'
  <1>1. PICK h, i, y, p, e : /\ h = Head(s2c) /\ i = h.arg /\ y = h.argobj /\ p = wl_map_lookup(cmap, h.id)
                             /\ e = [op |-> "offer", proxy |-> p, arg |-> y]
    OBVIOUS
  <1>2. /\ s2c # <<>> /\ s2c' = Tail(s2c) /\ h.op = "offer"
        /\ UNCHANGED <<smap, c2s, display_queue, deleting, iddel, last, kind, id, serror>>
        /\ IF ~CanReserve(cmap, i) THEN QueueFails
           ELSE /\ cmap' = wl_map_insert_at(cmap, i, y)
                /\ cst' = [cst EXCEPT ![y] = "unseen"]
                /\ queue' = Append(queue, e)
                /\ refcount' = AddRefs([refcount EXCEPT ![y] = 1], p, y, 1)
                /\ UNCHANGED failed
    BY <1>1 DEF QueueOffer, objectVars
  <1>3. h \in Messages /\ ArrivalOK(h, 1) /\ s2c' \in Seq(Messages) /\ Taken(s2c, h, s2c')
    BY <1>1, <1>2, ReadHead
  <1>4. /\ h.id = 2 /\ y \in Created /\ Offer(y) /\ i = id[y] /\ cst[y] = "none" /\ i \in Nat
    <2>1. OfferOK(h)
      BY <1>2, <1>3 DEF ArrivalOK
    <2> QED BY <1>1, <2>1, LifeTypes DEF OfferOK
  <1>5. /\ y \in Nat /\ y > 1 /\ y \in Numbers /\ y \notin {display, device} /\ ~ClientId(i) /\ HasS(i)
    BY <1>4, LifeTypes DEF LifeInv, ObjectsInv
  <1>6. S(i) = y /\ C(i) = 0 /\ i # 0
    <2>1. S(i) = y
      BY <1>4 DEF LifeInv, ServerTable
    <2>2. Held(y) /\ Gone(y)
      BY <1>4, <1>5, <2>1 DEF LifeInv, ServerTable, Gone
    <2> QED BY <1>4, <1>5, <2>1, <2>2 DEF Held, LifeInv, MapsInv
  <1>7. p = device
    <2>1. C(2) = 3
      BY LifeTypes DEF LifeInv, ObjectsInv, ClientTable, Gone
    <2> QED BY <1>1, <1>4, <2>1, LookupIs, LifeTypes
  <1>8. cmap \in MapOf("client") /\ FreePlaces(cmap, {1}) /\ "client" \in Sides /\ Space(i) = "server"
    BY <1>4, <1>5, PlaceIs DEF LifeInv, MapsInv, Sides, ClientId
  <1>9. CanInsertAt(cmap, i)
    <2>1. ASSUME NEW q \in Nat, Space(q) = Space(i), q < i PROVE HasC(q)
      <3>1. ~ClientId(q)
        BY <1>8, <2>1, PlaceIs DEF ClientId
      <3>2. 1 \in 1 .. Len(s2c) /\ s2c[1] = h /\ ~Before(s2c, 1, OfferId(q))
        BY <1>3 DEF Taken
      <3> QED BY <1>1, <1>2, <2>1, <3>1, <3>2 DEF LifeInv, EventGrowth
    <2> QED BY <1>4, <1>8, <2>1, CanInsert DEF HasC
  <1>10. CanReserve(cmap, i)
    <2>1. cmap.side = "client" /\ Len(cmap[Space(i)]) \in Nat
      BY <1>8, MapTypes DEF Sides
    <2>2. Place(i) <= Len(cmap[Space(i)]) => cmap[Space(i)][Place(i)] = 0
      <3>1. Place(i) \in Nat /\ Place(i) > 0
        BY <1>4, PlaceIs
      <3>2. Place(i) <= Len(cmap[Space(i)]) => HasId(cmap, i)
        BY <2>1, <3>1 DEF HasId
      <3> QED BY <1>6, <3>2 DEF C, IdEntry
    <2> QED BY <1>8, <1>9, <2>1, <2>2 DEF CanReserve
  <1>11. /\ cmap' = wl_map_insert_at(cmap, i, y) /\ cst' = [cst EXCEPT ![y] = "unseen"]
         /\ queue' = Append(queue, e) /\ refcount' = AddRefs([refcount EXCEPT ![y] = 1], p, y, 1)
         /\ UNCHANGED failed
    BY <1>2, <1>10
  <1>12. /\ cmap' \in MapOf("client") /\ FreePlaces(cmap', {1}) /\ Len(cmap'.client) = Len(cmap.client)
         /\ \A j \in Nat : C(j)' = IF j = i THEN y ELSE C(j)
         /\ \A j \in Nat : HasC(j)' <=> HasC(j) \/ j = i
    <2>1. y \in Int
      BY <1>5
    <2>2. /\ cmap' \in MapOf("client")
          /\ \A s \in Sides : s # Space(i) => cmap'[s] = cmap[s]
          /\ \A j \in Nat : IdEntry(cmap', j) = IF j = i THEN y ELSE IdEntry(cmap, j)
          /\ \A j \in Nat : HasId(cmap', j) <=> HasId(cmap, j) \/ j = i
      BY <1>4, <1>8, <1>9, <1>11, <2>1, InsertAtIs
    <2>3. FreePlaces(cmap', {1})
      BY <1>4, <1>8, <1>9, <1>11, <2>1, ReplaceKeepsFree
    <2>4. Len(cmap'.client) = Len(cmap.client)
      <3>1. cmap'["client"] = cmap["client"]
        BY <1>8, <2>2
      <3> QED BY <1>8, <2>2, <3>1, MapTypes
    <2> QED BY <2>2, <2>3, <2>4 DEF C, HasC
  <1>13. /\ cst \in [Numbers -> ClientStates] /\ cst' \in [Numbers -> ClientStates]
         /\ \A z \in Numbers : cst'[z] = IF z = y THEN "unseen" ELSE cst[z]
    BY <1>5, <1>11 DEF LifeInv, TypesInv, ClientStates
  <1>14. /\ ObjectsStay /\ Created' = Created /\ \A z : Offer(z)' <=> Offer(z)
         /\ \A z \in Numbers : Gone(z)' <=> Gone(z) /\ z # y
         /\ \A j : S(j)' = S(j) /\ (HasS(j)' <=> HasS(j))
    BY <1>2, <1>4, <1>13, TablesSame DEF ObjectsStay, Created, Offer, Gone
  <1>15. Held(y)'
    <2>1. C(i)' = y /\ ~Gone(y)' /\ i = id'[y]
      BY <1>2, <1>4, <1>5, <1>12, <1>14
    <2> QED BY <2>1 DEF Held
  <1>16. ASSUME NEW z \in Created, Held(z), id[z] # i PROVE Held(z)'
    <2>1. PICK j \in Nat : j = id[z] /\ j = id'[z]
      BY <1>2, LifeTypes
    <2>2. C(j)' = C(j) /\ (Gone(z)' <=> Gone(z)) /\ (Offer(z)' <=> Offer(z))
      BY <1>4, <1>12, <1>14, <1>16, <2>1, LifeTypes
    <2> QED BY <1>16, <2>1, <2>2 DEF Held
  <1>17. ASSUME NEW j \in Nat, ClientId(j) PROVE Back(j)' <=> Back(j)
    <2>1. C(j)' = C(j)
      BY <1>5, <1>12, <1>17
    <2> QED BY <1>2, <2>1 DEF Back
  <1>18. \A z \in Created : Offer(z) /\ cst[z] # "destroyed" /\ id[z] = i => z = y
    BY <1>6 DEF LifeInv, ServerTable
  <1>19. \A j : h \in OfferId(j) <=> j = i
    BY <1>1, <1>2, <1>3, Classes
  <1>20. \A j : h \notin DeleteId(j)
    BY <1>1, <1>2, <1>3, Classes
  <1>21. e \in Closures /\ e.op = "offer" /\ e.proxy = device /\ e.arg = y
    BY <1>1, <1>5, <1>7, LifeTypes DEF Closures
  <1>22. ClosureOK(e)'
    <2>1. device \in Created \ {display} /\ y \in Created \ {display} /\ cst'[y] = "unseen" /\ cst'[device] = "live"
      BY <1>4, <1>5, <1>13, LifeTypes DEF LifeInv, ObjectsInv
    <2> QED BY <1>5, <1>14, <1>21, <2>1 DEF ClosureOK
  <1>23. QueueInv' /\ queue' \in Seq(Closures)
    <2>1. \A z \in Created : /\ cst[z] # "none" => cst'[z] # "none"
                             /\ cst[z] = "unseen" => cst'[z] = "unseen"
      BY <1>13, LifeTypes
    <2> QED BY <1>4, <1>11, <1>14, <1>21, <1>22, <2>1, QueueAdded
  <1>24. RefsInv'
    <2>1. PICK f : f = [refcount EXCEPT ![y] = 1]
      OBVIOUS
    <2>2. refcount = [z \in Numbers |-> (IF Gone(z) THEN 0 ELSE 1) + References(queue, z)]
      BY DEF LifeInv, RefsInv
    <2>3. References(queue, y) = 0
      BY <1>4, <1>5, NoReferences
    <2>4. ASSUME NEW z \in Numbers PROVE f[z] = (IF Gone(z)' THEN 0 ELSE 1) + References(queue, z)
      <3>1. f[z] = IF z = y THEN 1 ELSE refcount[z]
        BY <2>1, <2>2
      <3> HIDE DEF Gone, References
      <3> QED BY <1>14, <2>2, <2>3, <3>1
    <2> QED BY <1>7, <1>11, <1>21, <2>1, <2>4, RefsAdded
  <1>25. TypesInv'
    BY <1>2, <1>3, <1>11, <1>13, <1>23 DEF LifeInv, TypesInv, Created
  <1>26. ObjectsInv'
    <2>1. /\ \A z \in Created' : kind'[z] = "display" <=> z = display
          /\ device \in Created' /\ kind'[device] = "plain" /\ id'[display] = 1 /\ id'[device] = 2
      BY <1>2, <1>14 DEF LifeInv, ObjectsInv
    <2>2. ASSUME NEW z \in Created
          PROVE  IF Offer(z)' THEN ~ClientId(id'[z]) /\ HasS(id[z])' ELSE ClientId(id'[z]) /\ HasC(id[z])'
      <3>1. PICK j \in Nat : j = id[z] /\ j = id'[z]
        BY <1>2, LifeTypes
      <3>2. IF Offer(z) THEN ~ClientId(j) /\ HasS(j) ELSE ClientId(j) /\ HasC(j)
        BY <3>1 DEF LifeInv, ObjectsInv
      <3>3. IF Offer(z)' THEN ~ClientId(j) /\ HasS(j)' ELSE ClientId(j) /\ HasC(j)'
        BY <1>12, <1>14, <3>2
      <3> QED BY <3>1, <3>3
    <2>3. \A z \in Numbers : z \notin Created' => cst'[z] = "none"
      BY <1>4, <1>13, <1>14 DEF LifeInv, ObjectsInv
    <2>4. cst'[display] = "live" /\ cst'[device] = "live"
      BY <1>5, <1>13, LifeTypes DEF LifeInv, ObjectsInv
    <2>5. \A z \in Created' : /\ cst'[z] = "over" => kind'[z] = "callback"
                              /\ cst'[z] = "leaving" => kind'[z] = "plain"
                              /\ cst'[z] \in {"none", "unseen"} => Offer(z)'
      <3>1. ASSUME NEW z \in Created
            PROVE  /\ cst'[z] = "over" => kind'[z] = "callback"
                   /\ cst'[z] = "leaving" => kind'[z] = "plain"
                   /\ cst'[z] \in {"none", "unseen"} => Offer(z)'
        <4>1. z \in Numbers /\ kind'[z] = kind[z] /\ (Offer(z)' <=> Offer(z))
          BY <1>2, <1>14, LifeTypes
        <4>2. cst'[z] = IF z = y THEN "unseen" ELSE cst[z]
          BY <1>13, <4>1
        <4>3. /\ cst[z] = "over" => kind[z] = "callback"
              /\ cst[z] = "leaving" => kind[z] = "plain"
              /\ cst[z] \in {"none", "unseen"} => Offer(z)
          BY DEF LifeInv, ObjectsInv
        <4>4. Offer(y)
          BY <1>4, <1>5 DEF LifeInv, ObjectsInv
        <4> QED BY <4>1, <4>2, <4>3, <4>4
      <3> QED BY <1>14, <3>1
    <2>6. \A z \in iddel' : ~Offer(z)'
      BY <1>2, <1>14 DEF LifeInv, ObjectsInv
    <2> QED BY <1>14, <2>1, <2>2, <2>3, <2>4, <2>5, <2>6 DEF ObjectsInv, ClientId, Numbers
  <1>27. MapsInv'
    <2>1. smap' = smap /\ Len(cmap'.client) <= last' /\ HasC(0)' /\ C(0)' = 0
      BY <1>2, <1>6, <1>12 DEF LifeInv, MapsInv
    <2>2. \A j \in Nat : ~ClientId(j) => C(j)' >= 0
      BY <1>5, <1>12 DEF LifeInv, MapsInv
    <2> QED BY <1>12, <1>14, <2>1, <2>2 DEF LifeInv, MapsInv, ClientId
  <1>28. ClientTable'
    <2>1. ASSUME NEW z \in Created, ~Gone(z)' PROVE C(id[z])' = z
      <3>1. PICK j \in Nat : j = id[z] /\ j = id'[z]
        BY <1>2, LifeTypes
      <3>2. CASE z = y
        BY <1>4, <1>12, <3>1, <3>2
      <3>3. CASE z # y
        <4>1. ~Gone(z) /\ z # 0
          BY <1>14, <2>1, <3>3, LifeTypes
        <4>2. C(j) = z /\ j # i
          BY <1>6, <3>1, <4>1 DEF LifeInv, ClientTable
        <4>3. C(j)' = z
          BY <1>12, <4>2
        <4> QED BY <3>1, <4>3
      <3> QED BY <3>2, <3>3
    <2>2. ASSUME NEW j \in Nat, C(j)' > 0
          PROVE  \/ ClientId(j) /\ C(j)' = Zombie
                 \/ C(j)' \in Created /\ id[C(j)'] = j /\ ~Gone(C(j))'
      <3>1. CASE j = i
        <4>1. C(j)' = y
          BY <1>12, <3>1
        <4> QED BY <1>4, <1>5, <1>14, <3>1, <4>1
      <3>2. CASE j # i
        <4>1. C(j)' = C(j) /\ C(j) > 0
          BY <1>12, <2>2, <3>2
        <4>2. PICK z : z = C(j)
          OBVIOUS
        <4>3. (ClientId(j) /\ z = Zombie) \/ (z \in Created /\ id[z] = j /\ ~Gone(z))
          BY <4>1, <4>2 DEF LifeInv, ClientTable
        <4>4. z \in Created /\ id[z] = j /\ ~Gone(z) => ~Gone(z)'
          BY <1>14, LifeTypes
        <4> QED BY <4>1, <4>2, <4>3, <4>4
      <3> QED BY <3>1, <3>2
    <2> QED BY <1>2, <1>14, <2>1, <2>2 DEF ClientTable, ClientId
  <1>29. ServerTable'
    <2>1. ASSUME NEW j \in Nat, S(j) > 0
          PROVE  S(j) \in Created /\ id[S(j)] = j /\ Held(S(j))' /\ (ClientId(j) => ~Back(j)')
      <3>1. PICK z : z = S(j)
        OBVIOUS
      <3>2. z \in Created /\ id[z] = j /\ Held(z) /\ (ClientId(j) => ~Back(j))
        BY <2>1, <3>1 DEF LifeInv, ServerTable
      <3>3. Held(z)'
        BY <1>6, <1>15, <1>16, <3>1, <3>2
      <3>4. S(j)' = z
        BY <1>14, <3>1
      <3> QED BY <1>17, <3>1, <3>2, <3>3, <3>4
    <2>2. \A j \in Nat : S(j)' > 0 =>
             /\ S(j)' \in Created' /\ id'[S(j)'] = j /\ Held(S(j))'
             /\ ClientId(j) => ~Back(j)'
      BY <1>2, <1>14, <2>1
    <2>3. S(1)' = display /\ S(2)' = device
      BY <1>14 DEF LifeInv, ServerTable
    <2>4. \A z \in Created' : Offer(z)' /\ cst'[z] # "destroyed" => S(id[z])' = z
      <3>1. \A z \in Created : cst'[z] # "destroyed" => cst[z] # "destroyed"
        BY <1>4, <1>13, LifeTypes
      <3> QED BY <1>2, <1>14, <3>1 DEF LifeInv, ServerTable
    <2>5. \A z \in Created' : kind'[z] = "plain" /\ cst'[z] = "live" =>
             S(id[z])' = z \/ Some(c2s', CreateOf(z))
      <3>1. \A z \in Created : cst'[z] = "live" => cst[z] = "live"
        BY <1>13, LifeTypes
      <3> QED BY <1>2, <1>14, <3>1 DEF LifeInv, ServerTable
    <2>6. \A z \in Created' : cst'[z] = "none" => Some(s2c', OfferId(id'[z]))
      <3>1. ASSUME NEW z \in Created, cst'[z] = "none" PROVE Some(s2c', OfferId(id[z]))
        <4>1. cst[z] = "none" /\ z # y /\ Offer(z)
          BY <1>13, <3>1, LifeTypes DEF LifeInv, ObjectsInv
        <4>2. id[z] # i /\ Some(s2c, OfferId(id[z]))
          BY <1>18, <4>1 DEF LifeInv, ServerTable
        <4> QED BY <1>3, <1>19, <4>2 DEF Taken
      <3> QED BY <1>2, <1>14, <3>1
    <2> QED BY <2>2, <2>3, <2>4, <2>5, <2>6 DEF ServerTable, ClientId
  <1>30. IdsInv'
    <2>1. ASSUME NEW j \in Nat
          PROVE  (Pending(j)' => Pending(j)) /\ (Making(j)' => Making(j)) /\ SentOnce(j)'
      <3>1. SentOnce(j)
        BY DEF LifeInv, IdsInv
      <3>2. Some(s2c', DeleteId(j)) <=> Some(s2c, DeleteId(j))
        BY <1>3, <1>20 DEF Taken
      <3> QED BY <1>2, <1>3, <3>1, <3>2 DEF Pending, Making, SentOnce, Taken
    <2> QED BY <1>14, <1>17, <2>1 DEF LifeInv, IdsInv, ClientId
  <1>31. RequestGrowth' /\ RequestsInv'
    <2>1. \A n \in 1 .. Len(c2s) : n + 0 = n /\ \A z \in Created : Ready(z, n) => Ready(z, n)'
      BY <1>2, <1>14 DEF Ready
    <2>2. ASSUME NEW z \in Created, Some(c2s, CreateOf(z)) PROVE Held(z)'
      <3>1. Held(z) /\ id[z] # i
        BY <1>5, <2>2, CreatesHeld DEF LifeInv, ObjectsInv, Offer
      <3> QED BY <1>16, <3>1
    <2>3. \A z \in Created : cst[z] \in {"leaving", "destroyed"} => cst'[z] \in {"leaving", "destroyed"}
      BY <1>4, <1>13, LifeTypes
    <2>4. RequestsInv'
      BY <1>2, <1>14, <2>1, <2>2, <2>3, RequestsKept
    <2>5. RequestGrowth'
      BY <1>2, <1>5, <1>12, <1>14 DEF LifeInv, RequestGrowth, Making, ClientId
    <2> QED BY <2>4, <2>5
  <1>32. EventGrowth'
    <2>1. ASSUME NEW n \in 1 .. Len(s2c'), s2c'[n].op = "offer",
                 NEW q \in Nat, ~ClientId(q), q < s2c'[n].arg, ~HasC(q)'
          PROVE  Before(s2c', n, OfferId(q))
      <3>1. n + 1 \in 1 .. Len(s2c) /\ s2c'[n] = s2c[n + 1]
        BY <1>3 DEF Taken
      <3>2. q # i /\ ~HasC(q)
        BY <1>12, <2>1
      <3>3. Before(s2c, n + 1, OfferId(q))
        BY <2>1, <3>1, <3>2 DEF LifeInv, EventGrowth
      <3> QED BY <1>3, <1>19, <3>2, <3>3 DEF Taken
    <2>2. \A q \in Nat : ~ClientId(q) /\ HasS(q) /\ ~HasC(q)' => Some(s2c', OfferId(q))
      BY <1>3, <1>12, <1>19 DEF LifeInv, EventGrowth, Taken
    <2> QED BY <1>14, <2>1, <2>2 DEF EventGrowth, ClientId
  <1>33. EventsInv'
    <2>1. ASSUME NEW n \in 1 .. Len(s2c'), NEW z \in Created, Mention(z, n + 1) PROVE Mention(z, n)'
      <3>1. PICK j \in Nat : j = id[z] /\ j = id'[z]
        BY <1>2, LifeTypes
      <3>2. CASE z = y
        BY <1>4, <1>5, <1>13, <1>14, <1>15, <3>2 DEF Mention
      <3>3. CASE z # y
        <4>1. Before(s2c, n + 1, OfferId(j)) <=> h \in OfferId(j) \/ Before(s2c', n, OfferId(j))
          BY <1>3 DEF Taken
        <4>2. After(s2c, n + 1, DeleteId(j)) <=> After(s2c', n, DeleteId(j))
          BY <1>3 DEF Taken
        <4>3. /\ z \in Created \ {display} /\ Held(z)
              /\ Offer(z) => /\ cst[z] = "none" => Before(s2c, n + 1, OfferId(j))
                             /\ cst[z] = "destroyed" => ~Before(s2c, n + 1, OfferId(j))
              /\ ~Offer(z) => S(j) = z \/ After(s2c, n + 1, DeleteId(j))
          BY <2>1, <3>1 DEF Mention
        <4>4. j # i
          <5>1. Offer(z) /\ cst[z] # "destroyed" => j # i
            BY <1>18, <3>1, <3>3
          <5>2. ~Offer(z) => j # i
            BY <1>5, <3>1 DEF LifeInv, ObjectsInv
          <5> QED BY <1>19, <4>1, <4>3, <5>1, <5>2
        <4>5. Held(z)' /\ cst'[z] = cst[z] /\ (Offer(z)' <=> Offer(z)) /\ S(j)' = S(j) /\ z \in Created' \ {display}
          BY <1>13, <1>14, <1>16, <3>1, <3>3, <4>3, <4>4, LifeTypes
        <4> QED BY <1>19, <3>1, <4>1, <4>2, <4>3, <4>4, <4>5 DEF Mention
      <3> QED BY <3>2, <3>3
    <2>2. \A n \in 1 .. Len(s2c') : n + 1 \in 1 .. Len(s2c) /\ s2c'[n] = s2c[n + 1]
      BY <1>3 DEF Taken
    <2>3. ASSUME NEW z \in Created, Some(s2c', OfferId(id[z])), cst[z] = "none" PROVE cst'[z] = "none"
      <3>1. Once(s2c, OfferId(i))
        BY <1>4 DEF LifeInv, IdsInv, SentOnce
      <3>2. ~Some(s2c', OfferId(i))
        BY <1>3, <1>19, <3>1 DEF Taken
      <3> QED BY <1>4, <1>13, <2>3, <3>2, LifeTypes
    <2> QED BY <1>14, <2>1, <2>2, <2>3, EventsKept
  <1> QED BY <1>23, <1>24, <1>25, <1>26, <1>27, <1>28, <1>29, <1>30, <1>31, <1>32, <1>33 DEF LifeInv

-----------------------------------------------------------------------------
\* Steps of the server
ServerStep ==
  UNCHANGED <<cmap, queue, display_queue, deleting, cst, iddel, refcount, last, kind, id, failed>>

\* What the server's table has at one id changes.
SmapAt(i, v) ==
  /\ smap' \in MapOf("server") /\ FreePlaces(smap', {})
  /\ \A j \in Nat : S(j)' = IF j = i THEN v ELSE S(j)
  /\ \A j \in Nat : HasS(j)' <=> HasS(j) \/ j = i

LEMMA AppendOne ==
  ASSUME NEW T, NEW q \in Seq(T), NEW m \in T
  PROVE  q \o <<m>> = Append(q, m)
  <1>1. PICK c, a : c = q \o <<m>> /\ a = Append(q, m)
    OBVIOUS
  <1>2. <<m>> \in Seq(T) /\ Len(<<m>>) = 1 /\ <<m>>[1] = m
    OBVIOUS
  <1>3. /\ c \in Seq(T) /\ Len(c) = Len(q) + 1
        /\ \A k \in 1 .. Len(q) + 1 : c[k] = IF k <= Len(q) THEN q[k] ELSE <<m>>[k - Len(q)]
    BY <1>1, <1>2, ConcatProperties
  <1>4. /\ a \in Seq(T) /\ Len(a) = Len(q) + 1 /\ Len(q) \in Nat
        /\ \A k \in 1 .. Len(q) : a[k] = q[k]
        /\ a[Len(q) + 1] = m
    BY <1>1
  <1>5. ASSUME NEW k \in 1 .. Len(c) PROVE c[k] = a[k]
    <2>1. CASE k <= Len(q)
      BY <1>3, <1>4, <2>1
    <2>2. CASE ~(k <= Len(q))
      <3>1. k = Len(q) + 1 /\ k - Len(q) = 1
        BY <1>3, <1>4, <2>2
      <3> QED BY <1>2, <1>3, <1>4, <2>2, <3>1
    <2> QED BY <2>1, <2>2
  <1>6. c = a
    BY <1>3, <1>4, <1>5, SeqEqual
  <1> QED BY <1>1, <1>6

LEMMA AppendTwo ==
  ASSUME NEW T, NEW q \in Seq(T), NEW m \in T, NEW n \in T
  PROVE  q \o (<<m>> \o <<n>>) = Append(Append(q, m), n)
  <1>1. <<m>> \in Seq(T) /\ <<n>> \in Seq(T) /\ Append(q, m) \in Seq(T)
    OBVIOUS
  <1>2. (q \o <<m>>) \o <<n>> = q \o (<<m>> \o <<n>>)
    BY <1>1, ConcatAssociative
  <1> QED BY <1>1, <1>2, AppendOne

LEMMA ServerSame ==
  ASSUME LifeInv, ServerStep
  PROVE  /\ ObjectsStay /\ Created' = Created
         /\ \A j : C(j)' = C(j) /\ (HasC(j)' <=> HasC(j)) /\ (Back(j)' <=> Back(j))
         /\ \A x : (Gone(x)' <=> Gone(x)) /\ (Offer(x)' <=> Offer(x)) /\ (Held(x)' <=> Held(x))
         /\ ClientTable' /\ QueueInv' /\ RefsInv'
  <1>1. /\ ObjectsStay /\ Created' = Created
        /\ \A x : (Gone(x)' <=> Gone(x)) /\ (Offer(x)' <=> Offer(x))
    BY DEF ServerStep, ObjectsStay, Created, Gone, Offer
  <1>2. \A j : C(j)' = C(j) /\ (HasC(j)' <=> HasC(j)) /\ (Back(j)' <=> Back(j))
    BY TablesSame DEF ServerStep, Back
  <1>3. \A x : Held(x)' <=> Held(x)
    BY <1>1 DEF Held, C, ServerStep
  <1>4. ClientTable'
    <2>1. id' = id
      BY DEF ServerStep
    <2>2. \A j \in Nat : Gone(C(j))' <=> Gone(C(j))
      BY DEF Gone, C, ServerStep
    <2> QED BY <1>1, <1>2, <2>1, <2>2 DEF LifeInv, ClientTable, ClientId
  <1>5. QueueInv' /\ RefsInv'
    BY <1>1, QueueKept, RefsKept DEF ServerStep
  <1> QED BY <1>1, <1>2, <1>3, <1>4, <1>5

LEMMA ServerObjects ==
  ASSUME LifeInv, ServerStep, \A j \in Nat : HasS(j) => HasS(j)'
  PROVE  ObjectsInv'
  <1>1. UNCHANGED <<cst, kind, id, iddel, last>>
    BY DEF ServerStep
  <1>2. ASSUME NEW y \in Created
        PROVE  IF Offer(y)' THEN ~ClientId(id'[y]) /\ HasS(id[y])' ELSE ClientId(id'[y]) /\ HasC(id[y])'
    <2>1. PICK j \in Nat : j = id[y] /\ j = id'[y]
      BY <1>1 DEF LifeInv, TypesInv
    <2>2. IF Offer(y) THEN ~ClientId(j) /\ HasS(j) ELSE ClientId(j) /\ HasC(j)
      BY <2>1 DEF LifeInv, ObjectsInv
    <2>3. IF Offer(y)' THEN ~ClientId(j) /\ HasS(j)' ELSE ClientId(j) /\ HasC(j)'
      BY <2>2, ServerSame
    <2> QED BY <2>1, <2>3
  <1> QED BY <1>1, <1>2, ServerSame DEF LifeInv, ObjectsInv, ClientId, Numbers

LEMMA ServerMaps ==
  ASSUME LifeInv, ServerStep, NEW i \in Nat, NEW v \in Int, SmapAt(i, v), S(i) # 0 \/ i # 0,
         ClientId(i) => v >= 0
  PROVE  MapsInv'
  <1>1. MapsInv
    BY DEF LifeInv
  <1>2. cmap' = cmap /\ last' = last
    BY DEF ServerStep
  <1>3. HasS(0)' /\ S(0)' = 0 /\ (\A j \in Nat : ClientId(j) => S(j)' >= 0)
    BY <1>1 DEF SmapAt, MapsInv
  <1>4. smap' \in MapOf("server") /\ FreePlaces(smap', {})
    BY DEF SmapAt
  <1> QED BY <1>1, <1>2, <1>3, <1>4, ServerSame DEF MapsInv, ClientId

\* A proxy whose object the server still has is mentioned rightly from now on.
LEMMA MentionNow ==
  ASSUME LifeInv, Premises, NEW z \in Created \ {display}, S(id[z]) = z,
         NEW m \in Messages, Added(s2c, m, s2c'), m.op # "offer"
  PROVE  /\ Held(z)
         /\ Offer(z) => /\ cst[z] = "none" => Before(s2c', Len(s2c) + 1, OfferId(id[z]))
                        /\ cst[z] = "destroyed" => ~Before(s2c', Len(s2c) + 1, OfferId(id[z]))
  <1>1. PICK i \in Nat : i = id[z]
    BY LifeTypes
  <1>2. z \in Nat /\ z > 0
    BY LifeTypes
  <1>3. Held(z)
    BY <1>1, <1>2 DEF LifeInv, ServerTable
  <1>4. Before(s2c', Len(s2c) + 1, OfferId(i)) <=> Some(s2c, OfferId(i))
    BY DEF Added
  <1>5. cst[z] = "none" => Some(s2c, OfferId(i))
    BY <1>1 DEF LifeInv, ServerTable
  <1>6. cst[z] = "destroyed" => ~Some(s2c, OfferId(i))
    BY <1>1, OffersUnknown
  <1> QED BY <1>1, <1>3, <1>4, <1>5, <1>6

\* The server has sent nothing more, or messages that announce no object.
LEMMA EventsLonger ==
  ASSUME LifeInv, Premises, ServerStep,
         \A n \in 1 .. Len(s2c') : \/ s2c'[n].op # "offer" /\ ArrivalOK(s2c[n], n)'
                                   \/ n \in 1 .. Len(s2c) /\ s2c'[n] = s2c[n],
         \A j : Some(s2c', OfferId(j)) <=> Some(s2c, OfferId(j)),
         \A j : \A n \in 1 .. Len(s2c) : Before(s2c', n, OfferId(j)) <=> Before(s2c, n, OfferId(j)),
         \A j \in Nat : ~ClientId(j) /\ HasS(j)' => HasS(j),
         \A n \in 1 .. Len(s2c) : \A y \in Created : \A j \in Nat :
            /\ j = id[y] /\ ~Offer(y) /\ y # display
            /\ S(j) = y \/ After(s2c, n, DeleteId(j))
            => S(j)' = y \/ After(s2c', n, DeleteId(j))
  PROVE  EventGrowth' /\ EventsInv'
  <1>1. UNCHANGED <<cst, kind, id, last>>
    BY DEF ServerStep
  <1>2. EventGrowth'
    <2>1. ASSUME NEW n \in 1 .. Len(s2c'), s2c'[n].op = "offer",
                 NEW q \in Nat, ~ClientId(q), q < s2c'[n].arg, ~HasC(q)
          PROVE  Before(s2c', n, OfferId(q))
      <3>1. n \in 1 .. Len(s2c) /\ s2c'[n] = s2c[n]
        BY <2>1
      <3> QED BY <2>1, <3>1 DEF LifeInv, EventGrowth
    <2>2. \A q \in Nat : ~ClientId(q) /\ HasS(q)' /\ ~HasC(q) => Some(s2c', OfferId(q))
      BY DEF LifeInv, EventGrowth
    <2> QED BY <2>1, <2>2, ServerSame DEF EventGrowth, ClientId
  <1>3. EventsInv'
    <2>1. ASSUME NEW n \in 1 .. Len(s2c), NEW y \in Created, Mention(y, n) PROVE Mention(y, n)'
      <3>1. PICK j \in Nat : j = id[y] /\ j = id'[y]
        BY <1>1, LifeTypes
      <3>2. /\ y \in Created \ {display} /\ Held(y)
            /\ Offer(y) => /\ cst[y] = "none" => Before(s2c, n, OfferId(j))
                           /\ cst[y] = "destroyed" => ~Before(s2c, n, OfferId(j))
            /\ ~Offer(y) => S(j) = y \/ After(s2c, n, DeleteId(j))
        BY <2>1, <3>1 DEF Mention
      <3>3. /\ y \in Created' \ {display} /\ Held(y)' /\ (Offer(y)' <=> Offer(y))
            /\ Offer(y)' => /\ cst'[y] = "none" => Before(s2c', n, OfferId(j))
                            /\ cst'[y] = "destroyed" => ~Before(s2c', n, OfferId(j))
            /\ ~Offer(y)' => S(j)' = y \/ After(s2c', n, DeleteId(j))
        BY <1>1, <3>1, <3>2, ServerSame
      <3> QED BY <3>1, <3>3 DEF Mention
    <2>2. \A n \in 1 .. Len(s2c') : \/ ArrivalOK(s2c[n], n)'
                                    \/ /\ n + 0 \in 1 .. Len(s2c) /\ s2c'[n] = s2c[n + 0]
                                       /\ \A y \in Created : Mention(y, n + 0) => Mention(y, n)'
      BY <2>1
    <2>3. \A y \in Created : cst[y] = "none" => cst'[y] = "none"
      BY <1>1
    <2> QED BY <2>2, <2>3, ServerSame, EventsKept
  <1> QED BY <1>2, <1>3

\* Requests wait while the server does something else.
LEMMA RequestsWait ==
  ASSUME LifeInv, ServerStep, UNCHANGED c2s, \A j \in Nat : HasS(j) => HasS(j)',
         \A y \in Created : Asked(y) /\ S(id[y]) = y => S(id[y])' = y
  PROVE  RequestGrowth' /\ RequestsInv'
  <1>1. UNCHANGED <<cst, kind, id, last>>
    BY DEF ServerStep
  <1>2. \A n \in 1 .. Len(c2s) : n + 0 = n /\ \A y \in Created : Asked(y) /\ Ready(y, n) => Ready(y, n)'
    BY DEF Ready
  <1>3. RequestsInv'
    BY <1>1, <1>2, ServerSame, RequestsKept
  <1>4. RequestGrowth'
    BY ServerSame DEF LifeInv, RequestGrowth, Making, ClientId
  <1> QED BY <1>3, <1>4

LEMMA PostEventKeeps ==
  ASSUME LifeInv, Premises, NEW x \in Created \ {display}, NEW y \in Created \ {display}, PostEvent(x, y)
  PROVE  LifeInv'
  <1>1. /\ Resource(x) /\ kind[x] \in {"plain", "offer"}
        /\ UNCHANGED <<tables, c2s, clientVars, objectVars, failed, serror>>
        /\ \/ y = x /\ x # device /\ s2c' = s2c \o <<Message("event", x, 0, NoObject)>>
           \/ /\ y # device /\ Resource(y) /\ kind[y] = "plain"
              /\ s2c' = s2c \o <<Message("event", x, id[y], y)>>
    BY DEF PostEvent, SendEvents, Named, Premises
  <1>2. PICK a, b : \/ a = 0 /\ b = NoObject /\ s2c' = s2c \o <<Message("event", x, 0, NoObject)>>
                    \/ /\ a = id[y] /\ b = y /\ y # device /\ Resource(y) /\ kind[y] = "plain"
                       /\ s2c' = s2c \o <<Message("event", x, id[y], y)>>
    BY <1>1
  <1>3. PICK m : m = Message("event", x, a, b)
    OBVIOUS
  <1>4. a \in Nat /\ b \in Nat /\ "event" \in Ops /\ x \in Created
    <2>1. x \in Created /\ y \in Nat /\ id[y] \in Nat /\ "event" \in Ops
      BY LifeTypes DEF Ops
    <2> QED BY <1>2, <2>1 DEF NoObject
  <1>5. /\ m \in Messages /\ m.op = "event" /\ m.id = id[x] /\ m.obj = x /\ m.arg = a /\ m.argobj = b
    <2>1. /\ Message("event", x, a, b) \in Messages
          /\ Message("event", x, a, b).op = "event" /\ Message("event", x, a, b).id = id[x]
          /\ Message("event", x, a, b).obj = x /\ Message("event", x, a, b).arg = a
          /\ Message("event", x, a, b).argobj = b
      BY <1>4, MessageTypes
    <2> QED BY <1>3, <2>1
  <1>6. s2c' \in Seq(Messages) /\ Added(s2c, m, s2c')
    <2>1. s2c \in Seq(Messages)
      BY DEF LifeInv, TypesInv
    <2>2. s2c' = s2c \o <<m>>
      BY <1>2, <1>3
    <2>3. s2c' = Append(s2c, m)
      BY <1>5, <2>1, <2>2, AppendOne
    <2> QED BY <1>5, <2>1, <2>3, AddLast
  <1>7. S(id[x]) = x /\ (a # 0 => b = y /\ S(id[y]) = y)
    <2>1. ASSUME NEW z \in Created, Resource(z) PROVE S(id[z]) = z
      <3>1. z \in Nat /\ z > 0 /\ id[z] \in Nat
        BY LifeTypes
      <3> QED BY <2>1, <3>1, LookupIs DEF Resource
    <2> QED BY <1>1, <1>2, <2>1
  <1>8. ServerStep /\ Calm
    BY <1>1 DEF ServerStep, Calm, tables, clientVars, objectVars, LifeInv, TypesInv
  <1>9. \A j : m \notin OfferId(j) /\ m \notin DeleteId(j)
    BY <1>5, Classes
  <1>10. ObjectsInv' /\ MapsInv' /\ ClientTable' /\ ServerTable'
    BY <1>1, <1>6, <1>8, CalmKeeps DEF Added
  <1>11. QueueInv' /\ RefsInv'
    BY <1>8, ServerSame
  <1>12. RequestGrowth' /\ RequestsInv'
    BY <1>1, <1>8, SameRequests
  <1>13. TypesInv'
    BY <1>1, <1>6 DEF LifeInv, TypesInv, clientVars, objectVars, Created
  <1>14. IdsInv'
    <2>1. ASSUME NEW j \in Nat
          PROVE  (Pending(j)' => Pending(j)) /\ (Making(j)' => Making(j)) /\ SentOnce(j)'
      <3>1. SentOnce(j)
        BY DEF LifeInv, IdsInv
      <3> QED BY <1>1, <1>6, <1>9, <3>1 DEF Pending, Making, SentOnce, Added, clientVars
    <2> QED BY <1>8, <2>1, CalmSame, IdsKept
  <1>15. EventGrowth' /\ EventsInv'
    <2>1. PICK n : n = Len(s2c) + 1
      OBVIOUS
    <2>2. ASSUME NEW z \in Created \ {display}, S(id[z]) = z PROVE Mention(z, n)'
      <3>1. UNCHANGED <<smap, cst, kind, id, last>>
        BY <1>8 DEF ServerStep, Calm
      <3>2. /\ Held(z)
            /\ Offer(z) => /\ cst[z] = "none" => Before(s2c', n, OfferId(id[z]))
                           /\ cst[z] = "destroyed" => ~Before(s2c', n, OfferId(id[z]))
        BY <1>5, <1>6, <2>1, <2>2, MentionNow
      <3>3. Held(z)' /\ (Offer(z)' <=> Offer(z)) /\ S(id[z])' = z /\ Created' = Created
        BY <1>8, <2>2, <3>1, <3>2, CalmSame
      <3> QED BY <3>1, <3>2, <3>3 DEF Mention
    <2>3. EventOK(m, n)'
      <3>1. UNCHANGED <<kind, id>>
        BY <1>8 DEF ServerStep
      <3>2. Mention(x, n)' /\ (a # 0 => Mention(y, n)')
        BY <1>7, <2>2
      <3> QED BY <1>2, <1>5, <3>1, <3>2 DEF EventOK
    <2>4. s2c'[n] = m
      BY <1>6, <2>1 DEF Added
    <2>5. ArrivalOK(s2c[n], n)' /\ s2c'[n].op # "offer"
      BY <1>5, <2>3, <2>4 DEF ArrivalOK
    <2>6. \A k \in 1 .. Len(s2c') : k = n \/ (k \in 1 .. Len(s2c) /\ s2c'[k] = s2c[k])
      BY <1>6, <2>1 DEF Added
    <2>7. \A j : /\ Some(s2c', OfferId(j)) <=> Some(s2c, OfferId(j))
                 /\ \A k \in 1 .. Len(s2c) : Before(s2c', k, OfferId(j)) <=> Before(s2c, k, OfferId(j))
                 /\ \A k \in 1 .. Len(s2c) : After(s2c', k, DeleteId(j)) <=> After(s2c, k, DeleteId(j))
      BY <1>6, <1>9 DEF Added
    <2> QED BY <1>8, <2>5, <2>6, <2>7, CalmSame, EventsLonger
  <1> QED BY <1>10, <1>11, <1>12, <1>13, <1>14, <1>15 DEF LifeInv

\* The server's end takes an object out of its table.
SmapLets(i) ==
  \/ ClientId(i) /\ smap' = wl_map_insert_at(smap, i, 0)
  \/ ~ClientId(i) /\ smap' = wl_map_remove(smap, i)

LEMMA SmapGone ==
  ASSUME LifeInv, Premises, NEW i \in Nat, S(i) > 0, SmapLets(i)
  PROVE  /\ \E v \in Int : v <= 0 /\ SmapAt(i, v) /\ (ClientId(i) => v = 0)
         /\ \A j \in Nat : HasS(j)' <=> HasS(j)
  <1>1. smap \in MapOf("server") /\ FreePlaces(smap, {}) /\ "server" \in Sides
    BY DEF LifeInv, MapsInv, Sides
  <1>2. HasS(i) /\ IdEntry(smap, i) > 0
    BY DEF HasS, S, IdEntry
  <1>3. CASE ClientId(i)
    <2>1. smap' = wl_map_insert_at(smap, i, 0) /\ Space(i) = "client" /\ 0 \in Int
      BY <1>3, PlaceIs DEF ClientId, SmapLets
    <2>2. CanInsertAt(smap, i)
      <3>1. \A q \in Nat : Space(q) = Space(i) /\ q < i => HasId(smap, q)
        BY <1>1, <1>2, IdsBefore DEF HasS
      <3> QED BY <1>1, <3>1, CanInsert
    <2>3. /\ smap' \in MapOf("server")
          /\ \A j \in Nat : IdEntry(smap', j) = IF j = i THEN 0 ELSE IdEntry(smap, j)
          /\ \A j \in Nat : HasId(smap', j) <=> HasId(smap, j) \/ j = i
      BY <1>1, <2>1, <2>2, InsertAtIs
    <2>4. FreePlaces(smap', {})
      BY <1>1, <2>1, <2>2, ReplaceKeepsFree
    <2>5. SmapAt(i, 0)
      BY <2>3, <2>4 DEF SmapAt, S, HasS
    <2> QED BY <1>2, <2>5 DEF SmapAt
  <1>4. CASE ~ClientId(i)
    <2>1. smap' = wl_map_remove(smap, i) /\ Space(i) = "server"
      BY <1>4, PlaceIs DEF ClientId, SmapLets, Sides
    <2>2. /\ smap' \in MapOf("server") /\ FreePlaces(smap', {}) /\ smap.free_list <= 0
          /\ \A j \in Nat : IdEntry(smap', j) = IF j = i THEN smap.free_list ELSE IdEntry(smap, j)
          /\ \A j \in Nat : HasId(smap', j) <=> HasId(smap, j)
      BY <1>1, <1>2, <2>1, RemoveIs
    <2>3. PICK v \in Int : v = smap.free_list
      BY <1>1, MapTypes
    <2>4. SmapAt(i, v)
      BY <1>2, <2>2, <2>3 DEF SmapAt, S, HasS
    <2> QED BY <1>2, <1>4, <2>2, <2>3, <2>4 DEF SmapAt
  <1> QED BY <1>3, <1>4

\* A resource is gone, and the client is told if it may use the id again.
LEMMA ResourceGone ==
  ASSUME LifeInv, Premises, ServerStep, NEW x \in Created \ {display, device},
         NEW i \in Nat, i = id[x], S(i) = x, SmapLets(i),
         kind[x] = "plain" => cst[x] # "live", Offer(x) => cst[x] = "destroyed",
         \A j : Some(s2c', OfferId(j)) <=> Some(s2c, OfferId(j)),
         \A j \in Nat : Some(s2c', DeleteId(j)) <=> Some(s2c, DeleteId(j)) \/ (j = i /\ ClientId(i)),
         \A j \in Nat : Once(s2c', OfferId(j)) /\ Once(s2c', DeleteId(j)) /\ Once(c2s', CreateId(j)),
         \A y \in Created : Some(c2s, CreateOf(y)) => Some(c2s', CreateOf(y)),
         \A j \in Nat : Making(j)' => Making(j)
  PROVE  /\ ObjectsInv' /\ MapsInv' /\ ServerTable' /\ IdsInv'
         /\ \A j \in Nat : HasS(j)' <=> HasS(j)
         /\ \A j \in Nat : j # i => S(j)' = S(j)
  <1>1. x \in Nat /\ x > 0 /\ S(i) > 0
    BY LifeTypes
  <1>2. PICK v \in Int : v <= 0 /\ SmapAt(i, v) /\ (ClientId(i) => v = 0)
    BY <1>1, SmapGone
  <1>3. \A j \in Nat : HasS(j)' <=> HasS(j)
    BY <1>1, SmapGone
  <1>4. \A j \in Nat : S(j)' = IF j = i THEN v ELSE S(j)
    BY <1>2 DEF SmapAt
  <1>5. UNCHANGED <<cst, kind, id, last, display_queue, deleting>>
    BY DEF ServerStep
  <1>6. ObjectsInv'
    BY <1>3, ServerObjects
  <1>7. MapsInv'
    <2>1. S(i) # 0 /\ (ClientId(i) => v >= 0)
      BY <1>1, <1>2
    <2> QED BY <1>2, <2>1, ServerMaps
  <1>8. ServerTable'
    <2>1. ASSUME NEW j \in Nat, S(j)' > 0
          PROVE  S(j)' \in Created /\ id[S(j)'] = j /\ Held(S(j))' /\ (ClientId(j) => ~Back(j)')
      <3>1. j # i /\ S(j)' = S(j)
        BY <1>2, <1>4, <2>1
      <3>2. PICK z : z = S(j)
        OBVIOUS
      <3>3. z \in Created /\ id[z] = j /\ Held(z) /\ (ClientId(j) => ~Back(j))
        BY <2>1, <3>1, <3>2 DEF LifeInv, ServerTable
      <3>4. Held(z)' /\ (ClientId(j) => ~Back(j)') /\ S(j)' = z
        BY <3>1, <3>2, <3>3, ServerSame
      <3> QED BY <3>3, <3>4
    <2>2. S(1)' = display /\ S(2)' = device
      <3>1. 1 # i /\ 2 # i /\ S(1) = display /\ S(2) = device
        BY DEF LifeInv, ServerTable
      <3> QED BY <1>4, <3>1
    <2>3. ASSUME NEW y \in Created, Offer(y), cst[y] # "destroyed" PROVE S(id[y])' = y
      <3>1. PICK j \in Nat : j = id[y] /\ j = id'[y]
        BY <1>5, LifeTypes
      <3>2. S(j) = y
        BY <2>3, <3>1 DEF LifeInv, ServerTable
      <3>3. j # i
        BY <2>3, <3>2
      <3>4. S(j)' = y
        BY <1>4, <3>2, <3>3
      <3> QED BY <3>1, <3>4
    <2>4. ASSUME NEW y \in Created, kind[y] = "plain", cst[y] = "live"
          PROVE  S(id[y])' = y \/ Some(c2s', CreateOf(y))
      <3>1. PICK j \in Nat : j = id[y] /\ j = id'[y]
        BY <1>5, LifeTypes
      <3>2. S(j) = y \/ Some(c2s, CreateOf(y))
        BY <2>4, <3>1 DEF LifeInv, ServerTable
      <3>3. CASE S(j) = y
        <4>1. j # i
          BY <2>4, <3>3
        <4>2. S(j)' = y
          BY <1>4, <3>3, <4>1
        <4> QED BY <3>1, <4>2
      <3> QED BY <3>2, <3>3
    <2>5. \A y \in Created : cst[y] = "none" => Some(s2c', OfferId(id[y]))
      BY DEF LifeInv, ServerTable
    <2> QED BY <1>5, <2>1, <2>2, <2>3, <2>4, <2>5, ServerSame DEF ServerTable, ClientId
  <1>9. IdsInv'
    <2>1. ~Pending(i) /\ ~Making(i) /\ (ClientId(i) => ~Back(i))
      BY <1>1 DEF LifeInv, IdsInv, ServerTable
    <2>2. \A j \in Nat : Pending(j)' <=> Pending(j) \/ (j = i /\ ClientId(i))
      BY <1>5 DEF Pending
    <2>3. ASSUME NEW j \in Nat, Pending(j)' PROVE ClientId(j) /\ ~Back(j)' /\ S(j)' = 0
      <3>1. CASE j = i
        BY <1>2, <1>4, <2>1, <2>2, <2>3, <3>1, ServerSame
      <3>2. CASE j # i
        BY <1>4, <2>2, <2>3, <3>2, ServerSame DEF LifeInv, IdsInv
      <3> QED BY <3>1, <3>2
    <2>4. ASSUME NEW j \in Nat, Making(j)' PROVE ClientId(j) /\ ~Back(j)' /\ S(j)' = 0 /\ ~Pending(j)'
      <3>1. j # i /\ Making(j)
        BY <2>1, <2>4
      <3> QED BY <1>4, <2>2, <3>1, ServerSame DEF LifeInv, IdsInv
    <2>5. ASSUME NEW j \in Nat PROVE SentOnce(j)'
      <3>1. SentOnce(j)
        BY DEF LifeInv, IdsInv
      <3>2. j = i => ~(j \in deleting) /\ ~Some(display_queue, {j})
        BY <2>1 DEF Pending
      <3> QED BY <1>5, <3>1, <3>2 DEF SentOnce
    <2> QED BY <2>3, <2>4, <2>5 DEF IdsInv, ClientId
  <1> QED BY <1>3, <1>4, <1>6, <1>7, <1>8, <1>9

\* The server has taken a request h.
LEMMA RequestTaken ==
  ASSUME LifeInv, Premises, ServerStep, NEW h \in Messages, Taken(c2s, h, c2s'),
         \A j \in Nat : HasS(j) => HasS(j)',
         h.op = "create" => HasS(h.arg)',
         \A n \in 1 .. Len(c2s') : \A y \in Created : Asked(y) /\ Ready(y, n + 1) => Ready(y, n)'
  PROVE  /\ RequestGrowth' /\ RequestsInv'
         /\ \A j \in Nat : (Making(j)' => Making(j)) /\ Once(c2s', CreateId(j))
  <1>1. UNCHANGED <<cst, kind, id, last>>
    BY DEF ServerStep
  <1>2. RequestsInv'
    <2>1. \A n \in 1 .. Len(c2s') :
             /\ n + 1 \in 1 .. Len(c2s) /\ c2s'[n] = c2s[n + 1]
             /\ \A y \in Created : Asked(y) /\ Ready(y, n + 1) => Ready(y, n)'
      BY DEF Taken
    <2>2. \A y \in Created : Held(y) => Held(y)'
      BY ServerSame
    <2> QED BY <1>1, <2>1, <2>2, ServerSame, RequestsKept
  <1>3. RequestGrowth'
    <2>1. ASSUME NEW n \in 1 .. Len(c2s'), c2s'[n].op = "create",
                 NEW q \in Nat, q < c2s'[n].arg, ~HasS(q)'
          PROVE  Before(c2s', n, CreateId(q))
      <3>1. n + 1 \in 1 .. Len(c2s) /\ c2s'[n] = c2s[n + 1]
        BY DEF Taken
      <3>2. Before(c2s, n + 1, CreateId(q))
        BY <2>1, <3>1 DEF LifeInv, RequestGrowth
      <3>3. h \notin CreateId(q)
        BY <2>1, Classes
      <3> QED BY <3>2, <3>3 DEF Taken
    <2>2. ASSUME NEW q \in Nat, ClientId(q), HasC(q), ~HasS(q)' PROVE Making(q)'
      <3>1. Making(q) /\ h \notin CreateId(q)
        BY <2>2, Classes DEF LifeInv, RequestGrowth
      <3> QED BY <3>1 DEF Making, Taken
    <2> QED BY <2>1, <2>2, ServerSame DEF RequestGrowth, ClientId
  <1>4. ASSUME NEW j \in Nat PROVE (Making(j)' => Making(j)) /\ Once(c2s', CreateId(j))
    <2>1. Once(c2s, CreateId(j))
      BY DEF LifeInv, IdsInv, SentOnce
    <2> QED BY <2>1 DEF Making, Taken
  <1> QED BY <1>2, <1>3, <1>4

LEMMA RequestHead ==
  ASSUME LifeInv, c2s # <<>>
  PROVE  /\ Head(c2s) \in Messages /\ RequestOK(Head(c2s), 1) /\ Tail(c2s) \in Seq(Messages)
         /\ Taken(c2s, Head(c2s), Tail(c2s))
  <1>1. Head(c2s) \in Messages /\ Tail(c2s) \in Seq(Messages) /\ Taken(c2s, Head(c2s), Tail(c2s))
    BY TakeHead DEF LifeInv, TypesInv
  <1>2. 1 \in 1 .. Len(c2s) /\ c2s[1] = Head(c2s)
    BY <1>1 DEF Taken
  <1> QED BY <1>1, <1>2 DEF LifeInv, RequestsInv

\* The server sends nothing.
LEMMA NothingSent ==
  ASSUME LifeInv, Premises, ServerStep, UNCHANGED s2c,
         \A j \in Nat : ~ClientId(j) /\ HasS(j)' => HasS(j),
         \A y \in Created : \A j \in Nat : j = id[y] /\ S(j) = y => S(j)' = y
  PROVE  EventGrowth' /\ EventsInv'
  BY EventsLonger

\* A request that makes an object finds its id free.
LEMMA CreateRequest ==
  ASSUME LifeInv, Premises, NEW h \in Messages, 1 \in 1 .. Len(c2s), c2s[1] = h, ~Before(c2s, 1, CreateId(h.arg)),
         h.op = "create", RequestOK(h, 1),
         \A q \in Nat : ~Before(c2s, 1, CreateId(q))
  PROVE  /\ CanReserve(smap, h.arg) /\ CanInsertAt(smap, h.arg)
         /\ Space(h.arg) = "client" /\ ClientId(h.arg) /\ S(h.arg) = 0
         /\ ~Back(h.arg) /\ ~Pending(h.arg) /\ h.arg # 0
  <1>1. PICK i \in Nat : i = h.arg
    BY DEF Messages
  <1>2. Making(i)
    <2>1. h \in CreateId(i)
      BY <1>1, Classes
    <2> QED BY <2>1 DEF Making, Some
  <1>3. ClientId(i) /\ ~Back(i) /\ S(i) = 0 /\ ~Pending(i)
    BY <1>2 DEF LifeInv, IdsInv
  <1>4. i # 0
    <2>1. C(0) <= 0
      BY DEF LifeInv, MapsInv
    <2> QED BY <1>3, <2>1 DEF Back
  <1>5. smap \in MapOf("server") /\ "server" \in Sides /\ Space(i) = "client"
    BY <1>3, PlaceIs DEF LifeInv, MapsInv, Sides, ClientId
  <1>6. CanInsertAt(smap, i)
    <2>1. ASSUME NEW q \in Nat, q < i PROVE HasId(smap, q)
      <3>1. q < h.arg /\ ~Before(c2s, 1, CreateId(q))
        BY <1>1, <2>1
      <3>2. HasS(q)
        BY <3>1 DEF LifeInv, RequestGrowth
      <3> QED BY <3>2 DEF HasS
    <2> QED BY <1>5, <2>1, CanInsert
  <1>7. CanReserve(smap, i)
    <2>1. smap.side = "server" /\ Len(smap[Space(i)]) \in Nat
      BY <1>5, MapTypes DEF Sides
    <2>2. Place(i) <= Len(smap[Space(i)]) => smap[Space(i)][Place(i)] = 0
      <3>1. Place(i) \in Nat /\ Place(i) > 0
        BY PlaceIs
      <3>2. Place(i) <= Len(smap[Space(i)]) => HasId(smap, i)
        BY <2>1, <3>1 DEF HasId
      <3> QED BY <1>3, <3>2 DEF S, IdEntry
    <2> QED BY <1>5, <1>6, <2>1, <2>2 DEF CanReserve
  <1> QED BY <1>1, <1>3, <1>4, <1>5, <1>6, <1>7

LEMMA HandleCreate ==
  ASSUME LifeInv, Premises, ServerStep, UNCHANGED s2c, NEW h \in Messages, h.op = "create", RequestOK(h, 1),
         Taken(c2s, h, c2s'), smap' = wl_map_insert_at(smap, h.arg, h.argobj)
  PROVE  /\ ObjectsInv' /\ MapsInv' /\ ServerTable' /\ IdsInv'
         /\ RequestGrowth' /\ RequestsInv' /\ EventGrowth' /\ EventsInv'
  <1>1. PICK i, x : i = h.arg /\ x = h.argobj
    OBVIOUS
  <1>2. i \in Nat /\ x \in Created /\ x \in Nat /\ x > 0 /\ id[x] = i /\ kind[x] \in {"plain", "callback"} /\ Held(x)
    BY <1>1, LifeTypes DEF Messages, RequestOK, CreateOK
  <1>3. /\ CanInsertAt(smap, i) /\ Space(i) = "client" /\ ClientId(i) /\ S(i) = 0
        /\ ~Back(i) /\ ~Pending(i) /\ i # 0
    <2>1. 1 \in 1 .. Len(c2s) /\ c2s[1] = h /\ \A M : ~Before(c2s, 1, M)
      BY DEF Taken
    <2> QED BY <1>1, <2>1, CreateRequest
  <1>4. SmapAt(i, x)
    <2>1. smap \in MapOf("server") /\ FreePlaces(smap, {}) /\ "server" \in Sides /\ x \in Int
      BY <1>2 DEF LifeInv, MapsInv, Sides
    <2>2. smap' = wl_map_insert_at(smap, i, x)
      BY <1>1
    <2>3. /\ smap' \in MapOf("server")
          /\ \A j \in Nat : IdEntry(smap', j) = IF j = i THEN x ELSE IdEntry(smap, j)
          /\ \A j \in Nat : HasId(smap', j) <=> HasId(smap, j) \/ j = i
      BY <1>2, <1>3, <2>1, <2>2, InsertAtIs
    <2>4. FreePlaces(smap', {})
      BY <1>2, <1>3, <2>1, <2>2, ReplaceKeepsFree
    <2> QED BY <2>3, <2>4 DEF SmapAt, S, HasS
  <1>5. /\ \A j \in Nat : S(j)' = IF j = i THEN x ELSE S(j)
        /\ \A j \in Nat : HasS(j)' <=> HasS(j) \/ j = i
    BY <1>4 DEF SmapAt
  <1>6. UNCHANGED <<cst, kind, id, last, display_queue, deleting>>
    BY DEF ServerStep
  <1>7. \A y : h \in CreateOf(y) <=> y = x
    BY <1>1, Classes
  <1>8. ASSUME NEW y \in Created, NEW j \in Nat, j = id[y], S(j) = y PROVE S(j)' = y
    <2>1. y # 0
      BY LifeTypes
    <2> QED BY <1>3, <1>5, <1>8, <2>1
  <1>9. ASSUME NEW n \in 1 .. Len(c2s'), NEW y \in Created, Asked(y), Ready(y, n + 1) PROVE Ready(y, n)'
    <2>1. PICK j \in Nat : j = id[y] /\ j = id'[y]
      BY <1>6, LifeTypes
    <2>2. (S(j) = y \/ Before(c2s, n + 1, CreateOf(y))) /\ ~Before(c2s, n + 1, DestroyOf(y))
      BY <1>9, <2>1 DEF Ready
    <2>3. S(j)' = y \/ Before(c2s', n, CreateOf(y))
      <3>1. Before(c2s, n + 1, CreateOf(y)) => y = x \/ Before(c2s', n, CreateOf(y))
        BY <1>7 DEF Taken
      <3>2. y = x => S(j)' = y
        BY <1>2, <1>5, <2>1
      <3> QED BY <1>8, <2>1, <2>2, <3>1, <3>2
    <2>4. ~Before(c2s', n, DestroyOf(y))
      BY <2>2 DEF Taken
    <2> QED BY <2>1, <2>3, <2>4 DEF Ready
  <1>10. /\ RequestGrowth' /\ RequestsInv'
         /\ \A j \in Nat : (Making(j)' => Making(j)) /\ Once(c2s', CreateId(j))
    <2>1. (\A j \in Nat : HasS(j) => HasS(j)') /\ HasS(h.arg)'
      BY <1>1, <1>2, <1>5
    <2> QED BY <1>9, <2>1, RequestTaken
  <1>11. ObjectsInv' /\ MapsInv'
    <2>1. x \in Int /\ x >= 0
      BY <1>2
    <2> QED BY <1>2, <1>3, <1>4, <1>5, <2>1, ServerObjects, ServerMaps
  <1>12. EventGrowth' /\ EventsInv'
    BY <1>3, <1>5, <1>8, NothingSent
  <1>13. ServerTable'
    <2>1. ASSUME NEW j \in Nat, S(j)' > 0
          PROVE  S(j)' \in Created /\ id[S(j)'] = j /\ Held(S(j))' /\ (ClientId(j) => ~Back(j)')
      <3>1. PICK z : z = IF j = i THEN x ELSE S(j)
        OBVIOUS
      <3>2. S(j)' = z
        BY <1>5, <3>1
      <3>3. z \in Created /\ id[z] = j /\ Held(z) /\ (ClientId(j) => ~Back(j))
        BY <1>2, <1>3, <2>1, <3>1, <3>2 DEF LifeInv, ServerTable
      <3>4. Held(z)' /\ (ClientId(j) => ~Back(j)')
        BY <3>3, ServerSame
      <3> QED BY <3>2, <3>3, <3>4
    <2>2. S(1)' = display /\ S(2)' = device
      <3>1. S(1) = display /\ S(2) = device /\ display # 0 /\ device # 0
        BY LifeTypes DEF LifeInv, ServerTable
      <3> QED BY <1>3, <1>5, <3>1
    <2>3. ASSUME NEW y \in Created, Offer(y), cst[y] # "destroyed" PROVE S(id[y])' = y
      <3>1. PICK j \in Nat : j = id[y] /\ j = id'[y]
        BY <1>6, LifeTypes
      <3>2. S(j) = y
        BY <2>3, <3>1 DEF LifeInv, ServerTable
      <3> QED BY <1>8, <3>1, <3>2
    <2>4. ASSUME NEW y \in Created, kind[y] = "plain", cst[y] = "live"
          PROVE  S(id[y])' = y \/ Some(c2s', CreateOf(y))
      <3>1. PICK j \in Nat : j = id[y] /\ j = id'[y]
        BY <1>6, LifeTypes
      <3>2. S(j) = y \/ Some(c2s, CreateOf(y))
        BY <2>4, <3>1 DEF LifeInv, ServerTable
      <3>3. Some(c2s, CreateOf(y)) => y = x \/ Some(c2s', CreateOf(y))
        BY <1>7 DEF Taken
      <3>4. y = x => S(j)' = y
        BY <1>2, <1>5, <3>1
      <3> QED BY <1>8, <3>1, <3>2, <3>3, <3>4
    <2>5. \A y \in Created : cst[y] = "none" => Some(s2c, OfferId(id[y]))
      BY DEF LifeInv, ServerTable
    <2> QED BY <1>6, <2>1, <2>2, <2>3, <2>4, <2>5, ServerSame DEF ServerTable, ClientId
  <1>14. IdsInv'
    <2>1. \A j : Pending(j)' <=> Pending(j)
      BY <1>6 DEF Pending
    <2>2. ~Making(i)'
      <3>1. h \in CreateId(i) /\ Once(c2s, CreateId(i))
        BY <1>1, <1>2, Classes DEF LifeInv, IdsInv, SentOnce
      <3> QED BY <3>1 DEF Making, Taken
    <2>3. ASSUME NEW j \in Nat, Pending(j)' PROVE ClientId(j) /\ ~Back(j)' /\ S(j)' = 0
      BY <1>3, <1>5, <2>1, <2>3, ServerSame DEF LifeInv, IdsInv
    <2>4. ASSUME NEW j \in Nat, Making(j)' PROVE ClientId(j) /\ ~Back(j)' /\ S(j)' = 0 /\ ~Pending(j)'
      BY <1>5, <1>10, <2>1, <2>2, <2>4, ServerSame DEF LifeInv, IdsInv
    <2>5. ASSUME NEW j \in Nat PROVE SentOnce(j)'
      <3>1. SentOnce(j)
        BY DEF LifeInv, IdsInv
      <3> QED BY <1>6, <1>10, <3>1 DEF SentOnce
    <2> QED BY <2>3, <2>4, <2>5 DEF IdsInv, ClientId
  <1> QED BY <1>10, <1>11, <1>12, <1>13, <1>14

LEMMA HandleUse ==
  ASSUME LifeInv, Premises, ServerStep, UNCHANGED <<smap, s2c>>, NEW h \in Messages, h.op = "use",
         Taken(c2s, h, c2s')
  PROVE  /\ ObjectsInv' /\ MapsInv' /\ ServerTable' /\ IdsInv'
         /\ RequestGrowth' /\ RequestsInv' /\ EventGrowth' /\ EventsInv'
  <1>1. Calm
    BY DEF Calm, ServerStep, LifeInv, TypesInv
  <1>2. \A j : h \notin CreateOf(j)
    BY Classes
  <1>3. ObjectsInv' /\ MapsInv' /\ ServerTable'
    BY <1>1, <1>2, CalmKeeps DEF Taken
  <1>4. EventGrowth' /\ EventsInv'
    BY <1>1, SameEvents
  <1>5. /\ RequestGrowth' /\ RequestsInv'
        /\ \A j \in Nat : (Making(j)' => Making(j)) /\ Once(c2s', CreateId(j))
    <2>1. id' = id
      BY DEF ServerStep
    <2>2. \A n \in 1 .. Len(c2s') : \A y \in Created : Asked(y) /\ Ready(y, n + 1) => Ready(y, n)'
      BY <1>1, <1>2, <2>1, CalmSame DEF Ready, Taken
    <2> QED BY <1>1, <2>2, CalmSame, RequestTaken
  <1>6. IdsInv'
    <2>1. ASSUME NEW j \in Nat PROVE (Pending(j)' => Pending(j)) /\ SentOnce(j)'
      <3>1. SentOnce(j)
        BY DEF LifeInv, IdsInv
      <3> QED BY <1>5, <3>1 DEF SentOnce, Pending, ServerStep
    <2> QED BY <1>1, <1>5, <2>1, CalmSame, IdsKept
  <1> QED BY <1>3, <1>4, <1>5, <1>6

\* The message with which the server gives an id back
LEMMA DeleteMessage ==
  ASSUME LifeInv, Premises, NEW i \in Nat
  PROVE  \E e \in Messages : /\ e = Message("delete_id", display, i, NoObject)
                             /\ e.op = "delete_id" /\ e.obj = display /\ e.id = 1 /\ e.arg = i
                             /\ \A j : (e \in DeleteId(j) <=> j = i) /\ e \notin OfferId(j)
  <1>1. display \in Created /\ NoObject \in Nat /\ "delete_id" \in Ops /\ id[display] = 1
    BY LifeTypes DEF NoObject, Ops, LifeInv, ObjectsInv
  <1>2. PICK e : e = Message("delete_id", display, i, NoObject)
    OBVIOUS
  <1>3. e \in Messages /\ e.op = "delete_id" /\ e.id = id[display] /\ e.obj = display /\ e.arg = i
    <2>1. /\ Message("delete_id", display, i, NoObject) \in Messages
          /\ Message("delete_id", display, i, NoObject).op = "delete_id"
          /\ Message("delete_id", display, i, NoObject).id = id[display]
          /\ Message("delete_id", display, i, NoObject).obj = display
          /\ Message("delete_id", display, i, NoObject).arg = i
      BY <1>1, MessageTypes
    <2> QED BY <1>2, <2>1
  <1> QED BY <1>1, <1>2, <1>3, Classes

LEMMA HandleDestroy ==
  ASSUME LifeInv, Premises, ServerStep, NEW h \in Messages, h.op = "destroy", RequestOK(h, 1),
         Taken(c2s, h, c2s'), DestroyResource(h.obj, <<>>)
  PROVE  /\ ObjectsInv' /\ MapsInv' /\ ServerTable' /\ IdsInv' /\ s2c' \in Seq(Messages)
         /\ RequestGrowth' /\ RequestsInv' /\ EventGrowth' /\ EventsInv'
  <1>1. PICK x, i : x = h.obj /\ i = id[x]
    OBVIOUS
  <1>2. /\ x \in Created \ {display, device} /\ i \in Nat /\ S(i) = x /\ x \in Nat /\ x > 0
        /\ kind[x] = "plain" => cst[x] # "live"
        /\ Offer(x) => cst[x] = "destroyed"
    <2>1. DestroyOK(h, 1)
      BY DEF RequestOK
    <2>2. ~Before(c2s, 1, CreateOf(x))
      BY DEF Taken
    <2>3. x \in Created \ {display, device} /\ S(id[x]) = x /\ cst[x] \in {"leaving", "destroyed"}
      BY <1>1, <2>1, <2>2 DEF DestroyOK, Ready
    <2>4. x \in Nat /\ x > 0 /\ id[x] \in Nat
      BY <2>3, LifeTypes
    <2>5. cst[x] = "leaving" => kind[x] = "plain"
      BY <2>3 DEF LifeInv, ObjectsInv
    <2>6. /\ kind[x] = "plain" => cst[x] # "live"
          /\ Offer(x) => cst[x] = "destroyed"
      BY <2>3, <2>5 DEF Offer
    <2> QED BY <1>1, <2>3, <2>4, <2>6
  <1>3. PICK e \in Messages : /\ e = Message("delete_id", display, i, NoObject)
                              /\ e.op = "delete_id" /\ e.obj = display /\ e.id = 1 /\ e.arg = i
                              /\ \A j : (e \in DeleteId(j) <=> j = i) /\ e \notin OfferId(j)
    BY <1>2, DeleteMessage
  <1>4. s2c \in Seq(Messages)
    BY DEF LifeInv, TypesInv
  <1>5. /\ SmapLets(i)
        /\ \/ ClientId(i) /\ s2c' = Append(s2c, e)
           \/ ~ClientId(i) /\ s2c' = s2c
    <2>1. CASE ClientId(i)
      <3>1. smap' = wl_map_insert_at(smap, i, 0) /\ s2c' = s2c \o (<<>> \o <<e>>)
        BY <1>1, <1>3, <2>1 DEF DestroyResource, SendEvents, ClientId
      <3>2. <<>> \o <<e>> = <<e>>
        OBVIOUS
      <3>3. s2c' = Append(s2c, e)
        BY <1>3, <1>4, <3>1, <3>2, AppendOne
      <3> QED BY <2>1, <3>1, <3>3 DEF SmapLets
    <2>2. CASE ~ClientId(i)
      <3>1. smap' = wl_map_remove(smap, i) /\ s2c' = s2c \o <<>>
        BY <1>1, <2>2 DEF DestroyResource, SendEvents, ClientId
      <3>2. s2c \o <<>> = s2c
        BY <1>4
      <3> QED BY <2>2, <3>1, <3>2 DEF SmapLets
    <2> QED BY <2>1, <2>2
  <1>6. /\ s2c' \in Seq(Messages)
        /\ \A j : Some(s2c', OfferId(j)) <=> Some(s2c, OfferId(j))
        /\ \A j : Some(s2c', DeleteId(j)) <=> Some(s2c, DeleteId(j)) \/ (j = i /\ ClientId(i))
        /\ \A j \in Nat : Once(s2c', OfferId(j)) /\ Once(s2c', DeleteId(j))
        /\ \A j : \A n \in 1 .. Len(s2c) :
              /\ Before(s2c', n, OfferId(j)) <=> Before(s2c, n, OfferId(j))
              /\ After(s2c', n, DeleteId(j)) <=> After(s2c, n, DeleteId(j)) \/ (j = i /\ ClientId(i))
        /\ \A n \in 1 .. Len(s2c') :
              \/ n \in 1 .. Len(s2c) /\ s2c'[n] = s2c[n]
              \/ s2c'[n] = e
    <2>1. \A j \in Nat : Once(s2c, OfferId(j)) /\ Once(s2c, DeleteId(j))
      BY DEF LifeInv, IdsInv, SentOnce
    <2>2. CASE ClientId(i) /\ s2c' = Append(s2c, e)
      <3>1. s2c' \in Seq(Messages) /\ Added(s2c, e, s2c')
        BY <1>4, <2>2, AddLast
      <3>2. ~Some(s2c, DeleteId(i))
        <4>1. ~Pending(i)
          BY <1>2 DEF LifeInv, IdsInv
        <4> QED BY <4>1 DEF Pending
      <3> QED BY <1>3, <2>1, <2>2, <3>1, <3>2 DEF Added
    <2>3. CASE ~ClientId(i) /\ s2c' = s2c
      BY <1>4, <2>1, <2>3
    <2> QED BY <1>5, <2>2, <2>3
  <1>7. \A j : h \notin CreateOf(j) /\ h \notin CreateId(j)
    BY Classes
  <1>8. ObjectsInv' /\ MapsInv' /\ ServerTable' /\ IdsInv'
        /\ (\A j \in Nat : HasS(j)' <=> HasS(j)) /\ \A j \in Nat : j # i => S(j)' = S(j)
    <2>1. \A j \in Nat : (Making(j)' => Making(j)) /\ Once(c2s', CreateId(j))
      BY DEF Making, Taken, LifeInv, IdsInv, SentOnce
    <2>2. \A y \in Created : Some(c2s, CreateOf(y)) => Some(c2s', CreateOf(y))
      BY <1>7 DEF Taken
    <2> QED BY <1>1, <1>2, <1>5, <1>6, <2>1, <2>2, ResourceGone
  <1>9. RequestGrowth' /\ RequestsInv'
    <2>1. ASSUME NEW n \in 1 .. Len(c2s'), NEW y \in Created, Ready(y, n + 1) PROVE Ready(y, n)'
      <3>1. id' = id
        BY DEF ServerStep
      <3>2. PICK j \in Nat : j = id[y] /\ j = id'[y]
        BY <3>1, LifeTypes
      <3>3. (S(j) = y \/ Before(c2s, n + 1, CreateOf(y))) /\ ~Before(c2s, n + 1, DestroyOf(y))
        BY <2>1, <3>2 DEF Ready
      <3>4. ~Before(c2s', n, DestroyOf(y)) /\ y # x
        BY <1>1, <3>3, Classes DEF Taken
      <3>5. S(j) = y => S(j)' = y
        BY <1>2, <1>8, <3>4
      <3>6. Before(c2s, n + 1, CreateOf(y)) => Before(c2s', n, CreateOf(y))
        BY <1>7 DEF Taken
      <3> QED BY <3>2, <3>3, <3>4, <3>5, <3>6 DEF Ready
    <2> QED BY <1>8, <2>1, RequestTaken
  <1>10. EventGrowth' /\ EventsInv'
    <2>1. \A n \in 1 .. Len(s2c') : \/ s2c'[n].op # "offer" /\ ArrivalOK(s2c[n], n)'
                                    \/ n \in 1 .. Len(s2c) /\ s2c'[n] = s2c[n]
      <3>1. ASSUME NEW n \in 1 .. Len(s2c'), s2c'[n] = e PROVE s2c'[n].op # "offer" /\ ArrivalOK(s2c[n], n)'
        BY <1>3, <3>1 DEF ArrivalOK
      <3> QED BY <1>6, <3>1
    <2>2. ASSUME NEW n \in 1 .. Len(s2c), NEW y \in Created, NEW j \in Nat, j = id[y], ~Offer(y),
                 S(j) = y \/ After(s2c, n, DeleteId(j))
          PROVE  S(j)' = y \/ After(s2c', n, DeleteId(j))
      <3>1. CASE j = i
        <4>1. ClientId(j)
          BY <2>2 DEF LifeInv, ObjectsInv
        <4> QED BY <1>6, <3>1, <4>1
      <3>2. CASE j # i
        BY <1>6, <1>8, <2>2, <3>2
      <3> QED BY <3>1, <3>2
    <2> QED BY <1>6, <1>8, <2>1, <2>2, EventsLonger
  <1> QED BY <1>6, <1>8, <1>9, <1>10

LEMMA HandleRequestKeeps ==
  ASSUME LifeInv, Premises, HandleRequest
  PROVE  LifeInv'
  <1>1. PICK h : h = Head(c2s)
    OBVIOUS
  <1>2. /\ c2s # <<>> /\ c2s' = Tail(c2s) /\ UNCHANGED <<cmap, clientVars, objectVars, failed>>
    BY DEF HandleRequest
  <1>3. h \in Messages /\ RequestOK(h, 1) /\ c2s' \in Seq(Messages) /\ Taken(c2s, h, c2s')
    BY <1>1, <1>2, RequestHead
  <1>4. ServerStep
    BY <1>2 DEF ServerStep, clientVars, objectVars
  <1>5. 1 \in 1 .. Len(c2s) /\ c2s[1] = h /\ \A M : ~Before(c2s, 1, M)
    BY <1>3 DEF Taken
  <1>6. \A z \in Created : \A j \in Nat : S(j) = z => wl_map_lookup(smap, j) = z /\ z # 0
    <2>1. \A z \in Created : ~(z < 0) /\ z # 0
      BY LifeTypes
    <2> QED BY <2>1, LookupIs
  <1>7. S(1) = display /\ S(2) = device /\ display \in Created /\ device \in Created
    BY LifeTypes DEF LifeInv, ServerTable
  <1>8. /\ ObjectsInv' /\ MapsInv' /\ ServerTable' /\ IdsInv' /\ s2c' \in Seq(Messages)
        /\ RequestGrowth' /\ RequestsInv' /\ EventGrowth' /\ EventsInv' /\ serror' = serror
    <2>1. CASE h.op = "create"
      <3>1. h.id = 1 /\ CanReserve(smap, h.arg)
        BY <1>3, <1>5, <2>1, CreateRequest DEF RequestOK, CreateOK
      <3>2. ~BadRequest(h)
        BY <1>6, <1>7, <2>1, <3>1 DEF BadRequest
      <3>3. smap' = wl_map_insert_at(smap, h.arg, h.argobj) /\ UNCHANGED <<s2c, serror>>
        BY <1>1, <2>1, <3>2 DEF HandleRequest
      <3> QED BY <1>3, <1>4, <2>1, <3>3, HandleCreate DEF LifeInv, TypesInv
    <2>2. CASE h.op = "use"
      <3>1. h.id = 2 /\ h.arg \in Nat /\ h.argobj \in Created /\ S(h.arg) = h.argobj
        BY <1>3, <1>5, <2>2 DEF RequestOK, UseOK, Ready, Messages
      <3>2. ~BadRequest(h)
        BY <1>6, <1>7, <2>2, <3>1 DEF BadRequest
      <3>3. UNCHANGED <<smap, s2c, serror>>
        BY <1>1, <2>2, <3>2 DEF HandleRequest
      <3> QED BY <1>3, <1>4, <2>2, <3>3, HandleUse DEF LifeInv, TypesInv
    <2>3. CASE h.op = "destroy"
      <3>1. h.id \in Nat /\ h.obj \in Created /\ S(h.id) = h.obj
        BY <1>3, <1>5, <2>3 DEF RequestOK, DestroyOK, Ready, Messages
      <3>2. ~BadRequest(h) /\ wl_map_lookup(smap, h.id) = h.obj
        BY <1>6, <2>3, <3>1 DEF BadRequest
      <3>3. DestroyResource(h.obj, <<>>) /\ UNCHANGED serror
        BY <1>1, <2>3, <3>2 DEF HandleRequest
      <3> QED BY <1>3, <1>4, <2>3, <3>3, HandleDestroy
    <2> QED BY <1>3, <2>1, <2>2, <2>3 DEF RequestOK
  <1>9. TypesInv'
    BY <1>2, <1>3, <1>8 DEF LifeInv, TypesInv, clientVars, objectVars, Created
  <1> QED BY <1>4, <1>8, <1>9, ServerSame DEF LifeInv

LEMMA PostDoneKeeps ==
  ASSUME LifeInv, Premises, NEW x \in Created \ {display}, PostDone(x)
  PROVE  LifeInv'
  <1>1. PICK i, d, n : i = id[x] /\ d = Message("done", x, 0, NoObject) /\ n = Len(s2c) + 1
    OBVIOUS
  <1>2. /\ kind[x] = "callback" /\ Resource(x) /\ DestroyResource(x, <<d>>)
        /\ UNCHANGED <<cmap, c2s, clientVars, objectVars, failed, serror>>
    BY <1>1 DEF PostDone
  <1>3. x \in Created \ {display, device} /\ i \in Nat /\ ClientId(i) /\ S(i) = x /\ ~Offer(x)
    <2>1. x # device /\ ~Offer(x) /\ ClientId(id[x])
      BY <1>2 DEF LifeInv, ObjectsInv, Offer
    <2>2. x \in Nat /\ x > 0 /\ id[x] \in Nat
      BY LifeTypes
    <2> QED BY <1>1, <1>2, <2>1, <2>2, LookupIs DEF Resource
  <1>4. /\ d \in Messages /\ d.op = "done" /\ d.id = i /\ d.obj = x /\ d.arg = 0
        /\ \A j : d \notin DeleteId(j) /\ d \notin OfferId(j)
    <2>1. x \in Created /\ NoObject \in Nat /\ 0 \in Nat /\ "done" \in Ops
      BY DEF NoObject, Ops
    <2>2. /\ Message("done", x, 0, NoObject) \in Messages
          /\ Message("done", x, 0, NoObject).op = "done" /\ Message("done", x, 0, NoObject).id = id[x]
          /\ Message("done", x, 0, NoObject).obj = x /\ Message("done", x, 0, NoObject).arg = 0
      BY <2>1, MessageTypes
    <2>3. d \in Messages /\ d.op = "done" /\ d.id = i /\ d.obj = x /\ d.arg = 0
      BY <1>1, <2>2
    <2> QED BY <2>3, Classes
  <1>5. PICK e \in Messages : /\ e = Message("delete_id", display, i, NoObject)
                              /\ e.op = "delete_id" /\ e.obj = display /\ e.id = 1 /\ e.arg = i
                              /\ \A j : (e \in DeleteId(j) <=> j = i) /\ e \notin OfferId(j)
    BY <1>3, DeleteMessage
  <1>6. PICK q : q = Append(s2c, d)
    OBVIOUS
  <1>7. SmapLets(i) /\ s2c' = Append(q, e)
    <2>1. smap' = wl_map_insert_at(smap, i, 0) /\ s2c' = s2c \o (<<d>> \o <<e>>)
      BY <1>1, <1>2, <1>3, <1>5 DEF DestroyResource, SendEvents, ClientId
    <2> QED BY <1>3, <1>4, <1>5, <1>6, <2>1, AppendTwo DEF SmapLets, LifeInv, TypesInv
  <1>8. q \in Seq(Messages) /\ Added(s2c, d, q) /\ s2c' \in Seq(Messages) /\ Added(q, e, s2c')
    <2>1. q \in Seq(Messages) /\ Added(s2c, d, q)
      BY <1>4, <1>6, AddLast DEF LifeInv, TypesInv
    <2> QED BY <1>5, <1>7, <2>1, AddLast
  <1>9. /\ \A j : Some(s2c', OfferId(j)) <=> Some(s2c, OfferId(j))
        /\ \A j : Some(s2c', DeleteId(j)) <=> Some(s2c, DeleteId(j)) \/ j = i
        /\ \A j \in Nat : Once(s2c', OfferId(j)) /\ Once(s2c', DeleteId(j))
    <2>1. \A j : /\ Some(q, OfferId(j)) <=> Some(s2c, OfferId(j))
                 /\ Some(q, DeleteId(j)) <=> Some(s2c, DeleteId(j))
      BY <1>4, <1>8 DEF Added
    <2>2. \A j \in Nat : Once(q, OfferId(j)) /\ Once(q, DeleteId(j))
      BY <1>4, <1>8 DEF Added, LifeInv, IdsInv, SentOnce
    <2>3. ~Some(s2c, DeleteId(i))
      <3>1. S(i) # 0
        BY <1>3, LifeTypes
      <3>2. ~Pending(i)
        BY <1>3, <3>1 DEF LifeInv, IdsInv
      <3> QED BY <3>2 DEF Pending
    <2> QED BY <1>5, <1>8, <2>1, <2>2, <2>3 DEF Added
  <1>10. /\ n \in 1 .. Len(q) /\ q[n] = d /\ Len(q) = n
         /\ \A k \in 1 .. Len(s2c) :
               /\ k \in 1 .. Len(q) /\ q[k] = s2c[k] /\ k # n
         /\ \A k \in 1 .. Len(q) : k = n \/ k \in 1 .. Len(s2c)
    <2>1. Len(s2c) \in Nat
      BY DEF LifeInv, TypesInv
    <2> QED BY <1>1, <1>8, <2>1 DEF Added
  <1>11. /\ \A j : \A k \in 1 .. Len(s2c) :
               /\ Before(s2c', k, OfferId(j)) <=> Before(s2c, k, OfferId(j))
               /\ After(s2c', k, DeleteId(j)) <=> After(s2c, k, DeleteId(j)) \/ j = i
         /\ After(s2c', n, DeleteId(i))
    <2>1. \A j : \A k \in 1 .. Len(s2c) :
             /\ Before(q, k, OfferId(j)) <=> Before(s2c, k, OfferId(j))
             /\ After(q, k, DeleteId(j)) <=> After(s2c, k, DeleteId(j))
      BY <1>4, <1>8 DEF Added
    <2>2. \A j : \A k \in 1 .. Len(q) :
             /\ Before(s2c', k, OfferId(j)) <=> Before(q, k, OfferId(j))
             /\ After(s2c', k, DeleteId(j)) <=> After(q, k, DeleteId(j)) \/ j = i
      BY <1>5, <1>8 DEF Added
    <2> QED BY <1>10, <2>1, <2>2
  <1>12. \A k \in 1 .. Len(s2c') : \/ k \in 1 .. Len(s2c) /\ s2c'[k] = s2c[k]
                                   \/ k = n /\ s2c'[k] = d
                                   \/ s2c'[k] = e
    <2>1. \A k \in 1 .. Len(s2c') : s2c'[k] = e \/ (k \in 1 .. Len(q) /\ s2c'[k] = q[k])
      BY <1>8 DEF Added
    <2> QED BY <1>10, <2>1
  <1>13. ServerStep
    BY <1>2 DEF ServerStep, clientVars, objectVars
  <1>14. /\ ObjectsInv' /\ MapsInv' /\ ServerTable' /\ IdsInv'
         /\ \A j \in Nat : HasS(j)' <=> HasS(j)
         /\ \A j \in Nat : j # i => S(j)' = S(j)
    <2>1. \A j \in Nat : (Making(j)' => Making(j)) /\ Once(c2s', CreateId(j))
      BY <1>2 DEF Making, LifeInv, IdsInv, SentOnce
    <2>2. kind[x] # "plain"
      BY <1>2
    <2>3. \A y \in Created : Some(c2s, CreateOf(y)) => Some(c2s', CreateOf(y))
      BY <1>2
    <2> QED BY <1>1, <1>3, <1>7, <1>9, <1>13, <2>1, <2>2, <2>3, ResourceGone
  <1>15. RequestGrowth' /\ RequestsInv'
    <2>1. ASSUME NEW y \in Created, Asked(y), S(id[y]) = y PROVE S(id[y])' = y
      <3>1. PICK j \in Nat : j = id[y] /\ j = id'[y]
        BY <1>2, LifeTypes DEF objectVars
      <3>2. j # i
        BY <1>2, <1>3, <2>1, <3>1 DEF Asked
      <3>3. S(j)' = y
        BY <1>14, <2>1, <3>1, <3>2
      <3> QED BY <3>1, <3>3
    <2> QED BY <1>2, <1>13, <1>14, <2>1, RequestsWait
  <1>16. EventGrowth' /\ EventsInv'
    <2>1. DoneOK(d, n)'
      <3>1. id'[x] = i /\ kind'[x] = "callback"
        BY <1>1, <1>2 DEF objectVars
      <3>2. Held(x)
        <4>1. S(i) > 0
          BY <1>3, LifeTypes
        <4> QED BY <1>3, <4>1 DEF LifeInv, ServerTable
      <3>3. Held(x)' /\ ~Offer(x)' /\ x \in Created' \ {display}
        BY <1>3, <1>13, <3>2, ServerSame
      <3>4. Mention(x, n)'
        BY <1>11, <3>1, <3>3 DEF Mention
      <3> QED BY <1>4, <3>1, <3>4 DEF DoneOK
    <2>2. \A k \in 1 .. Len(s2c') : \/ s2c'[k].op # "offer" /\ ArrivalOK(s2c[k], k)'
                                    \/ k \in 1 .. Len(s2c) /\ s2c'[k] = s2c[k]
      <3>1. ASSUME NEW k \in 1 .. Len(s2c'), s2c'[k] = e PROVE s2c'[k].op # "offer" /\ ArrivalOK(s2c[k], k)'
        BY <1>5, <3>1 DEF ArrivalOK
      <3>2. ASSUME NEW k \in 1 .. Len(s2c'), k = n, s2c'[k] = d
            PROVE  s2c'[k].op # "offer" /\ ArrivalOK(s2c[k], k)'
        BY <1>4, <2>1, <3>2 DEF ArrivalOK
      <3> QED BY <1>12, <3>1, <3>2
    <2>3. ASSUME NEW k \in 1 .. Len(s2c), NEW y \in Created, NEW j \in Nat, j = id[y],
                 S(j) = y \/ After(s2c, k, DeleteId(j))
          PROVE  S(j)' = y \/ After(s2c', k, DeleteId(j))
      BY <1>11, <1>14, <2>3
    <2> QED BY <1>9, <1>11, <1>13, <1>14, <2>2, <2>3, EventsLonger
  <1>17. TypesInv'
    BY <1>2, <1>8 DEF LifeInv, TypesInv, clientVars, objectVars, Created
  <1> QED BY <1>13, <1>14, <1>15, <1>16, <1>17, ServerSame DEF LifeInv

LEMMA PostOfferKeeps ==
  ASSUME LifeInv, Premises, PostOffer
  PROVE  LifeInv'
  <1>1. PICK i, x, n, m : /\ i = NewId(smap) /\ x = last + 1 /\ n = Len(s2c) + 1
                          /\ m = Message("offer", device, i, x)
    OBVIOUS
  <1>2. /\ NewObject("offer", i) /\ last' = x
        /\ smap' = wl_map_insert_at(wl_map_insert_new(smap, 0), i, x)
        /\ s2c' = s2c \o <<m>>
        /\ UNCHANGED <<cmap, c2s, clientVars, failed, serror>>
    BY <1>1 DEF PostOffer, NewObject, SendEvents
  <1>3. x \in Nat /\ x > 0
    <2>1. last \in Nat /\ last >= 3
      BY LifeTypes
    <2> QED BY <1>1, <2>1
  <1>4. /\ i \in Nat /\ Space(i) = "server" /\ S(i) <= 0
        /\ \A q \in Nat : Space(q) = "server" /\ q < i => HasS(q)
        /\ SmapAt(i, x)
    <2>1. smap \in MapOf("server") /\ FreePlaces(smap, {}) /\ "server" \in Sides /\ x \in Int
          /\ "server" # "client"
      BY <1>3 DEF LifeInv, MapsInv, Sides
    <2>2. smap' = wl_map_insert_new(smap, x)
      BY <1>1, <1>2, <1>3, <2>1, InsertTwice
    <2> QED BY <1>1, <1>3, <2>1, <2>2, InsertNewIs DEF S, HasS, SmapAt
  <1>5. ~ClientId(i) /\ i # 0
    <2>1. WL_SERVER_ID_START \in Nat /\ WL_SERVER_ID_START > 1
      BY LifeTypes
    <2> QED BY <1>4, <2>1, PlaceIs DEF ClientId
  <1>6. /\ \A j \in Nat : S(j)' = IF j = i THEN x ELSE S(j)
        /\ \A j \in Nat : HasS(j)' <=> HasS(j) \/ j = i
    BY <1>4 DEF SmapAt
  <1>7. /\ x \in Nat /\ x > 3 /\ x \in Numbers /\ x \notin Created /\ Created' = Created \cup {x}
        /\ last' = x /\ last' \in Numbers /\ last < MaxObjects /\ cst[x] = "none"
        /\ kind' \in [Created' -> Kinds \cup {"display"}] /\ id' \in [Created' -> Nat]
        /\ kind'[x] = "offer" /\ id'[x] = i /\ ObjectsStay
        /\ \A y \in Created : y # x /\ (Offer(y)' <=> Offer(y)) /\ id'[y] = id[y] /\ kind'[y] = kind[y]
        /\ \A y \in Created' : y \in Created \/ y = x
    <2>1. "offer" \in Kinds
      BY DEF Kinds
    <2> QED BY <1>1, <1>2, <1>4, <2>1, NewObjectIs
  <1>8. UNCHANGED <<cst, iddel, deleting, display_queue, queue, refcount>>
    BY <1>2 DEF clientVars
  <1>9. \A j : C(j)' = C(j) /\ (HasC(j)' <=> HasC(j)) /\ (Back(j)' <=> Back(j))
    BY <1>2, <1>8, TablesSame DEF Back
  <1>10. \A y : Gone(y)' <=> Gone(y)
    BY <1>8 DEF Gone
  <1>11. ASSUME NEW y \in Created, NEW j \in Nat, j = id[y], S(j) = y PROVE j # i /\ S(j)' = y
    <2>1. y \in Nat /\ ~(y <= 0)
      BY LifeTypes
    <2>2. j # i
      BY <1>4, <1>11, <2>1
    <2> QED BY <1>6, <1>11, <2>2
  <1>12. ASSUME NEW y \in Created, Held(y) PROVE Held(y)'
    <2>1. PICK j \in Nat : j = id[y] /\ j = id'[y]
      BY <1>7, LifeTypes
    <2>2. C(j)' = C(j) /\ (Gone(y)' <=> Gone(y)) /\ (Offer(y)' <=> Offer(y))
      BY <1>7, <1>9, <1>10
    <2> QED BY <1>12, <2>1, <2>2 DEF Held
  <1>13. C(i) = 0
    <2>1. C(i) \in Int /\ C(i) >= 0
      BY <1>4, <1>5, LifeTypes DEF LifeInv, MapsInv
    <2>2. ASSUME C(i) > 0 PROVE FALSE
      <3>1. PICK z \in Created : z = C(i) /\ id[z] = i /\ ~Gone(z)
        BY <1>4, <1>5, <2>2 DEF LifeInv, ClientTable
      <3>2. Offer(z)
        BY <1>5, <3>1 DEF LifeInv, ObjectsInv
      <3>3. S(i) = z
        BY <3>1, <3>2 DEF LifeInv, ServerTable, Gone
      <3>4. z \in Nat /\ ~(z <= 0)
        BY LifeTypes
      <3> QED BY <1>4, <3>3, <3>4
    <2> QED BY <2>1, <2>2
  <1>14. Held(x)' /\ Offer(x)' /\ Gone(x)'
    <2>1. C(i)' = 0 /\ Gone(x)' /\ Offer(x)' /\ i = id'[x]
      BY <1>7, <1>8, <1>9, <1>13 DEF Gone, Offer
    <2> QED BY <2>1 DEF Held
  <1>15. /\ m \in Messages /\ m.op = "offer" /\ m.id = 2 /\ m.obj = device /\ m.arg = i /\ m.argobj = x
         /\ \A j : (m \in OfferId(j) <=> j = i) /\ m \notin DeleteId(j)
    <2>1. device \in Created /\ "offer" \in Ops /\ id[device] = 2
      BY LifeTypes DEF Ops, LifeInv, ObjectsInv
    <2>2. /\ Message("offer", device, i, x) \in Messages /\ Message("offer", device, i, x).op = "offer"
          /\ Message("offer", device, i, x).id = id[device] /\ Message("offer", device, i, x).obj = device
          /\ Message("offer", device, i, x).arg = i /\ Message("offer", device, i, x).argobj = x
      BY <1>4, <1>7, <2>1, MessageTypes
    <2>3. m \in Messages /\ m.op = "offer" /\ m.id = 2 /\ m.obj = device /\ m.arg = i /\ m.argobj = x
      BY <1>1, <2>1, <2>2
    <2> QED BY <2>3, Classes
  <1>16. s2c' \in Seq(Messages) /\ Added(s2c, m, s2c')
    <2>1. s2c \in Seq(Messages)
      BY DEF LifeInv, TypesInv
    <2>2. s2c' = Append(s2c, m)
      BY <1>2, <1>15, <2>1, AppendOne
    <2> QED BY <1>15, <2>1, <2>2, AddLast
  <1>17. TypesInv'
    BY <1>2, <1>7, <1>8, <1>16 DEF LifeInv, TypesInv
  <1>18. ObjectsInv'
    <2>1. /\ \A y \in Created' : kind'[y] = "display" <=> y = display
          /\ device \in Created' /\ kind'[device] = "plain" /\ id'[display] = 1 /\ id'[device] = 2
      <3>1. kind'[x] # "display" /\ x # display /\ display \in Created /\ device \in Created
        BY <1>7, LifeTypes
      <3> QED BY <1>7, <3>1 DEF LifeInv, ObjectsInv
    <2>2. ASSUME NEW y \in Created'
          PROVE  IF Offer(y)' THEN ~ClientId(id'[y]) /\ HasS(id[y])' ELSE ClientId(id'[y]) /\ HasC(id[y])'
      <3>1. PICK j \in Nat : j = id'[y]
        BY <1>7
      <3>2. IF Offer(y)' THEN ~ClientId(j) /\ (HasS(j) \/ j = i) ELSE ClientId(j) /\ HasC(j)
        <4>1. CASE y \in Created
          <5>1. j = id[y] /\ (Offer(y)' <=> Offer(y))
            BY <1>7, <3>1, <4>1
          <5> QED BY <4>1, <5>1 DEF LifeInv, ObjectsInv
        <4>2. CASE y = x
          BY <1>5, <1>7, <1>14, <3>1, <4>2
        <4> QED BY <1>7, <4>1, <4>2
      <3>3. IF Offer(y)' THEN ~ClientId(j) /\ HasS(j)' ELSE ClientId(j) /\ HasC(j)'
        BY <1>6, <1>9, <3>2
      <3> QED BY <3>1, <3>3
    <2>3. \A y \in Numbers : y \notin Created' => cst'[y] = "none"
      BY <1>7, <1>8 DEF LifeInv, ObjectsInv
    <2>4. cst'[display] = "live" /\ cst'[device] = "live"
      BY <1>8 DEF LifeInv, ObjectsInv
    <2>5. \A y \in Created' : /\ cst'[y] = "over" => kind'[y] = "callback"
                              /\ cst'[y] = "leaving" => kind'[y] = "plain"
                              /\ cst'[y] \in {"none", "unseen"} => Offer(y)'
      BY <1>7, <1>8, <1>14 DEF LifeInv, ObjectsInv
    <2>6. \A y \in iddel' : ~Offer(y)'
      BY <1>7, <1>8 DEF LifeInv, ObjectsInv, TypesInv
    <2> QED BY <2>1, <2>2, <2>3, <2>4, <2>5, <2>6 DEF ObjectsInv, ClientId, Numbers
  <1>19. MapsInv'
    <2>1. cmap' = cmap /\ Len(cmap'.client) <= last'
      <3>1. last \in Nat /\ Len(cmap.client) <= last /\ Len(cmap.client) \in Nat
        BY LifeTypes, MapTypes DEF LifeInv, MapsInv, Sides
      <3> QED BY <1>1, <1>2, <3>1
    <2>2. HasS(0)' /\ S(0)' = 0
      BY <1>5, <1>6 DEF LifeInv, MapsInv
    <2>3. \A j \in Nat : ClientId(j) => S(j)' >= 0
      BY <1>5, <1>6 DEF LifeInv, MapsInv
    <2>4. smap' \in MapOf("server") /\ FreePlaces(smap', {})
      BY <1>4 DEF SmapAt
    <2> QED BY <1>9, <2>1, <2>2, <2>3, <2>4 DEF LifeInv, MapsInv, ClientId
  <1>20. ClientTable'
    <2>1. ASSUME NEW y \in Created', ~Gone(y)' PROVE C(id[y])' = y
      <3>1. PICK j \in Nat : j = id'[y]
        BY <1>7
      <3>2. y \in Created /\ ~Gone(y)
        BY <1>7, <1>10, <1>14, <2>1
      <3>3. j = id[y]
        BY <1>7, <3>1, <3>2
      <3>4. C(j)' = y
        BY <1>9, <3>2, <3>3 DEF LifeInv, ClientTable
      <3> QED BY <3>1, <3>4
    <2>2. ASSUME NEW j \in Nat, C(j) > 0
          PROVE  \/ ClientId(j) /\ C(j) = Zombie
                 \/ C(j) \in Created' /\ id'[C(j)] = j /\ ~Gone(C(j))'
      <3>1. PICK z : z = C(j)
        OBVIOUS
      <3>2. (ClientId(j) /\ z = Zombie) \/ (z \in Created /\ id[z] = j /\ ~Gone(z))
        BY <2>2, <3>1 DEF LifeInv, ClientTable
      <3>3. C(j)' = z
        BY <1>9, <3>1
      <3>4. z \in Created /\ id[z] = j /\ ~Gone(z) => z \in Created' /\ id'[z] = j /\ ~Gone(z)'
        BY <1>7, <1>10
      <3> QED BY <3>1, <3>2, <3>3, <3>4
    <2> QED BY <1>9, <2>1, <2>2 DEF ClientTable, ClientId
  <1>21. ServerTable'
    <2>1. ASSUME NEW j \in Nat, S(j)' > 0
          PROVE  S(j)' \in Created' /\ id'[S(j)'] = j /\ Held(S(j))' /\ (ClientId(j) => ~Back(j)')
      <3>1. CASE j = i
        <4>1. S(j)' = x
          BY <1>6, <3>1
        <4> QED BY <1>5, <1>7, <1>14, <3>1, <4>1
      <3>2. CASE j # i
        <4>1. PICK y : y = S(j)
          OBVIOUS
        <4>2. S(j)' = y /\ S(j) > 0
          BY <1>6, <2>1, <3>2, <4>1
        <4>3. y \in Created /\ id[y] = j /\ Held(y) /\ (ClientId(j) => ~Back(j))
          BY <4>1, <4>2 DEF LifeInv, ServerTable
        <4>4. Held(y)' /\ (ClientId(j) => ~Back(j)') /\ y \in Created' /\ id'[y] = j
          BY <1>7, <1>9, <1>12, <4>3
        <4> QED BY <4>2, <4>4
      <3> QED BY <3>1, <3>2
    <2>2. S(1)' = display /\ S(2)' = device
      <3>1. S(1) = display /\ S(2) = device /\ id[display] = 1 /\ id[device] = 2
        BY DEF LifeInv, ServerTable, ObjectsInv
      <3> QED BY <1>11, <3>1, LifeTypes
    <2>3. ASSUME NEW y \in Created', Offer(y)', cst[y] # "destroyed" PROVE S(id[y])' = y
      <3>1. PICK j \in Nat : j = id'[y]
        BY <1>7
      <3>2. S(j)' = y
        <4>1. CASE y = x
          BY <1>6, <1>7, <3>1, <4>1
        <4>2. CASE y \in Created
          <5>1. j = id[y] /\ Offer(y)
            BY <1>7, <2>3, <3>1, <4>2
          <5>2. S(j) = y
            BY <2>3, <4>2, <5>1 DEF LifeInv, ServerTable
          <5> QED BY <1>11, <4>2, <5>1, <5>2
        <4> QED BY <1>7, <4>1, <4>2
      <3> QED BY <3>1, <3>2
    <2>4. ASSUME NEW y \in Created', kind'[y] = "plain", cst[y] = "live"
          PROVE  S(id[y])' = y \/ Some(c2s', CreateOf(y))
      <3>1. PICK j \in Nat : j = id'[y]
        BY <1>7
      <3>2. y \in Created /\ j = id[y] /\ kind[y] = "plain"
        BY <1>7, <2>4, <3>1
      <3>3. S(j) = y \/ Some(c2s, CreateOf(y))
        BY <2>4, <3>2 DEF LifeInv, ServerTable
      <3>4. S(j) = y => S(j)' = y
        BY <1>11, <3>2
      <3> QED BY <1>2, <3>1, <3>3, <3>4
    <2>5. ASSUME NEW y \in Created', cst[y] = "none" PROVE Some(s2c', OfferId(id'[y]))
      <3>1. y = x => Some(s2c', OfferId(id'[y]))
        BY <1>7, <1>15, <1>16 DEF Added
      <3>2. y \in Created => Some(s2c, OfferId(id[y])) /\ id'[y] = id[y]
        BY <1>7, <2>5 DEF LifeInv, ServerTable
      <3> QED BY <1>7, <1>16, <3>1, <3>2 DEF Added
    <2> QED BY <1>8, <2>1, <2>2, <2>3, <2>4, <2>5 DEF ServerTable, ClientId
  <1>22. IdsInv'
    <2>1. ASSUME NEW j \in Nat
          PROVE  (Pending(j)' <=> Pending(j)) /\ (Making(j)' <=> Making(j)) /\ SentOnce(j)'
      <3>1. SentOnce(j)
        BY DEF LifeInv, IdsInv
      <3>2. Some(s2c', DeleteId(j)) <=> Some(s2c, DeleteId(j))
        BY <1>15, <1>16 DEF Added
      <3>3. Once(s2c', DeleteId(j))
        BY <1>15, <1>16, <3>1 DEF Added, SentOnce
      <3>4. Once(s2c', OfferId(j))
        <4>1. ~Some(s2c, OfferId(i))
          <5>1. ASSUME Some(s2c, OfferId(i)) PROVE FALSE
            <6>1. S(i) \in Created
              BY <1>4, <5>1, OffersUnknown
            <6>2. S(i) \in Nat /\ ~(S(i) <= 0)
              BY <6>1, LifeTypes
            <6> QED BY <1>4, <6>2
          <5> QED BY <5>1
        <4> QED BY <1>15, <1>16, <3>1, <4>1 DEF Added, SentOnce
      <3> QED BY <1>2, <1>8, <3>1, <3>2, <3>3, <3>4 DEF Pending, Making, SentOnce
    <2> QED BY <1>5, <1>6, <1>9, <2>1 DEF LifeInv, IdsInv, ClientId
  <1>23. RequestGrowth'
    <2>1. \A k \in 1 .. Len(c2s) : c2s[k].op = "create" =>
             \A q \in Nat : q < c2s[k].arg /\ ~HasS(q)' => Before(c2s, k, CreateId(q))
      BY <1>6 DEF LifeInv, RequestGrowth
    <2>2. \A q \in Nat : ClientId(q) /\ HasC(q) /\ ~HasS(q)' => Making(q)
      BY <1>6 DEF LifeInv, RequestGrowth
    <2> QED BY <1>2, <1>9, <2>1, <2>2 DEF RequestGrowth, ClientId, Making
  <1>24. RequestsInv'
    <2>1. ASSUME NEW k \in 1 .. Len(c2s), NEW y \in Created, Ready(y, k) PROVE Ready(y, k)'
      <3>1. PICK j \in Nat : j = id[y] /\ j = id'[y]
        BY <1>7, LifeTypes
      <3>2. (S(j) = y \/ Before(c2s, k, CreateOf(y))) /\ ~Before(c2s, k, DestroyOf(y))
        BY <2>1, <3>1 DEF Ready
      <3>3. S(j)' = y \/ Before(c2s, k, CreateOf(y))
        BY <1>11, <3>1, <3>2
      <3> QED BY <1>2, <3>1, <3>2, <3>3 DEF Ready
    <2>2. \A k \in 1 .. Len(c2s') :
            /\ k + 0 \in 1 .. Len(c2s) /\ c2s'[k] = c2s[k + 0]
            /\ \A y \in Created : Asked(y) /\ Ready(y, k + 0) => Ready(y, k)'
      BY <1>2, <2>1
    <2> QED BY <1>7, <1>8, <1>12, <2>2, RequestsKept
  <1>25. EventGrowth'
    <2>1. ASSUME NEW k \in 1 .. Len(s2c'), s2c'[k].op = "offer",
                 NEW q \in Nat, ~ClientId(q), q < s2c'[k].arg, ~HasC(q)
          PROVE  Before(s2c', k, OfferId(q))
      <3>1. CASE k = n
        <4>1. s2c'[k] = m /\ q < i
          BY <1>1, <1>15, <1>16, <2>1, <3>1 DEF Added
        <4>2. HasS(q)
          <5>1. Space(q) = "server"
            BY <2>1, PlaceIs DEF ClientId, Sides
          <5> QED BY <1>4, <4>1, <5>1
        <4>3. Some(s2c, OfferId(q))
          BY <2>1, <4>2 DEF LifeInv, EventGrowth
        <4> QED BY <1>1, <1>16, <3>1, <4>3 DEF Added
      <3>2. CASE k \in 1 .. Len(s2c) /\ s2c'[k] = s2c[k]
        <4>1. Before(s2c, k, OfferId(q))
          BY <2>1, <3>2 DEF LifeInv, EventGrowth
        <4> QED BY <1>16, <3>2, <4>1 DEF Added
      <3> QED BY <1>1, <1>16, <3>1, <3>2 DEF Added
    <2>2. \A q \in Nat : ~ClientId(q) /\ HasS(q)' /\ ~HasC(q) => Some(s2c', OfferId(q))
      BY <1>6, <1>15, <1>16 DEF LifeInv, EventGrowth, Added
    <2> QED BY <1>9, <2>1, <2>2 DEF EventGrowth, ClientId
  <1>26. EventsInv'
    <2>1. OfferOK(m)'
      BY <1>7, <1>8, <1>14, <1>15 DEF OfferOK
    <2>2. ASSUME NEW k \in 1 .. Len(s2c), NEW y \in Created, Mention(y, k) PROVE Mention(y, k)'
      <3>1. PICK j \in Nat : j = id[y] /\ j = id'[y]
        BY <1>7, LifeTypes
      <3>2. /\ y \in Created \ {display} /\ Held(y)
            /\ Offer(y) => /\ cst[y] = "none" => Before(s2c, k, OfferId(j))
                           /\ cst[y] = "destroyed" => ~Before(s2c, k, OfferId(j))
            /\ ~Offer(y) => S(j) = y \/ After(s2c, k, DeleteId(j))
        BY <2>2, <3>1 DEF Mention
      <3>3. /\ Before(s2c', k, OfferId(j)) <=> Before(s2c, k, OfferId(j))
            /\ After(s2c', k, DeleteId(j)) <=> After(s2c, k, DeleteId(j))
        BY <1>15, <1>16 DEF Added
      <3>4. y \in Created' \ {display} /\ Held(y)' /\ (Offer(y)' <=> Offer(y))
        BY <1>7, <1>12, <3>2
      <3>5. S(j) = y => S(j)' = y
        BY <1>11, <3>1
      <3> QED BY <1>8, <3>1, <3>2, <3>3, <3>4, <3>5 DEF Mention
    <2>3. ASSUME NEW k \in 1 .. Len(s2c')
          PROVE  \/ ArrivalOK(s2c[k], k)'
                 \/ /\ k + 0 \in 1 .. Len(s2c) /\ s2c'[k] = s2c[k + 0]
                    /\ \A y \in Created : Mention(y, k + 0) => Mention(y, k)'
      <3>1. CASE k = n
        <4>1. s2c'[k] = m
          BY <1>1, <1>16, <3>1 DEF Added
        <4> QED BY <1>15, <2>1, <4>1 DEF ArrivalOK
      <3>2. CASE k \in 1 .. Len(s2c) /\ s2c'[k] = s2c[k]
        BY <2>2, <3>2
      <3> QED BY <1>1, <1>16, <3>1, <3>2 DEF Added
    <2> QED BY <1>7, <1>8, <2>3, EventsKept
  <1>27. QueueInv' /\ RefsInv'
    BY <1>7, <1>8, <1>10, QueueKept, RefsKept
  <1> QED BY <1>17, <1>18, <1>19, <1>20, <1>21, <1>22, <1>23, <1>24, <1>25, <1>26, <1>27 DEF LifeInv

-----------------------------------------------------------------------------
\* Giving back the references of a whole queue: those of the places of a set s in it
PlaceRefs(q, s, x) ==
  Cardinality({i \in s : q[i].proxy = x}) + Cardinality({i \in s : q[i].arg = x})

LEMMA OnePlaceLess ==
  ASSUME NEW n \in Nat, NEW s \in SUBSET (1 .. n), NEW p \in s, NEW A, A \subseteq s
  PROVE  /\ Cardinality(A) \in Nat /\ Cardinality(A \ {p}) \in Nat
         /\ Cardinality(A) = Cardinality(A \ {p}) + (IF p \in A THEN 1 ELSE 0)
  <1>1. /\ IsFiniteSet(A) /\ Cardinality(A) \in Nat
        /\ IsFiniteSet(A \ {p}) /\ Cardinality(A \ {p}) \in Nat
    BY PlacesFinite
  <1>2. PICK c, d \in Nat : c = Cardinality(A) /\ d = Cardinality(A \ {p})
    BY <1>1
  <1>3. d = IF p \in A THEN c - 1 ELSE c
    BY <1>1, <1>2, FS_RemoveElement
  <1>4. c = d + (IF p \in A THEN 1 ELSE 0)
    BY <1>2, <1>3
  <1> QED BY <1>2, <1>4

LEMMA PlaceRefsLess ==
  ASSUME NEW q, NEW n \in Nat, NEW s \in SUBSET (1 .. n), NEW p \in s
  PROVE  \A x : /\ PlaceRefs(q, s, x) \in Nat /\ PlaceRefs(q, s \ {p}, x) \in Nat
               /\ PlaceRefs(q, s, x) = PlaceRefs(q, s \ {p}, x) + RefsOf(q[p], x)
  <1> SUFFICES ASSUME NEW x
               PROVE  /\ PlaceRefs(q, s, x) \in Nat /\ PlaceRefs(q, s \ {p}, x) \in Nat
                      /\ PlaceRefs(q, s, x) = PlaceRefs(q, s \ {p}, x) + RefsOf(q[p], x)
    OBVIOUS
  <1>1. PICK A, B : A = {i \in s : q[i].proxy = x} /\ B = {i \in s : q[i].arg = x}
    OBVIOUS
  <1>2. /\ A \ {p} = {i \in s \ {p} : q[i].proxy = x} /\ B \ {p} = {i \in s \ {p} : q[i].arg = x}
        /\ A \subseteq s /\ B \subseteq s /\ (p \in A <=> q[p].proxy = x) /\ (p \in B <=> q[p].arg = x)
    BY <1>1
  <1>3. /\ Cardinality(A) \in Nat /\ Cardinality(A \ {p}) \in Nat
        /\ Cardinality(A) = Cardinality(A \ {p}) + (IF p \in A THEN 1 ELSE 0)
    BY <1>2, OnePlaceLess
  <1>4. /\ Cardinality(B) \in Nat /\ Cardinality(B \ {p}) \in Nat
        /\ Cardinality(B) = Cardinality(B \ {p}) + (IF p \in B THEN 1 ELSE 0)
    BY <1>2, OnePlaceLess
  <1>5. /\ PlaceRefs(q, s, x) = Cardinality(A) + Cardinality(B)
        /\ PlaceRefs(q, s \ {p}, x) = Cardinality(A \ {p}) + Cardinality(B \ {p})
    BY <1>1, <1>2 DEF PlaceRefs
  <1> QED BY <1>2, <1>3, <1>4, <1>5 DEF RefsOf

LEMMA PlaceRefsNone == ASSUME NEW q, NEW x PROVE PlaceRefs(q, {}, x) = 0
  <1>1. {i \in {} : q[i].proxy = x} = {} /\ {i \in {} : q[i].arg = x} = {}
    OBVIOUS
  <1> QED BY <1>1, FS_EmptySet DEF PlaceRefs

LEMMA LastPlace ==
  ASSUME NEW n \in Nat, NEW s \in SUBSET (1 .. n), s # {}
  PROVE  Max(s) \in s /\ \A y \in s : Max(s) >= y
  <1> DEFINE T == {t \in Nat : \E y \in s : t = n - y}
  <1>1. T \in SUBSET Nat /\ T # {}
    <2>1. PICK y \in s : TRUE
      OBVIOUS
    <2>2. n - y \in T
      BY <2>1
    <2> QED BY <2>2
  <1>2. PICK t \in T : \A u \in T : t <= u
    BY <1>1, LeastNumber
  <1>3. PICK x \in s : t = n - x
    OBVIOUS
  <1>4. \A y \in s : x >= y
    <2> SUFFICES ASSUME NEW y \in s PROVE x >= y
      OBVIOUS
    <2>1. n - y \in T
      OBVIOUS
    <2>2. n - x <= n - y
      BY <1>2, <1>3, <2>1
    <2> QED BY <2>2
  <1> QED BY <1>4 DEF Max

\* The references that f leaves, with those of the places of s given back
Rest(f, q, s) == [z \in Numbers |-> f[z] - PlaceRefs(q, s, z)]

LEMMA RestOne ==
  ASSUME NEW q, NEW n \in Nat, NEW s \in SUBSET (1 .. n), s # {}, NEW f \in [Numbers -> Int]
  PROVE  Rest(f, q, s) = AddRefs(Rest(f, q, s \ {Max(s)}), q[Max(s)].proxy, q[Max(s)].arg, -1)
  <1>1. PICK p : p = Max(s)
    OBVIOUS
  <1>2. p \in s
    BY <1>1, LastPlace
  <1>3. PICK g : g = Rest(f, q, s \ {p})
    OBVIOUS
  <1>4. ASSUME NEW z \in Numbers
        PROVE  f[z] - PlaceRefs(q, s, z)
               = g[z] + (IF z = q[p].proxy THEN -1 ELSE 0) + (IF z = q[p].arg THEN -1 ELSE 0)
    <2>1. /\ PlaceRefs(q, s, z) \in Nat /\ PlaceRefs(q, s \ {p}, z) \in Nat
          /\ PlaceRefs(q, s, z) = PlaceRefs(q, s \ {p}, z) + RefsOf(q[p], z)
      BY <1>2, PlaceRefsLess
    <2>2. g[z] = f[z] - PlaceRefs(q, s \ {p}, z)
      BY <1>3 DEF Rest
    <2>3. f[z] \in Int
      OBVIOUS
    <2> QED BY <2>1, <2>2, <2>3 DEF RefsOf
  <1>5. Rest(f, q, s) = AddRefs(g, q[p].proxy, q[p].arg, -1)
    BY <1>4 DEF Rest, AddRefs
  <1> QED BY <1>1, <1>3, <1>5

\* wl_event_queue_release gives back every reference of the queue.
GivesBack(h, f, q) ==
  h = [s \in SUBSET (DOMAIN q) |->
         IF s = {} THEN f ELSE AddRefs(h[s \ {Max(s)}], q[Max(s)].proxy, q[Max(s)].arg, -1)]

LEMMA GiveBackIs ==
  ASSUME NEW q, NEW n \in Nat, DOMAIN q = 1 .. n, NEW f \in [Numbers -> Int]
  PROVE  (CHOOSE h : GivesBack(h, f, q))[DOMAIN q] = Rest(f, q, DOMAIN q)
  <1> DEFINE g == [s \in SUBSET (1 .. n) |-> Rest(f, q, s)]
  <1>1. Rest(f, q, {}) = f
    <2>1. \A z \in Numbers : f[z] - PlaceRefs(q, {}, z) = f[z]
      <3>1. ASSUME NEW z \in Numbers PROVE f[z] - PlaceRefs(q, {}, z) = f[z]
        <4>1. f[z] \in Int /\ PlaceRefs(q, {}, z) = 0
          BY PlaceRefsNone
        <4> QED BY <4>1
      <3> QED BY <3>1
    <2> QED BY <2>1 DEF Rest
  <1>2. GivesBack(g, f, q)
    <2>1. ASSUME NEW s \in SUBSET (1 .. n)
          PROVE  g[s] = IF s = {} THEN f ELSE AddRefs(g[s \ {Max(s)}], q[Max(s)].proxy, q[Max(s)].arg, -1)
      <3>1. CASE s = {}
        BY <1>1, <3>1
      <3>2. CASE s # {}
        <4>1. g[s \ {Max(s)}] = Rest(f, q, s \ {Max(s)}) /\ g[s] = Rest(f, q, s)
          OBVIOUS
        <4> QED BY <3>2, <4>1, RestOne
      <3> QED BY <3>1, <3>2
    <2>2. g = [s \in SUBSET (1 .. n) |-> g[s]]
      OBVIOUS
    <2> HIDE DEF g
    <2> QED BY <2>1, <2>2 DEF GivesBack
  <1>3. PICK h : h = (CHOOSE k : GivesBack(k, f, q)) /\ GivesBack(h, f, q)
    BY <1>2
  <1>4. \A s \in SUBSET (1 .. n) :
           h[s] = IF s = {} THEN f ELSE AddRefs(h[s \ {Max(s)}], q[Max(s)].proxy, q[Max(s)].arg, -1)
    BY <1>3 DEF GivesBack
  <1> DEFINE T == {k \in Nat : \A s \in SUBSET (1 .. n) : s \subseteq 1 .. k => h[s] = Rest(f, q, s)}
  <1>5. 0 \in T
    <2>1. \A s \in SUBSET (1 .. n) : s \subseteq 1 .. 0 => s = {}
      OBVIOUS
    <2> QED BY <1>1, <1>4, <2>1
  <1>6. ASSUME NEW k \in T PROVE k + 1 \in T
    <2>1. h[{}] = Rest(f, q, {})
      <3>1. {} \in SUBSET (1 .. n)
        OBVIOUS
      <3> QED BY <1>1, <1>4, <3>1
    <2>2. ASSUME NEW s \in SUBSET (1 .. n), s \subseteq 1 .. k + 1, s # {}
          PROVE  h[s] = Rest(f, q, s)
      <3>1. PICK p : p = Max(s)
        OBVIOUS
      <3>2. p \in s /\ \A y \in s : p >= y
        BY <2>2, <3>1, LastPlace
      <3>3. s \ {p} \subseteq 1 .. k /\ s \ {p} \in SUBSET (1 .. n)
        BY <2>2, <3>2
      <3>4. h[s \ {p}] = Rest(f, q, s \ {p})
        BY <3>3
      <3>5. h[s] = AddRefs(h[s \ {p}], q[p].proxy, q[p].arg, -1)
        BY <1>4, <2>2, <3>1
      <3>6. Rest(f, q, s) = AddRefs(Rest(f, q, s \ {Max(s)}), q[Max(s)].proxy, q[Max(s)].arg, -1)
        BY <2>2, RestOne
      <3> QED BY <3>1, <3>4, <3>5, <3>6
    <2>3. k + 1 \in Nat
      OBVIOUS
    <2> QED BY <2>1, <2>2, <2>3
  <1>7. T = Nat
    <2>1. T \in SUBSET Nat
      OBVIOUS
    <2> HIDE DEF T
    <2> QED BY <1>5, <1>6, <2>1, SetInduction
  <1>8. h[1 .. n] = Rest(f, q, 1 .. n)
    BY <1>7
  <1> QED BY <1>3, <1>8

LEMMA ReleaseQueueKeeps ==
  ASSUME LifeInv, Premises, ReleaseQueue
  PROVE  LifeInv'
  <1>1. /\ queue' = <<>>
        /\ UNCHANGED <<tables, c2s, s2c, display_queue, deleting, cst, iddel, objectVars, failed, serror>>
    BY DEF ReleaseQueue
  <1>2. refcount' = (CHOOSE h : GivesBack(h, refcount, queue))[DOMAIN queue]
    BY DEF ReleaseQueue, FoldLeft, MapThenFoldSet, GivesBack
  <1>3. PICK n \in Nat : n = Len(queue) /\ DOMAIN queue = 1 .. n /\ queue \in Seq(Closures)
    BY DEF LifeInv, TypesInv
  <1>4. ASSUME NEW z \in Numbers
        PROVE  /\ refcount[z] = (IF Gone(z) THEN 0 ELSE 1) + References(queue, z)
               /\ References(queue, z) \in Nat /\ refcount[z] \in Int
               /\ PlaceRefs(queue, 1 .. n, z) = References(queue, z)
    <2>1. refcount[z] = (IF Gone(z) THEN 0 ELSE 1) + References(queue, z)
      BY DEF LifeInv, RefsInv
    <2>2. References(queue, z) \in Nat
      <3>1. queue # <<>>
        BY DEF ReleaseQueue
      <3>2. PICK e \in Closures : e = Head(queue)
        BY <1>3, <3>1
      <3> QED BY <1>3, <3>2, ReferencesAdded
    <2>3. PlaceRefs(queue, 1 .. n, z) = References(queue, z)
      BY <1>3 DEF PlaceRefs, References
    <2> HIDE DEF References, Gone
    <2> QED BY <2>1, <2>2, <2>3
  <1>5. refcount \in [Numbers -> Int]
    <2>1. refcount = [z \in Numbers |-> refcount[z]]
      BY DEF LifeInv, RefsInv
    <2> QED BY <1>4, <2>1
  <1>6. refcount' = Rest(refcount, queue, 1 .. n)
    BY <1>2, <1>3, <1>5, GiveBackIs
  <1>7. Calm
    BY <1>1 DEF Calm, tables, objectVars, LifeInv, TypesInv
  <1>8. QueueInv'
    <2>1. Len(queue') = 0
      BY <1>1
    <2> QED BY <2>1 DEF QueueInv
  <1>9. RefsInv'
    <2>1. ASSUME NEW z \in Numbers
          PROVE  refcount[z] - PlaceRefs(queue, 1 .. n, z) = (IF Gone(z)' THEN 0 ELSE 1) + References(queue', z)
      <3>1. References(queue', z) = 0
        BY <1>1, ReferencesNone
      <3>2. Gone(z)' <=> Gone(z)
        BY <1>1 DEF Gone
      <3> HIDE DEF References, Gone
      <3> QED BY <1>4, <3>1, <3>2
    <2> QED BY <1>6, <2>1 DEF RefsInv, Rest, Numbers
  <1>10. TypesInv'
    <2>1. queue' \in Seq(Closures)
      BY <1>1
    <2> QED BY <1>1, <2>1 DEF LifeInv, TypesInv, objectVars, Created
  <1>11. IdsInv'
    BY <1>1, <1>7, CalmIds
  <1> QED BY <1>1, <1>7, <1>8, <1>9, <1>10, <1>11, CalmLife DEF LifeInv

-----------------------------------------------------------------------------
\* The invariant holds at first, and stays.
LEMMA LifeInit ==
  ASSUME Init, Premises
  PROVE  LifeInv
  <1>0. PICK L : L = <<0, display, device>>
    OBVIOUS
  <1>1. /\ MaxObjects \in Nat /\ MaxObjects >= 3 /\ WL_SERVER_ID_START \in Nat /\ WL_SERVER_ID_START > 2
        /\ display = 2 /\ device = 3 /\ display # device
    BY LifeAssumption, IdAssumption DEF Premises, display, device
  <1>2. /\ last = device /\ Created = {display, device} /\ display \in Numbers /\ device \in Numbers
        /\ last \in Numbers
    BY <1>1 DEF Init, Created, Numbers
  <1>3. L \in Seq(Int) /\ Len(L) = 3 /\ L[1] = 0 /\ L[2] = display /\ L[3] = device
    BY <1>0, <1>1
  <1>4. /\ cmap \in MapOf("client") /\ cmap.client = L /\ cmap["client"] = L /\ cmap["server"] = <<>>
        /\ cmap.free_list = 0 /\ cmap.side = "client"
        /\ smap \in MapOf("server") /\ smap.client = L /\ smap["client"] = L /\ smap["server"] = <<>>
        /\ smap.free_list = 0 /\ smap.side = "server"
    <2>1. /\ cmap = [side |-> "client", client |-> L, server |-> <<>>, free_list |-> 0]
          /\ smap = [side |-> "server", client |-> L, server |-> <<>>, free_list |-> 0]
      BY <1>0 DEF Init, wl_map_init
    <2>2. <<>> \in Seq(Int)
      OBVIOUS
    <2> QED BY <1>3, <2>1, <2>2 DEF MapOf
  <1>5. ASSUME NEW m \in {cmap, smap}, NEW i \in Nat
        PROVE  /\ HasId(m, i) <=> i \in {0, 1, 2}
               /\ IdEntry(m, i) = IF i = 1 THEN display ELSE IF i = 2 THEN device ELSE 0
    <2>1. m["client"] = L /\ m["server"] = <<>> /\ Len(m["client"]) = 3 /\ Len(m["server"]) = 0
      BY <1>3, <1>4
    <2>2. CASE ClientId(i)
      <3>1. Space(i) = "client" /\ Place(i) = i + 1
        BY <2>2, PlaceIs DEF ClientId
      <3>2. HasId(m, i) <=> i \in {0, 1, 2}
        <4>1. HasId(m, i) <=> i + 1 \in 1 .. 3
          BY <2>1, <3>1 DEF HasId
        <4> QED BY <4>1
      <3>3. IdEntry(m, i) = IF i \in {0, 1, 2} THEN L[i + 1] ELSE 0
        BY <2>1, <3>1, <3>2 DEF IdEntry
      <3>4. IdEntry(m, i) = IF i = 1 THEN display ELSE IF i = 2 THEN device ELSE 0
        BY <1>3, <3>3
      <3> QED BY <3>2, <3>4
    <2>3. CASE ~ClientId(i)
      <3>1. Space(i) = "server" /\ i > 2
        BY <1>1, <2>3, PlaceIs DEF ClientId, Sides
      <3>2. ~HasId(m, i)
        BY <2>1, <3>1, PlaceIs DEF HasId
      <3> QED BY <3>1, <3>2 DEF IdEntry
    <2> QED BY <2>2, <2>3
  <1>6. \A i \in Nat : /\ (HasC(i) <=> i \in {0, 1, 2}) /\ (HasS(i) <=> i \in {0, 1, 2})
                       /\ C(i) = IF i = 1 THEN display ELSE IF i = 2 THEN device ELSE 0
                       /\ S(i) = IF i = 1 THEN display ELSE IF i = 2 THEN device ELSE 0
    BY <1>5 DEF C, S, HasC, HasS
  <1>7. /\ id[display] = 1 /\ id[device] = 2 /\ kind[display] = "display" /\ kind[device] = "plain"
        /\ cst[display] = "live" /\ cst[device] = "live"
        /\ \A x \in Numbers : x \notin {display, device} => cst[x] = "none"
        /\ c2s = <<>> /\ s2c = <<>> /\ queue = <<>> /\ display_queue = <<>> /\ deleting = {} /\ iddel = {}
    BY <1>1, <1>2 DEF Init, Numbers
  <1>8. TypesInv
    <2>1. cst \in [Numbers -> ClientStates]
      BY DEF Init, ClientStates
    <2>2. kind \in [Created -> Kinds \cup {"display"}] /\ id \in [Created -> Nat]
      BY <1>1, <1>2 DEF Init, Kinds
    <2> QED BY <1>2, <1>7, <2>1, <2>2 DEF TypesInv, Init
  <1>9. ObjectsInv
    BY <1>1, <1>2, <1>6, <1>7 DEF ObjectsInv, Offer, ClientId
  <1>10. MapsInv
    <2>1. FreePlaces(cmap, {1})
      <3>1. PICK ch : ch = <<>>
        OBVIOUS
      <3>2. ch \in Seq(Nat) /\ Len(ch) = 0 /\ ch = <<>>
        BY <3>1
      <3>3. \A p \in 1 .. Len(L) \ {1} : ~(L[p] <= 0)
        <4> SUFFICES ASSUME NEW p \in 1 .. 3, p # 1 PROVE ~(L[p] <= 0)
          BY <1>3
        <4>1. p = 2 \/ p = 3
          OBVIOUS
        <4> QED BY <1>1, <1>3, <4>1
      <3>4. Chained(ch, L, 0, {1})
        BY <3>2, <3>3 DEF Chained
      <3>5. cmap[cmap.side] = L /\ cmap.free_list = 0
        BY <1>4
      <3> QED BY <3>2, <3>4, <3>5 DEF FreePlaces
    <2>2. FreePlaces(smap, {})
      <3>1. PICK ch : ch = <<>>
        OBVIOUS
      <3>2. ch \in Seq(Nat) /\ Len(ch) = 0 /\ ch = <<>>
        BY <3>1
      <3>3. Chained(ch, ch, 0, {})
        BY <3>2 DEF Chained
      <3>4. smap[smap.side] = ch /\ smap.free_list = 0
        BY <1>4, <3>1
      <3> QED BY <3>2, <3>3, <3>4 DEF FreePlaces
    <2>3. Len(cmap.client) <= last
      <3>1. Len(cmap.client) = 3
        BY <1>3, <1>4
      <3>2. last = 3
        BY <1>1, <1>2
      <3> QED BY <3>1, <3>2
    <2>4. HasC(0) /\ HasS(0) /\ C(0) = 0 /\ S(0) = 0
      BY <1>6
    <2>5. ASSUME NEW i \in Nat PROVE C(i) >= 0 /\ S(i) >= 0
      BY <1>1, <1>6
    <2> QED BY <1>4, <2>1, <2>2, <2>3, <2>4, <2>5 DEF MapsInv
  <1>11. ClientTable
    BY <1>1, <1>2, <1>6, <1>7 DEF ClientTable, Gone
  <1>12. ServerTable
    BY <1>1, <1>2, <1>6, <1>7 DEF ServerTable, Gone, Held, Back, Offer
  <1>13. \A M : ~Some(c2s, M) /\ ~Some(s2c, M) /\ ~Some(display_queue, M)
    BY <1>7 DEF Some
  <1>14. IdsInv
    <2>1. \A M : Once(c2s, M) /\ Once(s2c, M) /\ Once(display_queue, M)
      BY <1>7 DEF Once
    <2> QED BY <1>7, <1>13, <2>1 DEF IdsInv, Pending, Making, SentOnce
  <1>15. RequestGrowth /\ EventGrowth /\ RequestsInv /\ EventsInv /\ QueueInv
    <2>1. Len(c2s) = 0 /\ Len(s2c) = 0 /\ Len(queue) = 0
      BY <1>7
    <2> QED BY <1>6, <2>1 DEF RequestGrowth, EventGrowth, RequestsInv, EventsInv, QueueInv
  <1>16. RefsInv
    <2>1. ASSUME NEW x \in Numbers
          PROVE  (IF x <= device THEN 1 ELSE 0) = (IF Gone(x) THEN 0 ELSE 1) + References(queue, x)
      <3>1. References(queue, x) = 0
        BY <1>7, ReferencesNone
      <3>2. Gone(x) <=> ~(x <= device)
        BY <1>1, <1>7 DEF Gone, Numbers
      <3> HIDE DEF References, Gone
      <3> QED BY <3>1, <3>2
    <2> QED BY <2>1 DEF RefsInv, Init
  <1> QED BY <1>8, <1>9, <1>10, <1>11, <1>12, <1>14, <1>15, <1>16 DEF LifeInv

LEMMA LifeStutters ==
  ASSUME LifeInv, Premises, UNCHANGED vars
  PROVE  LifeInv'
  <1>1. UNCHANGED <<cmap, smap, c2s, s2c, queue, display_queue, deleting, last, kind, id, cst, iddel,
                    refcount, failed, serror>>
    BY DEF vars, tables, clientVars, objectVars
  <1>2. Calm
    BY <1>1 DEF Calm, LifeInv, TypesInv
  <1>3. TypesInv'
    BY <1>1 DEF LifeInv, TypesInv, Created
  <1>4. QueueInv' /\ RefsInv'
    <2>1. (\A x \in Numbers : Gone(x)' <=> Gone(x)) /\ ObjectsStay
      BY <1>1, <1>2, CalmSame DEF Gone
    <2> QED BY <1>1, <2>1, QueueKept, RefsKept
  <1> QED BY <1>1, <1>2, <1>3, <1>4, CalmLife, CalmIds DEF LifeInv

LEMMA LifeKept ==
  ASSUME LifeInv, Premises, [Next]_vars
  PROVE  LifeInv'
  <1>1. ASSUME NEW k \in {"plain", "callback"}, CreateObject(k) PROVE LifeInv'
    BY <1>1, CreateObjectKeeps
  <1>2. ASSUME NEW x \in Created \ {display}, SendDestroy(x) PROVE LifeInv'
    BY <1>2, SendDestroyKeeps
  <1>3. ASSUME NEW x \in Created \ {display}, FinishDestroy(x) PROVE LifeInv'
    BY <1>3, FinishDestroyKeeps
  <1>4. ASSUME NEW x \in Created \ {display}, UseObject(x) PROVE LifeInv'
    BY <1>4, UseObjectKeeps
  <1>5. CASE ReadEvent
    BY <1>5, SkipEventKeeps, QueueDeleteIdKeeps, QueueEventKeeps, QueueOfferKeeps DEF ReadEvent
  <1>6. CASE DispatchEvent
    BY <1>6, DispatchEventKeeps
  <1>7. CASE ReleaseQueue
    BY <1>7, ReleaseQueueKeeps
  <1>8. CASE DispatchDeleteId
    BY <1>8, DispatchDeleteIdKeeps
  <1>9. ASSUME NEW i \in deleting, HandleDeleteId(i) PROVE LifeInv'
    BY <1>9, HandleDeleteIdKeeps
  <1>10. CASE HandleRequest
    BY <1>10, HandleRequestKeeps
  <1>11. CASE PostOffer
    BY <1>11, PostOfferKeeps
  <1>12. ASSUME NEW x \in Created \ {display}, PostDone(x) PROVE LifeInv'
    BY <1>12, PostDoneKeeps
  <1>13. ASSUME NEW x \in Created \ {display}, NEW y \in Created \ {display}, PostEvent(x, y) PROVE LifeInv'
    BY <1>13, PostEventKeeps
  <1>14. CASE UNCHANGED vars
    BY <1>14, LifeStutters
  <1> QED BY <1>1, <1>2, <1>3, <1>4, <1>5, <1>6, <1>7, <1>8, <1>9, <1>10, <1>11, <1>12, <1>13, <1>14
      DEF Next, Client, Server

\* The inductive invariant of both ends holds always.
LEMMA LifeAlways == ASSUME Premises PROVE Spec => []LifeInv
  <1>1. Init => LifeInv
    BY LifeInit
  <1>2. LifeInv /\ [Next]_vars => LifeInv'
    BY LifeKept
  <1> QED BY <1>1, <1>2, PTL DEF Spec

-----------------------------------------------------------------------------
\* What the properties follow from

\* refcount, said the way the property says it
LEMMA RefsAre ==
  ASSUME LifeInv, Premises, NEW x \in Created
  PROVE  /\ Cardinality({i \in 1 .. Len(queue) : queue[i].proxy = x}) \in Nat
         /\ Cardinality({i \in 1 .. Len(queue) : queue[i].arg = x}) \in Nat
         /\ refcount[x] = (IF cst[x] \in {"none", "destroyed"} THEN 0 ELSE 1)
                          + Cardinality({i \in 1 .. Len(queue) : queue[i].proxy = x})
                          + Cardinality({i \in 1 .. Len(queue) : queue[i].arg = x})
  <1>1. PICK A, B : /\ A = {i \in 1 .. Len(queue) : queue[i].proxy = x}
                    /\ B = {i \in 1 .. Len(queue) : queue[i].arg = x}
    OBVIOUS
  <1>2. A \subseteq 1 .. Len(queue) /\ B \subseteq 1 .. Len(queue) /\ Len(queue) \in Nat
    BY <1>1 DEF LifeInv, TypesInv
  <1>3. PICK a, b : a = Cardinality(A) /\ b = Cardinality(B)
    OBVIOUS
  <1>4. a \in Nat /\ b \in Nat
    BY <1>2, <1>3, PlacesFinite
  <1>5. References(queue, x) = a + b
    BY <1>1, <1>3 DEF References
  <1>6. refcount[x] = (IF Gone(x) THEN 0 ELSE 1) + References(queue, x)
    BY LifeTypes DEF LifeInv, RefsInv
  <1>7. refcount[x] = (IF Gone(x) THEN 0 ELSE 1) + a + b
    BY <1>4, <1>5, <1>6
  <1> QED BY <1>1, <1>3, <1>4, <1>7 DEF Gone

LEMMA RefsType ==
  ASSUME LifeInv, Premises
  PROVE  refcount \in [Numbers -> Nat]
  <1>1. ASSUME NEW x \in Numbers PROVE (IF Gone(x) THEN 0 ELSE 1) + References(queue, x) \in Nat
    <2>1. PICK A, B : /\ A = {i \in 1 .. Len(queue) : queue[i].proxy = x}
                      /\ B = {i \in 1 .. Len(queue) : queue[i].arg = x}
      OBVIOUS
    <2>2. A \subseteq 1 .. Len(queue) /\ B \subseteq 1 .. Len(queue) /\ Len(queue) \in Nat
      BY <2>1 DEF LifeInv, TypesInv
    <2>3. PICK a, b : a = Cardinality(A) /\ b = Cardinality(B)
      OBVIOUS
    <2>4. a \in Nat /\ b \in Nat
      BY <2>2, <2>3, PlacesFinite
    <2>5. References(queue, x) = a + b
      BY <2>1, <2>3 DEF References
    <2> QED BY <2>4, <2>5
  <1> QED BY <1>1 DEF LifeInv, RefsInv

LEMMA LifeTablesSound ==
  ASSUME LifeInv, Premises
  PROVE  TablesInv
  <1>1. FreeLists
    <2>1. /\ cmap \in MapOf("client") /\ smap \in MapOf("server") /\ "client" \in Sides /\ "server" \in Sides
          /\ FreePlaces(cmap, {1}) /\ FreePlaces(smap, {})
      BY DEF LifeInv, MapsInv, Sides
    <2> QED BY <2>1, MapSound DEF FreeLists
  <1>2. \A m \in {cmap, smap} : \A s \in Sides : m[s] \in Seq(Int)
    <2>1. /\ cmap \in MapOf("client") /\ smap \in MapOf("server") /\ "client" \in Sides /\ "server" \in Sides
      BY DEF LifeInv, MapsInv, Sides
    <2> QED BY <2>1, MapTypes
  <1>3. iddel \subseteq Numbers
    BY LifeTypes DEF LifeInv, TypesInv
  <1>4. TypeOK
    BY <1>2, <1>3, RefsType DEF LifeInv, TypesInv, TypeOK
  <1> QED BY <1>1, <1>4 DEF TablesInv

\* An id that the table of the client has x at leads to x, or to nothing when x is gone.
LEMMA HeldLookup ==
  ASSUME LifeInv, Premises, NEW x \in Created, Held(x)
  PROVE  LET p == wl_map_lookup(cmap, id[x])
         IN  p = x \/ (p \in {0, Zombie} /\ cst[x] \in {"destroyed", "none"})
  <1>1. PICK i \in Nat, c \in Int : i = id[x] /\ c = C(i)
    BY LifeTypes
  <1>2. wl_map_lookup(cmap, i) = IF c < 0 THEN 0 ELSE c
    BY <1>1, LookupIs
  <1>3. c = IF ~Gone(x) THEN x ELSE IF Offer(x) THEN 0 ELSE Zombie
    BY <1>1 DEF Held
  <1>4. x \in Nat /\ x > 1
    BY LifeTypes
  <1>5. CASE ~Gone(x)
    BY <1>1, <1>2, <1>3, <1>4, <1>5
  <1>6. CASE Gone(x)
    <2>1. c \in {0, Zombie} /\ cst[x] \in {"destroyed", "none"}
      BY <1>3, <1>6 DEF Gone
    <2>2. wl_map_lookup(cmap, i) = c
      BY <1>2, <2>1 DEF Zombie
    <2> QED BY <1>1, <2>1, <2>2
  <1> QED BY <1>5, <1>6

LEMMA LifeEvents ==
  ASSUME LifeInv, Premises
  PROVE  EventFindsItsObject
  <1> SUFFICES ASSUME s2c # <<>>
               PROVE  LET m == Head(s2c)
                          p == wl_map_lookup(cmap, m.id)
                      IN  p = m.obj \/ (p \in {0, Zombie} /\ cst[m.obj] \in {"destroyed", "none"})
    BY DEF EventFindsItsObject
  <1>1. PICK m : m = Head(s2c)
    OBVIOUS
  <1>2. ArrivalOK(m, 1)
    BY <1>1, ReadHead
  <1>3. m.obj \in Created /\ Held(m.obj) /\ id[m.obj] = m.id
    <2>1. CASE m.op = "event" /\ EventOK(m, 1)
      BY <2>1 DEF EventOK, Mention
    <2>2. CASE m.op = "done" /\ DoneOK(m, 1)
      BY <2>2 DEF DoneOK, Mention
    <2>3. ASSUME NEW x \in {display, device} PROVE x \in Created /\ Held(x)
      <3>1. ~Gone(x) /\ x \in Created
        BY LifeTypes DEF LifeInv, ObjectsInv, Gone
      <3> QED BY <3>1 DEF LifeInv, ClientTable, Held
    <2>4. id[display] = 1 /\ id[device] = 2
      BY DEF LifeInv, ObjectsInv
    <2>5. CASE m.op = "offer" /\ OfferOK(m)
      BY <2>3, <2>4, <2>5 DEF OfferOK
    <2>6. CASE m.op = "delete_id" /\ m.obj = display /\ m.id = 1
      BY <2>3, <2>4, <2>6
    <2> QED BY <1>2, <2>1, <2>2, <2>5, <2>6 DEF ArrivalOK
  <1> QED BY <1>1, <1>3, HeldLookup

\* The server finds object x at its id.
LEMMA ServerLookup ==
  ASSUME LifeInv, Premises, NEW x \in Created, S(id[x]) = x
  PROVE  wl_map_lookup(smap, id[x]) = x
  <1>1. PICK i \in Nat : i = id[x]
    BY LifeTypes
  <1>2. x \in Nat /\ x > 1 /\ S(i) = x
    BY <1>1, LifeTypes
  <1> QED BY <1>1, <1>2, LookupIs

LEMMA LifeRequests ==
  ASSUME LifeInv, Premises
  PROVE  RequestFindsItsObject
  <1> SUFFICES ASSUME c2s # <<>>
               PROVE  LET m == Head(c2s)
                      IN  /\ wl_map_lookup(smap, m.id) = m.obj
                          /\ m.op = "create" => CanReserve(smap, m.arg)
                          /\ m.op = "use" => wl_map_lookup(smap, m.arg) = m.argobj
    BY DEF RequestFindsItsObject
  <1>1. PICK m : m = Head(c2s)
    OBVIOUS
  <1>2. m \in Messages /\ RequestOK(m, 1) /\ \A M : ~Before(c2s, 1, M)
    BY <1>1, RequestHead DEF Taken
  <1>3. 1 \in 1 .. Len(c2s) /\ c2s[1] = m
    BY <1>1, RequestHead DEF Taken
  <1>4. /\ wl_map_lookup(smap, 1) = display /\ wl_map_lookup(smap, 2) = device
    <2>1. S(1) = 2 /\ S(2) = 3 /\ display = 2 /\ device = 3
      BY LifeTypes DEF LifeInv, ServerTable
    <2> QED BY <2>1, LookupIs
  <1>5. CASE m.op = "create" /\ CreateOK(m)
    <2>1. CanReserve(smap, m.arg)
      BY <1>2, <1>3, <1>5, CreateRequest
    <2> QED BY <1>1, <1>4, <1>5, <2>1 DEF CreateOK
  <1>6. CASE m.op = "use" /\ UseOK(m, 1)
    <2>1. m.argobj \in Created /\ id[m.argobj] = m.arg /\ S(id[m.argobj]) = m.argobj
      BY <1>2, <1>6 DEF UseOK, Ready
    <2>2. wl_map_lookup(smap, m.arg) = m.argobj
      BY <2>1, ServerLookup
    <2> QED BY <1>1, <1>4, <1>6, <2>2 DEF UseOK
  <1>7. CASE m.op = "destroy" /\ DestroyOK(m, 1)
    <2>1. m.obj \in Created /\ id[m.obj] = m.id /\ S(id[m.obj]) = m.obj
      BY <1>2, <1>7 DEF DestroyOK, Ready
    <2> QED BY <1>1, <1>7, <2>1, ServerLookup
  <1> QED BY <1>2, <1>5, <1>6, <1>7 DEF RequestOK

LEMMA LifeNoFailure ==
  ASSUME LifeInv, Premises
  PROVE  NoFailure
  <1>1. ASSUME NEW i \in deleting PROVE wl_map_lookup(cmap, i) # 0
    <2>1. i \in Nat /\ Pending(i)
      BY DEF LifeInv, TypesInv, Pending
    <2>2. ~(C(i) <= 0)
      BY <2>1 DEF LifeInv, IdsInv, Back
    <2>3. C(i) \in Int
      BY <2>1, LifeTypes
    <2> QED BY <2>1, <2>2, <2>3, LookupIs
  <1> QED BY <1>1 DEF LifeInv, TypesInv, NoFailure

-----------------------------------------------------------------------------
\* The tables of both ends stay well formed, and the free list of each holds every id
\* of its own that is not in use, once: an id is freed exactly once, by the one of
\* wl_proxy_destroy and display_handle_delete_id that comes last.
THEOREM TablesSound == ASSUME Premises PROVE Spec => []TablesInv
  <1>1. LifeInv => TablesInv
    BY LifeTablesSound
  <1> QED BY <1>1, LifeAlways, PTL

\* A proxy's refcount is what the application and the queued closures hold of it, so
\* that none is freed while a closure has it and none is left when nobody has.
THEOREM ProxiesCounted == ASSUME Premises PROVE Spec => []ProxyRefs
  <1>1. LifeInv => ProxyRefs
    BY RefsAre DEF ProxyRefs
  <1> QED BY <1>1, LifeAlways, PTL

\* Whatever is under way between the ends and however late it is read, an event reaches
\* the proxy its resource stands for or none, and a request the resource that its proxy
\* stands for, although wl_map hands ids out again.
THEOREM IdsNeverMixedUp == ASSUME Premises PROVE Spec => []MessagesFindTheirObjects
  <1>1. LifeInv => MessagesFindTheirObjects
    BY LifeEvents, LifeRequests DEF MessagesFindTheirObjects
  <1> QED BY <1>1, LifeAlways, PTL

\* No event is malformed for the client, no request for the server, and every delete_id
\* finds its id in use: two ends that keep the rules do not break their connection.
THEOREM RulesSuffice == ASSUME Premises PROVE Spec => []NoFailure
  <1>1. LifeInv => NoFailure
    BY LifeNoFailure
  <1> QED BY <1>1, LifeAlways, PTL

=============================================================================
