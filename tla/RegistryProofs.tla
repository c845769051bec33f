--------------------------- MODULE RegistryProofs ---------------------------
(***************************************************************************)
(* Proofs about Registry: registries agree with the list of globals, binds *)
(* find the globals that were meant, and sync is a barrier.                *)
(***************************************************************************)
EXTENDS Registry, ListProofs

USE DEF serverVars, clientVars, ghostVars

-----------------------------------------------------------------------------
\* The registries of a client

Elements(s) == {s[i] : i \in 1 .. Len(s)}

LEMMA ElementsContained ==
  ASSUME NEW s, NEW x
  PROVE  x \in Elements(s) <=> Contains(s, x)
  BY DEF Elements, Contains

\* What the function in OwnedBy computes, up to i
Selects(f, c, list) ==
  \A i \in 0 .. Len(list) :
    f[i] = IF i = 0 THEN <<>>
           ELSE IF Owner[list[i]] = c THEN Append(f[i - 1], list[i]) ELSE f[i - 1]

OwnedUpTo(c, list, i) == {list[j] : j \in {k \in 1 .. i : Owner[list[k]] = c}}

LEMMA SelectsElements ==
  ASSUME NEW c, NEW list \in Seq(Registries), NEW f, Selects(f, c, list)
  PROVE  \A i \in 0 .. Len(list) :
            f[i] \in Seq(Registries) /\ Elements(f[i]) = OwnedUpTo(c, list, i)
  <1> DEFINE Right(i) == f[i] \in Seq(Registries) /\ Elements(f[i]) = OwnedUpTo(c, list, i)
             T == {i \in Nat : i <= Len(list) => Right(i)}
  <1>0. Len(list) \in Nat /\ \A i \in 1 .. Len(list) : list[i] \in Registries
    OBVIOUS
  <1>1. 0 \in T
    <2>1. f[0] = <<>>
      BY <1>0 DEF Selects
    <2>2. <<>> \in Seq(Registries) /\ Elements(<<>>) = {} /\ OwnedUpTo(c, list, 0) = {}
      BY DEF Elements, OwnedUpTo
    <2> QED BY <2>1, <2>2
  <1>2. ASSUME NEW n \in T PROVE n + 1 \in T
    <2> SUFFICES ASSUME n + 1 <= Len(list) PROVE Right(n + 1)
      OBVIOUS
    <2>1. n \in Nat /\ n + 1 \in 1 .. Len(list) /\ n + 1 - 1 = n /\ n + 1 # 0 /\ Right(n)
      BY <1>0, <1>2
    <2>2. f[n + 1] = IF Owner[list[n + 1]] = c THEN Append(f[n], list[n + 1]) ELSE f[n]
      BY <1>0, <2>1 DEF Selects
    <2>3. OwnedUpTo(c, list, n + 1)
            = OwnedUpTo(c, list, n) \cup IF Owner[list[n + 1]] = c THEN {list[n + 1]} ELSE {}
      <3>1. 1 .. n + 1 = (1 .. n) \cup {n + 1}
        BY <2>1
      <3> QED BY <3>1 DEF OwnedUpTo
    <2>4. ASSUME NEW x \in Registries, NEW s \in Seq(Registries)
          PROVE  Append(s, x) \in Seq(Registries) /\ Elements(Append(s, x)) = Elements(s) \cup {x}
      <3>1. /\ Len(Append(s, x)) = Len(s) + 1 /\ Append(s, x)[Len(s) + 1] = x
            /\ \A i \in 1 .. Len(s) : Append(s, x)[i] = s[i]
            /\ 1 .. Len(s) + 1 = (1 .. Len(s)) \cup {Len(s) + 1}
        OBVIOUS
      <3> QED BY <3>1 DEF Elements
    <2>5. CASE Owner[list[n + 1]] = c
      <3>1. list[n + 1] \in Registries /\ f[n] \in Seq(Registries)
        BY <1>0, <2>1
      <3>2. /\ Append(f[n], list[n + 1]) \in Seq(Registries)
            /\ Elements(Append(f[n], list[n + 1])) = Elements(f[n]) \cup {list[n + 1]}
        BY <2>4, <3>1
      <3> QED BY <2>1, <2>2, <2>3, <2>5, <3>2
    <2>6. CASE Owner[list[n + 1]] # c
      BY <2>1, <2>2, <2>3, <2>6
    <2> QED BY <2>5, <2>6
  <1>3. T = Nat
    <2> HIDE DEF T
    <2> QED BY <1>1, <1>2, SetInduction DEF T
  <1> QED BY <1>0, <1>3

LEMMA OwnedByElements ==
  ASSUME NEW c, NEW list \in Seq(Registries)
  PROVE  /\ OwnedBy(c, list) \in Seq(Registries)
         /\ Elements(OwnedBy(c, list)) = {r \in Elements(list) : Owner[r] = c}
  <1> DEFINE N == Len(list)
             Def(f, n) == [i \in 0 .. n |->
                             IF i = 0 THEN <<>>
                             ELSE IF Owner[list[i]] = c THEN Append(f[i - 1], list[i])
                             ELSE f[i - 1]]
             T == {n \in Nat : \E f : f = Def(f, n)}
  <1>1. N \in Nat
    OBVIOUS
  <1>2. 0 \in T
    <2> DEFINE f == [i \in 0 .. 0 |-> <<>>]
    <2>1. f = Def(f, 0)
      OBVIOUS
    <2> QED BY <2>1
  <1>3. ASSUME NEW n \in T PROVE n + 1 \in T
    <2>1. PICK f : f = Def(f, n)
      OBVIOUS
    <2> DEFINE g == [i \in 0 .. n + 1 |->
                       IF i \in 0 .. n THEN f[i]
                       ELSE IF Owner[list[i]] = c THEN Append(f[i - 1], list[i]) ELSE f[i - 1]]
    <2>2. n \in Nat
      OBVIOUS
    <2>3. \A i \in 0 .. n : f[i] = IF i = 0 THEN <<>>
                                   ELSE IF Owner[list[i]] = c THEN Append(f[i - 1], list[i])
                                   ELSE f[i - 1]
      BY <2>1
    <2>4. ASSUME NEW i \in 0 .. n + 1 PROVE g[i] = Def(g, n + 1)[i]
      <3>1. CASE i = 0
        BY <2>2, <2>3, <3>1
      <3>2. CASE i # 0
        <4>1. i - 1 \in 0 .. n /\ g[i - 1] = f[i - 1]
          BY <2>2, <3>2
        <4> QED BY <2>2, <2>3, <3>2, <4>1
      <3> QED BY <3>1, <3>2
    <2>5. g = Def(g, n + 1)
      BY <2>4
    <2> HIDE DEF g, Def
    <2>6. \E f1 : f1 = Def(f1, n + 1)
      BY <2>5
    <2> QED BY <2>2, <2>6
  <1>4. T = Nat
    <2>1. T \in SUBSET Nat
      OBVIOUS
    <2> HIDE DEF T
    <2> QED BY <1>2, <1>3, <2>1, SetInduction
  <1> DEFINE h == CHOOSE f : f = Def(f, N)
  <1>5. OwnedBy(c, list) = h[N]
    BY DEF OwnedBy
  <1>6. h = Def(h, N)
    <2>1. \E f : f = Def(f, N)
      BY <1>1, <1>4
    <2> QED BY <2>1
  <1> HIDE DEF h
  <1>7. Selects(h, c, list)
    BY <1>6 DEF Selects
  <1>8. h[N] \in Seq(Registries) /\ Elements(h[N]) = OwnedUpTo(c, list, N)
    BY <1>1, <1>7, SelectsElements
  <1> QED BY <1>5, <1>8 DEF OwnedUpTo, Elements

-----------------------------------------------------------------------------
\* Events and what they tell

EventSet ==
  [op : {"global", "remove"}, reg : Registries, global : Globals]
  \cup [op : {"error", "delete_id"}]
  \cup [op : {"done"}, at : SUBSET Globals, told : SUBSET Registries]

IsTold(e) == e.op \in {"global", "remove"}

\* Event e of stream s, for registry r and global g
Announces(e, r, g) == e.op = "global" /\ e.reg = r /\ e.global = g
Retracts(e, r, g)  == e.op = "remove" /\ e.reg = r /\ e.global = g
RetractedFrom(s, r, g, i) == \E j \in i .. Len(s) : Retracts(s[j], r, g)

LEMMA KnowsMember ==
  ASSUME NEW K, NEW s \in Seq(EventSet), NEW r, NEW g
  PROVE  g \in Knows(K, s, r) <=>
           \/ g \in K /\ ~RetractedFrom(s, r, g, 1)
           \/ \E k \in 1 .. Len(s) : Announces(s[k], r, g) /\ ~RetractedFrom(s, r, g, k)
  BY DEF Knows, RetractedFrom, Announces, Retracts

LEMMA KnowsEmpty ==
  ASSUME NEW K, NEW r
  PROVE  Knows(K, <<>>, r) = K
  BY DEF Knows

\* First s is read, then t.
LEMMA KnowsConcat ==
  ASSUME NEW K, NEW s \in Seq(EventSet), NEW t \in Seq(EventSet), NEW r
  PROVE  Knows(K, s \o t, r) = Knows(Knows(K, s, r), t, r)
  <1> DEFINE z == s \o t
             n == Len(s)
             m == Len(t)
  <1>1. /\ z \in Seq(EventSet) /\ Len(z) = n + m /\ n \in Nat /\ m \in Nat
        /\ \A i \in 1 .. n : z[i] = s[i]
        /\ \A i \in 1 .. m : z[n + i] = t[i]
    OBVIOUS
  <1> HIDE DEF z, n, m
  <1>2. \A i \in 1 .. n + m : i \in 1 .. n \/ (i - n \in 1 .. m /\ i = n + (i - n))
    BY <1>1
  <1>3. ASSUME NEW g, NEW i \in 1 .. n + 1
        PROVE  RetractedFrom(z, r, g, i) <=> RetractedFrom(s, r, g, i) \/ RetractedFrom(t, r, g, 1)
    <2>1. ASSUME NEW j \in i .. n + m, Retracts(z[j], r, g)
          PROVE  RetractedFrom(s, r, g, i) \/ RetractedFrom(t, r, g, 1)
      <3>1. CASE j \in i .. n
        <4>1. j \in 1 .. n /\ z[j] = s[j]
          BY <1>1, <1>3, <3>1
        <4> QED BY <2>1, <3>1, <4>1 DEF RetractedFrom, n
      <3>2. CASE j - n \in 1 .. m
        <4>1. z[j] = t[j - n]
          BY <1>1, <1>2, <1>3, <2>1, <3>2
        <4> QED BY <2>1, <3>2, <4>1 DEF RetractedFrom, m
      <3> QED BY <1>1, <1>3, <2>1, <3>1, <3>2
    <2>2. ASSUME NEW j \in i .. n, Retracts(s[j], r, g) PROVE RetractedFrom(z, r, g, i)
      BY <1>1, <1>3, <2>2 DEF RetractedFrom
    <2>3. ASSUME NEW j \in 1 .. m, Retracts(t[j], r, g) PROVE RetractedFrom(z, r, g, i)
      <3>1. n + j \in i .. n + m /\ z[n + j] = t[j]
        BY <1>1, <1>3
      <3> QED BY <1>1, <2>3, <3>1 DEF RetractedFrom
    <2> QED BY <1>1, <2>1, <2>2, <2>3 DEF RetractedFrom, n, m
  <1>4. ASSUME NEW g, NEW i \in 1 .. m
        PROVE  RetractedFrom(z, r, g, n + i) <=> RetractedFrom(t, r, g, i)
    <2>1. ASSUME NEW j \in n + i .. n + m, Retracts(z[j], r, g)
          PROVE  RetractedFrom(t, r, g, i)
      <3>1. j - n \in i .. m /\ j - n \in 1 .. m /\ j = n + (j - n)
        BY <1>1, <1>4
      <3>2. z[j] = t[j - n]
        BY <1>1, <3>1
      <3> QED BY <2>1, <3>1, <3>2 DEF RetractedFrom, m
    <2>2. ASSUME NEW j \in i .. m, Retracts(t[j], r, g) PROVE RetractedFrom(z, r, g, n + i)
      <3>1. n + j \in n + i .. n + m /\ z[n + j] = t[j]
        BY <1>1, <1>4
      <3> QED BY <1>1, <2>2, <3>1 DEF RetractedFrom
    <2> QED BY <1>1, <2>1, <2>2 DEF RetractedFrom, m
  <1>5. ASSUME NEW g
        PROVE  (\E k \in 1 .. n + m : Announces(z[k], r, g) /\ ~RetractedFrom(z, r, g, k))
               <=> \/ /\ \E k \in 1 .. n : Announces(s[k], r, g) /\ ~RetractedFrom(s, r, g, k)
                      /\ ~RetractedFrom(t, r, g, 1)
                   \/ \E k \in 1 .. m : Announces(t[k], r, g) /\ ~RetractedFrom(t, r, g, k)
    <2>1. ASSUME NEW k \in 1 .. n
          PROVE  z[k] = s[k] /\ k \in 1 .. n + m /\ k \in 1 .. n + 1
      BY <1>1
    <2>2. ASSUME NEW k \in 1 .. m
          PROVE  z[n + k] = t[k] /\ n + k \in 1 .. n + m
      BY <1>1
    <2> QED BY <1>2, <1>3, <1>4, <2>1, <2>2
  <1>6. ASSUME NEW g
        PROVE  g \in Knows(K, z, r) <=> g \in Knows(Knows(K, s, r), t, r)
    <2>1. 1 \in 1 .. n + 1
      BY <1>1
    <2>2. RetractedFrom(z, r, g, 1) <=> RetractedFrom(s, r, g, 1) \/ RetractedFrom(t, r, g, 1)
      BY <1>3, <2>1
    <2>3. g \in Knows(K, z, r) <=>
             \/ g \in K /\ ~RetractedFrom(z, r, g, 1)
             \/ \E k \in 1 .. n + m : Announces(z[k], r, g) /\ ~RetractedFrom(z, r, g, k)
      BY <1>1, KnowsMember
    <2>4. g \in Knows(K, s, r) <=>
             \/ g \in K /\ ~RetractedFrom(s, r, g, 1)
             \/ \E k \in 1 .. n : Announces(s[k], r, g) /\ ~RetractedFrom(s, r, g, k)
      BY KnowsMember DEF n
    <2>5. g \in Knows(Knows(K, s, r), t, r) <=>
             \/ g \in Knows(K, s, r) /\ ~RetractedFrom(t, r, g, 1)
             \/ \E k \in 1 .. m : Announces(t[k], r, g) /\ ~RetractedFrom(t, r, g, k)
      BY KnowsMember DEF m
    <2> QED BY <1>5, <2>2, <2>3, <2>4, <2>5
  <1> QED BY <1>6 DEF z

\* Nothing is retracted.
LEMMA KnowsMore ==
  ASSUME NEW K, NEW t \in Seq(EventSet), NEW r, \A i \in 1 .. Len(t) : t[i].op # "remove"
  PROVE  Knows(K, t, r) = K \cup {t[i].global : i \in {k \in 1 .. Len(t) :
                                                         t[k].op = "global" /\ t[k].reg = r}}
  <1>1. ASSUME NEW g, NEW i \in Nat \ {0} PROVE ~RetractedFrom(t, r, g, i)
    <2>1. Len(t) \in Nat /\ \A j \in i .. Len(t) : j \in 1 .. Len(t)
      BY <1>1
    <2> QED BY <2>1 DEF RetractedFrom, Retracts
  <1>2. ASSUME NEW g
        PROVE  g \in Knows(K, t, r)
                 <=> g \in K \/ \E k \in 1 .. Len(t) : Announces(t[k], r, g)
    <2>1. Len(t) \in Nat /\ ~RetractedFrom(t, r, g, 1)
      BY <1>1
    <2>2. \A k \in 1 .. Len(t) : ~RetractedFrom(t, r, g, k)
      BY <1>1, <2>1
    <2>3. g \in Knows(K, t, r) <=>
             \/ g \in K /\ ~RetractedFrom(t, r, g, 1)
             \/ \E k \in 1 .. Len(t) : Announces(t[k], r, g) /\ ~RetractedFrom(t, r, g, k)
      BY KnowsMember
    <2> QED BY <2>1, <2>2, <2>3
  <1> QED BY <1>2 DEF Announces

\* Nobody tells r anything.
LEMMA KnowsSame ==
  ASSUME NEW K, NEW t \in Seq(EventSet), NEW r,
         \A i \in 1 .. Len(t) : ~(IsTold(t[i]) /\ t[i].reg = r)
  PROVE  Knows(K, t, r) = K
  <1>1. ASSUME NEW g, NEW i \in 1 .. Len(t) PROVE ~Announces(t[i], r, g) /\ ~Retracts(t[i], r, g)
    BY DEF IsTold, Announces, Retracts
  <1>2. ASSUME NEW g PROVE g \in Knows(K, t, r) <=> g \in K
    <2>1. g \in Knows(K, t, r) <=>
             \/ g \in K /\ ~RetractedFrom(t, r, g, 1)
             \/ \E k \in 1 .. Len(t) : Announces(t[k], r, g) /\ ~RetractedFrom(t, r, g, k)
      BY KnowsMember
    <2> QED BY <1>1, <2>1 DEF RetractedFrom
  <1> QED BY <1>2

\* Only g is retracted, and nothing announced.
LEMMA KnowsLess ==
  ASSUME NEW K, NEW t \in Seq(EventSet), NEW r, NEW g,
         \A i \in 1 .. Len(t) : t[i].op = "remove" /\ t[i].global = g
  PROVE  Knows(K, t, r) = IF \E i \in 1 .. Len(t) : t[i].reg = r THEN K \ {g} ELSE K
  <1>1. ASSUME NEW h
        PROVE  h \in Knows(K, t, r) <=>
                 h \in K /\ ~(h = g /\ \E i \in 1 .. Len(t) : t[i].reg = r)
    BY KnowsMember DEF RetractedFrom, Announces, Retracts
  <1> QED BY <1>1

-----------------------------------------------------------------------------
\* The inductive invariant

RequestSet ==
  [op : {"get_registry"}, reg : Registries]
  \cup [op : {"sync"}, told : SUBSET Registries]
  \cup [op : {"bind"}, name : Nat, version : Nat, meant : Globals]

TypeOK ==
  /\ global_list \in Seq(Globals) /\ id \in Nat /\ created \in Nat
  /\ registry_resource_list \in Seq(Registries) /\ resources \subseteq Registries
  /\ connected \subseteq Clients /\ dying \in Clients \cup {NoClient} /\ error \subseteq Clients
  /\ requests \in [Clients -> Seq(RequestSet)]
  /\ events \in [Clients -> Seq(EventSet)]
  /\ \A c \in Clients : Len(events[c]) <= MaxDown
  /\ known \in [Registries -> SUBSET Globals]
  /\ budget \in [Clients -> Nat]
  /\ bound \subseteq [client : Clients, meant : Globals, got : Globals, version : Nat]
  /\ refused \subseteq Globals

ListInv ==
  /\ IsInjective(global_list) /\ IsInjective(registry_resource_list)
  /\ Listed = resources

\* Some part of the system still speaks of g.
UnderWay(g) ==
  \E c \in Clients : \E i \in 1 .. Len(events[c]) :
    IsTold(events[c][i]) /\ events[c][i].global = g

Meant(g) ==
  \E c \in Careful : \E i \in 1 .. Len(requests[c]) :
    requests[c][i].op = "bind" /\ requests[c][i].meant = g

InUse(g) ==
  \/ g \in GlobalsNow \/ g \in refused
  \/ \E r \in Registries : g \in known[r]
  \/ UnderWay(g) \/ Meant(g)

\* A name means one global, however long ago it was given.
NameInv ==
  /\ \A g \in Globals : InUse(g) => g.name < id
  /\ \A g, h \in Globals : InUse(g) /\ InUse(h) /\ g.name = h.name => g = h

BindInv ==
  /\ BindFindsItsGlobal
  /\ \A c \in Careful : \A i \in 1 .. Len(requests[c]) :
        LET q == requests[c][i]
        IN  q.op = "bind" => q.name = q.meant.name /\ q.version \in 1 .. q.meant.version

\* In the requests s of client c, R being the registries there are, every
\* registry is asked for once, and before a sync that counts on it.
Orderly(c, s, R) ==
  \A i \in 1 .. Len(s) :
    /\ s[i].op = "get_registry" =>
          /\ Owner[s[i].reg] = c /\ s[i].reg \notin R
          /\ \A j \in 1 .. Len(s) : j # i /\ s[j].op = "get_registry" => s[j].reg # s[i].reg
    /\ s[i].op = "sync" =>
          \A r \in s[i].told :
             /\ Owner[r] = c
             /\ r \in R \/ \E j \in 1 .. i - 1 : s[j].op = "get_registry" /\ s[j].reg = r

AskInv ==
  \A c \in Clients :
    /\ Orderly(c, requests[c], resources)
    /\ c \notin connected \ {dying} => requests[c] = <<>>

\* A registry that has not been created yet has been told nothing.
FreshInv ==
  \A r \in Registries \ resources :
    Owner[r] \in connected \ {dying} =>
      /\ known[r] = {}
      /\ \A i \in 1 .. Len(events[Owner[r]]) :
            IsTold(events[Owner[r]][i]) => events[Owner[r]][i].reg # r

\* Events go to the owner of the registry, and a done event finds its client
\* knowing what there was when it was sent.
StreamSound(c, s, K) ==
  \A i \in 1 .. Len(s) :
    /\ IsTold(s[i]) => Owner[s[i].reg] = c
    /\ s[i].op = "done" =>
          \A r \in s[i].told : Owner[r] = c /\ Knows(K[r], SubSeq(s, 1, i - 1), r) = s[i].at

StreamInv == \A c \in Clients : StreamSound(c, events[c], known)

AgreeInv ==
  \A r \in resources : Owner[r] \notin error \cup {dying} => WillKnow(r) = GlobalsNow

RegistryInv ==
  /\ TypeOK /\ ListInv /\ NameInv /\ BindInv
  /\ AskInv /\ FreshInv /\ StreamInv /\ AgreeInv

-----------------------------------------------------------------------------
\* Lists and streams

LEMMA ListedElements == Listed = Elements(registry_resource_list) /\ GlobalsNow = Elements(global_list)
  BY DEF Listed, GlobalsNow, Elements

LEMMA SequenceElement ==
  ASSUME NEW S, NEW s \in Seq(S), NEW i \in 1 .. Len(s)
  PROVE  s[i] \in S
  OBVIOUS

LEMMA SequencePrefix ==
  ASSUME NEW S, NEW s \in Seq(S), NEW n \in 0 .. Len(s)
  PROVE  /\ SubSeq(s, 1, n) \in Seq(S) /\ Len(SubSeq(s, 1, n)) = n
         /\ \A i \in 1 .. n : SubSeq(s, 1, n)[i] = s[i]
         /\ n = Len(s) => SubSeq(s, 1, n) = s
  <1>1. /\ SubSeq(s, 1, n) \in Seq(S) /\ Len(SubSeq(s, 1, n)) = n
        /\ \A i \in 1 .. n : SubSeq(s, 1, n)[i] = s[i]
    OBVIOUS
  <1> QED BY <1>1

LEMMA SequenceConcat ==
  ASSUME NEW S, NEW s \in Seq(S), NEW t \in Seq(S)
  PROVE  /\ s \o t \in Seq(S) /\ Len(s \o t) = Len(s) + Len(t)
         /\ \A i \in 1 .. Len(s) : (s \o t)[i] = s[i]
         /\ \A i \in 1 .. Len(t) : (s \o t)[Len(s) + i] = t[i]
         /\ \A i \in 1 .. Len(s \o t) :
               i \in 1 .. Len(s) \/ (i - Len(s) \in 1 .. Len(t) /\ (s \o t)[i] = t[i - Len(s)])
         /\ \A n \in 0 .. Len(s) : SubSeq(s \o t, 1, n) = SubSeq(s, 1, n)
         /\ SubSeq(s \o t, 1, Len(s)) = s
         /\ t = <<>> => s \o t = s
  <1> DEFINE z == s \o t
  <1>1. /\ z \in Seq(S) /\ Len(z) = Len(s) + Len(t) /\ Len(s) \in Nat /\ Len(t) \in Nat
        /\ \A i \in 1 .. Len(s) : z[i] = s[i]
        /\ \A i \in 1 .. Len(t) : z[Len(s) + i] = t[i]
    OBVIOUS
  <1>2. t = <<>> => z = s
    OBVIOUS
  <1> HIDE DEF z
  <1>3. \A i \in 1 .. Len(z) :
           i \in 1 .. Len(s) \/ (i - Len(s) \in 1 .. Len(t) /\ z[i] = t[i - Len(s)])
    <2> SUFFICES ASSUME NEW i \in 1 .. Len(z), i \notin 1 .. Len(s)
                 PROVE  i - Len(s) \in 1 .. Len(t) /\ z[i] = t[i - Len(s)]
      OBVIOUS
    <2>1. i - Len(s) \in 1 .. Len(t) /\ i = Len(s) + (i - Len(s))
      BY <1>1
    <2> QED BY <1>1, <2>1
  <1>4. ASSUME NEW n \in 0 .. Len(s) PROVE SubSeq(z, 1, n) = SubSeq(s, 1, n)
    <2>1. n \in 0 .. Len(z)
      BY <1>1
    <2>2. /\ SubSeq(z, 1, n) \in Seq(S) /\ Len(SubSeq(z, 1, n)) = n
          /\ \A i \in 1 .. n : SubSeq(z, 1, n)[i] = z[i]
      BY <1>1, <2>1, SequencePrefix
    <2>3. /\ SubSeq(s, 1, n) \in Seq(S) /\ Len(SubSeq(s, 1, n)) = n
          /\ \A i \in 1 .. n : SubSeq(s, 1, n)[i] = s[i]
      BY SequencePrefix
    <2>4. \A i \in 1 .. n : z[i] = s[i]
      BY <1>1
    <2> QED BY <2>2, <2>3, <2>4
  <1>5. SubSeq(s, 1, Len(s)) = s
    BY SequencePrefix, <1>1
  <1>6. SubSeq(z, 1, Len(s)) = s
    BY <1>1, <1>4, <1>5
  <1> QED BY <1>1, <1>2, <1>3, <1>4, <1>6 DEF z

LEMMA EventsConcat ==
  ASSUME NEW s \in Seq(EventSet), NEW t \in Seq(EventSet)
  PROVE  s \o t \in Seq(EventSet) /\ Len(s \o t) = Len(s) + Len(t)
  BY SequenceConcat

\* Events are appended: one at most is a done event, the first of them, and it
\* says what the stream will have told by then.
Appendable(c, s, t, K) ==
  \A i \in 1 .. Len(t) :
    /\ IsTold(t[i]) => Owner[t[i].reg] = c
    /\ t[i].op = "done" =>
          i = 1 /\ \A r \in t[i].told : Owner[r] = c /\ Knows(K[r], s, r) = t[i].at

LEMMA StreamGrows ==
  ASSUME NEW c, NEW s \in Seq(EventSet), NEW t \in Seq(EventSet), NEW K,
         StreamSound(c, s, K), Appendable(c, s, t, K)
  PROVE  StreamSound(c, s \o t, K)
  <1> DEFINE z == s \o t
  <1>1. /\ Len(s) \in Nat /\ SubSeq(z, 1, Len(s)) = s
        /\ \A i \in 1 .. Len(s) : z[i] = s[i]
        /\ \A i \in 1 .. Len(z) :
              i \in 1 .. Len(s) \/ (i - Len(s) \in 1 .. Len(t) /\ z[i] = t[i - Len(s)])
        /\ \A n \in 0 .. Len(s) : SubSeq(z, 1, n) = SubSeq(s, 1, n)
    BY SequenceConcat
  <1> HIDE DEF z
  <1>2. ASSUME NEW i \in 1 .. Len(s)
        PROVE  z[i] = s[i] /\ SubSeq(z, 1, i - 1) = SubSeq(s, 1, i - 1)
    <2>1. i - 1 \in 0 .. Len(s)
      BY <1>1
    <2> QED BY <1>1, <2>1
  <1>3. ASSUME NEW i \in 1 .. Len(z)
        PROVE  /\ IsTold(z[i]) => Owner[z[i].reg] = c
               /\ z[i].op = "done" =>
                    \A r \in z[i].told :
                       Owner[r] = c /\ Knows(K[r], SubSeq(z, 1, i - 1), r) = z[i].at
    <2>1. CASE i \in 1 .. Len(s)
      BY <1>2, <2>1 DEF StreamSound
    <2>2. CASE i - Len(s) \in 1 .. Len(t) /\ z[i] = t[i - Len(s)]
      <3>1. IsTold(z[i]) => Owner[z[i].reg] = c
        BY <2>2 DEF Appendable
      <3>2. ASSUME z[i].op = "done", NEW r \in z[i].told
            PROVE  Owner[r] = c /\ Knows(K[r], SubSeq(z, 1, i - 1), r) = z[i].at
        <4>1. /\ i - Len(s) = 1 /\ Owner[r] = c /\ Knows(K[r], s, r) = z[i].at
          BY <2>2, <3>2 DEF Appendable
        <4>2. i - 1 = Len(s)
          BY <1>1, <4>1
        <4> QED BY <1>1, <4>1, <4>2
      <3> QED BY <3>1, <3>2
    <2> QED BY <1>1, <2>1, <2>2
  <1>4. StreamSound(c, z, K)
    BY <1>3 DEF StreamSound
  <1> QED BY <1>4 DEF z

\* The first event is read.
LEMMA StreamTail ==
  ASSUME NEW c, NEW s \in Seq(EventSet), s # <<>>, NEW K, NEW L, StreamSound(c, s, K),
         \A r \in Registries : Owner[r] = c => L[r] = Knows(K[r], <<Head(s)>>, r)
  PROVE  /\ StreamSound(c, Tail(s), L)
         /\ \A r \in Registries : Owner[r] = c => Knows(L[r], Tail(s), r) = Knows(K[r], s, r)
  <1> DEFINE h == <<Head(s)>>
             t == Tail(s)
  <1>1. /\ h \in Seq(EventSet) /\ t \in Seq(EventSet) /\ s = h \o t
        /\ Len(s) = Len(t) + 1 /\ Len(t) \in Nat
        /\ \A i \in 1 .. Len(t) : t[i] = s[i + 1] /\ i + 1 \in 1 .. Len(s)
    OBVIOUS
  <1> HIDE DEF h, t
  <1>2. ASSUME NEW r \in Registries, Owner[r] = c PROVE Knows(L[r], t, r) = Knows(K[r], s, r)
    <2>1. L[r] = Knows(K[r], h, r)
      BY <1>2 DEF h
    <2>2. \A X : Knows(X, h \o t, r) = Knows(Knows(X, h, r), t, r)
      BY <1>1, KnowsConcat
    <2> QED BY <1>1, <2>1, <2>2
  <1>3. ASSUME NEW i \in 1 .. Len(t)
        PROVE  SubSeq(s, 1, i) = h \o SubSeq(t, 1, i - 1) /\ SubSeq(t, 1, i - 1) \in Seq(EventSet)
    <2> DEFINE u == SubSeq(t, 1, i - 1)
               a == SubSeq(s, 1, i)
    <2>1. /\ u \in Seq(EventSet) /\ Len(u) = i - 1 /\ \A j \in 1 .. i - 1 : u[j] = t[j]
      <3>1. i - 1 \in 0 .. Len(t)
        BY <1>1
      <3> QED BY <1>1, <3>1, SequencePrefix
    <2>2. /\ a \in Seq(EventSet) /\ Len(a) = i /\ \A j \in 1 .. i : a[j] = s[j]
      <3>1. i \in 0 .. Len(s)
        BY <1>1
      <3> QED BY <3>1, SequencePrefix
    <2>3. /\ h \o u \in Seq(EventSet) /\ Len(h \o u) = i /\ (h \o u)[1] = s[1]
          /\ \A j \in 1 .. i - 1 : (h \o u)[j + 1] = u[j]
      <3>1. h = <<s[1]>> /\ Len(h) = 1
        BY DEF h
      <3>2. /\ h \o u \in Seq(EventSet) /\ Len(h \o u) = Len(h) + Len(u)
            /\ \A j \in 1 .. Len(h) : (h \o u)[j] = h[j]
            /\ \A j \in 1 .. Len(u) : (h \o u)[Len(h) + j] = u[j]
        BY <1>1, <2>1, SequenceConcat
      <3> HIDE DEF u
      <3> QED BY <1>1, <2>1, <3>1, <3>2
    <2> HIDE DEF u, a
    <2>4. \A j \in 1 .. i : a[j] = (h \o u)[j]
      <3> SUFFICES ASSUME NEW j \in 1 .. i PROVE a[j] = (h \o u)[j]
        OBVIOUS
      <3>1. CASE j = 1
        BY <2>2, <2>3, <3>1
      <3>2. CASE j # 1
        <4>1. j - 1 \in 1 .. i - 1 /\ j - 1 + 1 = j /\ j - 1 \in 1 .. Len(t)
          BY <1>1, <3>2
        <4>2. (h \o u)[j] = u[j - 1] /\ u[j - 1] = t[j - 1] /\ t[j - 1] = s[j]
          BY <1>1, <2>1, <2>3, <4>1
        <4> QED BY <2>2, <4>2
      <3> QED BY <3>1, <3>2
    <2>5. a = h \o u
      BY <2>2, <2>3, <2>4, SeqEqual
    <2> QED BY <2>1, <2>5 DEF a, u
  <1>4. ASSUME NEW i \in 1 .. Len(t)
        PROVE  /\ IsTold(t[i]) => Owner[t[i].reg] = c
               /\ t[i].op = "done" =>
                    \A r \in t[i].told :
                       Owner[r] = c /\ Knows(L[r], SubSeq(t, 1, i - 1), r) = t[i].at
    <2>1. t[i] = s[i + 1] /\ i + 1 \in 1 .. Len(s) /\ i + 1 - 1 = i
      BY <1>1
    <2>2. ASSUME t[i].op = "done", NEW r \in t[i].told
          PROVE  Owner[r] = c /\ Knows(L[r], SubSeq(t, 1, i - 1), r) = t[i].at
      <3>1. Owner[r] = c /\ Knows(K[r], SubSeq(s, 1, i), r) = t[i].at
        BY <2>1, <2>2 DEF StreamSound
      <3>2. r \in Registries
        <4>1. t[i] \in EventSet
          BY <1>1, SequenceElement
        <4> QED BY <2>2, <4>1 DEF EventSet
      <3>3. Knows(K[r], h \o SubSeq(t, 1, i - 1), r)
              = Knows(Knows(K[r], h, r), SubSeq(t, 1, i - 1), r)
        <4>1. \A X : \A v \in Seq(EventSet) : Knows(X, h \o v, r) = Knows(Knows(X, h, r), v, r)
          BY <1>1, KnowsConcat
        <4> QED BY <1>3, <4>1
      <3> QED BY <1>3, <3>1, <3>2, <3>3 DEF h
    <2> QED BY <2>1, <2>2 DEF StreamSound
  <1>5. StreamSound(c, t, L)
    BY <1>4 DEF StreamSound
  <1> QED BY <1>2, <1>5 DEF t

\* The client knows nothing new about its own registries.
LEMMA StreamSame ==
  ASSUME NEW c, NEW s \in Seq(EventSet), NEW K, NEW L, StreamSound(c, s, K),
         \A r \in Registries : Owner[r] = c => L[r] = K[r]
  PROVE  StreamSound(c, s, L)
  <1>1. \A i \in 1 .. Len(s) : s[i].op = "done" => s[i].told \subseteq Registries
    BY SequenceElement DEF EventSet
  <1> QED BY <1>1 DEF StreamSound

-----------------------------------------------------------------------------
\* Posting events

LEMMA RoomLeft ==
  ASSUME NEW m \in Nat, NEW a \in Nat, NEW b \in Nat, b <= m,
         NEW n, n = IF a < m - b THEN a ELSE m - b
  PROVE  n \in 0 .. a /\ b + n <= m /\ (~(b + a > m) => n = a)
  OBVIOUS

\* p is what of evs gets into the stream of client c.
Posts(c, evs, p) ==
  /\ p \in Seq(EventSet) /\ events'[c] = events[c] \o p
  /\ Len(events'[c]) <= MaxDown
  /\ Len(p) <= Len(evs) /\ \A i \in 1 .. Len(p) : p[i] = evs[i]
  /\ c \notin error' \cup {dying} => p = evs

LEMMA SentPosts ==
  ASSUME TypeOK, NEW c \in Clients, NEW evs \in Seq(EventSet),
         events'[c] = Sent(c, evs), Lost(c, evs) => c \in error'
  PROVE  \E p \in Seq(EventSet) : Posts(c, evs, p)
  <1>1. /\ events[c] \in Seq(EventSet) /\ Len(events[c]) \in Nat /\ Len(events[c]) <= MaxDown
        /\ MaxDown \in Nat /\ Len(evs) \in Nat
    BY RegistryAssumption DEF TypeOK
  <1>2. CASE c = dying
    <2>1. /\ events'[c] = events[c] /\ <<>> \in Seq(EventSet) /\ Len(<<>>) = 0
          /\ events[c] \o <<>> = events[c]
      BY <1>1, <1>2, SequenceConcat DEF Sent
    <2>2. Posts(c, evs, <<>>)
      BY <1>1, <1>2, <2>1 DEF Posts
    <2> QED BY <2>1, <2>2
  <1>3. CASE c # dying
    <2>1. PICK n : n = IF Len(evs) < MaxDown - Len(events[c]) THEN Len(evs)
                       ELSE MaxDown - Len(events[c])
      OBVIOUS
    <2>2. /\ n \in 0 .. Len(evs) /\ Len(events[c]) + n <= MaxDown
          /\ ~(Len(events[c]) + Len(evs) > MaxDown) => n = Len(evs)
      <3>1. PICK a \in Nat, b \in Nat, m \in Nat :
               a = Len(evs) /\ b = Len(events[c]) /\ m = MaxDown
        BY <1>1
      <3>2. b <= m /\ n = IF a < m - b THEN a ELSE m - b
        BY <1>1, <2>1, <3>1
      <3>3. n \in 0 .. a /\ b + n <= m /\ (~(b + a > m) => n = a)
        BY <3>1, <3>2, RoomLeft
      <3> QED BY <3>1, <3>3
    <2>3. PICK p : p = SubSeq(evs, 1, n)
      OBVIOUS
    <2>4. events'[c] = events[c] \o p
      BY <1>3, <2>1, <2>3 DEF Sent
    <2>5. ~Lost(c, evs) => n = Len(evs)
      BY <1>3, <2>2 DEF Lost
    <2>6. /\ p \in Seq(EventSet) /\ Len(p) = n /\ \A i \in 1 .. n : p[i] = evs[i]
          /\ n = Len(evs) => p = evs
      BY <2>2, <2>3, SequencePrefix
    <2>7. Len(events'[c]) = Len(events[c]) + n
      BY <1>1, <2>4, <2>6, EventsConcat
    <2>8. Posts(c, evs, p)
      BY <1>1, <2>2, <2>4, <2>5, <2>6, <2>7 DEF Posts
    <2> QED BY <2>6, <2>8
  <1> QED BY <1>2, <1>3

LEMMA PostFacts ==
  ASSUME TypeOK, NEW c \in Clients, NEW evs \in Seq(EventSet), Post(c, evs)
  PROVE  /\ error' \subseteq Clients /\ error \subseteq error'
         /\ events' \in [Clients -> Seq(EventSet)]
         /\ \A d \in Clients \ {c} : events'[d] = events[d]
         /\ \E p \in Seq(EventSet) : Posts(c, evs, p)
  <1>1. /\ events \in [Clients -> Seq(EventSet)] /\ error \subseteq Clients
        /\ events' = [events EXCEPT ![c] = Sent(c, evs)]
        /\ error' = IF Lost(c, evs) THEN error \cup {c} ELSE error
    BY DEF TypeOK, Post
  <1>2. events'[c] = Sent(c, evs) /\ \A d \in Clients \ {c} : events'[d] = events[d]
    BY <1>1
  <1>3. PICK p \in Seq(EventSet) : Posts(c, evs, p)
    BY <1>1, <1>2, SentPosts
  <1>4. events'[c] \in Seq(EventSet)
    <2>1. events[c] \in Seq(EventSet)
      BY <1>1
    <2> QED BY <1>3, <2>1, EventsConcat DEF Posts
  <1>5. events' \in [Clients -> Seq(EventSet)]
    BY <1>1, <1>2, <1>4
  <1> QED BY <1>1, <1>2, <1>3, <1>5

LEMMA PostErrorFacts ==
  ASSUME TypeOK, NEW c \in Clients, PostError(c)
  PROVE  /\ error' = error \cup {c}
         /\ events' \in [Clients -> Seq(EventSet)]
         /\ \A d \in Clients \ {c} : events'[d] = events[d]
         /\ \E p \in Seq(EventSet) : Posts(c, <<[op |-> "error"]>>, p)
  <1> DEFINE evs == <<[op |-> "error"]>>
  <1>1. /\ events \in [Clients -> Seq(EventSet)] /\ error \subseteq Clients
        /\ events' = [events EXCEPT ![c] = Sent(c, evs)]
        /\ error' = error \cup {c}
    BY DEF TypeOK, PostError
  <1>2. events'[c] = Sent(c, evs) /\ \A d \in Clients \ {c} : events'[d] = events[d]
    BY <1>1
  <1>3. evs \in Seq(EventSet)
    BY DEF EventSet
  <1> HIDE DEF evs
  <1>4. PICK p \in Seq(EventSet) : Posts(c, evs, p)
    BY <1>1, <1>2, <1>3, SentPosts
  <1>5. events'[c] \in Seq(EventSet)
    <2>1. events[c] \in Seq(EventSet)
      BY <1>1
    <2> QED BY <1>4, <2>1, EventsConcat DEF Posts
  <1>6. events' \in [Clients -> Seq(EventSet)]
    BY <1>1, <1>2, <1>5
  <1> QED BY <1>1, <1>2, <1>4, <1>6 DEF evs

\* p is what client c is sent of an event for all registries.
Relays(c, op, g, p) ==
  /\ p \in Seq(EventSet) /\ events'[c] = events[c] \o p
  /\ Len(events'[c]) <= MaxDown
  /\ \A i \in 1 .. Len(p) :
        p[i].op = op /\ p[i].global = g /\ p[i].reg \in resources /\ Owner[p[i].reg] = c
  /\ c \notin error' \cup {dying} =>
        \A r \in resources : Owner[r] = c => \E i \in 1 .. Len(p) : p[i].reg = r

LEMMA BroadcastFacts ==
  ASSUME TypeOK, ListInv, NEW op \in {"global", "remove"}, NEW g \in Globals, Broadcast(op, g)
  PROVE  /\ error' \subseteq Clients /\ error \subseteq error'
         /\ events' \in [Clients -> Seq(EventSet)]
         /\ \A c \in Clients : \E p \in Seq(EventSet) : Relays(c, op, g, p)
  <1>1. /\ error \subseteq Clients /\ events \in [Clients -> Seq(EventSet)]
        /\ registry_resource_list \in Seq(Registries)
        /\ events' = [c \in Clients |-> Sent(c, ForEachRegistry(c, op, g))]
        /\ error' = error \cup {c \in Clients : Lost(c, ForEachRegistry(c, op, g))}
    BY DEF TypeOK, Broadcast
  <1>2. ASSUME NEW c \in Clients
        PROVE  \E p \in Seq(EventSet) : Relays(c, op, g, p)
    <2> DEFINE mine == OwnedBy(c, registry_resource_list)
               evs == ForEachRegistry(c, op, g)
    <2>1. mine \in Seq(Registries)
          /\ \A r : (\E i \in 1 .. Len(mine) : mine[i] = r) <=> r \in resources /\ Owner[r] = c
      <3>1. /\ mine \in Seq(Registries)
            /\ Elements(mine) = {r \in Elements(registry_resource_list) : Owner[r] = c}
        BY <1>1, OwnedByElements
      <3>2. Elements(registry_resource_list) = resources
        BY ListedElements DEF ListInv
      <3> HIDE DEF mine
      <3> QED BY <3>1, <3>2 DEF Elements
    <2>2. evs = [i \in 1 .. Len(mine) |-> [op |-> op, reg |-> mine[i], global |-> g]]
      BY DEF ForEachRegistry
    <2> HIDE DEF mine, evs
    <2>3. /\ evs \in Seq(EventSet) /\ Len(evs) = Len(mine) /\ Len(mine) \in Nat
          /\ \A i \in 1 .. Len(mine) :
                evs[i].op = op /\ evs[i].global = g /\ evs[i].reg = mine[i]
      <3>1. \A i \in 1 .. Len(mine) : mine[i] \in Registries
        BY <2>1
      <3>2. \A i \in 1 .. Len(mine) : [op |-> op, reg |-> mine[i], global |-> g] \in EventSet
        BY <3>1 DEF EventSet
      <3> QED BY <2>1, <2>2, <3>2
    <2>4. events'[c] = Sent(c, evs) /\ (Lost(c, evs) => c \in error')
      BY <1>1 DEF evs
    <2>5. PICK p \in Seq(EventSet) : Posts(c, evs, p)
      BY <2>3, <2>4, SentPosts
    <2>6. \A i \in 1 .. Len(p) : i \in 1 .. Len(mine) /\ p[i] = evs[i]
      BY <2>3, <2>5 DEF Posts
    <2>7. /\ p \in Seq(EventSet) /\ events'[c] = events[c] \o p /\ Len(events'[c]) <= MaxDown
          /\ c \notin error' \cup {dying} => p = evs
      BY <2>5 DEF Posts
    <2>8. ASSUME NEW i \in 1 .. Len(p)
          PROVE  p[i].op = op /\ p[i].global = g /\ p[i].reg \in resources /\ Owner[p[i].reg] = c
      BY <2>1, <2>3, <2>6
    <2>9. ASSUME c \notin error' \cup {dying}, NEW r \in resources, Owner[r] = c
          PROVE  \E i \in 1 .. Len(p) : p[i].reg = r
      <3>1. PICK i \in 1 .. Len(mine) : mine[i] = r
        BY <2>1, <2>9
      <3> QED BY <2>3, <2>7, <2>9, <3>1
    <2>10. Relays(c, op, g, p)
      BY <2>7, <2>8, <2>9 DEF Relays
    <2> QED BY <2>10
  <1>3. ASSUME NEW c \in Clients PROVE events'[c] \in Seq(EventSet)
    <2>1. PICK p \in Seq(EventSet) : Relays(c, op, g, p)
      BY <1>2
    <2>2. events[c] \in Seq(EventSet)
      BY <1>1
    <2> QED BY <2>1, <2>2, EventsConcat DEF Relays
  <1>4. events' \in [Clients -> Seq(EventSet)]
    BY <1>1, <1>3
  <1> QED BY <1>1, <1>2, <1>4

-----------------------------------------------------------------------------
\* Nothing is spoken of that was not spoken of before.
LEMMA NothingNew ==
  ASSUME RegistryInv, TypeOK', id' = id, \A h \in Globals : InUse(h)' => InUse(h)
  PROVE  NameInv'
  BY DEF RegistryInv, NameInv

-----------------------------------------------------------------------------
\* wl_global_create and wl_global_destroy

LEMMA RelayStep ==
  ASSUME RegistryInv, NEW op \in {"global", "remove"}, NEW g \in Globals,
         \A c \in Clients : \E p \in Seq(EventSet) : Relays(c, op, g, p),
         UNCHANGED <<known, resources, connected, dying>>
  PROVE  /\ FreshInv' /\ StreamInv'
         /\ \A h : UnderWay(h)' => h = g \/ UnderWay(h)
         /\ \A r \in resources :
               Owner[r] \notin error' \cup {dying} /\ WillKnow(r) = GlobalsNow
               => WillKnow(r)' = IF op = "global" THEN GlobalsNow \cup {g} ELSE GlobalsNow \ {g}
  <1>0. /\ TypeOK /\ FreshInv /\ StreamInv /\ AgreeInv
        /\ \A c \in Clients : events[c] \in Seq(EventSet)
        /\ \A r \in Registries : Owner[r] \in Clients
        /\ resources \subseteq Registries
    BY RegistryAssumption DEF RegistryInv, TypeOK
  <1>1. ASSUME NEW c \in Clients, NEW i \in 1 .. Len(events'[c])
        PROVE  \/ i \in 1 .. Len(events[c]) /\ events'[c][i] = events[c][i]
               \/ /\ events'[c][i].op = op /\ events'[c][i].global = g
                  /\ events'[c][i].reg \in resources
    <2>1. PICK p \in Seq(EventSet) : Relays(c, op, g, p)
      OBVIOUS
    <2>2. /\ \A j \in 1 .. Len(events[c]) : (events[c] \o p)[j] = events[c][j]
          /\ \A j \in 1 .. Len(events[c] \o p) :
                j \in 1 .. Len(events[c])
                \/ (j - Len(events[c]) \in 1 .. Len(p)
                    /\ (events[c] \o p)[j] = p[j - Len(events[c])])
      BY <1>0, SequenceConcat
    <2>3. events'[c] = events[c] \o p
      BY <2>1 DEF Relays
    <2>4. CASE i \in 1 .. Len(events[c])
      BY <2>2, <2>3, <2>4
    <2>5. CASE i - Len(events[c]) \in 1 .. Len(p) /\ events'[c][i] = p[i - Len(events[c])]
      BY <2>1, <2>5 DEF Relays
    <2> QED BY <1>1, <2>2, <2>3, <2>4, <2>5
  <1>2. FreshInv'
    <2> SUFFICES ASSUME NEW r \in Registries \ resources, Owner[r] \in connected \ {dying}
                 PROVE  /\ known[r] = {}
                        /\ \A i \in 1 .. Len(events'[Owner[r]]) :
                              IsTold(events'[Owner[r]][i]) => events'[Owner[r]][i].reg # r
      BY DEF FreshInv, IsTold
    <2>1. /\ known[r] = {}
          /\ \A i \in 1 .. Len(events[Owner[r]]) :
                IsTold(events[Owner[r]][i]) => events[Owner[r]][i].reg # r
      BY <1>0 DEF FreshInv
    <2> QED BY <1>0, <1>1, <2>1
  <1>3. StreamInv'
    <2> SUFFICES ASSUME NEW c \in Clients PROVE StreamSound(c, events'[c], known)
      BY DEF StreamInv, StreamSound, Knows, IsTold
    <2>1. PICK p \in Seq(EventSet) : Relays(c, op, g, p)
      OBVIOUS
    <2>2. /\ events'[c] = events[c] \o p
          /\ Appendable(c, events[c], p, known)
      BY <2>1 DEF Relays, Appendable
    <2>3. StreamSound(c, events[c], known)
      BY <1>0 DEF StreamInv
    <2> QED BY <1>0, <2>2, <2>3, StreamGrows
  <1>4. ASSUME NEW h, UnderWay(h)' PROVE h = g \/ UnderWay(h)
    <2>1. PICK c \in Clients : \E i \in 1 .. Len(events'[c]) :
             IsTold(events'[c][i]) /\ events'[c][i].global = h
      BY <1>4 DEF UnderWay, IsTold
    <2>2. PICK i \in 1 .. Len(events'[c]) :
             IsTold(events'[c][i]) /\ events'[c][i].global = h
      BY <2>1
    <2> QED BY <1>1, <2>2 DEF UnderWay
  <1>5. ASSUME NEW r \in resources, Owner[r] \notin error' \cup {dying}, WillKnow(r) = GlobalsNow
        PROVE  WillKnow(r)' = IF op = "global" THEN GlobalsNow \cup {g} ELSE GlobalsNow \ {g}
    <2>1. PICK c \in Clients : c = Owner[r]
      BY <1>0
    <2>2. PICK p \in Seq(EventSet) : Relays(c, op, g, p)
      BY <2>1
    <2>3. /\ events'[c] = events[c] \o p
          /\ \A i \in 1 .. Len(p) : p[i].op = op /\ p[i].global = g
          /\ \E i \in 1 .. Len(p) : p[i].reg = r
      BY <1>5, <2>1, <2>2 DEF Relays
    <2>4. WillKnow(r)' = Knows(known[r], events[c] \o p, r)
      BY <2>1, <2>3 DEF WillKnow, Knows
    <2>5. Knows(known[r], events[c] \o p, r) = Knows(Knows(known[r], events[c], r), p, r)
      BY <1>0, <2>1, KnowsConcat
    <2>6. Knows(known[r], events[c], r) = GlobalsNow
      BY <1>5, <2>1 DEF WillKnow
    <2>7. WillKnow(r)' = Knows(GlobalsNow, p, r)
      BY <2>4, <2>5, <2>6
    <2>8. CASE op = "global"
      <3>1. Knows(GlobalsNow, p, r)
              = GlobalsNow \cup {p[i].global : i \in {k \in 1 .. Len(p) :
                                                       p[k].op = "global" /\ p[k].reg = r}}
        <4>1. p \in Seq(EventSet) /\ \A i \in 1 .. Len(p) : p[i].op # "remove"
          BY <2>2, <2>3, <2>8
        <4> QED BY <4>1, KnowsMore
      <3>2. {p[i].global : i \in {k \in 1 .. Len(p) : p[k].op = "global" /\ p[k].reg = r}} = {g}
        BY <2>3, <2>8
      <3> QED BY <2>7, <2>8, <3>1, <3>2
    <2>9. CASE op = "remove"
      <3>1. Knows(GlobalsNow, p, r) = GlobalsNow \ {g}
        <4>1. /\ p \in Seq(EventSet)
              /\ \A i \in 1 .. Len(p) : p[i].op = "remove" /\ p[i].global = g
          BY <2>2, <2>3, <2>9
        <4>2. Knows(GlobalsNow, p, r)
                = IF \E i \in 1 .. Len(p) : p[i].reg = r THEN GlobalsNow \ {g} ELSE GlobalsNow
          BY <4>1, KnowsLess
        <4> QED BY <2>3, <4>2
      <3> QED BY <2>7, <2>9, <3>1
    <2> QED BY <2>8, <2>9
  <1> QED BY <1>2, <1>3, <1>4, <1>5

LEMMA CreateStep ==
  ASSUME RegistryInv, NEW v \in 1 .. MaxVersion, wl_global_create(v)
  PROVE  RegistryInv'
  <1>0. /\ TypeOK /\ ListInv /\ NameInv /\ BindInv /\ AskInv /\ FreshInv /\ StreamInv /\ AgreeInv
        /\ MaxVersion \in Nat
    BY RegistryAssumption DEF RegistryInv
  <1>1. PICK g : g = [name |-> id, version |-> v, data |-> created + 1]
    OBVIOUS
  <1>2. g \in Globals /\ g.name = id
    BY <1>0, <1>1 DEF TypeOK, Globals
  <1>3. /\ global_list' = Append(global_list, g) /\ Broadcast("global", g) /\ id' = id + 1
        /\ created' = created + 1
        /\ UNCHANGED <<registry_resource_list, resources, connected, dying,
                       requests, known, budget, bound, refused>>
    BY <1>1 DEF wl_global_create
  <1>4. ~InUse(g)
    BY <1>0, <1>2 DEF NameInv, TypeOK
  <1>5. /\ error' \subseteq Clients /\ error \subseteq error'
        /\ events' \in [Clients -> Seq(EventSet)]
        /\ \A c \in Clients : \E p \in Seq(EventSet) : Relays(c, "global", g, p)
    BY <1>0, <1>2, <1>3, BroadcastFacts
  <1>6. /\ FreshInv' /\ StreamInv'
        /\ \A h : UnderWay(h)' => h = g \/ UnderWay(h)
        /\ \A r \in resources :
              Owner[r] \notin error' \cup {dying} /\ WillKnow(r) = GlobalsNow
              => WillKnow(r)' = GlobalsNow \cup {g}
    BY <1>2, <1>3, <1>5, RelayStep
  <1>7. /\ Append(global_list, g) \in Seq(Globals) /\ IsInjective(Append(global_list, g))
        /\ \A h : Contains(Append(global_list, g), h) <=> Contains(global_list, h) \/ h = g
    <2>1. global_list \in Seq(Globals) /\ IsInjective(global_list) /\ ~Contains(global_list, g)
      BY <1>0, <1>4, ElementsContained, ListedElements DEF TypeOK, ListInv, InUse
    <2> QED BY <1>2, <2>1, ContainsAppend
  <1>8. GlobalsNow' = GlobalsNow \cup {g}
    <2>1. GlobalsNow' = Elements(Append(global_list, g))
      BY <1>3 DEF GlobalsNow, Elements
    <2> QED BY <1>7, <2>1, ElementsContained, ListedElements
  <1>9. TypeOK'
    <2>1. global_list' \in Seq(Globals) /\ id' \in Nat /\ created' \in Nat
      BY <1>0, <1>3, <1>7 DEF TypeOK
    <2>2. \A c \in Clients : Len(events'[c]) <= MaxDown
      BY <1>5 DEF Relays
    <2> QED BY <1>0, <1>3, <1>5, <2>1, <2>2 DEF TypeOK
  <1>10. ListInv'
    BY <1>0, <1>3, <1>7 DEF ListInv, Listed
  <1>11. ASSUME NEW h, InUse(h)' PROVE h = g \/ InUse(h)
    BY <1>3, <1>6, <1>8, <1>11 DEF InUse, Meant
  <1>12. NameInv'
    <2>1. ASSUME NEW h \in Globals, InUse(h)' PROVE h.name < id'
      <3>1. h = g \/ h.name < id
        BY <1>0, <1>11, <2>1 DEF NameInv
      <3>2. id \in Nat /\ h.name \in Nat /\ g.name = id /\ id' = id + 1
        BY <1>0, <1>2, <1>3 DEF TypeOK, Globals
      <3> QED BY <3>1, <3>2
    <2>2. ASSUME NEW h1 \in Globals, NEW h2 \in Globals, InUse(h1)', InUse(h2)', h1.name = h2.name
          PROVE  h1 = h2
      <3>1. (h1 = g \/ InUse(h1)) /\ (h2 = g \/ InUse(h2))
        BY <1>11, <2>2
      <3>2. \A h \in Globals : InUse(h) => h.name # g.name
        BY <1>0, <1>2 DEF NameInv, TypeOK, Globals
      <3> QED BY <1>0, <2>2, <3>1, <3>2 DEF NameInv
    <2> QED BY <2>1, <2>2 DEF NameInv
  <1>13. BindInv'
    <2>1. refused \cap GlobalsNow = {} /\ g \notin refused
      BY <1>0, <1>4 DEF BindInv, BindFindsItsGlobal, InUse
    <2> QED BY <1>0, <1>3, <1>8, <2>1 DEF BindInv, BindFindsItsGlobal
  <1>14. AskInv'
    BY <1>0, <1>3 DEF AskInv, Orderly
  <1>15. AgreeInv'
    <2> SUFFICES ASSUME NEW r \in resources, Owner[r] \notin error' \cup {dying}
                 PROVE  WillKnow(r)' = GlobalsNow'
      BY <1>3 DEF AgreeInv
    <2>1. WillKnow(r) = GlobalsNow
      BY <1>0, <1>5 DEF AgreeInv
    <2> QED BY <1>6, <1>8, <2>1
  <1> QED BY <1>6, <1>9, <1>10, <1>12, <1>13, <1>14, <1>15 DEF RegistryInv

LEMMA DestroyStep ==
  ASSUME RegistryInv, NEW g, wl_global_destroy(g)
  PROVE  RegistryInv'
  <1>0. /\ TypeOK /\ ListInv /\ NameInv /\ BindInv /\ AskInv /\ FreshInv /\ StreamInv /\ AgreeInv
    BY DEF RegistryInv
  <1>1. /\ g \in GlobalsNow /\ Broadcast("remove", g)
        /\ global_list' = RemoveFirst(global_list, g)
        /\ UNCHANGED <<id, created, registry_resource_list, resources, connected,
                       dying, requests, known, budget, bound, refused>>
    BY DEF wl_global_destroy
  <1>2. g \in Globals
    BY <1>0, <1>1 DEF TypeOK, GlobalsNow
  <1>5. /\ error' \subseteq Clients /\ error \subseteq error'
        /\ events' \in [Clients -> Seq(EventSet)]
        /\ \A c \in Clients : \E p \in Seq(EventSet) : Relays(c, "remove", g, p)
    BY <1>0, <1>1, <1>2, BroadcastFacts
  <1>6. /\ FreshInv' /\ StreamInv'
        /\ \A h : UnderWay(h)' => h = g \/ UnderWay(h)
        /\ \A r \in resources :
              Owner[r] \notin error' \cup {dying} /\ WillKnow(r) = GlobalsNow
              => WillKnow(r)' = GlobalsNow \ {g}
    BY <1>1, <1>2, <1>5, RelayStep
  <1>7. /\ RemoveFirst(global_list, g) \in Seq(Globals) /\ IsInjective(RemoveFirst(global_list, g))
        /\ \A h : Contains(RemoveFirst(global_list, g), h) <=> Contains(global_list, h) /\ h # g
    BY <1>0, ContainsRemove DEF TypeOK, ListInv
  <1>8. GlobalsNow' = GlobalsNow \ {g}
    <2>1. GlobalsNow' = Elements(RemoveFirst(global_list, g))
      BY <1>1 DEF GlobalsNow, Elements
    <2> QED BY <1>7, <2>1, ElementsContained, ListedElements
  <1>9. TypeOK'
    <2>1. \A c \in Clients : Len(events'[c]) <= MaxDown
      BY <1>5 DEF Relays
    <2> QED BY <1>0, <1>1, <1>5, <1>7, <2>1 DEF TypeOK
  <1>10. ListInv'
    BY <1>0, <1>1, <1>7 DEF ListInv, Listed
  <1>11. ASSUME NEW h, InUse(h)' PROVE InUse(h)
    BY <1>1, <1>6, <1>8, <1>11 DEF InUse, Meant
  <1>12. NameInv'
    BY <1>1, <1>9, <1>11, NothingNew
  <1>13. BindInv'
    BY <1>0, <1>1, <1>8 DEF BindInv, BindFindsItsGlobal
  <1>14. AskInv'
    BY <1>0, <1>1 DEF AskInv, Orderly
  <1>15. AgreeInv'
    <2> SUFFICES ASSUME NEW r \in resources, Owner[r] \notin error' \cup {dying}
                 PROVE  WillKnow(r)' = GlobalsNow'
      BY <1>1 DEF AgreeInv
    <2>1. WillKnow(r) = GlobalsNow
      BY <1>0, <1>5 DEF AgreeInv
    <2> QED BY <1>6, <1>8, <2>1
  <1> QED BY <1>6, <1>9, <1>10, <1>12, <1>13, <1>14, <1>15 DEF RegistryInv

-----------------------------------------------------------------------------
\* Requests

LEMMA OrderlyEmpty == ASSUME NEW c, NEW R PROVE Orderly(c, <<>>, R)
  BY DEF Orderly

LEMMA OrderlySame ==
  ASSUME NEW c, NEW s \in Seq(RequestSet), NEW R, NEW R2, Orderly(c, s, R),
         \A r : Owner[r] = c => (r \in R <=> r \in R2)
  PROVE  Orderly(c, s, R2)
  BY DEF Orderly

\* The first request is handled; one for a registry creates it.
LEMMA OrderlyTail ==
  ASSUME NEW c, NEW s \in Seq(RequestSet), s # <<>>, NEW R, Orderly(c, s, R),
         NEW R2, R2 = R \cup IF Head(s).op = "get_registry" THEN {Head(s).reg} ELSE {}
  PROVE  Orderly(c, Tail(s), R2)
  <1> DEFINE t == Tail(s)
  <1>1. /\ Len(s) = Len(t) + 1 /\ Len(t) \in Nat /\ Head(s) = s[1]
        /\ \A i \in 1 .. Len(t) : t[i] = s[i + 1] /\ i + 1 \in 1 .. Len(s) /\ i + 1 # 1
    OBVIOUS
  <1> HIDE DEF t
  <1>2. ASSUME NEW i \in 1 .. Len(t), t[i].op = "get_registry"
        PROVE  /\ Owner[t[i].reg] = c /\ t[i].reg \notin R2
               /\ \A j \in 1 .. Len(t) : j # i /\ t[j].op = "get_registry" => t[j].reg # t[i].reg
    <2>1. /\ Owner[s[i + 1].reg] = c /\ s[i + 1].reg \notin R
          /\ \A j \in 1 .. Len(s) :
                j # i + 1 /\ s[j].op = "get_registry" => s[j].reg # s[i + 1].reg
      BY <1>1, <1>2 DEF Orderly
    <2>2. 1 \in 1 .. Len(s)
      BY <1>1
    <2>3. t[i].reg \notin R2
      BY <1>1, <2>1, <2>2
    <2>4. ASSUME NEW j \in 1 .. Len(t), j # i, t[j].op = "get_registry"
          PROVE  t[j].reg # t[i].reg
      <3>1. j + 1 # i + 1 /\ j + 1 \in 1 .. Len(s) /\ t[j] = s[j + 1] /\ t[i] = s[i + 1]
        BY <1>1, <2>4
      <3> QED BY <2>1, <2>4, <3>1
    <2> QED BY <1>1, <2>1, <2>3, <2>4
  <1>3. ASSUME NEW i \in 1 .. Len(t), t[i].op = "sync", NEW r \in t[i].told
        PROVE  Owner[r] = c /\ (r \in R2 \/ \E j \in 1 .. i - 1 : t[j].op = "get_registry" /\ t[j].reg = r)
    <2>1. /\ Owner[r] = c
          /\ r \in R \/ \E j \in 1 .. i + 1 - 1 : s[j].op = "get_registry" /\ s[j].reg = r
      BY <1>1, <1>3 DEF Orderly
    <2>2. ASSUME NEW j \in 1 .. i, s[j].op = "get_registry", s[j].reg = r
          PROVE  r \in R2 \/ \E k \in 1 .. i - 1 : t[k].op = "get_registry" /\ t[k].reg = r
      <3>1. CASE j = 1
        BY <1>1, <2>2, <3>1
      <3>2. CASE j # 1
        <4>1. j - 1 \in 1 .. i - 1 /\ j - 1 \in 1 .. Len(t) /\ j - 1 + 1 = j
          BY <1>1, <3>2
        <4> QED BY <1>1, <2>2, <4>1
      <3> QED BY <3>1, <3>2
    <2>3. i + 1 - 1 = i
      BY <1>1
    <2> QED BY <2>1, <2>2, <2>3
  <1>4. Orderly(c, t, R2)
    BY <1>2, <1>3 DEF Orderly
  <1> QED BY <1>4 DEF t

\* A request may be sent after those of s.
Allowed(c, s, q, R) ==
  /\ q.op = "get_registry" =>
        /\ Owner[q.reg] = c /\ q.reg \notin R
        /\ \A j \in 1 .. Len(s) : s[j].op = "get_registry" => s[j].reg # q.reg
  /\ q.op = "sync" =>
        \A r \in q.told :
           /\ Owner[r] = c
           /\ r \in R \/ \E j \in 1 .. Len(s) : s[j].op = "get_registry" /\ s[j].reg = r

LEMMA OrderlyAppend ==
  ASSUME NEW c, NEW s \in Seq(RequestSet), NEW q \in RequestSet, NEW R,
         Orderly(c, s, R), Allowed(c, s, q, R)
  PROVE  Orderly(c, Append(s, q), R)
  <1> DEFINE t == Append(s, q)
  <1>1. /\ Len(t) = Len(s) + 1 /\ Len(s) \in Nat /\ t[Len(s) + 1] = q
        /\ \A i \in 1 .. Len(s) : t[i] = s[i]
        /\ 1 .. Len(t) = (1 .. Len(s)) \cup {Len(s) + 1}
    OBVIOUS
  <1> HIDE DEF t
  <1>2. ASSUME NEW i \in 1 .. Len(t), t[i].op = "get_registry"
        PROVE  /\ Owner[t[i].reg] = c /\ t[i].reg \notin R
               /\ \A j \in 1 .. Len(t) : j # i /\ t[j].op = "get_registry" => t[j].reg # t[i].reg
    <2>1. CASE i \in 1 .. Len(s)
      BY <1>1, <1>2, <2>1 DEF Orderly, Allowed
    <2>2. CASE i = Len(s) + 1
      BY <1>1, <1>2, <2>2 DEF Allowed
    <2> QED BY <1>1, <2>1, <2>2
  <1>3. ASSUME NEW i \in 1 .. Len(t), t[i].op = "sync", NEW r \in t[i].told
        PROVE  Owner[r] = c /\ (r \in R \/ \E j \in 1 .. i - 1 : t[j].op = "get_registry" /\ t[j].reg = r)
    <2>1. CASE i \in 1 .. Len(s)
      <3>1. /\ Owner[r] = c
            /\ r \in R \/ \E j \in 1 .. i - 1 : s[j].op = "get_registry" /\ s[j].reg = r
        BY <1>1, <1>3, <2>1 DEF Orderly
      <3>2. \A j \in 1 .. i - 1 : t[j] = s[j]
        BY <1>1, <2>1
      <3> QED BY <3>1, <3>2
    <2>2. CASE i = Len(s) + 1
      <3>1. i - 1 = Len(s)
        BY <1>1, <2>2
      <3>2. /\ Owner[r] = c
            /\ r \in R \/ \E j \in 1 .. Len(s) : s[j].op = "get_registry" /\ s[j].reg = r
        BY <1>1, <1>3, <2>2 DEF Allowed
      <3> QED BY <1>1, <3>1, <3>2
    <2> QED BY <1>1, <2>1, <2>2
  <1>4. Orderly(c, t, R)
    BY <1>2, <1>3 DEF Orderly
  <1> QED BY <1>4 DEF t

\* No requests of s are not requests of t.
Within(s, t) == \A i \in 1 .. Len(s) : \E j \in 1 .. Len(t) : s[i] = t[j]

LEMMA FewerRequests ==
  ASSUME RegistryInv, \A c \in Clients : Within(requests'[c], requests[c])
  PROVE  /\ \A g : Meant(g)' => Meant(g)
         /\ bound' = bound /\ refused' = refused /\ GlobalsNow' = GlobalsNow => BindInv'
  <1>1. Careful \subseteq Clients /\ BindInv
    BY RegistryAssumption DEF RegistryInv
  <1>2. ASSUME NEW c \in Careful, NEW i \in 1 .. Len(requests'[c])
        PROVE  \E j \in 1 .. Len(requests[c]) : requests'[c][i] = requests[c][j]
    BY <1>1 DEF Within
  <1>3. \A g : Meant(g)' => Meant(g)
    BY <1>2 DEF Meant
  <1>4. \A c \in Careful : \A i \in 1 .. Len(requests'[c]) :
           requests'[c][i].op = "bind" =>
             /\ requests'[c][i].name = requests'[c][i].meant.name
             /\ requests'[c][i].version \in 1 .. requests'[c][i].meant.version
    BY <1>1, <1>2 DEF BindInv
  <1> QED BY <1>1, <1>3, <1>4 DEF BindInv, BindFindsItsGlobal

-----------------------------------------------------------------------------
\* The end of a client

\* Nobody is told anything.
LEMMA QuietStep ==
  ASSUME RegistryInv,
         UNCHANGED <<global_list, id, created, registry_resource_list, resources,
                     error, events, known, budget, bound, refused>>,
         connected' \subseteq Clients, dying' \in Clients \cup {NoClient},
         requests' \in [Clients -> Seq(RequestSet)],
         \A c \in Clients : Within(requests'[c], requests[c]),
         connected' \ {dying'} \subseteq connected \ {dying},
         \A r \in resources : Owner[r] = dying => dying' = dying
  PROVE  /\ TypeOK' /\ ListInv' /\ NameInv' /\ BindInv'
         /\ FreshInv' /\ StreamInv' /\ AgreeInv'
  <1>0. /\ TypeOK /\ ListInv /\ NameInv /\ BindInv /\ AskInv /\ FreshInv /\ StreamInv /\ AgreeInv
    BY DEF RegistryInv
  <1>1. GlobalsNow' = GlobalsNow /\ \A r : WillKnow(r)' = WillKnow(r)
    BY DEF GlobalsNow, WillKnow, Knows
  <1>2. TypeOK'
    BY <1>0 DEF TypeOK
  <1>3. ListInv'
    BY <1>0 DEF ListInv, Listed
  <1>4. NameInv'
    <2>1. \A g : InUse(g)' => InUse(g)
      BY <1>1, FewerRequests DEF InUse, UnderWay
    <2> QED BY <1>2, <2>1, NothingNew
  <1>5. BindInv'
    BY <1>1, FewerRequests
  <1>6. FreshInv'
    BY <1>0 DEF FreshInv
  <1>7. StreamInv'
    BY <1>0 DEF StreamInv
  <1>8. AgreeInv'
    <2> SUFFICES ASSUME NEW r \in resources, Owner[r] \notin error \cup {dying'}
                 PROVE  WillKnow(r) = GlobalsNow
      BY <1>1 DEF AgreeInv
    <2> QED BY <1>0 DEF AgreeInv
  <1> QED BY <1>2, <1>3, <1>4, <1>5, <1>6, <1>7, <1>8

LEMMA DismissFacts ==
  ASSUME TypeOK, NEW c \in Clients, Dismiss(c)
  PROVE  /\ dying' = c /\ requests' \in [Clients -> Seq(RequestSet)] /\ requests'[c] = <<>>
         /\ \A d \in Clients \ {c} : requests'[d] = requests[d]
         /\ \A d \in Clients : Within(requests'[d], requests[d])
  <1>1. /\ dying' = c /\ requests' \in [Clients -> Seq(RequestSet)] /\ requests'[c] = <<>>
        /\ \A d \in Clients \ {c} : requests'[d] = requests[d]
    BY DEF TypeOK, Dismiss
  <1> QED BY <1>1 DEF Within

LEMMA ClientDestroyStep ==
  ASSUME RegistryInv, NEW c \in Clients, wl_client_destroy(c)
  PROVE  RegistryInv'
  <1>0. TypeOK /\ AskInv /\ NoClient \notin Clients /\ \A r \in Registries : Owner[r] \in Clients
    BY RegistryAssumption DEF RegistryInv
  <1>1. /\ dying = NoClient /\ Dismiss(c)
        /\ UNCHANGED <<global_list, id, created, registry_resource_list, resources,
                       connected, error, events, known, budget, bound, refused>>
    BY DEF wl_client_destroy
  <1>2. /\ dying' = c /\ requests' \in [Clients -> Seq(RequestSet)] /\ requests'[c] = <<>>
        /\ \A d \in Clients \ {c} : requests'[d] = requests[d]
        /\ \A d \in Clients : Within(requests'[d], requests[d])
    BY <1>0, <1>1, DismissFacts
  <1>3. /\ connected' \subseteq Clients /\ connected' \ {dying'} \subseteq connected \ {dying}
        /\ \A r \in resources : Owner[r] # dying
    BY <1>0, <1>1, <1>2 DEF TypeOK
  <1>4. /\ TypeOK' /\ ListInv' /\ NameInv' /\ BindInv'
        /\ FreshInv' /\ StreamInv' /\ AgreeInv'
    BY <1>1, <1>2, <1>3, QuietStep
  <1>5. AskInv'
    <2> SUFFICES ASSUME NEW d \in Clients
                 PROVE  /\ Orderly(d, requests'[d], resources')
                        /\ d \notin connected' \ {dying'} => requests'[d] = <<>>
      BY DEF AskInv, Orderly
    <2>1. CASE d = c
      BY <1>2, <2>1, OrderlyEmpty
    <2>2. CASE d # c
      <3>1. /\ requests'[d] = requests[d] /\ resources' = resources
            /\ d \notin connected' \ {dying'} => d \notin connected \ {dying}
        BY <1>1, <1>2, <2>2
      <3> QED BY <1>0, <3>1 DEF AskInv
    <2> QED BY <2>1, <2>2
  <1> QED BY <1>4, <1>5 DEF RegistryInv

LEMMA ClientDestroyedStep ==
  ASSUME RegistryInv, ClientDestroyed
  PROVE  RegistryInv'
  <1>0. TypeOK /\ AskInv /\ NoClient \notin Clients
    BY RegistryAssumption DEF RegistryInv
  <1>1. /\ dying # NoClient /\ \A r \in resources : Owner[r] # dying
        /\ connected' = connected \ {dying} /\ dying' = NoClient
        /\ UNCHANGED <<global_list, id, created, registry_resource_list, resources,
                       requests, error, events, known, budget, bound, refused>>
    BY DEF ClientDestroyed
  <1>2. /\ requests' \in [Clients -> Seq(RequestSet)]
        /\ \A d \in Clients : Within(requests'[d], requests[d])
    BY <1>0, <1>1 DEF TypeOK, Within
  <1>3. connected' \subseteq Clients /\ connected' \ {dying'} = connected \ {dying}
    BY <1>0, <1>1 DEF TypeOK
  <1>4. /\ TypeOK' /\ ListInv' /\ NameInv' /\ BindInv'
        /\ FreshInv' /\ StreamInv' /\ AgreeInv'
    BY <1>1, <1>2, <1>3, QuietStep
  <1>5. AskInv'
    BY <1>0, <1>1, <1>3 DEF AskInv, Orderly
  <1> QED BY <1>4, <1>5 DEF RegistryInv
LEMMA DestroyRegistryStep ==
  ASSUME RegistryInv, NEW r \in Registries, DestroyRegistry(r)
  PROVE  RegistryInv'
  <1>0. /\ TypeOK /\ ListInv /\ NameInv /\ BindInv /\ AskInv /\ FreshInv /\ StreamInv /\ AgreeInv
        /\ NoClient \notin Clients /\ \A x \in Registries : Owner[x] \in Clients
    BY RegistryAssumption DEF RegistryInv
  <1>1. /\ r \in resources /\ Owner[r] = dying
        /\ registry_resource_list' = RemoveFirst(registry_resource_list, r)
        /\ resources' = resources \ {r}
        /\ UNCHANGED <<global_list, id, created, connected, dying, error, requests, events,
                       known, budget, bound, refused>>
    BY DEF DestroyRegistry
  <1>2. /\ registry_resource_list' \in Seq(Registries) /\ IsInjective(registry_resource_list')
        /\ \A x : Contains(registry_resource_list', x) <=> Contains(registry_resource_list, x) /\ x # r
    BY <1>0, <1>1, ContainsRemove DEF TypeOK, ListInv
  <1>3. GlobalsNow' = GlobalsNow /\ \A x : WillKnow(x)' = WillKnow(x)
    BY <1>1 DEF GlobalsNow, WillKnow, Knows
  <1>4. TypeOK'
    BY <1>0, <1>1, <1>2 DEF TypeOK
  <1>5. ListInv'
    <2>1. Listed' = Elements(registry_resource_list')
      BY DEF Listed, Elements
    <2>2. Listed' = Listed \ {r}
      BY <1>2, <2>1, ElementsContained, ListedElements
    <2> QED BY <1>0, <1>1, <1>2, <2>2 DEF ListInv
  <1>6. NameInv'
    <2>1. \A g : InUse(g)' => InUse(g)
      BY <1>1, <1>3 DEF InUse, UnderWay, Meant
    <2> QED BY <1>1, <1>4, <2>1, NothingNew
  <1>7. BindInv'
    BY <1>0, <1>1, <1>3 DEF BindInv, BindFindsItsGlobal
  <1>8. AskInv'
    <2> SUFFICES ASSUME NEW d \in Clients
                 PROVE  /\ Orderly(d, requests'[d], resources')
                        /\ d \notin connected' \ {dying'} => requests'[d] = <<>>
      BY DEF AskInv, Orderly
    <2>1. /\ requests[d] \in Seq(RequestSet) /\ requests'[d] = requests[d]
          /\ Orderly(d, requests[d], resources)
          /\ d \notin connected \ {dying} => requests[d] = <<>>
      BY <1>0, <1>1 DEF TypeOK, AskInv
    <2>2. CASE d = dying
      BY <1>1, <2>1, <2>2, OrderlyEmpty
    <2>3. CASE d # dying
      <3>1. \A x : Owner[x] = d => (x \in resources <=> x \in resources')
        BY <1>1, <2>3
      <3> QED BY <1>1, <2>1, <3>1, OrderlySame
    <2> QED BY <2>2, <2>3
  <1>9. FreshInv'
    BY <1>0, <1>1 DEF FreshInv
  <1>10. StreamInv'
    BY <1>0, <1>1 DEF StreamInv
  <1>11. AgreeInv'
    <2> SUFFICES ASSUME NEW x \in resources, Owner[x] \notin error \cup {dying}
                 PROVE  WillKnow(x) = GlobalsNow
      BY <1>1, <1>3 DEF AgreeInv
    <2> QED BY <1>0 DEF AgreeInv
  <1> QED BY <1>4, <1>5, <1>6, <1>7, <1>8, <1>9, <1>10, <1>11 DEF RegistryInv

-----------------------------------------------------------------------------
\* Requests that clients send

LEMMA SendStep ==
  ASSUME RegistryInv, NEW c \in Clients, NEW q \in RequestSet, Send(c, q),
         c \in connected \ {dying} => Allowed(c, requests[c], q, resources),
         c \in Careful /\ q.op = "bind" =>
            InUse(q.meant) /\ q.name = q.meant.name /\ q.version \in 1 .. q.meant.version
  PROVE  RegistryInv'
  <1>0. /\ TypeOK /\ ListInv /\ NameInv /\ BindInv /\ AskInv /\ FreshInv /\ StreamInv /\ AgreeInv
        /\ Careful \subseteq Clients
    BY RegistryAssumption DEF RegistryInv
  <1>1. /\ budget[c] > 0 /\ budget' = [budget EXCEPT ![c] = @ - 1]
        /\ requests' = IF c \in connected \ {dying}
                       THEN [requests EXCEPT ![c] = Append(@, q)] ELSE requests
        /\ UNCHANGED <<global_list, id, created, registry_resource_list, resources,
                       connected, dying, error, events, known, bound, refused>>
    BY DEF Send
  <1>2. /\ requests' \in [Clients -> Seq(RequestSet)]
        /\ \A d \in Clients \ {c} : requests'[d] = requests[d]
        /\ requests'[c] = IF c \in connected \ {dying} THEN Append(requests[c], q) ELSE requests[c]
    BY <1>0, <1>1 DEF TypeOK
  <1>3. ASSUME NEW d \in Clients, NEW i \in 1 .. Len(requests'[d])
        PROVE  \/ i \in 1 .. Len(requests[d]) /\ requests'[d][i] = requests[d][i]
               \/ d = c /\ requests'[d][i] = q
    <2>1. CASE requests'[d] = requests[d]
      BY <1>3, <2>1
    <2>2. CASE d = c /\ requests'[d] = Append(requests[d], q)
      <3>1. requests[d] \in Seq(RequestSet)
        BY <1>0 DEF TypeOK
      <3>2. /\ 1 .. Len(Append(requests[d], q)) = (1 .. Len(requests[d])) \cup {Len(requests[d]) + 1}
            /\ \A j \in 1 .. Len(requests[d]) : Append(requests[d], q)[j] = requests[d][j]
            /\ Append(requests[d], q)[Len(requests[d]) + 1] = q
        BY <3>1
      <3> QED BY <1>3, <2>2, <3>2
    <2> QED BY <1>2, <2>1, <2>2
  <1>4. GlobalsNow' = GlobalsNow /\ \A x : WillKnow(x)' = WillKnow(x)
    BY <1>1 DEF GlobalsNow, WillKnow, Knows
  <1>5. TypeOK'
    <2>1. budget' \in [Clients -> Nat]
      BY <1>0, <1>1 DEF TypeOK
    <2> QED BY <1>0, <1>1, <1>2, <2>1 DEF TypeOK
  <1>6. ListInv'
    BY <1>0, <1>1 DEF ListInv, Listed
  <1>7. NameInv'
    <2>1. ASSUME NEW g, Meant(g)' PROVE InUse(g)
      <3>1. PICK d \in Careful : \E i \in 1 .. Len(requests'[d]) :
               requests'[d][i].op = "bind" /\ requests'[d][i].meant = g
        BY <2>1 DEF Meant
      <3>2. PICK i \in 1 .. Len(requests'[d]) :
               requests'[d][i].op = "bind" /\ requests'[d][i].meant = g
        BY <3>1
      <3>3. CASE i \in 1 .. Len(requests[d]) /\ requests'[d][i] = requests[d][i]
        BY <3>2, <3>3 DEF Meant, InUse
      <3>4. CASE d = c /\ requests'[d][i] = q
        BY <3>2, <3>4
      <3> QED BY <1>0, <1>3, <3>3, <3>4
    <2>2. \A g : InUse(g)' => InUse(g)
      BY <1>1, <1>4, <2>1 DEF InUse, UnderWay
    <2> QED BY <1>1, <1>5, <2>2, NothingNew
  <1>8. BindInv'
    <2>1. ASSUME NEW d \in Careful, NEW i \in 1 .. Len(requests'[d]), requests'[d][i].op = "bind"
          PROVE  /\ requests'[d][i].name = requests'[d][i].meant.name
                 /\ requests'[d][i].version \in 1 .. requests'[d][i].meant.version
      <3>1. CASE i \in 1 .. Len(requests[d]) /\ requests'[d][i] = requests[d][i]
        BY <1>0, <2>1, <3>1 DEF BindInv
      <3>2. CASE d = c /\ requests'[d][i] = q
        BY <2>1, <3>2
      <3> QED BY <1>0, <1>3, <3>1, <3>2
    <2> QED BY <1>0, <1>1, <1>4, <2>1 DEF BindInv, BindFindsItsGlobal
  <1>9. AskInv'
    <2> SUFFICES ASSUME NEW d \in Clients
                 PROVE  /\ Orderly(d, requests'[d], resources')
                        /\ d \notin connected' \ {dying'} => requests'[d] = <<>>
      BY DEF AskInv, Orderly
    <2>1. /\ requests[d] \in Seq(RequestSet) /\ Orderly(d, requests[d], resources)
          /\ d \notin connected \ {dying} => requests[d] = <<>>
      BY <1>0 DEF TypeOK, AskInv
    <2>2. CASE requests'[d] = requests[d]
      BY <1>1, <2>1, <2>2
    <2>3. CASE d = c /\ c \in connected \ {dying} /\ requests'[d] = Append(requests[d], q)
      <3>1. Allowed(d, requests[d], q, resources)
        BY <2>3
      <3>2. Orderly(d, Append(requests[d], q), resources)
        BY <2>1, <3>1, OrderlyAppend
      <3> QED BY <1>1, <2>3, <3>2
    <2> QED BY <1>2, <2>2, <2>3
  <1>10. FreshInv' /\ StreamInv'
    BY <1>0, <1>1 DEF FreshInv, StreamInv
  <1>11. AgreeInv'
    BY <1>0, <1>1, <1>4 DEF AgreeInv
  <1> QED BY <1>5, <1>6, <1>7, <1>8, <1>9, <1>10, <1>11 DEF RegistryInv

LEMMA GetRegistryStep ==
  ASSUME RegistryInv, NEW r \in Registries, GetRegistry(r)
  PROVE  RegistryInv'
  <1> DEFINE q == [op |-> "get_registry", reg |-> r]
  <1>1. q \in RequestSet /\ q.op = "get_registry" /\ q.reg = r
    BY DEF RequestSet
  <1>2. Send(Owner[r], q) /\ ~Asked(r) /\ Owner[r] \in Clients
    BY RegistryAssumption DEF GetRegistry
  <1> HIDE DEF q
  <1>3. Allowed(Owner[r], requests[Owner[r]], q, resources)
    BY <1>1, <1>2 DEF Allowed, Asked
  <1> QED BY <1>1, <1>2, <1>3, SendStep

LEMMA SyncStep ==
  ASSUME RegistryInv, NEW c \in Clients, Sync(c)
  PROVE  RegistryInv'
  <1> DEFINE told == {r \in Registries : Owner[r] = c /\ Asked(r)}
             q == [op |-> "sync", told |-> told]
  <1>1. q \in RequestSet /\ q.op = "sync" /\ q.told = told
    BY DEF RequestSet
  <1>2. Send(c, q)
    BY DEF Sync
  <1> HIDE DEF q
  <1>3. ASSUME c \in connected \ {dying}
        PROVE  Allowed(c, requests[c], q, resources)
    <2>1. ASSUME NEW r \in told
          PROVE  /\ Owner[r] = c
                 /\ r \in resources \/ \E j \in 1 .. Len(requests[c]) :
                                          requests[c][j].op = "get_registry" /\ requests[c][j].reg = r
      BY <1>3 DEF Asked, RegistryInv, FreshInv
    <2> QED BY <1>1, <2>1 DEF Allowed
  <1> QED BY <1>1, <1>2, <1>3, SendStep

LEMMA BindStep ==
  ASSUME RegistryInv, NEW r \in Registries, Bind(r)
  PROVE  RegistryInv'
  <1>0. TypeOK /\ Owner[r] \in Clients
    BY RegistryAssumption DEF RegistryInv
  <1>1. PICK g \in known[r] : \E v \in 1 .. g.version :
           Send(Owner[r], [op |-> "bind", name |-> g.name, version |-> v, meant |-> g])
    BY DEF Bind
  <1>2. PICK v \in 1 .. g.version :
           Send(Owner[r], [op |-> "bind", name |-> g.name, version |-> v, meant |-> g])
    BY <1>1
  <1>3. g \in Globals /\ g.version \in Nat /\ g.name \in Nat /\ InUse(g)
    <2>1. g \in Globals /\ InUse(g)
      BY <1>0 DEF TypeOK, InUse
    <2> QED BY <2>1, RegistryAssumption DEF Globals
  <1> DEFINE q == [op |-> "bind", name |-> g.name, version |-> v, meant |-> g]
  <1>4. /\ q \in RequestSet /\ q.op = "bind" /\ q.meant = g /\ q.name = g.name
        /\ q.version = v
    BY <1>3 DEF RequestSet
  <1>5. Send(Owner[r], q)
    BY <1>2
  <1> HIDE DEF q
  <1>6. Allowed(Owner[r], requests[Owner[r]], q, resources)
    BY <1>4 DEF Allowed
  <1> QED BY <1>0, <1>3, <1>4, <1>5, <1>6, SendStep

LEMMA BindAnythingStep ==
  ASSUME RegistryInv, NEW r \in Registries, BindAnything(r)
  PROVE  RegistryInv'
  <1>0. Owner[r] \in Clients /\ MaxGlobals \in Nat /\ MaxVersion \in Nat \ {0}
    BY RegistryAssumption
  <1>1. PICK n \in 1 .. MaxGlobals, v \in {0, MaxVersion + 1} :
           Send(Owner[r], [op |-> "bind", name |-> n, version |-> v, meant |-> NoGlobal])
    BY DEF BindAnything
  <1> DEFINE q == [op |-> "bind", name |-> n, version |-> v, meant |-> NoGlobal]
  <1>2. q \in RequestSet /\ q.op = "bind"
    <2>1. n \in Nat /\ v \in Nat /\ NoGlobal \in Globals
      BY <1>0 DEF NoGlobal, Globals
    <2> QED BY <2>1 DEF RequestSet
  <1>3. Send(Owner[r], q) /\ Owner[r] \notin Careful
    BY <1>1 DEF BindAnything
  <1> HIDE DEF q
  <1>4. Allowed(Owner[r], requests[Owner[r]], q, resources)
    BY <1>2 DEF Allowed
  <1> QED BY <1>0, <1>2, <1>3, <1>4, SendStep

-----------------------------------------------------------------------------
\* A client reads an event

LEMMA KnowsOne ==
  ASSUME NEW K, NEW e \in EventSet, NEW r
  PROVE  /\ e.op = "global" /\ e.reg = r => Knows(K, <<e>>, r) = K \cup {e.global}
         /\ e.op = "remove" /\ e.reg = r => Knows(K, <<e>>, r) = K \ {e.global}
         /\ ~(IsTold(e) /\ e.reg = r) => Knows(K, <<e>>, r) = K
  <1>1. <<e>> \in Seq(EventSet) /\ Len(<<e>>) = 1 /\ <<e>>[1] = e
    OBVIOUS
  <1>2. ASSUME NEW g, NEW i \in 1 .. 1 PROVE RetractedFrom(<<e>>, r, g, i) <=> Retracts(e, r, g)
    BY <1>1 DEF RetractedFrom
  <1>3. ASSUME NEW g
        PROVE  g \in Knows(K, <<e>>, r) <=> \/ g \in K /\ ~Retracts(e, r, g)
                                            \/ Announces(e, r, g)
    <2>1. g \in Knows(K, <<e>>, r) <=>
             \/ g \in K /\ ~RetractedFrom(<<e>>, r, g, 1)
             \/ \E k \in 1 .. Len(<<e>>) :
                   Announces(<<e>>[k], r, g) /\ ~RetractedFrom(<<e>>, r, g, k)
      BY <1>1, KnowsMember
    <2>2. Announces(e, r, g) => ~Retracts(e, r, g)
      BY DEF Announces, Retracts
    <2> QED BY <1>1, <1>2, <2>1, <2>2
  <1> QED BY <1>3 DEF Announces, Retracts, IsTold

LEMMA ReadStep ==
  ASSUME RegistryInv, NEW c \in Clients, ReadEvent(c)
  PROVE  RegistryInv'
  <1>0. /\ TypeOK /\ ListInv /\ NameInv /\ BindInv /\ AskInv /\ FreshInv /\ StreamInv /\ AgreeInv
        /\ \A r \in Registries : Owner[r] \in Clients
        /\ events \in [Clients -> Seq(EventSet)] /\ known \in [Registries -> SUBSET Globals]
    BY RegistryAssumption DEF RegistryInv, TypeOK
  <1>1. PICK e : e = Head(events[c])
    OBVIOUS
  <1>2. /\ events[c] # <<>>
        /\ known' = CASE e.op = "global" -> [known EXCEPT ![e.reg] = @ \cup {e.global}]
                      [] e.op = "remove" -> [known EXCEPT ![e.reg] = @ \ {e.global}]
                      [] OTHER -> known
        /\ events' = [events EXCEPT ![c] = Tail(@)]
        /\ UNCHANGED <<global_list, id, created, registry_resource_list, resources,
                       connected, dying, error, requests, budget, bound, refused>>
    BY <1>1 DEF ReadEvent
  <1>3. /\ events' \in [Clients -> Seq(EventSet)] /\ events'[c] = Tail(events[c])
        /\ \A d \in Clients \ {c} : events'[d] = events[d]
        /\ Len(Tail(events[c])) = Len(events[c]) - 1 /\ Len(events[c]) \in Nat
        /\ e \in EventSet /\ 1 \in 1 .. Len(events[c]) /\ events[c][1] = e
        /\ \A i \in 1 .. Len(Tail(events[c])) :
              i + 1 \in 1 .. Len(events[c]) /\ Tail(events[c])[i] = events[c][i + 1]
    BY <1>0, <1>1, <1>2
  <1>4. IsTold(e) => e.reg \in Registries /\ e.global \in Globals /\ Owner[e.reg] = c
    <2>1. IsTold(e) => Owner[e.reg] = c
      BY <1>0, <1>3 DEF StreamInv, StreamSound
    <2> QED BY <1>3, <2>1 DEF IsTold, EventSet
  <1>5. /\ known' \in [Registries -> SUBSET Globals]
        /\ \A r \in Registries : known'[r] = Knows(known[r], <<e>>, r)
    <2>1. ASSUME IsTold(e), NEW Y, Y \subseteq Globals,
                 known' = [known EXCEPT ![e.reg] = Y],
                 Knows(known[e.reg], <<e>>, e.reg) = Y
          PROVE  /\ known' \in [Registries -> SUBSET Globals]
                 /\ \A r \in Registries : known'[r] = Knows(known[r], <<e>>, r)
      <3>1. known' \in [Registries -> SUBSET Globals] /\ known'[e.reg] = Y
        BY <1>0, <1>4, <2>1
      <3>2. ASSUME NEW r \in Registries, r # e.reg PROVE known'[r] = Knows(known[r], <<e>>, r)
        BY <1>0, <1>3, <2>1, <3>2, KnowsOne
      <3> QED BY <2>1, <3>1, <3>2
    <2>2. CASE e.op = "global"
      <3>1. known' = [known EXCEPT ![e.reg] = known[e.reg] \cup {e.global}]
        BY <1>2, <2>2
      <3>2. IsTold(e) /\ known[e.reg] \cup {e.global} \subseteq Globals
        BY <1>0, <1>4, <2>2 DEF IsTold
      <3>3. Knows(known[e.reg], <<e>>, e.reg) = known[e.reg] \cup {e.global}
        <4>1. \A K : Knows(K, <<e>>, e.reg) = K \cup {e.global}
          BY <1>3, <2>2, KnowsOne
        <4> QED BY <4>1
      <3> QED BY <2>1, <3>1, <3>2, <3>3
    <2>3. CASE e.op = "remove"
      <3>1. known' = [known EXCEPT ![e.reg] = known[e.reg] \ {e.global}]
        BY <1>2, <2>3
      <3>2. IsTold(e) /\ known[e.reg] \ {e.global} \subseteq Globals
        BY <1>0, <1>4, <2>3 DEF IsTold
      <3>3. Knows(known[e.reg], <<e>>, e.reg) = known[e.reg] \ {e.global}
        <4>1. PICK K, r : K = known[e.reg] /\ r = e.reg
          OBVIOUS
        <4>2. e \in EventSet /\ e.op = "remove" /\ e.reg = r
          BY <1>3, <2>3, <4>1
        <4>3. Knows(K, <<e>>, r) = K \ {e.global}
          BY <4>2, KnowsOne
        <4> QED BY <4>1, <4>3
      <3> QED BY <2>1, <3>1, <3>2, <3>3
    <2>4. CASE e.op # "global" /\ e.op # "remove"
      <3>1. known' = known
        BY <1>2, <2>4
      <3>2. \A r : Knows(known[r], <<e>>, r) = known[r]
        BY <1>3, <2>4, KnowsOne DEF IsTold
      <3> QED BY <1>0, <3>1, <3>2
    <2> QED BY <2>2, <2>3, <2>4
  <1>6. ASSUME NEW r \in Registries
        PROVE  /\ ~(IsTold(e) /\ e.reg = r) => known'[r] = known[r]
               /\ known'[r] \subseteq known[r] \cup IF IsTold(e) THEN {e.global} ELSE {}
    <2>1. known'[r] = Knows(known[r], <<e>>, r)
      BY <1>5
    <2>2. CASE IsTold(e) /\ e.reg = r
      <3>1. e.op = "global" \/ e.op = "remove"
        BY <2>2 DEF IsTold
      <3> QED BY <1>3, <2>1, <2>2, <3>1, KnowsOne
    <2>3. CASE ~(IsTold(e) /\ e.reg = r)
      BY <1>3, <2>1, <2>3, KnowsOne
    <2> QED BY <2>2, <2>3
  <1>7. /\ StreamSound(c, Tail(events[c]), known')
        /\ \A r \in Registries :
              Owner[r] = c => Knows(known'[r], Tail(events[c]), r) = Knows(known[r], events[c], r)
    <2>1. StreamSound(c, events[c], known) /\ events[c] \in Seq(EventSet)
      BY <1>0 DEF StreamInv
    <2>2. \A r \in Registries :
             Owner[r] = c => known'[r] = Knows(known[r], <<Head(events[c])>>, r)
      BY <1>1, <1>5
    <2>3. PICK K, L, s : K = known /\ L = known' /\ s = events[c]
      OBVIOUS
    <2>4. /\ s \in Seq(EventSet) /\ s # <<>> /\ StreamSound(c, s, K)
          /\ \A r \in Registries : Owner[r] = c => L[r] = Knows(K[r], <<Head(s)>>, r)
      BY <1>2, <2>1, <2>2, <2>3
    <2>5. /\ StreamSound(c, Tail(s), L)
          /\ \A r \in Registries : Owner[r] = c => Knows(L[r], Tail(s), r) = Knows(K[r], s, r)
      BY <2>4, StreamTail
    <2> QED BY <2>3, <2>5
  <1>8. StreamInv'
    <2> SUFFICES ASSUME NEW d \in Clients PROVE StreamSound(d, events'[d], known')
      BY DEF StreamInv, StreamSound, Knows, IsTold
    <2>1. CASE d = c
      BY <1>3, <1>7, <2>1
    <2>2. CASE d # c
      <3>1. StreamSound(d, events[d], known) /\ events[d] \in Seq(EventSet) /\ events'[d] = events[d]
        BY <1>0, <1>3, <2>2 DEF StreamInv
      <3>2. \A r \in Registries : Owner[r] = d => known'[r] = known[r]
        BY <1>4, <1>6, <2>2
      <3> QED BY <3>1, <3>2, StreamSame
    <2> QED BY <2>1, <2>2
  <1>9. GlobalsNow' = GlobalsNow /\ \A r \in Registries : WillKnow(r)' = WillKnow(r)
    <2>1. ASSUME NEW r \in Registries
          PROVE  Knows(known'[r], events'[Owner[r]], r) = Knows(known[r], events[Owner[r]], r)
      <3>1. CASE Owner[r] = c
        BY <1>3, <1>7, <3>1
      <3>2. CASE Owner[r] # c
        BY <1>0, <1>3, <1>4, <1>6, <3>2
      <3> QED BY <3>1, <3>2
    <2> QED BY <1>2, <2>1 DEF GlobalsNow, WillKnow, Knows
  <1>10. TypeOK'
    <2>1. \A d \in Clients : Len(events'[d]) <= MaxDown
      <3>1. \A d \in Clients : Len(events[d]) <= MaxDown
        BY <1>0 DEF TypeOK
      <3>2. MaxDown \in Nat
        BY RegistryAssumption
      <3> QED BY <1>3, <3>1, <3>2
    <2> QED BY <1>0, <1>2, <1>3, <1>5, <2>1 DEF TypeOK
  <1>11. ListInv'
    BY <1>0, <1>2 DEF ListInv, Listed
  <1>12. ASSUME NEW d \in Clients, NEW i \in 1 .. Len(events'[d])
         PROVE  \E j \in 1 .. Len(events[d]) : events'[d][i] = events[d][j]
    BY <1>3
  <1>13. NameInv'
    <2>1. \A g : UnderWay(g)' => UnderWay(g)
      BY <1>12 DEF UnderWay, IsTold
    <2>2. IsTold(e) => UnderWay(e.global)
      BY <1>3 DEF UnderWay
    <2>3. ASSUME NEW g, NEW r \in Registries, g \in known'[r] PROVE InUse(g)
      BY <1>6, <2>2, <2>3 DEF InUse
    <2>4. \A g : InUse(g)' => InUse(g)
      BY <1>2, <1>9, <2>1, <2>3 DEF InUse, Meant
    <2> QED BY <1>2, <1>10, <2>4, NothingNew
  <1>14. BindInv'
    BY <1>0, <1>2, <1>9 DEF BindInv, BindFindsItsGlobal
  <1>15. AskInv'
    BY <1>0, <1>2 DEF AskInv, Orderly
  <1>16. FreshInv'
    <2> SUFFICES ASSUME NEW r \in Registries \ resources, Owner[r] \in connected \ {dying}
                 PROVE  /\ known'[r] = {}
                        /\ \A i \in 1 .. Len(events'[Owner[r]]) :
                              IsTold(events'[Owner[r]][i]) => events'[Owner[r]][i].reg # r
      BY <1>2 DEF FreshInv, IsTold
    <2>1. /\ known[r] = {}
          /\ \A i \in 1 .. Len(events[Owner[r]]) :
                IsTold(events[Owner[r]][i]) => events[Owner[r]][i].reg # r
      BY <1>0 DEF FreshInv
    <2>2. ~(IsTold(e) /\ e.reg = r)
      BY <1>3, <1>4, <2>1
    <2>3. known'[r] = known[r]
      BY <1>6, <2>2
    <2>4. \A i \in 1 .. Len(events'[Owner[r]]) : \E j \in 1 .. Len(events[Owner[r]]) :
             events'[Owner[r]][i] = events[Owner[r]][j]
      BY <1>0, <1>12
    <2> QED BY <2>1, <2>3, <2>4
  <1>17. AgreeInv'
    BY <1>0, <1>2, <1>9 DEF AgreeInv, TypeOK
  <1> QED BY <1>8, <1>10, <1>11, <1>13, <1>14, <1>15, <1>16, <1>17 DEF RegistryInv

-----------------------------------------------------------------------------
\* Requests that are handled

LEMMA HandledFacts ==
  ASSUME TypeOK, NEW c \in Clients, NEW op, Handle(c, op), Handled(c)
  PROVE  /\ c \in connected /\ dying = NoClient /\ requests[c] # <<>>
         /\ Head(requests[c]) \in RequestSet /\ Head(requests[c]).op = op
         /\ 1 \in 1 .. Len(requests[c]) /\ requests[c][1] = Head(requests[c])
         /\ requests' \in [Clients -> Seq(RequestSet)]
         /\ \A d \in Clients \ {c} : requests'[d] = requests[d]
         /\ requests'[c] = IF c \in error' THEN <<>> ELSE Tail(requests[c])
         /\ \A d \in Clients : Within(requests'[d], requests[d])
         /\ dying' = IF c \in error' THEN c ELSE NoClient
  <1>1. /\ c \in connected /\ dying = NoClient /\ requests[c] # <<>>
        /\ Head(requests[c]).op = op /\ requests \in [Clients -> Seq(RequestSet)]
    BY DEF TypeOK, Handle
  <1>2. /\ Head(requests[c]) \in RequestSet /\ Tail(requests[c]) \in Seq(RequestSet)
        /\ 1 \in 1 .. Len(requests[c]) /\ requests[c][1] = Head(requests[c])
        /\ Within(Tail(requests[c]), requests[c])
    BY <1>1 DEF Within
  <1>3. CASE c \in error'
    <2>1. Dismiss(c)
      BY <1>3 DEF Handled
    <2> QED BY <1>1, <1>2, <1>3, <2>1, DismissFacts
  <1>4. CASE c \notin error'
    <2>1. requests' = [requests EXCEPT ![c] = Tail(requests[c])] /\ dying' = dying
      BY <1>4 DEF Handled
    <2>2. /\ requests' \in [Clients -> Seq(RequestSet)] /\ requests'[c] = Tail(requests[c])
          /\ \A d \in Clients \ {c} : requests'[d] = requests[d]
      BY <1>1, <1>2, <2>1
    <2>3. ASSUME NEW d \in Clients PROVE Within(requests'[d], requests[d])
      <3>1. CASE d = c
        BY <1>2, <2>2, <3>1
      <3>2. CASE d # c
        <4>1. requests'[d] = requests[d]
          BY <2>2, <3>2
        <4> QED BY <4>1 DEF Within
      <3> QED BY <3>1, <3>2
    <2> QED BY <1>1, <1>2, <1>4, <2>1, <2>2, <2>3
  <1> QED BY <1>3, <1>4

LEMMA AskHandled ==
  ASSUME RegistryInv, NEW c \in Clients, NEW op, Handle(c, op), Handled(c),
         connected' = connected,
         \/ resources' = resources /\ (op = "get_registry" => c \in error')
         \/ op = "get_registry" /\ resources' = resources \cup {Head(requests[c]).reg}
  PROVE  AskInv'
  <1>0. TypeOK /\ AskInv /\ NoClient \notin Clients
    BY RegistryAssumption DEF RegistryInv
  <1>1. /\ c \in connected /\ dying = NoClient /\ requests[c] # <<>>
        /\ Head(requests[c]).op = op /\ 1 \in 1 .. Len(requests[c])
        /\ requests[c][1] = Head(requests[c])
        /\ \A d \in Clients \ {c} : requests'[d] = requests[d]
        /\ requests'[c] = IF c \in error' THEN <<>> ELSE Tail(requests[c])
        /\ dying' = IF c \in error' THEN c ELSE NoClient
    BY <1>0, HandledFacts
  <1> SUFFICES ASSUME NEW d \in Clients
               PROVE  /\ Orderly(d, requests'[d], resources')
                      /\ d \notin connected' \ {dying'} => requests'[d] = <<>>
    BY DEF AskInv, Orderly
  <1>2. /\ requests[d] \in Seq(RequestSet) /\ Orderly(d, requests[d], resources)
        /\ d \notin connected \ {dying} => requests[d] = <<>>
    BY <1>0 DEF TypeOK, AskInv
  <1>3. CASE d = c /\ c \in error'
    BY <1>1, <1>3, OrderlyEmpty
  <1>4. CASE d = c /\ c \notin error'
    <2>1. resources' = resources \cup IF Head(requests[c]).op = "get_registry"
                                      THEN {Head(requests[c]).reg} ELSE {}
      BY <1>1, <1>4
    <2>2. PICK s, R2 : s = requests[c] /\ R2 = resources'
      OBVIOUS
    <2>3. /\ s \in Seq(RequestSet) /\ s # <<>> /\ Orderly(c, s, resources)
          /\ R2 = resources \cup IF Head(s).op = "get_registry" THEN {Head(s).reg} ELSE {}
      BY <1>1, <1>2, <1>4, <2>1, <2>2
    <2>4. Orderly(c, Tail(s), R2)
      BY <2>3, OrderlyTail
    <2> QED BY <1>0, <1>1, <1>4, <2>2, <2>4
  <1>5. CASE d # c
    <2>1. op = "get_registry" => Owner[Head(requests[c]).reg] = c
      BY <1>0, <1>1 DEF AskInv, Orderly
    <2>2. \A x : Owner[x] = d => (x \in resources <=> x \in resources')
      BY <1>5, <2>1
    <2>3. Orderly(d, requests[d], resources')
      BY <1>2, <2>2, OrderlySame
    <2> QED BY <1>0, <1>1, <1>2, <1>5, <2>3
  <1> QED BY <1>3, <1>4, <1>5

\* Client c is sent p.
LEMMA PostedFacts ==
  ASSUME TypeOK, StreamInv, NEW c \in Clients, NEW evs, NEW p \in Seq(EventSet),
         Posts(c, evs, p), Appendable(c, events[c], p, known),
         \A d \in Clients \ {c} : events'[d] = events[d], known' = known
  PROVE  /\ StreamInv' /\ \A d \in Clients : Len(events'[d]) <= MaxDown
         /\ \A d \in Clients : \A i \in 1 .. Len(events'[d]) :
               \/ \E j \in 1 .. Len(events[d]) : events'[d][i] = events[d][j]
               \/ d = c /\ \E j \in 1 .. Len(p) : events'[d][i] = p[j]
  <1>1. /\ events'[c] = events[c] \o p /\ Len(events'[c]) <= MaxDown
        /\ events[c] \in Seq(EventSet)
        /\ \A d \in Clients : Len(events[d]) <= MaxDown
    BY DEF Posts, TypeOK
  <1>2. ASSUME NEW d \in Clients PROVE StreamSound(d, events'[d], known)
    <2>1. StreamSound(d, events[d], known)
      BY DEF StreamInv
    <2>2. CASE d = c
      <3>1. PICK s : s = events[c]
        OBVIOUS
      <3>2. StreamSound(c, s \o p, known)
        BY <1>1, <2>1, <2>2, <3>1, StreamGrows
      <3> QED BY <1>1, <2>2, <3>1, <3>2
    <2>3. CASE d # c
      BY <2>1, <2>3
    <2> QED BY <2>2, <2>3
  <1>3. StreamInv'
    BY <1>2 DEF StreamInv, StreamSound, Knows, IsTold
  <1>4. ASSUME NEW i \in 1 .. Len(events'[c])
        PROVE  \/ \E j \in 1 .. Len(events[c]) : events'[c][i] = events[c][j]
               \/ \E j \in 1 .. Len(p) : events'[c][i] = p[j]
    <2>1. /\ \A j \in 1 .. Len(events[c]) : (events[c] \o p)[j] = events[c][j]
          /\ \A j \in 1 .. Len(events[c] \o p) :
                \/ j \in 1 .. Len(events[c])
                \/ /\ j - Len(events[c]) \in 1 .. Len(p)
                   /\ (events[c] \o p)[j] = p[j - Len(events[c])]
      BY <1>1, SequenceConcat
    <2> QED BY <1>1, <2>1
  <1> QED BY <1>1, <1>3, <1>4

\* The handlers that tell nobody of a global
LEMMA HandlerStep ==
  ASSUME RegistryInv, NEW c \in Clients, NEW op, Handle(c, op), Handled(c),
         op = "get_registry" => c \in error',
         UNCHANGED <<global_list, id, created, registry_resource_list, resources,
                     connected, known, budget>>,
         error \subseteq error', error' \subseteq Clients,
         events' \in [Clients -> Seq(EventSet)],
         \A d \in Clients \ {c} : events'[d] = events[d],
         NEW evs, NEW p \in Seq(EventSet), Posts(c, evs, p),
         Appendable(c, events[c], p, known), \A i \in 1 .. Len(p) : ~IsTold(p[i]),
         bound' \subseteq [client : Clients, meant : Globals, got : Globals, version : Nat],
         BindFindsItsGlobal', \A g \in refused' : g \in Globals /\ InUse(g)
  PROVE  RegistryInv'
  <1>0. /\ TypeOK /\ ListInv /\ NameInv /\ BindInv /\ AskInv /\ FreshInv /\ StreamInv /\ AgreeInv
        /\ NoClient \notin Clients /\ \A x \in Registries : Owner[x] \in Clients
        /\ resources \subseteq Registries
        /\ \A d \in Clients : events[d] \in Seq(EventSet)
    BY RegistryAssumption DEF RegistryInv, TypeOK
  <1>1. /\ dying = NoClient /\ requests' \in [Clients -> Seq(RequestSet)]
        /\ \A d \in Clients : Within(requests'[d], requests[d])
        /\ dying' = IF c \in error' THEN c ELSE NoClient
    BY <1>0, HandledFacts
  <1>2. AskInv'
    BY AskHandled
  <1>3. /\ StreamInv' /\ \A d \in Clients : Len(events'[d]) <= MaxDown
        /\ \A d \in Clients : \A i \in 1 .. Len(events'[d]) :
              \/ \E j \in 1 .. Len(events[d]) : events'[d][i] = events[d][j]
              \/ d = c /\ \E j \in 1 .. Len(p) : events'[d][i] = p[j]
    BY <1>0, PostedFacts
  <1>4. ASSUME NEW d \in Clients, NEW i \in 1 .. Len(events'[d]), IsTold(events'[d][i])
        PROVE  \E j \in 1 .. Len(events[d]) : events'[d][i] = events[d][j]
    BY <1>3, <1>4
  <1>5. GlobalsNow' = GlobalsNow
    BY DEF GlobalsNow
  <1>6. TypeOK'
    <2>1. dying' \in Clients \cup {NoClient} /\ refused' \subseteq Globals
      BY <1>1
    <2> QED BY <1>0, <1>1, <1>3, <2>1 DEF TypeOK
  <1>7. ListInv'
    BY <1>0 DEF ListInv, Listed
  <1>8. NameInv'
    <2>1. \A g : UnderWay(g)' => UnderWay(g)
      BY <1>4 DEF UnderWay, IsTold
    <2>2. \A g : Meant(g)' => Meant(g)
      BY <1>1, FewerRequests
    <2>3. \A g : InUse(g)' => InUse(g)
      BY <1>5, <2>1, <2>2 DEF InUse
    <2> QED BY <1>6, <2>3, NothingNew
  <1>9. BindInv'
    <2>1. Careful \subseteq Clients
      BY RegistryAssumption
    <2>2. ASSUME NEW d \in Careful, NEW i \in 1 .. Len(requests'[d]), requests'[d][i].op = "bind"
          PROVE  /\ requests'[d][i].name = requests'[d][i].meant.name
                 /\ requests'[d][i].version \in 1 .. requests'[d][i].meant.version
      <3>1. PICK j \in 1 .. Len(requests[d]) : requests'[d][i] = requests[d][j]
        BY <1>1, <2>1 DEF Within
      <3> QED BY <1>0, <2>2, <3>1 DEF BindInv
    <2> QED BY <2>2 DEF BindInv
  <1>10. FreshInv'
    <2> SUFFICES ASSUME NEW r \in Registries \ resources, Owner[r] \in connected' \ {dying'}
                 PROVE  /\ known[r] = {}
                        /\ \A i \in 1 .. Len(events'[Owner[r]]) :
                              IsTold(events'[Owner[r]][i]) => events'[Owner[r]][i].reg # r
      BY DEF FreshInv, IsTold
    <2>1. Owner[r] \in connected \ {dying} /\ Owner[r] \in Clients
      BY <1>0, <1>1
    <2>2. /\ known[r] = {}
          /\ \A i \in 1 .. Len(events[Owner[r]]) :
                IsTold(events[Owner[r]][i]) => events[Owner[r]][i].reg # r
      BY <1>0, <2>1 DEF FreshInv
    <2>3. ASSUME NEW i \in 1 .. Len(events'[Owner[r]]), IsTold(events'[Owner[r]][i])
          PROVE  events'[Owner[r]][i].reg # r
      <3>1. PICK j \in 1 .. Len(events[Owner[r]]) :
               events'[Owner[r]][i] = events[Owner[r]][j]
        BY <1>4, <2>1, <2>3
      <3> QED BY <2>2, <2>3, <3>1
    <2> QED BY <2>2, <2>3
  <1>11. AgreeInv'
    <2> SUFFICES ASSUME NEW r \in resources, Owner[r] \notin error' \cup {dying'}
                 PROVE  WillKnow(r)' = GlobalsNow
      BY <1>5 DEF AgreeInv
    <2>1. r \in Registries /\ Owner[r] \in Clients
      BY <1>0
    <2>2. WillKnow(r) = GlobalsNow
      BY <1>0, <1>1, <2>1 DEF AgreeInv
    <2>3. WillKnow(r)' = Knows(known[r], events'[Owner[r]], r)
      BY DEF WillKnow, Knows
    <2>4. CASE Owner[r] # c
      BY <2>1, <2>2, <2>3, <2>4 DEF WillKnow
    <2>5. CASE Owner[r] = c
      <3>1. Knows(known[r], events[c] \o p, r) = Knows(Knows(known[r], events[c], r), p, r)
        <4>1. \A X : Knows(X, events[c] \o p, r) = Knows(Knows(X, events[c], r), p, r)
          BY <1>0, KnowsConcat
        <4> QED BY <4>1
      <3>2. \A K : Knows(K, p, r) = K
        BY KnowsSame
      <3>3. events'[c] = events[c] \o p
        BY DEF Posts
      <3>4. Knows(known[r], events[c], r) = GlobalsNow
        BY <2>2, <2>5 DEF WillKnow
      <3> QED BY <2>3, <2>5, <3>1, <3>2, <3>3, <3>4
    <2> QED BY <2>4, <2>5
  <1> QED BY <1>2, <1>3, <1>6, <1>7, <1>8, <1>9, <1>10, <1>11 DEF RegistryInv
\* An error event alone
LEMMA ErrorPosted ==
  ASSUME TypeOK, NEW c \in Clients, NEW p \in Seq(EventSet), Posts(c, <<[op |-> "error"]>>, p)
  PROVE  Appendable(c, events[c], p, known) /\ \A i \in 1 .. Len(p) : ~IsTold(p[i])
  <1> DEFINE e == [op |-> "error"]
  <1>1. Len(p) \in Nat /\ Len(p) <= 1 /\ \A i \in 1 .. Len(p) : p[i] = <<e>>[i]
    BY DEF Posts
  <1>2. e.op = "error" /\ <<e>>[1] = e
    OBVIOUS
  <1> HIDE DEF e
  <1>3. \A i \in 1 .. Len(p) : p[i].op = "error"
    BY <1>1, <1>2
  <1> QED BY <1>3 DEF Appendable, IsTold

LEMMA NoMemoryStep ==
  ASSUME RegistryInv, NEW c \in Clients, NEW op \in {"get_registry", "sync"}, NoMemory(c, op)
  PROVE  RegistryInv'
  <1>0. TypeOK /\ BindInv /\ error \subseteq Clients
    BY DEF RegistryInv, TypeOK
  <1>1. /\ Handle(c, op) /\ PostError(c) /\ Handled(c)
        /\ UNCHANGED <<global_list, id, created, registry_resource_list, resources,
                       connected, known, budget, bound, refused>>
    BY DEF NoMemory
  <1>2. /\ error' = error \cup {c} /\ events' \in [Clients -> Seq(EventSet)]
        /\ \A d \in Clients \ {c} : events'[d] = events[d]
        /\ \E p \in Seq(EventSet) : Posts(c, <<[op |-> "error"]>>, p)
    BY <1>0, <1>1, PostErrorFacts
  <1>3. PICK p \in Seq(EventSet) : Posts(c, <<[op |-> "error"]>>, p)
    BY <1>2
  <1>4. Appendable(c, events[c], p, known) /\ \A i \in 1 .. Len(p) : ~IsTold(p[i])
    BY <1>0, <1>3, ErrorPosted
  <1>5. /\ bound' \subseteq [client : Clients, meant : Globals, got : Globals, version : Nat]
        /\ BindFindsItsGlobal' /\ \A g \in refused' : g \in Globals /\ InUse(g)
    BY <1>0, <1>1 DEF TypeOK, BindInv, BindFindsItsGlobal, GlobalsNow, InUse
  <1>6. error \subseteq error' /\ error' \subseteq Clients /\ c \in error'
    BY <1>0, <1>2
  <1> QED BY <1>1, <1>2, <1>3, <1>4, <1>5, <1>6, HandlerStep

LEMMA BindHandledStep ==
  ASSUME RegistryInv, NEW c \in Clients, registry_bind(c)
  PROVE  RegistryInv'
  <1>0. /\ TypeOK /\ BindInv /\ NameInv /\ error \subseteq Clients
        /\ events \in [Clients -> Seq(EventSet)] /\ Careful \subseteq Clients
        /\ \A g \in GlobalsNow : g \in Globals /\ InUse(g)
        /\ \A g \in refused : g \in Globals /\ InUse(g)
    BY RegistryAssumption DEF RegistryInv, TypeOK, GlobalsNow, InUse
  <1>1. PICK q : q = Head(requests[c])
    OBVIOUS
  <1>2. /\ Handle(c, "bind") /\ Handled(c)
        /\ UNCHANGED <<global_list, id, created, registry_resource_list, resources,
                       connected, known, budget>>
        /\ \/ \E g \in GlobalsNow :
                /\ Binds(q, g)
                /\ bound' = bound \cup {[client |-> c, meant |-> q.meant,
                                         got |-> g, version |-> q.version]}
                /\ UNCHANGED <<events, error, refused>>
           \/ /\ \A g \in GlobalsNow : ~Binds(q, g)
              /\ PostError(c)
              /\ refused' = IF c \in Careful THEN refused \cup {q.meant} ELSE refused
              /\ UNCHANGED bound
    BY <1>1 DEF registry_bind
  <1>3. /\ q \in RequestSet /\ q.op = "bind" /\ 1 \in 1 .. Len(requests[c]) /\ requests[c][1] = q
    BY <1>0, <1>1, <1>2, HandledFacts
  <1>4. q.meant \in Globals /\ q.version \in Nat
    BY <1>3 DEF RequestSet
  <1>5. c \in Careful => /\ q.name = q.meant.name /\ q.version \in 1 .. q.meant.version
                         /\ InUse(q.meant)
    BY <1>0, <1>3 DEF BindInv, Meant, InUse
  <1>6. GlobalsNow' = GlobalsNow
    BY <1>2 DEF GlobalsNow
  <1>7. CASE \E g \in GlobalsNow :
                /\ Binds(q, g)
                /\ bound' = bound \cup {[client |-> c, meant |-> q.meant,
                                         got |-> g, version |-> q.version]}
                /\ UNCHANGED <<events, error, refused>>
    <2>1. PICK g \in GlobalsNow :
             /\ Binds(q, g)
             /\ bound' = bound \cup {[client |-> c, meant |-> q.meant,
                                      got |-> g, version |-> q.version]}
             /\ UNCHANGED <<events, error, refused>>
      BY <1>7
    <2>2. PICK b : b = [client |-> c, meant |-> q.meant, got |-> g, version |-> q.version]
      OBVIOUS
    <2>3. /\ b \in [client : Clients, meant : Globals, got : Globals, version : Nat]
          /\ b.client = c /\ b.meant = q.meant /\ b.got = g /\ b.version = q.version
      BY <1>0, <1>4, <2>2
    <2>4. c \in Careful => g = q.meant
      BY <1>0, <1>4, <1>5, <2>1 DEF Binds, NameInv
    <2>5. bound' = bound \cup {b}
      BY <2>1, <2>2
    <2>6. BindFindsItsGlobal'
      BY <1>0, <1>6, <2>1, <2>3, <2>4, <2>5 DEF BindInv, BindFindsItsGlobal, Binds
    <2>7. bound' \subseteq [client : Clients, meant : Globals, got : Globals, version : Nat]
      BY <1>0, <2>3, <2>5 DEF TypeOK
    <2>8. <<>> \in Seq(EventSet) /\ Len(<<>>) = 0 /\ Posts(c, <<>>, <<>>)
      <3>1. events[c] \in Seq(EventSet) /\ Len(events[c]) <= MaxDown
        BY <1>0 DEF TypeOK
      <3>2. <<>> \in Seq(EventSet) /\ events[c] \o <<>> = events[c]
        BY <3>1, SequenceConcat
      <3> QED BY <2>1, <3>1, <3>2 DEF Posts
    <2>9. PICK p \in Seq(EventSet) : Len(p) = 0 /\ Posts(c, <<>>, p)
      BY <2>8
    <2>10. Appendable(c, events[c], p, known) /\ \A i \in 1 .. Len(p) : ~IsTold(p[i])
      BY <2>9 DEF Appendable
    <2>11. /\ error \subseteq error' /\ error' \subseteq Clients
           /\ events' \in [Clients -> Seq(EventSet)]
           /\ \A d \in Clients \ {c} : events'[d] = events[d]
           /\ \A h \in refused' : h \in Globals /\ InUse(h)
      BY <1>0, <2>1
    <2> QED BY <1>2, <2>6, <2>7, <2>9, <2>10, <2>11, HandlerStep
  <1>8. CASE /\ \A g \in GlobalsNow : ~Binds(q, g)
             /\ PostError(c)
             /\ refused' = IF c \in Careful THEN refused \cup {q.meant} ELSE refused
             /\ UNCHANGED bound
    <2>1. /\ error' = error \cup {c} /\ events' \in [Clients -> Seq(EventSet)]
          /\ \A d \in Clients \ {c} : events'[d] = events[d]
          /\ \E p \in Seq(EventSet) : Posts(c, <<[op |-> "error"]>>, p)
      BY <1>0, <1>8, PostErrorFacts
    <2>2. PICK p \in Seq(EventSet) : Posts(c, <<[op |-> "error"]>>, p)
      BY <2>1
    <2>3. Appendable(c, events[c], p, known) /\ \A i \in 1 .. Len(p) : ~IsTold(p[i])
      BY <1>0, <2>2, ErrorPosted
    <2>4. c \in Careful => q.meant \notin GlobalsNow
      BY <1>5, <1>8 DEF Binds
    <2>5. BindFindsItsGlobal'
      <3>1. refused' \cap GlobalsNow = {}
        BY <1>0, <1>8, <2>4 DEF BindInv, BindFindsItsGlobal
      <3> QED BY <1>0, <1>6, <1>8, <3>1 DEF BindInv, BindFindsItsGlobal
    <2>6. \A g \in refused' : g \in Globals /\ InUse(g)
      BY <1>0, <1>4, <1>5, <1>8
    <2>7. bound' \subseteq [client : Clients, meant : Globals, got : Globals, version : Nat]
      BY <1>0, <1>8 DEF TypeOK
    <2>8. error \subseteq error' /\ error' \subseteq Clients
      BY <1>0, <2>1
    <2> QED BY <1>2, <2>1, <2>2, <2>3, <2>5, <2>6, <2>7, <2>8, HandlerStep
  <1> QED BY <1>2, <1>7, <1>8

LEMMA SyncHandledStep ==
  ASSUME RegistryInv, NEW c \in Clients, display_sync(c)
  PROVE  RegistryInv'
  <1>0. /\ TypeOK /\ BindInv /\ AskInv /\ AgreeInv /\ error \subseteq Clients
        /\ NoClient \notin Clients
    BY RegistryAssumption DEF RegistryInv, TypeOK
  <1>1. PICK q, told : q = Head(requests[c]) /\ told = IF c \in error THEN {} ELSE q.told
    OBVIOUS
  <1>2. PICK e, d : /\ e = [op |-> "done", at |-> GlobalsNow, told |-> told]
                    /\ d = [op |-> "delete_id"]
    OBVIOUS
  <1>3. /\ Handle(c, "sync") /\ Post(c, <<e, d>>) /\ Handled(c)
        /\ UNCHANGED <<global_list, id, created, registry_resource_list, resources,
                       connected, known, budget, bound, refused>>
    BY <1>1, <1>2 DEF display_sync
  <1>4. /\ q \in RequestSet /\ q.op = "sync" /\ 1 \in 1 .. Len(requests[c]) /\ requests[c][1] = q
        /\ dying = NoClient
    BY <1>0, <1>1, <1>3, HandledFacts
  <1>5. told \subseteq Registries /\ GlobalsNow \subseteq Globals
    <2>1. q.told \subseteq Registries
      BY <1>4 DEF RequestSet
    <2>2. GlobalsNow \subseteq Globals
      BY <1>0 DEF TypeOK, GlobalsNow
    <2> QED BY <1>1, <2>1, <2>2
  <1>6. /\ e \in EventSet /\ e.op = "done" /\ e.told = told /\ e.at = GlobalsNow
        /\ d \in EventSet /\ d.op = "delete_id"
    BY <1>2, <1>5 DEF EventSet
  <1>7. ASSUME NEW r \in told
        PROVE  Owner[r] = c /\ Knows(known[r], events[c], r) = GlobalsNow
    <2>1. c \notin error /\ r \in q.told
      BY <1>1, <1>7
    <2>2. Owner[r] = c /\ r \in resources
      BY <1>0, <1>4, <2>1 DEF AskInv, Orderly
    <2> QED BY <1>0, <1>4, <2>1, <2>2 DEF AgreeInv, WillKnow
  <1>8. /\ <<e, d>> \in Seq(EventSet) /\ Len(<<e, d>>) = 2
        /\ <<e, d>>[1] = e /\ <<e, d>>[2] = d
    BY <1>6
  <1>9. PICK evs \in Seq(EventSet) : evs = <<e, d>>
    BY <1>8
  <1>10. /\ error' \subseteq Clients /\ error \subseteq error'
         /\ events' \in [Clients -> Seq(EventSet)]
         /\ \A x \in Clients \ {c} : events'[x] = events[x]
         /\ \E p \in Seq(EventSet) : Posts(c, evs, p)
    BY <1>0, <1>3, <1>9, PostFacts
  <1>11. PICK p \in Seq(EventSet) : Posts(c, evs, p)
    BY <1>10
  <1>12. \A i \in 1 .. Len(p) : (i = 1 /\ p[i] = e) \/ (i = 2 /\ p[i] = d)
    BY <1>8, <1>9, <1>11 DEF Posts
  <1>13. \A i \in 1 .. Len(p) : ~IsTold(p[i])
    BY <1>6, <1>12 DEF IsTold
  <1>14. Appendable(c, events[c], p, known)
    BY <1>6, <1>7, <1>12, <1>13 DEF Appendable
  <1>15. /\ bound' \subseteq [client : Clients, meant : Globals, got : Globals, version : Nat]
         /\ BindFindsItsGlobal' /\ \A g \in refused' : g \in Globals /\ InUse(g)
    BY <1>0, <1>3 DEF TypeOK, BindInv, BindFindsItsGlobal, GlobalsNow, InUse
  <1> QED BY <1>3, <1>10, <1>11, <1>13, <1>14, <1>15, HandlerStep
LEMMA GetHandledStep ==
  ASSUME RegistryInv, NEW c \in Clients, display_get_registry(c)
  PROVE  RegistryInv'
  <1>0. /\ TypeOK /\ ListInv /\ NameInv /\ BindInv /\ AskInv /\ FreshInv /\ StreamInv /\ AgreeInv
        /\ error \subseteq Clients /\ NoClient \notin Clients
        /\ global_list \in Seq(Globals) /\ registry_resource_list \in Seq(Registries)
        /\ \A x \in Registries : Owner[x] \in Clients
        /\ resources \subseteq Registries
        /\ \A d \in Clients : events[d] \in Seq(EventSet)
    BY RegistryAssumption DEF RegistryInv, TypeOK
  <1>1. PICK r, evs :
           /\ r = Head(requests[c]).reg
           /\ evs = [i \in 1 .. Len(global_list) |->
                       [op |-> "global", reg |-> r, global |-> global_list[i]]]
    OBVIOUS
  <1>2. /\ Handle(c, "get_registry") /\ Post(c, evs) /\ Handled(c)
        /\ registry_resource_list' = <<r>> \o registry_resource_list
        /\ resources' = resources \cup {r}
        /\ UNCHANGED <<global_list, id, created, connected, known, budget, bound, refused>>
    BY <1>1 DEF display_get_registry
  <1>3. /\ c \in connected /\ dying = NoClient
        /\ Head(requests[c]) \in RequestSet /\ Head(requests[c]).op = "get_registry"
        /\ 1 \in 1 .. Len(requests[c]) /\ requests[c][1] = Head(requests[c])
        /\ requests' \in [Clients -> Seq(RequestSet)]
        /\ \A d \in Clients : Within(requests'[d], requests[d])
        /\ dying' = IF c \in error' THEN c ELSE NoClient
    BY <1>0, <1>2, HandledFacts
  <1>4. r \in Registries /\ r \notin resources /\ Owner[r] = c
    <2>1. r \in Registries
      BY <1>1, <1>3 DEF RequestSet
    <2> QED BY <1>0, <1>1, <1>3, <2>1 DEF AskInv, Orderly
  <1>5. /\ evs \in Seq(EventSet) /\ Len(evs) = Len(global_list) /\ Len(global_list) \in Nat
        /\ \A i \in 1 .. Len(global_list) :
              evs[i].op = "global" /\ evs[i].reg = r /\ evs[i].global = global_list[i]
    <2>1. \A i \in 1 .. Len(global_list) : global_list[i] \in Globals
      BY <1>0
    <2>2. \A i \in 1 .. Len(global_list) :
             [op |-> "global", reg |-> r, global |-> global_list[i]] \in EventSet
      BY <1>4, <2>1 DEF EventSet
    <2> QED BY <1>0, <1>1, <2>2
  <1>6. /\ error' \subseteq Clients /\ error \subseteq error'
        /\ events' \in [Clients -> Seq(EventSet)]
        /\ \A x \in Clients \ {c} : events'[x] = events[x]
        /\ \E p \in Seq(EventSet) : Posts(c, evs, p)
    BY <1>0, <1>2, <1>5, PostFacts
  <1>7. PICK p \in Seq(EventSet) : Posts(c, evs, p)
    BY <1>6
  <1>8. ASSUME NEW i \in 1 .. Len(p)
        PROVE  p[i].op = "global" /\ p[i].reg = r /\ p[i].global \in GlobalsNow
    <2>1. i \in 1 .. Len(global_list) /\ p[i] = evs[i]
      <3>1. Len(p) <= Len(evs) /\ p[i] = evs[i] /\ Len(p) \in Nat
        BY <1>7 DEF Posts
      <3> QED BY <1>5, <3>1
    <2> QED BY <1>5, <2>1 DEF GlobalsNow
  <1>9. Appendable(c, events[c], p, known)
    BY <1>4, <1>8 DEF Appendable
  <1>10. /\ StreamInv' /\ \A d \in Clients : Len(events'[d]) <= MaxDown
         /\ \A d \in Clients : \A i \in 1 .. Len(events'[d]) :
               \/ \E j \in 1 .. Len(events[d]) : events'[d][i] = events[d][j]
               \/ d = c /\ \E j \in 1 .. Len(p) : events'[d][i] = p[j]
    <2>1. TypeOK /\ StreamInv /\ known' = known
      BY <1>0, <1>2
    <2>2. p \in Seq(EventSet) /\ Posts(c, evs, p)
      BY <1>7
    <2>3. \A d \in Clients \ {c} : events'[d] = events[d]
      BY <1>6
    <2> QED BY <1>9, <2>1, <2>2, <2>3, PostedFacts
  <1>11. /\ registry_resource_list' \in Seq(Registries) /\ IsInjective(registry_resource_list')
         /\ \A x : Contains(registry_resource_list', x) <=> Contains(registry_resource_list, x) \/ x = r
    <2>1. IsInjective(registry_resource_list) /\ ~Contains(registry_resource_list, r)
      BY <1>0, <1>4, ElementsContained, ListedElements DEF ListInv
    <2> QED BY <1>0, <1>2, <1>4, <2>1, ContainsPrepend
  <1>12. GlobalsNow' = GlobalsNow
    BY <1>2 DEF GlobalsNow
  <1>13. TypeOK'
    <2>1. dying' \in Clients \cup {NoClient} /\ resources' \subseteq Registries
      BY <1>0, <1>2, <1>3, <1>4
    <2> QED BY <1>0, <1>2, <1>3, <1>6, <1>10, <1>11, <2>1 DEF TypeOK
  <1>14. ListInv'
    <2>1. Listed' = Elements(registry_resource_list')
      BY DEF Listed, Elements
    <2>2. Listed' = Listed \cup {r}
      BY <1>11, <2>1, ElementsContained, ListedElements
    <2> QED BY <1>0, <1>2, <1>11, <2>2 DEF ListInv
  <1>15. NameInv'
    <2>1. ASSUME NEW g, UnderWay(g)' PROVE InUse(g)
      <3>1. PICK d \in Clients : \E i \in 1 .. Len(events'[d]) :
               IsTold(events'[d][i]) /\ events'[d][i].global = g
        BY <2>1 DEF UnderWay, IsTold
      <3>2. PICK i \in 1 .. Len(events'[d]) :
               IsTold(events'[d][i]) /\ events'[d][i].global = g
        BY <3>1
      <3>3. CASE \E j \in 1 .. Len(events[d]) : events'[d][i] = events[d][j]
        BY <3>2, <3>3 DEF UnderWay, InUse
      <3>4. CASE \E j \in 1 .. Len(p) : events'[d][i] = p[j]
        BY <1>8, <3>2, <3>4 DEF InUse
      <3> QED BY <1>10, <3>3, <3>4
    <2>2. \A g : Meant(g)' => Meant(g)
      BY <1>3, FewerRequests
    <2>3. \A g : InUse(g)' => InUse(g)
      BY <1>2, <1>12, <2>1, <2>2 DEF InUse
    <2> QED BY <1>2, <1>13, <2>3, NothingNew
  <1>16. BindInv'
    BY <1>2, <1>3, <1>12, FewerRequests
  <1>17. AskInv'
    BY <1>1, <1>2, AskHandled
  <1>18. FreshInv'
    <2> SUFFICES ASSUME NEW x \in Registries \ resources', Owner[x] \in connected' \ {dying'}
                 PROVE  /\ known'[x] = {}
                        /\ \A i \in 1 .. Len(events'[Owner[x]]) :
                              IsTold(events'[Owner[x]][i]) => events'[Owner[x]][i].reg # x
      BY DEF FreshInv, IsTold
    <2>1. /\ Owner[x] \in connected \ {dying} /\ Owner[x] \in Clients
          /\ x \in Registries \ resources /\ x # r
      BY <1>0, <1>2, <1>3
    <2>2. /\ known[x] = {}
          /\ \A i \in 1 .. Len(events[Owner[x]]) :
                IsTold(events[Owner[x]][i]) => events[Owner[x]][i].reg # x
      BY <1>0, <2>1 DEF FreshInv
    <2>3. ASSUME NEW i \in 1 .. Len(events'[Owner[x]]), IsTold(events'[Owner[x]][i])
          PROVE  events'[Owner[x]][i].reg # x
      <3>1. CASE \E j \in 1 .. Len(events[Owner[x]]) :
                    events'[Owner[x]][i] = events[Owner[x]][j]
        BY <2>2, <2>3, <3>1
      <3>2. CASE \E j \in 1 .. Len(p) : events'[Owner[x]][i] = p[j]
        BY <1>8, <2>1, <3>2
      <3> QED BY <1>10, <2>1, <3>1, <3>2
    <2> QED BY <1>2, <2>2, <2>3
  <1>19. AgreeInv'
    <2> SUFFICES ASSUME NEW x \in resources', Owner[x] \notin error' \cup {dying'}
                 PROVE  WillKnow(x)' = GlobalsNow
      BY <1>12 DEF AgreeInv
    <2>1. x \in Registries /\ Owner[x] \in Clients /\ Owner[x] \notin error \cup {dying}
      BY <1>0, <1>2, <1>3, <1>4, <1>6
    <2>2. WillKnow(x)' = Knows(known[x], events'[Owner[x]], x)
      BY <1>2 DEF WillKnow, Knows
    <2>3. CASE Owner[x] # c
      <3>1. x \in resources /\ events'[Owner[x]] = events[Owner[x]]
        BY <1>2, <1>4, <1>6, <2>1, <2>3
      <3> QED BY <1>0, <2>1, <2>2, <3>1 DEF AgreeInv, WillKnow
    <2>4. CASE Owner[x] = c
      <3>1. /\ events'[c] = events[c] \o p /\ p = evs
        BY <1>3, <1>7, <2>4 DEF Posts
      <3>2. \A X : Knows(X, events[c] \o p, x) = Knows(Knows(X, events[c], x), p, x)
        BY <1>0, KnowsConcat
      <3>3. WillKnow(x)' = Knows(Knows(known[x], events[c], x), p, x)
        BY <2>2, <2>4, <3>1, <3>2
      <3>4. CASE x \in resources
        <4>1. \A K : Knows(K, p, x) = K
          BY <1>4, <1>8, <3>4, KnowsSame
        <4>2. Knows(known[x], events[c], x) = GlobalsNow
          BY <1>0, <2>1, <2>4, <3>4 DEF AgreeInv, WillKnow
        <4> QED BY <3>3, <4>1, <4>2
      <3>5. CASE x = r
        <4>1. /\ known[x] = {}
              /\ \A i \in 1 .. Len(events[c]) : ~(IsTold(events[c][i]) /\ events[c][i].reg = x)
          BY <1>0, <1>3, <1>4, <3>5 DEF FreshInv
        <4>2. PICK s \in Seq(EventSet) : s = events[c]
          BY <1>0
        <4>3. \A K : Knows(K, s, x) = K
          BY <4>1, <4>2, KnowsSame
        <4>4. WillKnow(x)' = Knows({}, p, x)
          BY <3>3, <4>1, <4>2, <4>3
        <4>5. Knows({}, p, x) = {p[i].global : i \in {k \in 1 .. Len(p) :
                                                       p[k].op = "global" /\ p[k].reg = x}}
          <5>1. \A i \in 1 .. Len(p) : p[i].op # "remove"
            BY <1>8
          <5>2. p \in Seq(EventSet)
            BY <1>7
          <5> QED BY <5>1, <5>2, KnowsMore
        <4>6. {p[i].global : i \in {k \in 1 .. Len(p) : p[k].op = "global" /\ p[k].reg = x}}
                = {global_list[i] : i \in 1 .. Len(global_list)}
          <5>1. Len(p) = Len(global_list)
            BY <1>5, <3>1
          <5>2. \A i \in 1 .. Len(p) :
                   p[i].op = "global" /\ p[i].reg = x /\ p[i].global = global_list[i]
            BY <1>5, <3>1, <3>5
          <5> QED BY <5>1, <5>2
        <4> QED BY <4>4, <4>5, <4>6 DEF GlobalsNow
      <3> QED BY <1>2, <3>4, <3>5
    <2> QED BY <2>3, <2>4
  <1> QED BY <1>10, <1>13, <1>14, <1>15, <1>16, <1>17, <1>18, <1>19 DEF RegistryInv

-----------------------------------------------------------------------------
\* The theorems

LEMMA RegistryInit == ASSUME Init PROVE RegistryInv
  <1>1. /\ global_list = <<>> /\ id = 1 /\ created = 0
        /\ registry_resource_list = <<>> /\ resources = {}
        /\ connected = Clients /\ dying = NoClient /\ error = {}
        /\ requests = [c \in Clients |-> <<>>]
        /\ events = [c \in Clients |-> <<>>]
        /\ known = [r \in Registries |-> {}]
        /\ budget = MaxRequests /\ bound = {} /\ refused = {}
    BY DEF Init
  <1>2. MaxRequests \in [Clients -> Nat] /\ MaxDown \in Nat /\ Careful \subseteq Clients
    BY RegistryAssumption
  <1>3. TypeOK
    <2>1. /\ requests \in [Clients -> Seq(RequestSet)] /\ events \in [Clients -> Seq(EventSet)]
          /\ \A c \in Clients : Len(events[c]) <= MaxDown
      BY <1>1, <1>2
    <2> QED BY <1>1, <1>2, <2>1 DEF TypeOK
  <1>4. GlobalsNow = {} /\ Listed = {}
    BY <1>1 DEF GlobalsNow, Listed
  <1>5. ListInv
    BY <1>1, <1>4, ContainsEmpty DEF ListInv
  <1>6. (\A c \in Clients : Len(requests[c]) = 0 /\ Len(events[c]) = 0) /\ 1 .. 0 = {}
    BY <1>1
  <1>7. \A g : ~InUse(g)
    BY <1>1, <1>2, <1>4, <1>6 DEF InUse, UnderWay, Meant
  <1>8. NameInv
    BY <1>7 DEF NameInv
  <1>9. BindInv
    BY <1>1, <1>2, <1>6 DEF BindInv, BindFindsItsGlobal
  <1>10. AskInv
    BY <1>1, <1>6 DEF AskInv, Orderly
  <1>11. FreshInv
    <2>1. \A r \in Registries : Owner[r] \in Clients
      BY RegistryAssumption
    <2> QED BY <1>1, <1>6, <2>1 DEF FreshInv
  <1>12. StreamInv
    BY <1>6 DEF StreamInv, StreamSound
  <1>13. AgreeInv
    BY <1>1 DEF AgreeInv
  <1> QED BY <1>3, <1>5, <1>8, <1>9, <1>10, <1>11, <1>12, <1>13 DEF RegistryInv

LEMMA RegistryNext == ASSUME RegistryInv, [Next]_vars PROVE RegistryInv'
  <1>1. CASE UNCHANGED vars
    <2>1. UNCHANGED <<global_list, id, created, registry_resource_list, resources, connected,
                      dying, error, requests, events, known, budget, bound, refused>>
      BY <1>1 DEF vars
    <2>2. /\ TypeOK /\ AskInv
          /\ \A c \in Clients : Within(requests'[c], requests[c])
      BY <2>1 DEF RegistryInv, Within
    <2>3. AskInv'
      BY <2>1, <2>2 DEF AskInv, Orderly
    <2>4. /\ connected' \subseteq Clients /\ dying' \in Clients \cup {NoClient}
          /\ requests' \in [Clients -> Seq(RequestSet)]
          /\ connected' \ {dying'} \subseteq connected \ {dying} /\ dying' = dying
      BY <2>1, <2>2 DEF TypeOK
    <2>5. /\ TypeOK' /\ ListInv' /\ NameInv' /\ BindInv'
          /\ FreshInv' /\ StreamInv' /\ AgreeInv'
      BY <2>1, <2>2, <2>4, QuietStep
    <2> QED BY <2>3, <2>5 DEF RegistryInv
  <1>2. ASSUME NEW v \in 1 .. MaxVersion, wl_global_create(v) PROVE RegistryInv'
    BY <1>2, CreateStep
  <1>3. ASSUME NEW g \in GlobalsNow, wl_global_destroy(g) PROVE RegistryInv'
    BY <1>3, DestroyStep
  <1>4. ASSUME NEW c \in Clients,
               \/ wl_client_destroy(c) \/ display_get_registry(c) \/ display_sync(c)
               \/ registry_bind(c) \/ Sync(c) \/ ReadEvent(c)
        PROVE  RegistryInv'
    BY <1>4, ClientDestroyStep, GetHandledStep, SyncHandledStep, BindHandledStep, SyncStep, ReadStep
  <1>5. ASSUME NEW c \in Clients, NEW op \in {"get_registry", "sync"}, NoMemory(c, op)
        PROVE  RegistryInv'
    BY <1>5, NoMemoryStep
  <1>6. ASSUME NEW r \in Registries,
               DestroyRegistry(r) \/ GetRegistry(r) \/ Bind(r) \/ BindAnything(r)
        PROVE  RegistryInv'
    BY <1>6, DestroyRegistryStep, GetRegistryStep, BindStep, BindAnythingStep
  <1>7. CASE ClientDestroyed
    BY <1>7, ClientDestroyedStep
  <1> QED BY <1>1, <1>2, <1>3, <1>4, <1>5, <1>6, <1>7 DEF Next

THEOREM RegistryInvariant == Spec => []RegistryInv
  BY RegistryInit, RegistryNext, PTL DEF Spec

\* wl_global_create, wl_global_destroy and display_get_registry: every registry
\* that is linked exists, and knows the globals there are as soon as its client
\* has read what is under way, unless an event to that client was lost.
THEOREM RegistriesAlwaysAgree == Spec => []RegistriesAgree
  <1>1. RegistryInv => RegistriesAgree
    BY DEF RegistryInv, ListInv, AgreeInv, RegistriesAgree
  <1> QED BY <1>1, RegistryInvariant, PTL

\* registry_bind: however long a bind has travelled, it reaches the global its
\* client meant or is refused, and it is refused only if that global is gone.
THEOREM BindsFindTheirGlobals == Spec => []BindFindsItsGlobal
  <1>1. RegistryInv => BindFindsItsGlobal
    BY DEF RegistryInv, BindInv
  <1> QED BY <1>1, RegistryInvariant, PTL

\* display_sync: a client that reads the done event of its sync knows every
\* global there was when the server answered.
THEOREM SyncIsAlwaysBarrier == Spec => SyncIsBarrier
  <1>1. ASSUME RegistryInv, RegistryInv', NEW c \in Clients, Len(events'[c]) < Len(events[c]),
               Head(events[c]).op = "done", NEW r \in Head(events[c]).told
        PROVE  known[r] = Head(events[c]).at
    <2>1. events[c] \in Seq(EventSet) /\ StreamSound(c, events[c], known)
      BY <1>1 DEF RegistryInv, TypeOK, StreamInv
    <2>2. 1 \in 1 .. Len(events[c]) /\ events[c][1] = Head(events[c])
      <3>1. events'[c] \in Seq(EventSet)
        BY <1>1 DEF RegistryInv, TypeOK
      <3>2. Len(events'[c]) \in Nat /\ Len(events[c]) \in Nat
        BY <2>1, <3>1
      <3>3. Len(events[c]) # 0
        BY <1>1, <3>2
      <3> QED BY <2>1, <3>3
    <2>3. Knows(known[r], SubSeq(events[c], 1, 1 - 1), r) = Head(events[c]).at
      BY <1>1, <2>1, <2>2 DEF StreamSound
    <2>4. SubSeq(events[c], 1, 1 - 1) = <<>>
      BY <2>1
    <2> QED BY <2>3, <2>4, KnowsEmpty
  <1>2. RegistryInv /\ RegistryInv' =>
          [\A c \in Clients :
             Len(events'[c]) < Len(events[c]) /\ Head(events[c]).op = "done" =>
                \A r \in Head(events[c]).told : known[r] = Head(events[c]).at]_vars
    BY <1>1
  <1> QED BY <1>2, RegistryInvariant, PTL DEF SyncIsBarrier
=============================================================================
