--------------------------- MODULE ResourcesProofs ---------------------------
(***************************************************************************)
(* Proofs about Resources: however the destructions of a client's resources*)
(* nest, nothing that is freed or unlinked is used, every destroy listener *)
(* is told once, and the table of ids agrees with the resources.           *)
(***************************************************************************)
EXTENDS Resources, ListProofs

-----------------------------------------------------------------------------
\* The stack of calls in progress: what a frame may hold, which function calls
\* which, and that no object is destroyed by two calls of one function.
Positions == Nat \cup {"id", "handler", "free", "loop", "notify", "destroy"}
Cursors   == Listeners \cup {NoListener, Wild}

FrameSet ==
  [fn : {"wl_client_destroy", "wl_resource_destroy", "destroy_resource",
         "wl_signal_emit", "callback"},
   of : Signals \cup Listeners, at : Positions, l : Cursors, next : Cursors]

Kept(f) ==
  /\ f.fn = "wl_client_destroy" => f.of = Client /\ f.at \in Nat \ {0}
  /\ f.fn = "wl_resource_destroy" => f.of \in ResourceSet \ {Display}
  /\ f.fn = "destroy_resource" => f.of \in ResourceSet /\ f.at \in {"handler", "free"}
  /\ f.fn = "wl_signal_emit" => f.of \in Signals

\* Whether f may be in progress while g is, which it has called
Calls(f, g) ==
  \/ f.fn = "wl_client_destroy" /\ f.at = 1 /\ g.fn = "wl_signal_emit" /\ g.of = Client
  \/ f.fn = "wl_client_destroy" /\ g.fn = "destroy_resource"
  \/ f.fn = "wl_resource_destroy" /\ g.fn = "destroy_resource" /\ g.of = f.of
  \/ f.fn = "destroy_resource" /\ f.at = "handler" /\ g.fn = "wl_signal_emit" /\ g.of = f.of
  \/ f.fn = "destroy_resource" /\ f.at = "free" /\ g.fn = "callback"
  \/ f.fn = "wl_signal_emit" /\ g.fn = "callback"
  \/ f.fn = "callback" /\ g.fn = "wl_resource_destroy"

\* Whether g, called later, may be in progress while f is
Apart(f, g) ==
  \/ /\ f.fn \in {"destroy_resource", "wl_resource_destroy"} /\ g.fn = f.fn
  \/ /\ f.fn = "destroy_resource" /\ g.fn = "wl_resource_destroy"
  => f.of # g.of

Starts(f) == f.fn \in {"wl_client_destroy", "wl_resource_destroy"}

StackInv(st) ==
  /\ st \in Seq(FrameSet)
  /\ \A i \in 1 .. Len(st) : Kept(st[i])
  /\ st # <<>> => Starts(st[1])
  /\ \A i \in 1 .. Len(st) - 1 : Calls(st[i], st[i + 1])
  /\ \A j \in 1 .. Len(st) : \A i \in 1 .. j - 1 : Apart(st[i], st[j])

\* A call in progress of a function of F on s
Has(st, F, s) == \E i \in 1 .. Len(st) : st[i].fn \in F /\ st[i].of = s

\* The place that wl_map_for_each has come to in wl_client_destroy
Sweep(st) == IF st # <<>> /\ st[1].fn = "wl_client_destroy" THEN st[1].at ELSE 0

LEMMA StackLen ==
  ASSUME NEW st \in Seq(FrameSet), st # <<>>
  PROVE  /\ Len(st) \in Nat /\ Len(st) > 0 /\ Len(st) \in 1 .. Len(st) /\ 1 \in 1 .. Len(st)
         /\ st[Len(st)] \in FrameSet
  OBVIOUS

LEMMA Before ==
  ASSUME NEW n \in Nat, n > 0, n # 1
  PROVE  n - 1 \in 1 .. n - 1 /\ n - 1 \in 1 .. n /\ n - 1 + 1 = n /\ n - 1 # 0
  OBVIOUS

LEMMA PushShape ==
  ASSUME NEW st \in Seq(FrameSet), NEW f \in FrameSet
  PROVE  /\ Append(st, f) \in Seq(FrameSet) /\ Append(st, f) # <<>>
         /\ Len(Append(st, f)) = Len(st) + 1 /\ Len(st) \in Nat
         /\ \A i \in 1 .. Len(st) : Append(st, f)[i] = st[i]
         /\ Append(st, f)[Len(st) + 1] = f
  OBVIOUS

LEMMA PushKeeps ==
  ASSUME NEW st, StackInv(st), NEW f \in FrameSet, Kept(f),
         st = <<>> => Starts(f), st # <<>> => Calls(st[Len(st)], f),
         \A i \in 1 .. Len(st) : Apart(st[i], f)
  PROVE  StackInv(Append(st, f))
  <1> DEFINE t == Append(st, f)
  <1>1. /\ t \in Seq(FrameSet) /\ t # <<>> /\ Len(t) = Len(st) + 1 /\ Len(st) \in Nat
        /\ \A i \in 1 .. Len(st) : t[i] = st[i]
        /\ t[Len(st) + 1] = f
    BY PushShape DEF StackInv
  <1> HIDE DEF t
  <1>2. \A i \in 1 .. Len(t) : Kept(t[i])
    <2> SUFFICES ASSUME NEW i \in 1 .. Len(t) PROVE Kept(t[i])
      OBVIOUS
    <2>1. i \in 1 .. Len(st) \/ i = Len(st) + 1
      BY <1>1
    <2> QED BY <1>1, <2>1 DEF StackInv
  <1>3. Starts(t[1])
    <2>1. CASE st = <<>>
      BY <1>1, <2>1
    <2>2. CASE st # <<>>
      <3>1. 1 \in 1 .. Len(st) /\ Starts(st[1])
        BY <2>2, StackLen DEF StackInv
      <3> QED BY <1>1, <3>1
    <2> QED BY <2>1, <2>2
  <1>4. \A i \in 1 .. Len(t) - 1 : Calls(t[i], t[i + 1])
    <2> SUFFICES ASSUME NEW i \in 1 .. Len(t) - 1 PROVE Calls(t[i], t[i + 1])
      OBVIOUS
    <2>1. CASE i = Len(st)
      <3>1. st # <<>> /\ i \in 1 .. Len(st)
        BY <1>1, <2>1
      <3> QED BY <1>1, <2>1, <3>1
    <2>2. CASE i # Len(st)
      <3>1. i \in 1 .. Len(st) - 1 /\ i \in 1 .. Len(st) /\ i + 1 \in 1 .. Len(st)
        BY <1>1, <2>2
      <3> QED BY <1>1, <3>1 DEF StackInv
    <2> QED BY <2>1, <2>2
  <1>5. \A j \in 1 .. Len(t) : \A i \in 1 .. j - 1 : Apart(t[i], t[j])
    <2> SUFFICES ASSUME NEW j \in 1 .. Len(t), NEW i \in 1 .. j - 1 PROVE Apart(t[i], t[j])
      OBVIOUS
    <2>1. i \in 1 .. Len(st) /\ t[i] = st[i]
      BY <1>1
    <2>2. CASE j = Len(st) + 1
      BY <1>1, <2>1, <2>2
    <2>3. CASE j # Len(st) + 1
      <3>1. j \in 1 .. Len(st)
        BY <1>1, <2>3
      <3> QED BY <1>1, <2>1, <3>1 DEF StackInv
    <2> QED BY <2>2, <2>3
  <1>6. StackInv(t)
    BY <1>1, <1>2, <1>3, <1>4, <1>5 DEF StackInv
  <1> QED BY <1>6 DEF t

LEMMA PopShape ==
  ASSUME NEW st \in Seq(FrameSet), st # <<>>
  PROVE  LET t == SubSeq(st, 1, Len(st) - 1)
         IN  /\ t \in Seq(FrameSet) /\ Len(t) = Len(st) - 1 /\ Len(t) \in Nat
             /\ \A i \in 1 .. Len(t) : t[i] = st[i]
  OBVIOUS

LEMMA PopKeeps ==
  ASSUME NEW st, StackInv(st), st # <<>>
  PROVE  StackInv(SubSeq(st, 1, Len(st) - 1))
  <1> DEFINE t == SubSeq(st, 1, Len(st) - 1)
  <1>1. /\ t \in Seq(FrameSet) /\ Len(t) = Len(st) - 1 /\ Len(t) \in Nat
        /\ \A i \in 1 .. Len(t) : t[i] = st[i] /\ i \in 1 .. Len(st)
    <2>1. st \in Seq(FrameSet)
      BY DEF StackInv
    <2>2. /\ t \in Seq(FrameSet) /\ Len(t) = Len(st) - 1 /\ Len(t) \in Nat
          /\ \A i \in 1 .. Len(t) : t[i] = st[i]
      BY <2>1, PopShape
    <2> QED BY <2>1, <2>2
  <1> HIDE DEF t
  <1>2. t # <<>> => 1 \in 1 .. Len(t)
    BY <1>1
  <1>3. \A i \in 1 .. Len(t) - 1 : Calls(t[i], t[i + 1])
    <2> SUFFICES ASSUME NEW i \in 1 .. Len(t) - 1 PROVE Calls(t[i], t[i + 1])
      OBVIOUS
    <2>1. i \in 1 .. Len(t) /\ i + 1 \in 1 .. Len(t) /\ i \in 1 .. Len(st) - 1
      BY <1>1
    <2> QED BY <1>1, <2>1 DEF StackInv
  <1>4. \A j \in 1 .. Len(t) : \A i \in 1 .. j - 1 : Apart(t[i], t[j])
    <2> SUFFICES ASSUME NEW j \in 1 .. Len(t), NEW i \in 1 .. j - 1 PROVE Apart(t[i], t[j])
      OBVIOUS
    <2>1. i \in 1 .. Len(t)
      BY <1>1
    <2> QED BY <1>1, <2>1 DEF StackInv
  <1>5. StackInv(t)
    BY <1>1, <1>2, <1>3, <1>4 DEF StackInv
  <1> QED BY <1>5 DEF t

\* What a call changes of its own frame is where it is.
LEMMA ReplaceShape ==
  ASSUME NEW st \in Seq(FrameSet), st # <<>>, NEW f \in FrameSet
  PROVE  LET t == [st EXCEPT ![Len(st)] = f]
         IN  /\ t \in Seq(FrameSet) /\ t # <<>> /\ Len(t) = Len(st) /\ Len(st) \in Nat
             /\ t[Len(st)] = f
             /\ \A i \in 1 .. Len(st) : i # Len(st) => t[i] = st[i]
  OBVIOUS

LEMMA ReplaceKeeps ==
  ASSUME NEW st, StackInv(st), st # <<>>, NEW f \in FrameSet, Kept(f),
         f.fn = st[Len(st)].fn, f.of = st[Len(st)].of
  PROVE  StackInv([st EXCEPT ![Len(st)] = f])
  <1> DEFINE t == [st EXCEPT ![Len(st)] = f]
  <1>1. /\ t \in Seq(FrameSet) /\ t # <<>> /\ Len(t) = Len(st) /\ Len(st) \in Nat
        /\ t[Len(st)] = f
        /\ \A i \in 1 .. Len(st) : i # Len(st) => t[i] = st[i]
    <2>1. st \in Seq(FrameSet)
      BY DEF StackInv
    <2> QED BY <2>1, ReplaceShape
  <1> HIDE DEF t
  <1>2. \A i \in 1 .. Len(st) : t[i].fn = st[i].fn /\ t[i].of = st[i].of
    BY <1>1
  <1>3. \A i \in 1 .. Len(t) : Kept(t[i])
    BY <1>1 DEF StackInv
  <1>4. Starts(t[1])
    <2>1. 1 \in 1 .. Len(st)
      BY StackLen DEF StackInv
    <2> QED BY <1>2, <2>1 DEF StackInv, Starts
  <1>5. \A i \in 1 .. Len(t) - 1 : Calls(t[i], t[i + 1])
    <2> SUFFICES ASSUME NEW i \in 1 .. Len(st) - 1 PROVE Calls(t[i], t[i + 1])
      BY <1>1
    <2>1. i # Len(st) /\ i \in 1 .. Len(st) /\ i + 1 \in 1 .. Len(st)
      BY <1>1
    <2>2. t[i] = st[i] /\ t[i + 1].fn = st[i + 1].fn /\ t[i + 1].of = st[i + 1].of
      BY <1>1, <1>2, <2>1
    <2>3. Calls(st[i], st[i + 1])
      BY DEF StackInv
    <2> QED BY <2>2, <2>3 DEF Calls
  <1>6. \A j \in 1 .. Len(t) : \A i \in 1 .. j - 1 : Apart(t[i], t[j])
    <2> SUFFICES ASSUME NEW j \in 1 .. Len(st), NEW i \in 1 .. j - 1 PROVE Apart(t[i], t[j])
      BY <1>1
    <2>1. i \in 1 .. Len(st)
      BY <1>1
    <2> QED BY <1>2, <2>1 DEF StackInv, Apart
  <1>7. StackInv(t)
    BY <1>1, <1>3, <1>4, <1>5, <1>6 DEF StackInv
  <1> QED BY <1>7 DEF t

-----------------------------------------------------------------------------
\* Which calls are in progress
LEMMA HasPush ==
  ASSUME NEW st \in Seq(FrameSet), NEW f \in FrameSet
  PROVE  /\ \A F, s : Has(Append(st, f), F, s) <=> Has(st, F, s) \/ (f.fn \in F /\ f.of = s)
         /\ st # <<>> => Sweep(Append(st, f)) = Sweep(st)
  <1> DEFINE t == Append(st, f)
  <1>1. /\ t # <<>> /\ Len(t) = Len(st) + 1 /\ Len(st) \in Nat
        /\ \A i \in 1 .. Len(st) : t[i] = st[i]
        /\ t[Len(st) + 1] = f
    BY PushShape
  <1> HIDE DEF t
  <1>2. 1 .. Len(t) = (1 .. Len(st)) \cup {Len(st) + 1}
    BY <1>1
  <1>3. \A F, s : Has(t, F, s) <=> Has(st, F, s) \/ (f.fn \in F /\ f.of = s)
    BY <1>1, <1>2 DEF Has
  <1>4. st # <<>> => t[1] = st[1]
    BY <1>1, StackLen
  <1> QED BY <1>1, <1>3, <1>4 DEF Sweep, t

LEMMA HasPop ==
  ASSUME NEW st \in Seq(FrameSet), st # <<>>
  PROVE  /\ \A F, s : Has(st, F, s) <=>
                 \/ Has(SubSeq(st, 1, Len(st) - 1), F, s)
                 \/ st[Len(st)].fn \in F /\ st[Len(st)].of = s
         /\ Len(st) # 1 => Sweep(SubSeq(st, 1, Len(st) - 1)) = Sweep(st)
         /\ Len(st) = 1 => SubSeq(st, 1, Len(st) - 1) = <<>>
  <1> DEFINE t == SubSeq(st, 1, Len(st) - 1)
  <1>1. /\ t \in Seq(FrameSet) /\ Len(t) = Len(st) - 1 /\ Len(t) \in Nat /\ Len(st) \in Nat
        /\ \A i \in 1 .. Len(t) : t[i] = st[i]
    BY PopShape, StackLen
  <1> HIDE DEF t
  <1>2. 1 .. Len(st) = (1 .. Len(t)) \cup {Len(st)}
    BY <1>1
  <1>3. \A F, s : Has(st, F, s) <=>
           Has(t, F, s) \/ (st[Len(st)].fn \in F /\ st[Len(st)].of = s)
    BY <1>1, <1>2 DEF Has
  <1>4. Len(st) # 1 => 1 \in 1 .. Len(t) /\ t # <<>>
    BY <1>1
  <1>5. Len(st) # 1 => Sweep(t) = Sweep(st)
    BY <1>1, <1>4 DEF Sweep
  <1>6. Len(st) = 1 => t = <<>>
    BY <1>1
  <1> QED BY <1>3, <1>5, <1>6 DEF t

LEMMA HasReplace ==
  ASSUME NEW st \in Seq(FrameSet), st # <<>>, NEW f \in FrameSet,
         f.fn = st[Len(st)].fn, f.of = st[Len(st)].of
  PROVE  LET t == [st EXCEPT ![Len(st)] = f]
         IN  /\ \A F, s : Has(t, F, s) <=> Has(st, F, s)
             /\ Len(st) # 1 \/ f.fn # "wl_client_destroy" => Sweep(t) = Sweep(st)
  <1> DEFINE t == [st EXCEPT ![Len(st)] = f]
  <1>1. /\ t # <<>> /\ Len(t) = Len(st) /\ Len(st) \in Nat
        /\ t[Len(st)] = f
        /\ \A i \in 1 .. Len(st) : i # Len(st) => t[i] = st[i]
    BY ReplaceShape
  <1> HIDE DEF t
  <1>2. \A i \in 1 .. Len(st) : t[i].fn = st[i].fn /\ t[i].of = st[i].of
    BY <1>1
  <1>3. \A F, s : Has(t, F, s) <=> Has(st, F, s)
    BY <1>1, <1>2 DEF Has
  <1>4. 1 \in 1 .. Len(st)
    BY StackLen
  <1>5. Len(st) # 1 => t[1] = st[1]
    BY <1>1, <1>4
  <1>6. Len(st) = 1 => t[1] = f /\ st[1].fn = f.fn
    BY <1>1
  <1>7. Len(st) # 1 \/ f.fn # "wl_client_destroy" => Sweep(t) = Sweep(st)
    BY <1>1, <1>5, <1>6 DEF Sweep
  <1> QED BY <1>3, <1>7 DEF t

-----------------------------------------------------------------------------
\* What holds of resources and calls
Destroyers == {"wl_client_destroy", "destroy_resource"}
Returners  == {"wl_resource_destroy"}

Doomed(r) == Has(stack, Returners, r)

TypeOK ==
  /\ objects \in [side : {"server"}, client : Seq(Int), server : Seq(Int), free_list : Int]
  /\ live \subseteq Signals /\ made \in ResourceSet
  /\ ids \in [ResourceSet -> Nat] /\ display_resource \in BOOLEAN
  /\ freed_ids \subseteq Nat
  /\ listener_list \in [Signals -> Seq(Listeners)]
  /\ told \in [Listeners -> Nat]

CallInv ==
  /\ StackInv(stack)
  /\ \A s \in Signals : Dying(s) => s \in live
  /\ live \subseteq {Client} \cup Display .. made
  /\ Client \notin live => live = {} /\ stack = <<>>
  /\ \A r \in ResourceSet : Doomed(r) /\ r \in live => Dying(r)

LEMMA Constants ==
  /\ Client = 0 /\ Display = 2 /\ MaxResources \in Nat /\ MaxResources > 0
  /\ ResourceSet = 2 .. 2 + MaxResources /\ Signals = {0} \cup 2 .. 2 + MaxResources
  /\ NoListener \notin Listeners /\ Wild \notin Listeners /\ NoListener # Wild
  /\ WL_SERVER_ID_START \in Nat /\ WL_SERVER_ID_START > 1
  BY ResourcesAssumption, IdAssumption DEF Client, Display, Zombie, ResourceSet, Signals

LEMMA DyingHas == \A s : Dying(s) <=> Has(stack, Destroyers, s)
  BY DEF Dying, Has, Destroyers

LEMMA DyingHasNext == \A s : Dying(s)' <=> Has(stack', Destroyers, s)
  BY DEF Dying, Has, Destroyers

LEMMA NewFrame ==
  ASSUME NEW fn \in {"wl_client_destroy", "wl_resource_destroy", "destroy_resource", "callback"},
         NEW of \in Signals \cup Listeners, NEW at \in Positions
  PROVE  /\ Frame(fn, of, at) \in FrameSet
         /\ Frame(fn, of, at).fn = fn /\ Frame(fn, of, at).of = of /\ Frame(fn, of, at).at = at
  BY DEF Frame, FrameSet, Cursors

LEMMA AfterTyped ==
  ASSUME TypeOK, NEW s \in Signals, NEW l
  PROVE  After(s, l) \in Cursors
  <1>1. listener_list[s] \in Seq(Listeners)
    BY DEF TypeOK
  <1>2. CASE l # NoListener /\ l \in Linked(s)
    <2> DEFINE i == CHOOSE k \in 1 .. Len(listener_list[s]) : listener_list[s][k] = l
    <2>1. i \in 1 .. Len(listener_list[s])
      BY <1>2 DEF Linked
    <2>2. After(s, l) = IF i = Len(listener_list[s]) THEN NoListener ELSE listener_list[s][i + 1]
      BY <1>2 DEF After
    <2> HIDE DEF i
    <2>3. i # Len(listener_list[s]) => i + 1 \in 1 .. Len(listener_list[s])
      BY <1>1, <2>1
    <2> QED BY <1>1, <2>2, <2>3 DEF Cursors
  <1> QED BY <1>2 DEF After, Cursors

LEMMA NewEmission ==
  ASSUME TypeOK, NEW s \in Signals
  PROVE  /\ EmitFrame(s) \in FrameSet
         /\ EmitFrame(s).fn = "wl_signal_emit" /\ EmitFrame(s).of = s
         /\ EmitFrame(s).l = First(s) /\ EmitFrame(s).next = After(s, First(s))
  <1>1. First(s) \in Cursors /\ After(s, First(s)) \in Cursors
    <2>1. listener_list[s] \in Seq(Listeners)
      BY DEF TypeOK
    <2>2. listener_list[s] # <<>> => Head(listener_list[s]) \in Listeners
      BY <2>1
    <2> QED BY <2>2, AfterTyped DEF First, Cursors
  <1>2. PICK b, m, n : b = Frame("wl_signal_emit", s, "loop") /\ m = First(s) /\ n = After(s, m)
    OBVIOUS
  <1>3. EmitFrame(s) = [b EXCEPT !.l = m, !.next = n]
    BY <1>2 DEF EmitFrame
  <1>4. b \in FrameSet /\ b.fn = "wl_signal_emit" /\ b.of = s
    BY <1>2 DEF Frame, FrameSet, Cursors, Positions
  <1>5. m \in Cursors /\ n \in Cursors
    BY <1>1, <1>2
  <1>6. /\ [b EXCEPT !.l = m, !.next = n] \in FrameSet
        /\ [b EXCEPT !.l = m, !.next = n].fn = b.fn /\ [b EXCEPT !.l = m, !.next = n].of = b.of
        /\ [b EXCEPT !.l = m, !.next = n].l = m /\ [b EXCEPT !.l = m, !.next = n].next = n
    BY <1>4, <1>5 DEF FrameSet
  <1> QED BY <1>2, <1>3, <1>4, <1>6

\* Two changes of a frame
LEMMA Moved ==
  ASSUME NEW f \in FrameSet, NEW at \in Positions
  PROVE  /\ [f EXCEPT !.at = at] \in FrameSet
         /\ [f EXCEPT !.at = at].fn = f.fn /\ [f EXCEPT !.at = at].of = f.of
         /\ [f EXCEPT !.at = at].at = at
         /\ [f EXCEPT !.at = at].l = f.l /\ [f EXCEPT !.at = at].next = f.next
  BY DEF FrameSet

LEMMA Advanced ==
  ASSUME TypeOK, NEW f \in FrameSet, f.of \in Signals
  PROVE  /\ Advance(f) \in FrameSet
         /\ Advance(f).fn = f.fn /\ Advance(f).of = f.of /\ Advance(f).at = f.at
         /\ Advance(f).l = f.next /\ Advance(f).next = After(f.of, f.next)
  <1>1. PICK a : a = After(f.of, f.next)
    OBVIOUS
  <1>2. a \in Cursors
    BY <1>1, AfterTyped
  <1>3. Advance(f) = [f EXCEPT !.l = f.next, !.next = a]
    BY <1>1 DEF Advance
  <1> QED BY <1>1, <1>2, <1>3 DEF FrameSet

-----------------------------------------------------------------------------
\* What each action does to the calls in progress
SameCalls ==
  /\ StackInv(stack')
  /\ \A s : Has(stack', Destroyers, s) <=> Has(stack, Destroyers, s)
  /\ \A s : Has(stack', Returners, s) <=> Has(stack, Returners, s)
  /\ Sweep(stack') = Sweep(stack)

\* The innermost call and its caller
LEMMA TopFrame ==
  ASSUME StackInv(stack), stack # <<>>
  PROVE  /\ Len(stack) \in Nat /\ Len(stack) > 0 /\ Len(stack) \in 1 .. Len(stack)
         /\ Top \in FrameSet /\ Kept(Top) /\ stack \in Seq(FrameSet)
         /\ Len(stack) = 1 => Starts(Top)
         /\ Len(stack) # 1 => /\ Len(stack) - 1 \in 1 .. Len(stack)
                              /\ Calls(stack[Len(stack) - 1], Top)
  <1>1. /\ Len(stack) \in Nat /\ Len(stack) > 0 /\ Len(stack) \in 1 .. Len(stack)
        /\ Top \in FrameSet /\ stack \in Seq(FrameSet)
    BY StackLen DEF StackInv, Top
  <1>2. Len(stack) # 1 => Len(stack) - 1 \in 1 .. Len(stack) - 1 /\ Len(stack) - 1 + 1 = Len(stack)
    BY <1>1, Before
  <1>3. Len(stack) # 1 => Calls(stack[Len(stack) - 1], Top)
    BY <1>2 DEF StackInv, Top
  <1> QED BY <1>1, <1>2, <1>3 DEF StackInv, Top

LEMMA NotifyStack ==
  ASSUME TypeOK, StackInv(stack), Notify
  PROVE  SameCalls
  <1>1. /\ stack # <<>> /\ Top.fn = "wl_signal_emit" /\ Top.l \notin {NoListener, Wild}
        /\ stack' = Append(stack, Frame("callback", Top.l, "notify"))
    BY DEF Notify, In
  <1>2. Top \in FrameSet /\ stack \in Seq(FrameSet)
    BY <1>1, TopFrame
  <1>3. Top.l \in Listeners
    BY <1>1, <1>2 DEF FrameSet, Cursors
  <1>4. PICK f : f = Frame("callback", Top.l, "notify")
    OBVIOUS
  <1>5. f \in FrameSet /\ f.fn = "callback" /\ f.of = Top.l
    <2>1. "notify" \in Positions /\ Top.l \in Signals \cup Listeners
      BY <1>3 DEF Positions
    <2> QED BY <1>4, <2>1, NewFrame
  <1>6. StackInv(stack')
    <2>1. Kept(f) /\ Calls(stack[Len(stack)], f) /\ \A i \in 1 .. Len(stack) : Apart(stack[i], f)
      BY <1>1, <1>5 DEF Kept, Calls, Apart, Top
    <2> QED BY <1>1, <1>4, <1>5, <2>1, PushKeeps
  <1> QED BY <1>1, <1>2, <1>4, <1>5, <1>6, HasPush DEF SameCalls, Destroyers, Returners

LEMMA EmitReturnsStack ==
  ASSUME TypeOK, StackInv(stack), EmitReturns
  PROVE  SameCalls
  <1>1. /\ stack # <<>> /\ Top.fn = "wl_signal_emit"
        /\ stack' = SubSeq(stack, 1, Len(stack) - 1)
    BY DEF EmitReturns, In, Popped
  <1>2. stack \in Seq(FrameSet) /\ Len(stack) # 1 /\ Top = stack[Len(stack)]
    BY <1>1, TopFrame DEF Starts, Top
  <1>3. StackInv(stack')
    BY <1>1, PopKeeps
  <1> QED BY <1>1, <1>2, <1>3, HasPop DEF SameCalls, Destroyers, Returners

LEMMA CallbackReturnsStack ==
  ASSUME TypeOK, StackInv(stack), CallbackReturns
  PROVE  SameCalls
  <1> DEFINE t == SubSeq(stack, 1, Len(stack) - 1)
  <1>1. /\ stack # <<>> /\ Top.fn = "callback"
        /\ stack' = IF stack[Len(stack) - 1].fn = "wl_signal_emit"
                    THEN [t EXCEPT ![Len(stack) - 1] = Advance(@)] ELSE t
    BY DEF CallbackReturns, In, Popped
  <1>2. /\ stack \in Seq(FrameSet) /\ Len(stack) # 1 /\ Len(stack) \in Nat
        /\ Len(stack) - 1 \in 1 .. Len(stack)
    BY <1>1, TopFrame DEF Starts
  <1>3. StackInv(t)
    BY <1>1, PopKeeps
  <1>4. /\ t \in Seq(FrameSet) /\ Len(t) = Len(stack) - 1 /\ t # <<>>
        /\ t[Len(t)] = stack[Len(stack) - 1] /\ Len(t) \in 1 .. Len(t)
    <2>1. /\ t \in Seq(FrameSet) /\ Len(t) = Len(stack) - 1 /\ Len(t) \in Nat
          /\ \A i \in 1 .. Len(t) : t[i] = stack[i]
      BY <1>1, <1>2, PopShape
    <2> HIDE DEF t
    <2>2. Len(t) \in 1 .. Len(t)
      BY <1>2, <2>1
    <2> QED BY <2>1, <2>2
  <1>5. /\ \A F, s : Has(stack, F, s) <=> Has(t, F, s) \/ (Top.fn \in F /\ Top.of = s)
        /\ Sweep(t) = Sweep(stack)
    BY <1>1, <1>2, HasPop DEF Top
  <1> HIDE DEF t
  <1>6. CASE stack[Len(stack) - 1].fn # "wl_signal_emit"
    BY <1>1, <1>3, <1>5, <1>6 DEF SameCalls, Destroyers, Returners
  <1>7. CASE stack[Len(stack) - 1].fn = "wl_signal_emit"
    <2> DEFINE f == Advance(t[Len(t)])
    <2>1. stack' = [t EXCEPT ![Len(t)] = f]
      BY <1>1, <1>4, <1>7
    <2>2. t[Len(t)] \in FrameSet /\ Kept(t[Len(t)]) /\ t[Len(t)].fn = "wl_signal_emit"
      BY <1>3, <1>4, <1>7 DEF StackInv
    <2>3. t[Len(t)].of \in Signals
      BY <2>2 DEF Kept
    <2>4. f \in FrameSet /\ f.fn = t[Len(t)].fn /\ f.of = t[Len(t)].of
      BY <2>2, <2>3, Advanced
    <2> HIDE DEF f
    <2>5. Kept(f)
      BY <2>2, <2>3, <2>4 DEF Kept
    <2>6. StackInv(stack')
      BY <1>3, <1>4, <2>1, <2>4, <2>5, ReplaceKeeps
    <2>7. /\ \A F, s : Has(stack', F, s) <=> Has(t, F, s)
          /\ Sweep(stack') = Sweep(t)
      BY <1>4, <2>1, <2>2, <2>4, HasReplace
    <2> QED BY <1>1, <1>5, <2>6, <2>7 DEF SameCalls, Destroyers, Returners
  <1> QED BY <1>6, <1>7

LEMMA CallDestroyStack ==
  ASSUME TypeOK, StackInv(stack), CallDestroy
  PROVE  SameCalls
  <1>1. /\ stack # <<>> /\ Top.fn = "destroy_resource"
        /\ stack' = IF Top.of = Display THEN Going("free")
                    ELSE Append(Going("free"), Frame("callback", Top.of, "destroy"))
    BY DEF CallDestroy, In
  <1>2. stack \in Seq(FrameSet) /\ Top \in FrameSet /\ Kept(Top)
    BY <1>1, TopFrame
  <1> DEFINE f == [Top EXCEPT !.at = "free"]
             t == [stack EXCEPT ![Len(stack)] = f]
  <1>3. Going("free") = t
    BY DEF Going, Top
  <1>4. f \in FrameSet /\ f.fn = Top.fn /\ f.of = Top.of /\ f.at = "free"
    BY <1>2, Moved DEF Positions
  <1>5. Kept(f)
    BY <1>1, <1>2, <1>4 DEF Kept
  <1> HIDE DEF f
  <1>6. /\ t \in Seq(FrameSet) /\ t # <<>> /\ Len(t) = Len(stack) /\ t[Len(t)] = f
    BY <1>1, <1>2, <1>4, ReplaceShape
  <1>7. StackInv(t)
    BY <1>1, <1>4, <1>5, ReplaceKeeps DEF Top
  <1>8. /\ \A F, s : Has(t, F, s) <=> Has(stack, F, s)
        /\ Sweep(t) = Sweep(stack)
    BY <1>1, <1>2, <1>4, HasReplace DEF Top
  <1> HIDE DEF t
  <1>9. CASE Top.of = Display
    BY <1>1, <1>3, <1>7, <1>8, <1>9 DEF SameCalls
  <1>10. CASE Top.of # Display
    <2>1. PICK g : g = Frame("callback", Top.of, "destroy")
      OBVIOUS
    <2>2. Top.of \in Signals
      BY <1>1, <1>2 DEF Kept, Signals
    <2>3. g \in FrameSet /\ g.fn = "callback"
      <3>1. "destroy" \in Positions /\ Top.of \in Signals \cup Listeners
        BY <2>2 DEF Positions
      <3> QED BY <2>1, <3>1, NewFrame
    <2>4. Kept(g) /\ Calls(t[Len(t)], g) /\ \A i \in 1 .. Len(t) : Apart(t[i], g)
      BY <1>1, <1>4, <1>6, <2>3 DEF Kept, Calls, Apart
    <2>5. StackInv(stack')
      BY <1>1, <1>3, <1>6, <1>7, <1>10, <2>1, <2>3, <2>4, PushKeeps
    <2>6. /\ \A F, s : Has(stack', F, s) <=> Has(t, F, s) \/ (g.fn \in F /\ g.of = s)
          /\ Sweep(stack') = Sweep(t)
      BY <1>1, <1>3, <1>6, <1>10, <2>1, <2>3, HasPush
    <2> QED BY <1>8, <2>3, <2>5, <2>6 DEF SameCalls, Destroyers, Returners
  <1> QED BY <1>9, <1>10

LEMMA Concat2 ==
  ASSUME NEW st \in Seq(FrameSet), NEW a \in FrameSet, NEW b \in FrameSet
  PROVE  /\ st \o <<a, b>> = Append(Append(st, a), b)
         /\ st \o <<a, b>> \in Seq(FrameSet) /\ Len(st \o <<a, b>>) = Len(st) + 2
         /\ Len(st) \in Nat
         /\ \A i \in 1 .. Len(st) : (st \o <<a, b>>)[i] = st[i]
         /\ (st \o <<a, b>>)[Len(st) + 1] = a /\ (st \o <<a, b>>)[Len(st) + 2] = b
  OBVIOUS

LEMMA Concat3 ==
  ASSUME NEW st \in Seq(FrameSet), NEW a \in FrameSet, NEW b \in FrameSet, NEW c \in FrameSet
  PROVE  /\ st \o <<a, b, c>> = Append(Append(Append(st, a), b), c)
         /\ st \o <<a, b, c>> \in Seq(FrameSet) /\ Len(st \o <<a, b, c>>) = Len(st) + 3
         /\ Len(st) \in Nat
         /\ \A i \in 1 .. Len(st) : (st \o <<a, b, c>>)[i] = st[i]
         /\ (st \o <<a, b, c>>)[Len(st) + 1] = a /\ (st \o <<a, b, c>>)[Len(st) + 2] = b
         /\ (st \o <<a, b, c>>)[Len(st) + 3] = c
  OBVIOUS

\* The calls of destroy_resource and of its wl_signal_emit
LEMMA DestroyCalls ==
  ASSUME TypeOK, NEW st, StackInv(st), st # <<>>, NEW r \in ResourceSet,
         \/ st[Len(st)].fn = "wl_client_destroy"
         \/ st[Len(st)].fn = "wl_resource_destroy" /\ st[Len(st)].of = r,
         ~Has(st, {"destroy_resource"}, r),
         NEW d, d = Frame("destroy_resource", r, "handler")
  PROVE  LET t == Append(Append(st, d), EmitFrame(r))
         IN  /\ StackInv(t) /\ t # <<>>
             /\ d \in FrameSet /\ d.fn = "destroy_resource" /\ d.of = r /\ d.at = "handler"
             /\ \A s : Has(t, Destroyers, s) <=> Has(st, Destroyers, s) \/ s = r
             /\ \A s : Has(t, Returners, s) <=> Has(st, Returners, s)
             /\ Sweep(t) = Sweep(st)
  <1> DEFINE u == Append(st, d)
             e == EmitFrame(r)
             t == Append(u, e)
  <1>1. d \in FrameSet /\ d.fn = "destroy_resource" /\ d.of = r /\ d.at = "handler"
    <2>1. r \in Signals \cup Listeners /\ "handler" \in Positions
      BY DEF Signals, Positions
    <2> QED BY <2>1, NewFrame
  <1>2. st \in Seq(FrameSet)
    BY DEF StackInv
  <1>3. StackInv(u)
    <2>1. Kept(d) /\ Calls(st[Len(st)], d)
      BY <1>1 DEF Kept, Calls
    <2>2. \A i \in 1 .. Len(st) : Apart(st[i], d)
      BY <1>1 DEF Apart, Has
    <2> QED BY <1>1, <2>1, <2>2, PushKeeps
  <1>4. /\ u \in Seq(FrameSet) /\ u # <<>> /\ u[Len(u)] = d
        /\ \A F, s : Has(u, F, s) <=> Has(st, F, s) \/ (d.fn \in F /\ d.of = s)
        /\ Sweep(u) = Sweep(st)
    <2>1. Len(u) = Len(st) + 1 /\ u[Len(st) + 1] = d
      BY <1>1, <1>2, PushShape
    <2> QED BY <1>1, <1>2, <2>1, PushShape, HasPush
  <1> HIDE DEF u
  <1>5. e \in FrameSet /\ e.fn = "wl_signal_emit" /\ e.of = r
    BY NewEmission DEF Signals
  <1> HIDE DEF e
  <1>6. StackInv(t)
    <2>1. Kept(e) /\ Calls(u[Len(u)], e)
      BY <1>1, <1>4, <1>5 DEF Kept, Calls, Signals
    <2>2. \A i \in 1 .. Len(u) : Apart(u[i], e)
      BY <1>5 DEF Apart
    <2> QED BY <1>3, <1>4, <1>5, <2>1, <2>2, PushKeeps
  <1>7. /\ t # <<>>
        /\ \A F, s : Has(t, F, s) <=> Has(u, F, s) \/ (e.fn \in F /\ e.of = s)
        /\ Sweep(t) = Sweep(u)
    BY <1>4, <1>5, PushShape, HasPush
  <1> HIDE DEF t
  <1>8. /\ \A s : Has(t, Destroyers, s) <=> Has(st, Destroyers, s) \/ s = r
        /\ \A s : Has(t, Returners, s) <=> Has(st, Returners, s)
    BY <1>1, <1>4, <1>5, <1>7 DEF Destroyers, Returners
  <1> QED BY <1>1, <1>4, <1>6, <1>7, <1>8 DEF t, u, e

LEMMA DestroyStack ==
  ASSUME TypeOK, CallInv, NEW r \in ResourceSet, wl_resource_destroy(r)
  PROVE  /\ StackInv(stack') /\ stack' # <<>>
         /\ \A s : Has(stack', Destroyers, s) <=> Has(stack, Destroyers, s) \/ s = r
         /\ \A s : Has(stack', Returners, s) <=> Has(stack, Returners, s) \/ s = r
         /\ Sweep(stack') = Sweep(stack)
  <1> DEFINE a == Frame("wl_resource_destroy", r, "id")
             d == Frame("destroy_resource", r, "handler")
             st == Append(stack, a)
  <1>1. /\ stack = <<>> \/ Top.fn = "callback"
        /\ r \in live /\ r # Display /\ ~Has(stack, Destroyers, r)
        /\ stack' = stack \o <<a, d, EmitFrame(r)>>
        /\ StackInv(stack) /\ stack \in Seq(FrameSet)
    BY DyingHas DEF wl_resource_destroy, Compositor, In, CallInv, StackInv
  <1>2. a \in FrameSet /\ a.fn = "wl_resource_destroy" /\ a.of = r
    <2>1. r \in Signals \cup Listeners /\ "id" \in Positions
      BY DEF Signals, Positions
    <2> QED BY <2>1, NewFrame
  <1>3. ~Has(stack, Returners, r)
    BY <1>1, DyingHas DEF CallInv, Doomed
  <1>4. d \in FrameSet
    <2>1. r \in Signals \cup Listeners /\ "handler" \in Positions
      BY DEF Signals, Positions
    <2> QED BY <2>1, NewFrame
  <1>5. stack' = Append(Append(st, d), EmitFrame(r))
    BY <1>1, <1>2, <1>4, NewEmission, Concat3 DEF Signals
  <1> HIDE DEF a
  <1>6. StackInv(st)
    <2>1. /\ Kept(a) /\ Starts(a)
          /\ stack # <<>> => Calls(stack[Len(stack)], a)
      BY <1>1, <1>2 DEF Kept, Calls, Starts, Top
    <2>2. \A i \in 1 .. Len(stack) : Apart(stack[i], a)
      BY <1>1, <1>2, <1>3 DEF Apart, Has, Destroyers, Returners
    <2> QED BY <1>1, <1>2, <2>1, <2>2, PushKeeps
  <1>7. /\ st # <<>> /\ st[Len(st)] = a
        /\ \A F, s : Has(st, F, s) <=> Has(stack, F, s) \/ (a.fn \in F /\ a.of = s)
        /\ stack # <<>> => Sweep(st) = Sweep(stack)
    <2>1. Len(st) = Len(stack) + 1 /\ st[Len(stack) + 1] = a
      BY <1>1, <1>2, PushShape
    <2> QED BY <1>1, <1>2, <2>1, PushShape, HasPush
  <1>8. stack = <<>> => Sweep(st) = 0 /\ Sweep(stack) = 0
    BY <1>1, <1>2 DEF Sweep
  <1> HIDE DEF st, d
  <1>9. ~Has(st, {"destroy_resource"}, r)
    <2>1. ~Has(stack, {"destroy_resource"}, r)
      BY <1>1 DEF Has, Destroyers
    <2> QED BY <1>2, <1>7, <2>1
  <1>10. /\ StackInv(stack') /\ stack' # <<>>
         /\ \A s : Has(stack', Destroyers, s) <=> Has(st, Destroyers, s) \/ s = r
         /\ \A s : Has(stack', Returners, s) <=> Has(st, Returners, s)
         /\ Sweep(stack') = Sweep(st)
    BY <1>2, <1>5, <1>6, <1>7, <1>9, DestroyCalls DEF d
  <1>11. /\ \A s : Has(st, Destroyers, s) <=> Has(stack, Destroyers, s)
         /\ \A s : Has(st, Returners, s) <=> Has(stack, Returners, s) \/ s = r
    BY <1>2, <1>7 DEF Destroyers, Returners
  <1> QED BY <1>7, <1>8, <1>10, <1>11

LEMMA ClientDestroyStack ==
  ASSUME TypeOK, wl_client_destroy
  PROVE  /\ StackInv(stack') /\ stack' # <<>>
         /\ \A s : Has(stack', Destroyers, s) <=> s = Client
         /\ \A s : ~Has(stack', Returners, s)
         /\ Sweep(stack') = 1
  <1> DEFINE c == Frame("wl_client_destroy", Client, 1)
             e == EmitFrame(Client)
             st == Append(<<>>, c)
  <1>1. c \in FrameSet /\ c.fn = "wl_client_destroy" /\ c.of = Client /\ c.at = 1
    <2>1. Client \in Signals \cup Listeners /\ 1 \in Positions
      BY DEF Signals, Positions
    <2> QED BY <2>1, NewFrame
  <1>2. e \in FrameSet /\ e.fn = "wl_signal_emit" /\ e.of = Client
    BY NewEmission DEF Signals
  <1>3. stack' = <<c, e>>
    BY DEF wl_client_destroy
  <1> HIDE DEF c, e
  <1>4. /\ stack' \in Seq(FrameSet) /\ Len(stack') = 2 /\ stack'[1] = c /\ stack'[2] = e
        /\ stack' # <<>> /\ 1 .. 2 = {1, 2}
    BY <1>1, <1>2, <1>3
  <1>5. StackInv(stack')
    <2>1. \A i \in {1, 2} : Kept(stack'[i])
      BY <1>1, <1>2, <1>4 DEF Kept, Signals
    <2>2. \A i \in 1 .. 2 - 1 : Calls(stack'[i], stack'[i + 1])
      BY <1>1, <1>2, <1>4 DEF Calls
    <2>3. \A j \in 1 .. 2 : \A i \in 1 .. j - 1 : Apart(stack'[i], stack'[j])
      BY <1>1, <1>2, <1>4 DEF Apart
    <2> QED BY <1>1, <1>4, <2>1, <2>2, <2>3 DEF StackInv, Starts
  <1>6. \A F, s : Has(stack', F, s) <=> (c.fn \in F /\ c.of = s) \/ (e.fn \in F /\ e.of = s)
    BY <1>4 DEF Has
  <1> QED BY <1>1, <1>2, <1>4, <1>5, <1>6 DEF Sweep, Destroyers, Returners

LEMMA FreeStack ==
  ASSUME TypeOK, StackInv(stack), FreeResource
  PROVE  /\ StackInv(stack')
         /\ \A s : Has(stack', Destroyers, s) <=> Has(stack, Destroyers, s) /\ s # Top.of
         /\ \A s : Has(stack', Returners, s) <=> Has(stack, Returners, s)
         /\ Sweep(stack') = Sweep(stack)
         /\ Top.of \in ResourceSet /\ Has(stack, Destroyers, Top.of)
  <1> DEFINE n == Len(stack)
  <1>1. /\ stack # <<>> /\ Top.fn = "destroy_resource"
        /\ stack' = SubSeq(stack, 1, n - 1)
    BY DEF FreeResource, In, Popped
  <1>2. stack \in Seq(FrameSet) /\ n # 1 /\ n \in 1 .. n /\ n \in Nat /\ Top = stack[n] /\ Kept(Top)
    BY <1>1, TopFrame DEF Starts, Top
  <1>3. StackInv(stack')
    BY <1>1, PopKeeps
  <1>4. /\ \A F, s : Has(stack, F, s) <=> Has(stack', F, s) \/ (Top.fn \in F /\ Top.of = s)
        /\ Sweep(stack') = Sweep(stack)
    BY <1>1, <1>2, HasPop
  <1>5. Top.of \in ResourceSet
    BY <1>1, <1>2 DEF Kept
  <1>6. ~Has(stack', Destroyers, Top.of)
    <2> SUFFICES ASSUME NEW i \in 1 .. Len(stack'), stack'[i].fn \in Destroyers,
                        stack'[i].of = Top.of
                 PROVE  FALSE
      BY DEF Has
    <2>1. i \in 1 .. n - 1 /\ i \in 1 .. n /\ stack'[i] = stack[i]
      BY <1>1, <1>2, PopShape
    <2>2. Apart(stack[i], Top) /\ Kept(stack[i])
      BY <1>2, <2>1 DEF StackInv
    <2>3. stack[i].fn # "destroy_resource"
      BY <1>1, <2>1, <2>2 DEF Apart
    <2>4. Top.of = Client
      BY <2>1, <2>2, <2>3 DEF Kept, Destroyers
    <2> QED BY <1>5, <2>4, Constants
  <1> QED BY <1>1, <1>3, <1>4, <1>5, <1>6 DEF Destroyers, Returners

LEMMA ReturnStack ==
  ASSUME TypeOK, StackInv(stack), ReturnId
  PROVE  /\ StackInv(stack')
         /\ \A s : Has(stack', Destroyers, s) <=> Has(stack, Destroyers, s)
         /\ \A s : Has(stack', Returners, s) <=> Has(stack, Returners, s) /\ s # Top.of
         /\ Sweep(stack') = Sweep(stack)
         /\ Top.of \in ResourceSet \ {Display} /\ Has(stack, Returners, Top.of)
         /\ ~Has(stack, Destroyers, Top.of)
  <1> DEFINE n == Len(stack)
  <1>1. /\ stack # <<>> /\ Top.fn = "wl_resource_destroy"
        /\ stack' = SubSeq(stack, 1, n - 1)
    BY DEF ReturnId, In, Popped
  <1>2. stack \in Seq(FrameSet) /\ n \in 1 .. n /\ n \in Nat /\ Top = stack[n] /\ Kept(Top)
    BY <1>1, TopFrame DEF Top
  <1>3. StackInv(stack')
    BY <1>1, PopKeeps
  <1>4. \A F, s : Has(stack, F, s) <=> Has(stack', F, s) \/ (Top.fn \in F /\ Top.of = s)
    BY <1>1, <1>2, HasPop
  <1>5. Top.of \in ResourceSet \ {Display}
    BY <1>1, <1>2 DEF Kept
  <1>6. ~Has(stack', Destroyers, Top.of) /\ ~Has(stack', Returners, Top.of)
    <2> SUFFICES ASSUME NEW i \in 1 .. Len(stack'), stack'[i].fn \in Destroyers \cup Returners,
                        stack'[i].of = Top.of
                 PROVE  FALSE
      BY DEF Has
    <2>1. i \in 1 .. n - 1 /\ i \in 1 .. n /\ stack'[i] = stack[i]
      BY <1>1, <1>2, PopShape
    <2>2. Apart(stack[i], Top) /\ Kept(stack[i])
      BY <1>2, <2>1 DEF StackInv
    <2>3. stack[i].fn \notin {"destroy_resource", "wl_resource_destroy"}
      BY <1>1, <2>1, <2>2 DEF Apart
    <2>4. Top.of = Client
      BY <2>1, <2>2, <2>3 DEF Kept, Destroyers, Returners
    <2> QED BY <1>5, <2>4, Constants
  <1>7. Sweep(stack') = Sweep(stack)
    <2>1. CASE n = 1
      <3>1. stack' = <<>> /\ stack[1].fn = "wl_resource_destroy"
        BY <1>1, <1>2, <2>1, HasPop
      <3> QED BY <3>1 DEF Sweep
    <2>2. CASE n # 1
      BY <1>1, <1>2, <2>2, HasPop
    <2> QED BY <2>1, <2>2
  <1> QED BY <1>1, <1>3, <1>4, <1>5, <1>6, <1>7 DEF Destroyers, Returners

\* wl_client_destroy is called by nobody, and so alone when it goes on.
LEMMA ClientDestroyAlone ==
  ASSUME StackInv(stack), In("wl_client_destroy")
  PROVE  /\ stack # <<>> /\ stack \in Seq(FrameSet) /\ Len(stack) = 1 /\ stack[1] = Top
         /\ Top \in FrameSet /\ Top.fn = "wl_client_destroy" /\ Top.of = Client
         /\ Top.at \in Nat \ {0} /\ Sweep(stack) = Top.at
         /\ \A s : Has(stack, Destroyers, s) <=> s = Client
         /\ \A s : ~Has(stack, Returners, s)
  <1>1. /\ stack # <<>> /\ Top.fn = "wl_client_destroy" /\ stack \in Seq(FrameSet)
        /\ Kept(Top) /\ Top \in FrameSet
    BY TopFrame DEF In
  <1>2. Len(stack) = 1
    BY <1>1, TopFrame DEF Calls
  <1>3. stack[1] = Top /\ 1 .. Len(stack) = {1}
    BY <1>2 DEF Top
  <1>4. \A F, s : Has(stack, F, s) <=> Top.fn \in F /\ Top.of = s
    BY <1>3 DEF Has
  <1>5. Top.of = Client /\ Top.at \in Nat \ {0}
    BY <1>1 DEF Kept
  <1> QED BY <1>1, <1>2, <1>3, <1>4, <1>5 DEF Sweep, Destroyers, Returners

LEMMA ForEachStack ==
  ASSUME TypeOK, StackInv(stack), ForEachEntry, Entry(Top.at) > 0 => Entry(Top.at) \in ResourceSet
  PROVE  LET r == Entry(Top.at)
         IN  /\ StackInv(stack') /\ stack' # <<>>
             /\ \A s : Has(stack', Destroyers, s) <=> s = Client \/ (r > 0 /\ s = r)
             /\ \A s : ~Has(stack', Returners, s)
             /\ Sweep(stack') = Sweep(stack) + 1
  <1> DEFINE r == Entry(Top.at)
             f == [Top EXCEPT !.at = Top.at + 1]
             t == [stack EXCEPT ![Len(stack)] = f]
             d == Frame("destroy_resource", r, "handler")
  <1>1. /\ stack # <<>> /\ stack \in Seq(FrameSet) /\ Len(stack) = 1 /\ stack[1] = Top
        /\ Top \in FrameSet /\ Top.fn = "wl_client_destroy" /\ Top.of = Client
        /\ Top.at \in Nat \ {0} /\ Sweep(stack) = Top.at
        /\ \A s : Has(stack, Destroyers, s) <=> s = Client
        /\ \A s : ~Has(stack, Returners, s)
    BY ClientDestroyAlone DEF ForEachEntry
  <1>2. Going(Top.at + 1) = t
    BY DEF Going, Top
  <1>3. stack' = IF r > 0 THEN t \o <<d, EmitFrame(r)>> ELSE t
    BY <1>2 DEF ForEachEntry
  <1>4. f \in FrameSet /\ f.fn = "wl_client_destroy" /\ f.of = Client /\ f.at = Top.at + 1
    BY <1>1, Moved DEF Positions
  <1> HIDE DEF f
  <1>5. /\ t \in Seq(FrameSet) /\ t # <<>> /\ Len(t) = 1 /\ t[1] = f
    BY <1>1, <1>4, ReplaceShape
  <1>6. StackInv(t)
    <2>1. Kept(f)
      BY <1>1, <1>4 DEF Kept
    <2> QED BY <1>1, <1>4, <2>1, ReplaceKeeps
  <1>7. \A F, s : Has(t, F, s) <=> Has(stack, F, s)
    BY <1>1, <1>4, HasReplace
  <1>8. Sweep(t) = Top.at + 1
    BY <1>4, <1>5 DEF Sweep
  <1> HIDE DEF t
  <1>9. CASE ~(r > 0)
    BY <1>1, <1>3, <1>5, <1>6, <1>7, <1>8, <1>9
  <1>10. CASE r > 0
    <2> HIDE DEF r
    <2>1. r \in ResourceSet
      BY <1>10 DEF r
    <2>2. ~Has(t, {"destroy_resource"}, r)
      <3>1. \A i \in 1 .. Len(t) : t[i] = f
        BY <1>5
      <3> QED BY <1>4, <3>1 DEF Has
    <2>3. d \in FrameSet /\ EmitFrame(r) \in FrameSet
      <3>1. r \in Signals \cup Listeners /\ r \in Signals /\ "handler" \in Positions
        BY <2>1 DEF Signals, Positions
      <3> QED BY <3>1, NewFrame, NewEmission
    <2>4. stack' = Append(Append(t, d), EmitFrame(r))
      BY <1>3, <1>5, <1>10, <2>3, Concat2
    <2> HIDE DEF d
    <2>5. /\ StackInv(stack') /\ stack' # <<>>
          /\ \A s : Has(stack', Destroyers, s) <=> Has(t, Destroyers, s) \/ s = r
          /\ \A s : Has(stack', Returners, s) <=> Has(t, Returners, s)
          /\ Sweep(stack') = Sweep(t)
      BY <1>4, <1>5, <1>6, <2>1, <2>2, <2>4, DestroyCalls DEF d
    <2> QED BY <1>1, <1>7, <1>8, <1>10, <2>5 DEF r
  <1> QED BY <1>9, <1>10

LEMMA FreedStack ==
  ASSUME StackInv(stack), ClientFreed
  PROVE  /\ stack' = <<>> /\ StackInv(stack') /\ Sweep(stack') = 0
         /\ \A F, s : ~Has(stack', F, s)
  <1>1. /\ stack # <<>> /\ stack \in Seq(FrameSet) /\ Len(stack) = 1
        /\ stack' = SubSeq(stack, 1, Len(stack) - 1)
    BY ClientDestroyAlone DEF ClientFreed, Popped
  <1>2. stack' = <<>>
    BY <1>1, HasPop
  <1> QED BY <1>2 DEF StackInv, Sweep, Has

-----------------------------------------------------------------------------
\* The table of ids: what the operations of wl_map do to it, entry by entry
MapSet == [side : {"server"}, client : Seq(Int), server : Seq(Int), free_list : Int]

\* t is s with x at place p, the next one or one there is.
Puts(s, t, p, x) ==
  /\ p \in 1 .. Len(s) + 1
  /\ t \in Seq(Int) /\ Len(t) = IF p = Len(s) + 1 THEN Len(s) + 1 ELSE Len(s)
  /\ t[p] = x
  /\ \A q \in 1 .. Len(s) : q # p => t[q] = s[q]

LEMMA PutsAppend ==
  ASSUME NEW s \in Seq(Int), NEW x \in Int
  PROVE  Puts(s, Append(s, x), Len(s) + 1, x)
  BY DEF Puts

LEMMA PutsReplace ==
  ASSUME NEW s \in Seq(Int), NEW x \in Int, NEW p \in 1 .. Len(s)
  PROVE  Puts(s, [s EXCEPT ![p] = x], p, x)
  <1>1. /\ [s EXCEPT ![p] = x] \in Seq(Int) /\ Len([s EXCEPT ![p] = x]) = Len(s)
        /\ Len(s) \in Nat /\ p # Len(s) + 1 /\ p \in 1 .. Len(s) + 1
    OBVIOUS
  <1> QED BY <1>1 DEF Puts

\* An entry of t was one of s or is the new one.
LEMMA PutsWhole ==
  ASSUME NEW s \in Seq(Int), NEW t, NEW p, NEW x, Puts(s, t, p, x)
  PROVE  /\ Len(s) \in Nat /\ p \in 1 .. Len(t) /\ 1 .. Len(s) \subseteq 1 .. Len(t)
         /\ \A q \in 1 .. Len(t) : q # p => q \in 1 .. Len(s) /\ t[q] = s[q]
  <1>1. Len(s) \in Nat
    OBVIOUS
  <1> QED BY <1>1 DEF Puts

LEMMA InsertAtClient ==
  ASSUME NEW m \in MapSet, NEW id \in Nat, id < WL_SERVER_ID_START, id <= Len(m.client),
         NEW x \in Int
  PROVE  LET n == wl_map_insert_at(m, id, x)
         IN  /\ n \in MapSet /\ n.server = m.server /\ n.free_list = m.free_list
             /\ Puts(m.client, n.client, id + 1, x)
  <1> DEFINE s == Space(id)
             n == wl_map_insert_at(m, id, x)
  <1>1. s = "client" /\ Base("client") = 0 /\ Place(id) = id + 1
    BY DEF Space, Base, Place
  <1>2. m[s] = m.client /\ m.client \in Seq(Int) /\ Len(m.client) \in Nat
    BY <1>1 DEF MapSet
  <1>3. n = IF id + 1 = Len(m.client) + 1 THEN [m EXCEPT ![s] = Append(@, x)]
            ELSE [m EXCEPT ![s][id + 1] = x]
    BY <1>1, <1>2 DEF wl_map_insert_at, CanInsertAt
  <1> HIDE DEF s, n
  <1>4. [m EXCEPT ![s] = Append(@, x)] = [m EXCEPT !.client = Append(m.client, x)]
    BY <1>1
  <1>5. [m EXCEPT ![s][id + 1] = x] = [m EXCEPT !.client = [m.client EXCEPT ![id + 1] = x]]
    BY <1>1
  <1>6. ASSUME NEW c \in Seq(Int)
        PROVE  LET k == [m EXCEPT !.client = c]
               IN  k \in MapSet /\ k.client = c /\ k.server = m.server /\ k.free_list = m.free_list
    BY DEF MapSet
  <1>7. CASE id = Len(m.client)
    <2>1. Append(m.client, x) \in Seq(Int) /\ n = [m EXCEPT !.client = Append(m.client, x)]
      BY <1>2, <1>3, <1>4, <1>7
    <2>2. /\ n \in MapSet /\ n.client = Append(m.client, x)
          /\ n.server = m.server /\ n.free_list = m.free_list
      BY <1>6, <2>1
    <2> QED BY <1>2, <1>7, <2>2, PutsAppend DEF n
  <1>8. CASE id # Len(m.client)
    <2>1. id + 1 \in 1 .. Len(m.client)
      BY <1>2, <1>8
    <2>2. /\ [m.client EXCEPT ![id + 1] = x] \in Seq(Int)
          /\ n = [m EXCEPT !.client = [m.client EXCEPT ![id + 1] = x]]
      BY <1>2, <1>3, <1>5, <1>8, <2>1
    <2>3. /\ n \in MapSet /\ n.client = [m.client EXCEPT ![id + 1] = x]
          /\ n.server = m.server /\ n.free_list = m.free_list
      BY <1>6, <2>2
    <2> QED BY <1>2, <2>1, <2>3, PutsReplace DEF n
  <1> QED BY <1>7, <1>8

LEMMA InsertAtServer ==
  ASSUME NEW m \in MapSet, NEW id \in Nat, id >= WL_SERVER_ID_START,
         id - WL_SERVER_ID_START <= Len(m.server), NEW x \in Int
  PROVE  LET n == wl_map_insert_at(m, id, x)
             p == id - WL_SERVER_ID_START + 1
         IN  /\ n \in MapSet /\ n.client = m.client /\ n.free_list = m.free_list
             /\ n.server = IF p = Len(m.server) + 1 THEN Append(m.server, x)
                           ELSE [m.server EXCEPT ![p] = x]
  <1> DEFINE s == Space(id)
             n == wl_map_insert_at(m, id, x)
             p == id - WL_SERVER_ID_START + 1
  <1>0. WL_SERVER_ID_START \in Nat
    BY IdAssumption
  <1>1. s = "server" /\ Base("server") = WL_SERVER_ID_START /\ Place(id) = p
    BY <1>0 DEF Space, Base, Place
  <1>2. m[s] = m.server /\ m.server \in Seq(Int) /\ Len(m.server) \in Nat /\ p \in Nat
    BY <1>0, <1>1 DEF MapSet
  <1>3. n = IF p = Len(m.server) + 1 THEN [m EXCEPT ![s] = Append(@, x)]
            ELSE [m EXCEPT ![s][p] = x]
    BY <1>0, <1>1, <1>2 DEF wl_map_insert_at, CanInsertAt
  <1> HIDE DEF s, n, p
  <1>4. [m EXCEPT ![s] = Append(@, x)] = [m EXCEPT !.server = Append(m.server, x)]
    BY <1>1
  <1>5. [m EXCEPT ![s][p] = x] = [m EXCEPT !.server = [m.server EXCEPT ![p] = x]]
    BY <1>1
  <1>6. ASSUME NEW c \in Seq(Int)
        PROVE  LET k == [m EXCEPT !.server = c]
               IN  k \in MapSet /\ k.server = c /\ k.client = m.client /\ k.free_list = m.free_list
    BY DEF MapSet
  <1>7. CASE p = Len(m.server) + 1
    <2>1. Append(m.server, x) \in Seq(Int)
      BY <1>2
    <2>2. n = [m EXCEPT !.server = Append(m.server, x)]
      BY <1>3, <1>4, <1>7
    <2>3. n \in MapSet /\ n.server = Append(m.server, x) /\ n.client = m.client
          /\ n.free_list = m.free_list
      BY <1>6, <2>1, <2>2
    <2> QED BY <1>7, <2>3 DEF n, p
  <1>8. CASE p # Len(m.server) + 1
    <2>1. [m.server EXCEPT ![p] = x] \in Seq(Int)
      <3>1. p \in 1 .. Len(m.server)
        BY <1>0, <1>2, <1>8 DEF p
      <3> QED BY <1>2, <3>1, PutsReplace DEF Puts
    <2>2. n = [m EXCEPT !.server = [m.server EXCEPT ![p] = x]]
      BY <1>3, <1>5, <1>8
    <2>3. n \in MapSet /\ n.server = [m.server EXCEPT ![p] = x] /\ n.client = m.client
          /\ n.free_list = m.free_list
      BY <1>6, <2>1, <2>2
    <2> QED BY <1>8, <2>3 DEF n, p
  <1> QED BY <1>7, <1>8

\* wl_map_insert_new and the wl_map_insert_at that follows it in wl_resource_create
LEMMA InsertNewServer ==
  ASSUME NEW m \in MapSet, NEW ch \in Seq(Nat), Chained(ch, m.server, m.free_list, {}),
         NEW x \in Int, x > 0
  PROVE  LET n == wl_map_insert_at(wl_map_insert_new(m, 0), NewId(m), x)
             p == NewId(m) - WL_SERVER_ID_START + 1
         IN  /\ n \in MapSet /\ n.client = m.client
             /\ NewId(m) \in Nat /\ NewId(m) >= WL_SERVER_ID_START
             /\ Puts(m.server, n.server, p, x)
             /\ p <= Len(m.server) => m.server[p] <= 0
             /\ \E c \in Seq(Nat) : Chained(c, n.server, n.free_list, {})
  <1> DEFINE k == wl_map_insert_new(m, 0)
             n == wl_map_insert_at(k, NewId(m), x)
             p == NewId(m) - WL_SERVER_ID_START + 1
             f == m.free_list
  <1>0. /\ WL_SERVER_ID_START \in Nat /\ m.side = "server" /\ m.server \in Seq(Int)
        /\ f \in Int /\ Len(m.server) \in Nat /\ m["server"] = m.server
        /\ Base("server") = WL_SERVER_ID_START
    BY IdAssumption DEF MapSet, Base
  <1>1. CASE f = 0
    <2>1. NewId(m) = WL_SERVER_ID_START + Len(m.server)
      BY <1>0, <1>1 DEF NewId
    <2>2. k = [m EXCEPT !.server = Append(m.server, 0)]
      BY <1>0, <1>1 DEF wl_map_insert_new
    <2>3. /\ k \in MapSet /\ k.server = Append(m.server, 0) /\ k.client = m.client
          /\ k.free_list = f
      <3>1. Append(m.server, 0) \in Seq(Int)
        BY <1>0
      <3> QED BY <2>2, <3>1 DEF MapSet
    <2> HIDE DEF k
    <2>4. Len(k.server) = Len(m.server) + 1 /\ NewId(m) \in Nat /\ p = Len(m.server) + 1
      BY <1>0, <2>1, <2>3
    <2>5. /\ n \in MapSet /\ n.client = k.client /\ n.free_list = k.free_list
          /\ n.server = [k.server EXCEPT ![p] = x]
      <3>1. /\ NewId(m) >= WL_SERVER_ID_START
            /\ NewId(m) - WL_SERVER_ID_START <= Len(k.server) /\ p # Len(k.server) + 1
        BY <1>0, <2>1, <2>4
      <3> QED BY <2>3, <2>4, <3>1, InsertAtServer
    <2>6. n.server = Append(m.server, x)
      <3>1. ASSUME NEW v \in Seq(Int)
            PROVE  [Append(v, 0) EXCEPT ![Len(v) + 1] = x] = Append(v, x)
        <4>1. PICK a, b, c : /\ a = Append(v, 0) /\ c = Append(v, x)
                             /\ b = [a EXCEPT ![Len(v) + 1] = x]
          OBVIOUS
        <4>2. /\ a \in Seq(Int) /\ Len(a) = Len(v) + 1 /\ c \in Seq(Int) /\ Len(c) = Len(v) + 1
              /\ \A i \in 1 .. Len(v) : a[i] = v[i] /\ c[i] = v[i]
              /\ c[Len(v) + 1] = x /\ Len(v) \in Nat
          BY <4>1
        <4>3. Len(v) + 1 \in 1 .. Len(a)
          BY <4>2
        <4>4. Puts(a, b, Len(v) + 1, x)
          BY <4>1, <4>2, <4>3, PutsReplace
        <4>5. /\ b \in Seq(Int) /\ Len(b) = Len(v) + 1 /\ b[Len(v) + 1] = x
              /\ \A i \in 1 .. Len(v) + 1 : i # Len(v) + 1 => b[i] = a[i]
          BY <4>2, <4>4 DEF Puts
        <4>6. ASSUME NEW i \in 1 .. Len(v) + 1 PROVE b[i] = c[i]
          <5>1. i = Len(v) + 1 \/ i \in 1 .. Len(v)
            BY <4>2
          <5> QED BY <4>2, <4>5, <5>1
        <4>7. b = c
          BY <4>2, <4>5, <4>6, SeqEqual
        <4> QED BY <4>1, <4>7
      <3>2. [Append(m.server, 0) EXCEPT ![Len(m.server) + 1] = x] = Append(m.server, x)
        BY <1>0, <3>1
      <3> HIDE DEF n, p
      <3> QED BY <2>3, <2>4, <2>5, <3>2
    <2> HIDE DEF n
    <2>7. Chained(ch, n.server, n.free_list, {})
      <3>1. Chained(ch, Append(m.server, x), m.free_list, {})
        BY <1>0, ChainGrow
      <3> QED BY <2>3, <2>5, <2>6, <3>1
    <2>8. Puts(m.server, n.server, p, x)
      BY <1>0, <2>4, <2>6, PutsAppend
    <2> QED BY <1>0, <2>1, <2>3, <2>4, <2>5, <2>7, <2>8 DEF n, k
  <1>2. CASE f # 0
    <2>1. /\ -f \in 1 .. Len(m.server) /\ m.server[-f] <= 0 /\ m.server[-f] \in Int
          /\ Tail(ch) \in Seq(Nat)
          /\ Chained(Tail(ch), [m.server EXCEPT ![-f] = x], m.server[-f], {})
      <3>1. PICK e : e = m.server
        OBVIOUS
      <3>2. e \in Seq(Int) /\ f \in Int /\ Chained(ch, e, f, {})
        BY <1>0, <3>1
      <3> HIDE DEF f
      <3>3. /\ -f \in 1 .. Len(e) /\ e[-f] <= 0 /\ Tail(ch) \in Seq(Nat)
            /\ Chained(Tail(ch), [e EXCEPT ![-f] = x], e[-f], {})
        BY <1>2, <3>2, ChainPop
      <3>4. e[-f] \in Int
        BY <3>2, <3>3
      <3> QED BY <3>1, <3>3, <3>4
    <2>2. NewId(m) = WL_SERVER_ID_START + (-f - 1) /\ NewId(m) \in Nat /\ p = -f
      BY <1>0, <1>2, <2>1, SMTT(30) DEF NewId, LinkOf
    <2> DEFINE b == [m.server EXCEPT ![-f] = 0]
               g == m.server[-f]
    <2>3. k = [m EXCEPT !.server = b, !.free_list = g]
      BY <1>0, <1>2 DEF wl_map_insert_new, LinkOf
    <2>4. /\ b \in Seq(Int) /\ Len(b) = Len(m.server)
          /\ [b EXCEPT ![-f] = x] = [m.server EXCEPT ![-f] = x]
      BY <1>0, <2>1
    <2> HIDE DEF b, g
    <2>5. k \in MapSet /\ k.server = b /\ k.client = m.client /\ k.free_list = g
      BY <2>1, <2>3, <2>4 DEF MapSet, g
    <2> HIDE DEF k
    <2>6. /\ n \in MapSet /\ n.client = k.client /\ n.free_list = k.free_list
          /\ n.server = [k.server EXCEPT ![p] = x]
      <3>1. /\ NewId(m) >= WL_SERVER_ID_START
            /\ NewId(m) - WL_SERVER_ID_START <= Len(k.server) /\ p # Len(k.server) + 1
        <4>1. PICK i, v : i = -f /\ v = NewId(m)
          OBVIOUS
        <4>2. i \in 1 .. Len(m.server) /\ v = WL_SERVER_ID_START + (i - 1) /\ p = i
              /\ Len(k.server) = Len(m.server)
          BY <2>1, <2>2, <2>4, <2>5, <4>1
        <4> HIDE DEF f, p
        <4>3. v >= WL_SERVER_ID_START /\ v - WL_SERVER_ID_START <= Len(k.server)
              /\ p # Len(k.server) + 1
          BY <1>0, <4>2
        <4> QED BY <4>1, <4>3
      <3> QED BY <2>2, <2>5, <3>1, InsertAtServer
    <2>7. n.server = [m.server EXCEPT ![-f] = x]
      BY <2>2, <2>4, <2>5, <2>6
    <2> HIDE DEF n
    <2>8. Chained(Tail(ch), n.server, n.free_list, {})
      BY <2>1, <2>5, <2>6, <2>7 DEF g
    <2>9. Puts(m.server, n.server, p, x)
      BY <1>0, <2>1, <2>2, <2>7, PutsReplace, SMTT(30)
    <2>10. NewId(m) >= WL_SERVER_ID_START
      BY <1>0, <2>1, <2>2
    <2> QED BY <1>0, <2>1, <2>2, <2>5, <2>6, <2>8, <2>9, <2>10 DEF n, k
  <1> QED BY <1>1, <1>2

LEMMA RemoveServer ==
  ASSUME NEW m \in MapSet, NEW ch \in Seq(Nat), Chained(ch, m.server, m.free_list, {}),
         NEW p \in 1 .. Len(m.server), m.server[p] > 0
  PROVE  LET n == wl_map_remove(m, WL_SERVER_ID_START + p - 1)
         IN  /\ n \in MapSet /\ n.client = m.client
             /\ Puts(m.server, n.server, p, m.free_list) /\ m.free_list <= 0
             /\ \E c \in Seq(Nat) : Chained(c, n.server, n.free_list, {})
  <1> DEFINE id == WL_SERVER_ID_START + p - 1
             n == wl_map_remove(m, id)
             b == [m.server EXCEPT ![p] = m.free_list]
  <1>1. /\ WL_SERVER_ID_START \in Nat /\ m.side = "server" /\ m.server \in Seq(Int)
        /\ m.free_list \in Int /\ p \in Nat /\ p > 0 /\ -p \in Int
    BY IdAssumption DEF MapSet
  <1>2. Space(id) = "server" /\ Place(id) = p /\ Link(id - Base("server")) = -p
    BY <1>1 DEF Space, Place, Base, Link
  <1>3. n = [m EXCEPT !.server = b, !.free_list = -p]
    BY <1>1, <1>2 DEF wl_map_remove
  <1>4. b \in Seq(Int) /\ Puts(m.server, b, p, m.free_list)
    BY <1>1, PutsReplace
  <1>5. <<p>> \o ch \in Seq(Nat) /\ Chained(<<p>> \o ch, b, -p, {})
    BY <1>1, ChainPush
  <1>6. m.free_list <= 0
    <2>1. ch # <<>> => ch[1] \in Nat
      OBVIOUS
    <2> QED BY <1>1, <2>1 DEF Chained
  <1> HIDE DEF b
  <1>7. n \in MapSet /\ n.server = b /\ n.client = m.client /\ n.free_list = -p
    BY <1>1, <1>3, <1>4 DEF MapSet
  <1> QED BY <1>4, <1>5, <1>6, <1>7

-----------------------------------------------------------------------------
\* The table and the resources: where each one is, and which have left it
InTable(r) ==
  IF ids[r] < WL_SERVER_ID_START
  THEN ids[r] + 1 \in 1 .. Len(objects.client) /\ objects.client[ids[r] + 1] = r
  ELSE /\ ids[r] - WL_SERVER_ID_START + 1 \in 1 .. Len(objects.server)
       /\ objects.server[ids[r] - WL_SERVER_ID_START + 1] = r

\* The place of r in the order of wl_map_for_each
Where(r) ==
  IF ids[r] < WL_SERVER_ID_START THEN ids[r] + 1
  ELSE Len(objects.client) + (ids[r] - WL_SERVER_ID_START + 1)

EntryInv ==
  /\ Len(objects.client) \in 1 .. WL_SERVER_ID_START /\ objects.client[1] = 0
  /\ \A p \in 1 .. Len(objects.client) : objects.client[p] # 0 =>
        objects.client[p] \in Display .. made /\ ids[objects.client[p]] = p - 1
  /\ \A p \in 1 .. Len(objects.server) : objects.server[p] > 0 =>
        /\ objects.server[p] \in Display .. made
        /\ ids[objects.server[p]] = WL_SERVER_ID_START + p - 1

\* A resource that is neither alive nor about to return its id was destroyed by
\* wl_client_destroy, and one that is alive is in the table; wl_map_for_each has
\* passed it only if it is being destroyed.
PlaceInv ==
  /\ \A r \in ResourceSet : InTable(r) =>
        r \in live \/ Doomed(r) \/ Client \notin live \/ Where(r) < Sweep(stack)
  /\ \A r \in live \ {Client} : InTable(r) /\ (Where(r) < Sweep(stack) => Dying(r))
  /\ \A r \in ResourceSet : Doomed(r) => InTable(r)
  /\ \A r \in ResourceSet : Dying(r) => Doomed(r) \/ Where(r) < Sweep(stack)

IdInv ==
  Client \in live /\ ~Dying(Client) =>
     /\ display_resource
     /\ freed_ids = {id \in 1 .. Len(objects.client) - 1 : objects.client[id + 1] = 0}

FreeInv == \E ch \in Seq(Nat) : Chained(ch, objects.server, objects.free_list, {})

TableInv == EntryInv /\ PlaceInv /\ IdInv /\ FreeInv

LEMMA TableTypes ==
  ASSUME TypeOK
  PROVE  /\ objects \in MapSet /\ objects.client \in Seq(Int) /\ objects.server \in Seq(Int)
         /\ objects.free_list \in Int
         /\ Len(objects.client) \in Nat /\ Len(objects.server) \in Nat
         /\ made \in Nat /\ made >= Display /\ made <= Display + MaxResources
         /\ \A r \in ResourceSet : ids[r] \in Nat /\ r \in Int /\ r > 0 /\ r # Client
  <1>1. objects \in MapSet
    BY DEF TypeOK, MapSet
  <1> QED BY <1>1, Constants DEF TypeOK, MapSet

\* Going over the table happens in wl_client_destroy only.
LEMMA SweepDies ==
  ASSUME StackInv(stack), Sweep(stack) # 0
  PROVE  Has(stack, Destroyers, Client)
  <1>1. stack # <<>> /\ stack[1].fn = "wl_client_destroy"
    BY DEF Sweep
  <1>2. 1 \in 1 .. Len(stack) /\ Kept(stack[1])
    BY <1>1, StackLen DEF StackInv
  <1> QED BY <1>1, <1>2 DEF Kept, Has, Destroyers

LEMMA EntryIs ==
  ASSUME NEW k
  PROVE  /\ k <= Len(objects.client) => Entry(k) = objects.client[k]
         /\ ~(k <= Len(objects.client)) => Entry(k) = objects.server[k - Len(objects.client)]
  BY DEF Entry

\* What is in the table has a place in it.
LEMMA WhereInTable ==
  ASSUME TypeOK, NEW r \in ResourceSet, InTable(r)
  PROVE  /\ Where(r) \in 1 .. Len(objects.client) + Len(objects.server)
         /\ Entry(Where(r)) = r
  <1>1. PICK n, m : n = Len(objects.client) /\ m = Len(objects.server)
    OBVIOUS
  <1>2. n \in Nat /\ m \in Nat /\ ids[r] \in Nat /\ WL_SERVER_ID_START \in Nat
    BY <1>1, TableTypes, Constants
  <1>3. CASE ids[r] < WL_SERVER_ID_START
    <2>1. PICK p : p = ids[r] + 1
      OBVIOUS
    <2>2. p \in 1 .. n /\ objects.client[p] = r /\ Where(r) = p
      BY <1>1, <1>3, <2>1 DEF InTable, Where
    <2>3. p \in 1 .. n + m /\ p <= n
      BY <1>2, <2>2
    <2>4. Entry(p) = objects.client[p]
      BY <1>1, <2>3 DEF Entry
    <2> QED BY <1>1, <2>2, <2>3, <2>4
  <1>4. CASE ~(ids[r] < WL_SERVER_ID_START)
    <2>1. PICK p : p = ids[r] - WL_SERVER_ID_START + 1
      OBVIOUS
    <2>2. p \in 1 .. m /\ objects.server[p] = r /\ Where(r) = n + p
      BY <1>1, <1>4, <2>1 DEF InTable, Where
    <2>3. n + p \in 1 .. n + m /\ ~(n + p <= n) /\ n + p - n = p
      BY <1>2, <2>2
    <2>4. PICK q : q = n + p
      OBVIOUS
    <2>5. ~(q <= n)
      BY <2>3, <2>4
    <2>6. Entry(q) = objects.server[q - n]
      BY <1>1, <2>5, EntryIs
    <2>7. Where(r) = q /\ q - n = p /\ q \in 1 .. n + m
      <3>1. Where(r) = q
        BY <2>2, <2>4
      <3>2. p \in Nat /\ n \in Nat
        BY <1>2, <2>2
      <3>3. q - n = p
        BY <2>4, <3>2
      <3>4. q \in 1 .. n + m
        BY <2>3, <2>4
      <3> QED BY <3>1, <3>3, <3>4
    <2>8. Entry(q) = r
      BY <2>2, <2>6, <2>7
    <2> QED BY <1>1, <2>7, <2>8
  <1> QED BY <1>3, <1>4

LEMMA EntryInTable ==
  ASSUME TypeOK, EntryInv, NEW k \in 1 .. Len(objects.client) + Len(objects.server),
         Entry(k) > 0
  PROVE  /\ Entry(k) \in ResourceSet /\ Entry(k) \in Display .. made
         /\ InTable(Entry(k)) /\ Where(Entry(k)) = k
  <1>1. PICK n, m, S, r : /\ n = Len(objects.client) /\ m = Len(objects.server)
                          /\ S = WL_SERVER_ID_START /\ r = Entry(k)
    OBVIOUS
  <1>2. n \in Nat /\ m \in Nat /\ S \in Nat /\ n <= S
    BY <1>1, TableTypes, Constants DEF EntryInv
  <1>3. \A x \in Display .. made : x \in ResourceSet
    BY TableTypes, Constants
  <1>4. CASE k <= n
    <2>1. k \in 1 .. n /\ r = objects.client[k]
      BY <1>1, <1>2, <1>4 DEF Entry
    <2>2. r \in Display .. made /\ ids[r] = k - 1
      BY <1>1, <2>1 DEF EntryInv
    <2>3. ids[r] < S /\ ids[r] + 1 = k
      BY <1>2, <2>1, <2>2
    <2> QED BY <1>1, <1>3, <2>1, <2>2, <2>3 DEF InTable, Where
  <1>5. CASE ~(k <= n)
    <2>1. PICK p : p = k - n
      OBVIOUS
    <2>2. p \in 1 .. m /\ r = objects.server[p] /\ n + p = k /\ p \in Nat /\ p > 0
      <3>1. k \in 1 .. n + m
        BY <1>1
      <3>2. p \in 1 .. m /\ n + p = k /\ p \in Nat /\ p > 0
        BY <1>2, <1>5, <2>1, <3>1
      <3>3. r = objects.server[k - n]
        BY <1>1, <1>5 DEF Entry
      <3> QED BY <2>1, <3>2, <3>3
    <2>3. r \in Display .. made /\ ids[r] = S + p - 1
      BY <1>1, <2>2 DEF EntryInv
    <2>4. ~(ids[r] < S) /\ ids[r] - S + 1 = p
      BY <1>2, <2>2, <2>3
    <2> QED BY <1>1, <1>3, <2>2, <2>3, <2>4 DEF InTable, Where
  <1> QED BY <1>4, <1>5

-----------------------------------------------------------------------------
\* Steps of the calls in progress
LEMMA SameKeeps ==
  ASSUME TypeOK, CallInv, TableInv, SameCalls, stack # <<>>,
         UNCHANGED <<objects, made, ids, freed_ids, live>>,
         display_resource' = display_resource \/ Dying(Client)
  PROVE  CallInv' /\ TableInv'
  <1>1. /\ \A s : Dying(s)' <=> Dying(s)
        /\ \A s : Doomed(s)' <=> Doomed(s)
    BY DyingHas, DyingHasNext DEF SameCalls, Doomed
  <1>2. CallInv'
    BY <1>1 DEF CallInv, SameCalls
  <1>3. \A r : InTable(r)' = InTable(r) /\ Where(r)' = Where(r)
    BY DEF InTable, Where
  <1>4. EntryInv' /\ FreeInv'
    BY DEF TableInv, EntryInv, FreeInv
  <1>5. PlaceInv'
    BY <1>1, <1>3 DEF TableInv, PlaceInv, SameCalls
  <1>6. IdInv'
    BY <1>1 DEF TableInv, IdInv
  <1> QED BY <1>2, <1>4, <1>5, <1>6 DEF TableInv

\* The display resource dies with the client.
LEMMA DisplayDies ==
  ASSUME StackInv(stack), In("destroy_resource"), Top.of = Display
  PROVE  Dying(Client)
  <1>1. /\ stack # <<>> /\ Top.fn = "destroy_resource" /\ Len(stack) # 1
        /\ Len(stack) - 1 \in 1 .. Len(stack) /\ Calls(stack[Len(stack) - 1], Top)
    BY TopFrame DEF In, Starts
  <1>2. Kept(stack[Len(stack) - 1])
    BY <1>1 DEF StackInv
  <1> QED BY <1>1, <1>2 DEF Calls, Kept, Dying

LEMMA CallDestroyKeeps ==
  ASSUME TypeOK, CallInv, TableInv, CallDestroy
  PROVE  TypeOK' /\ CallInv' /\ TableInv'
  <1>1. /\ stack # <<>> /\ UNCHANGED <<objects, made, ids, freed_ids, live>>
        /\ UNCHANGED <<listener_list, told>> /\ display_resource' \in BOOLEAN
        /\ Top.of # Display => display_resource' = display_resource
    BY DEF CallDestroy, In, TypeOK
  <1>2. TypeOK'
    BY <1>1 DEF TypeOK
  <1>3. display_resource' = display_resource \/ Dying(Client)
    BY <1>1, DisplayDies DEF CallDestroy, CallInv
  <1>4. SameCalls
    BY CallDestroyStack DEF CallInv
  <1> QED BY <1>1, <1>2, <1>3, <1>4, SameKeeps

LEMMA ReturnsKeep ==
  ASSUME TypeOK, CallInv, TableInv, Notify \/ EmitReturns \/ CallbackReturns
  PROVE  TypeOK' /\ CallInv' /\ TableInv'
  <1>1. /\ stack # <<>> /\ UNCHANGED <<objects, made, ids, freed_ids, live, display_resource>>
        /\ listener_list' = listener_list
    BY DEF Notify, EmitReturns, CallbackReturns, In, tables
  <1>2. told' \in [Listeners -> Nat]
    <2>1. CASE Notify
      <3>1. told \in [Listeners -> Nat] /\ told' = [told EXCEPT ![Top.l] = @ + 1]
        BY <2>1 DEF Notify, TypeOK
      <3>2. \A l \in Listeners : told[l] + 1 \in Nat
        BY <3>1
      <3> QED BY <3>1, <3>2
    <2> QED BY <2>1 DEF EmitReturns, CallbackReturns, TypeOK
  <1>3. SameCalls
    BY NotifyStack, EmitReturnsStack, CallbackReturnsStack DEF CallInv
  <1>4. TypeOK'
    BY <1>1, <1>2 DEF TypeOK
  <1> QED BY <1>1, <1>3, <1>4, SameKeeps

LEMMA DestroyKeeps ==
  ASSUME TypeOK, CallInv, TableInv, NEW r \in ResourceSet, wl_resource_destroy(r)
  PROVE  TypeOK' /\ CallInv' /\ TableInv'
  <1>1. /\ UNCHANGED <<objects, made, ids, freed_ids, live, display_resource>>
        /\ UNCHANGED <<listener_list, told>> /\ Client \in live /\ r \in live \ {Client}
    BY DEF wl_resource_destroy, tables, Compositor
  <1>2. TypeOK'
    BY <1>1 DEF TypeOK
  <1>3. /\ StackInv(stack') /\ Sweep(stack') = Sweep(stack)
        /\ \A s : Dying(s)' <=> Dying(s) \/ s = r
        /\ \A s : Doomed(s)' <=> Doomed(s) \/ s = r
    BY DestroyStack, DyingHas, DyingHasNext DEF Doomed
  <1>4. r # Client
    BY <1>1
  <1>5. CallInv'
    BY <1>1, <1>3 DEF CallInv
  <1>6. \A s : InTable(s)' = InTable(s) /\ Where(s)' = Where(s)
    BY <1>1 DEF InTable, Where
  <1>7. EntryInv' /\ FreeInv'
    BY <1>1 DEF TableInv, EntryInv, FreeInv
  <1>8. PlaceInv'
    BY <1>1, <1>3, <1>6 DEF TableInv, PlaceInv
  <1>9. IdInv'
    BY <1>1, <1>3, <1>4 DEF TableInv, IdInv
  <1> QED BY <1>2, <1>5, <1>7, <1>8, <1>9 DEF TableInv

LEMMA ClientDestroyKeeps ==
  ASSUME TypeOK, CallInv, TableInv, wl_client_destroy
  PROVE  TypeOK' /\ CallInv' /\ TableInv'
  <1>1. /\ UNCHANGED <<objects, made, ids, freed_ids, live, display_resource>>
        /\ UNCHANGED <<listener_list, told>> /\ Client \in live /\ stack = <<>>
    BY DEF wl_client_destroy, tables, Compositor
  <1>2. TypeOK'
    BY <1>1 DEF TypeOK
  <1>3. /\ StackInv(stack') /\ Sweep(stack') = 1 /\ Sweep(stack) = 0
        /\ \A s : Dying(s)' <=> s = Client
        /\ \A s : ~Doomed(s)'
        /\ \A s : ~Dying(s) /\ ~Doomed(s)
    BY <1>1, ClientDestroyStack, DyingHas, DyingHasNext DEF Doomed, Sweep, Has
  <1>4. CallInv'
    BY <1>1, <1>3 DEF CallInv
  <1>5. \A s : InTable(s)' = InTable(s) /\ Where(s)' = Where(s)
    BY <1>1 DEF InTable, Where
  <1>6. EntryInv' /\ FreeInv'
    BY <1>1 DEF TableInv, EntryInv, FreeInv
  <1>7. PlaceInv'
    <2>1. ASSUME NEW s \in ResourceSet, InTable(s)
          PROVE  ~(Where(s) < 1) /\ ~(Where(s) < 0)
      <3>1. PICK w, n, m : w = Where(s) /\ n = Len(objects.client) /\ m = Len(objects.server)
        OBVIOUS
      <3>2. w \in 1 .. n + m
        BY <2>1, <3>1, WhereInTable
      <3>3. n \in Nat /\ m \in Nat
        BY <3>1, TableTypes
      <3> QED BY <3>1, <3>2, <3>3
    <2>2. live \ {Client} \subseteq ResourceSet
      BY DEF TypeOK, Signals
    <2>3. \A s \in live \ {Client} : InTable(s)
      BY DEF TableInv, PlaceInv
    <2>4. \A s \in ResourceSet : InTable(s) => s \in live
      BY <1>1, <1>3, <2>1 DEF TableInv, PlaceInv
    <2>5. \A s \in ResourceSet : s # Client
      BY TableTypes
    <2> HIDE DEF InTable, Where
    <2>6. /\ \A s \in ResourceSet : InTable(s)' => s \in live'
          /\ \A s \in live' \ {Client} : InTable(s)' /\ ~(Where(s)' < Sweep(stack'))
          /\ \A s \in ResourceSet : ~Doomed(s)' /\ ~Dying(s)'
      BY <1>1, <1>3, <1>5, <2>1, <2>2, <2>3, <2>4, <2>5
    <2> QED BY <2>6 DEF PlaceInv
  <1>8. IdInv'
    BY <1>1, <1>3 DEF IdInv
  <1> QED BY <1>2, <1>4, <1>6, <1>7, <1>8 DEF TableInv

LEMMA FreeKeeps ==
  ASSUME TypeOK, CallInv, TableInv, FreeResource
  PROVE  TypeOK' /\ CallInv' /\ TableInv'
  <1>1. /\ UNCHANGED <<objects, made, ids, freed_ids, display_resource>>
        /\ UNCHANGED <<listener_list, told>> /\ live' = live \ {Top.of}
    BY DEF FreeResource, tables
  <1>2. PICK r : r = Top.of
    OBVIOUS
  <1>3. TypeOK'
    BY <1>1 DEF TypeOK
  <1>4. /\ StackInv(stack') /\ Sweep(stack') = Sweep(stack)
        /\ \A s : Dying(s)' <=> Dying(s) /\ s # r
        /\ \A s : Doomed(s)' <=> Doomed(s)
        /\ r \in ResourceSet /\ Dying(r) /\ r # Client
    <2>1. StackInv(stack)
      BY DEF CallInv
    <2>2. \A s \in ResourceSet : s # Client
      BY TableTypes
    <2> QED BY <1>2, <2>1, <2>2, FreeStack, DyingHas, DyingHasNext DEF Doomed
  <1>5. r \in live /\ Client \in live /\ live' = live \ {r}
    <2>1. r \in live
      BY <1>4 DEF CallInv, Signals
    <2> QED BY <1>1, <1>2, <2>1 DEF CallInv
  <1>6. CallInv'
    BY <1>1, <1>4, <1>5 DEF CallInv
  <1>7. \A s : InTable(s)' = InTable(s) /\ Where(s)' = Where(s)
    BY <1>1 DEF InTable, Where
  <1>8. EntryInv' /\ FreeInv'
    BY <1>1 DEF TableInv, EntryInv, FreeInv
  <1>9. PlaceInv'
    BY <1>4, <1>5, <1>7 DEF TableInv, PlaceInv
  <1>10. IdInv'
    BY <1>1, <1>4, <1>5 DEF TableInv, IdInv
  <1> QED BY <1>3, <1>6, <1>8, <1>9, <1>10 DEF TableInv

\* What wl_map_for_each finds is alive, and not being destroyed.
LEMMA FoundEntry ==
  ASSUME TypeOK, CallInv, TableInv, ForEachEntry
  PROVE  Entry(Top.at) > 0 =>
            LET r == Entry(Top.at)
            IN  /\ r \in ResourceSet /\ InTable(r) /\ Where(r) = Top.at /\ r \in live
                /\ r # Client /\ ~Dying(r)
  <1>1. /\ In("wl_client_destroy")
        /\ Top.at <= Len(objects.client) + Len(objects.server)
    BY DEF ForEachEntry
  <1>2. PICK k, r, n, m : /\ k = Top.at /\ r = Entry(k)
                          /\ n = Len(objects.client) /\ m = Len(objects.server)
    OBVIOUS
  <1>3. /\ Sweep(stack) = k /\ k \in Nat \ {0}
        /\ \A s : Dying(s) <=> s = Client
        /\ \A s : ~Doomed(s)
    BY <1>1, <1>2, ClientDestroyAlone, DyingHas DEF CallInv, Doomed
  <1>4. Client \in live
    BY <1>3 DEF CallInv, Signals
  <1>5. ASSUME r > 0
        PROVE  r \in ResourceSet /\ InTable(r) /\ Where(r) = k /\ r \in live /\ r # Client
    <2>1. n \in Nat /\ m \in Nat
      BY <1>2, TableTypes
    <2>2. k \in 1 .. n + m
      <3>1. k <= n + m
        BY <1>1, <1>2
      <3>2. k \in Nat \ {0}
        BY <1>3
      <3> QED BY <2>1, <3>1, <3>2
    <2>3. r \in ResourceSet /\ InTable(r) /\ Where(r) = k
      BY <1>2, <1>5, <2>2, EntryInTable DEF TableInv
    <2>4. ~(k < k)
      BY <1>3
    <2>5. r \in live
      BY <1>3, <1>4, <2>3, <2>4 DEF TableInv, PlaceInv
    <2> QED BY <2>3, <2>5, TableTypes
  <1> QED BY <1>2, <1>3, <1>5

LEMMA ForEachKeeps ==
  ASSUME TypeOK, CallInv, TableInv, ForEachEntry
  PROVE  TypeOK' /\ CallInv' /\ TableInv'
  <1>1. /\ UNCHANGED <<objects, made, ids, freed_ids, live, display_resource>>
        /\ UNCHANGED <<listener_list, told>> /\ In("wl_client_destroy")
        /\ Top.at <= Len(objects.client) + Len(objects.server)
    BY DEF ForEachEntry, tables
  <1>2. PICK k, r, n, m : /\ k = Top.at /\ r = Entry(k)
                          /\ n = Len(objects.client) /\ m = Len(objects.server)
    OBVIOUS
  <1>3. TypeOK'
    BY <1>1 DEF TypeOK
  <1>4. StackInv(stack)
    BY DEF CallInv
  <1>5. /\ Sweep(stack) = k /\ k \in Nat \ {0}
        /\ \A s : Dying(s) <=> s = Client
        /\ \A s : ~Doomed(s)
    BY <1>1, <1>2, <1>4, ClientDestroyAlone, DyingHas DEF Doomed
  <1>6. Client \in live
    BY <1>5 DEF CallInv, Signals
  <1>7. r > 0 => r \in ResourceSet /\ InTable(r) /\ Where(r) = k /\ r \in live /\ r # Client
    BY <1>2, FoundEntry
  <1>8. /\ StackInv(stack') /\ Sweep(stack') = k + 1
        /\ \A s : Dying(s)' <=> s = Client \/ (r > 0 /\ s = r)
        /\ \A s : ~Doomed(s)'
    <2>1. Entry(Top.at) > 0 => Entry(Top.at) \in ResourceSet
      BY <1>2, <1>7
    <2> QED BY <1>2, <1>4, <1>5, <2>1, ForEachStack, DyingHasNext DEF Doomed
  <1>9. CallInv'
    BY <1>1, <1>6, <1>7, <1>8 DEF CallInv
  <1>10. \A s : InTable(s)' = InTable(s) /\ Where(s)' = Where(s)
    BY <1>1 DEF InTable, Where
  <1>11. EntryInv' /\ FreeInv'
    BY <1>1 DEF TableInv, EntryInv, FreeInv
  <1>12. PlaceInv'
    <2>1. ASSUME NEW s \in ResourceSet
          PROVE  Where(s) \in Int /\ (Where(s) < k + 1 <=> Where(s) < k \/ Where(s) = k)
      <3>1. PICK w : w = Where(s)
        OBVIOUS
      <3>2. w \in Int
        BY <3>1, TableTypes, Constants DEF Where
      <3> QED BY <1>5, <3>1, <3>2
    <2>2. ASSUME NEW s \in live \ {Client}, Where(s) < k + 1
          PROVE  r > 0 /\ s = r
      <3>1. s \in ResourceSet /\ InTable(s)
        BY DEF TypeOK, Signals, TableInv, PlaceInv
      <3>2. ~(Where(s) < k)
        BY <1>5 DEF TableInv, PlaceInv
      <3>3. Where(s) = k
        BY <2>1, <2>2, <3>1, <3>2
      <3>4. Entry(k) = s
        BY <3>1, <3>3, WhereInTable
      <3> QED BY <1>2, <3>1, <3>4, TableTypes
    <2>3. \A s \in ResourceSet : InTable(s) => s \in live \/ Where(s) < k + 1
      BY <1>5, <1>6, <2>1 DEF TableInv, PlaceInv
    <2>4. r > 0 => Where(r) < k + 1
      BY <1>7, <2>1
    <2>5. \A s \in live \ {Client} : InTable(s)
      BY DEF TableInv, PlaceInv
    <2> HIDE DEF InTable, Where
    <2>6. \A s \in ResourceSet : s # Client
      BY TableTypes
    <2>7. /\ \A s \in ResourceSet : InTable(s)' => s \in live' \/ Where(s)' < Sweep(stack')
          /\ \A s \in live' \ {Client} : InTable(s)' /\ (Where(s)' < Sweep(stack') => Dying(s)')
          /\ \A s \in ResourceSet : ~Doomed(s)'
          /\ \A s \in ResourceSet : Dying(s)' => Where(s)' < Sweep(stack')
      BY <1>1, <1>8, <1>10, <2>2, <2>3, <2>4, <2>5, <2>6
    <2> QED BY <2>7 DEF PlaceInv
  <1>13. IdInv'
    BY <1>8 DEF IdInv
  <1> QED BY <1>3, <1>9, <1>11, <1>12, <1>13 DEF TableInv

\* wl_map_for_each has destroyed every resource.
LEMMA ClientFreedKeeps ==
  ASSUME TypeOK, CallInv, TableInv, ClientFreed
  PROVE  TypeOK' /\ CallInv' /\ TableInv' /\ live' = {} /\ live = {Client}
  <1>1. /\ UNCHANGED <<objects, made, ids, freed_ids, display_resource>>
        /\ UNCHANGED <<listener_list, told>> /\ In("wl_client_destroy")
        /\ Top.at > Len(objects.client) + Len(objects.server)
        /\ live' = live \ {Client}
    BY DEF ClientFreed, tables
  <1>2. PICK k, n, m : k = Top.at /\ n = Len(objects.client) /\ m = Len(objects.server)
    OBVIOUS
  <1>3. TypeOK'
    BY <1>1 DEF TypeOK
  <1>4. StackInv(stack)
    BY DEF CallInv
  <1>5. /\ Sweep(stack) = k /\ k \in Nat \ {0}
        /\ \A s : Dying(s) <=> s = Client
    BY <1>1, <1>2, <1>4, ClientDestroyAlone, DyingHas
  <1>6. live = {Client}
    <2>1. Client \in live
      BY <1>5 DEF CallInv, Signals
    <2>2. ASSUME NEW s \in live, s # Client PROVE FALSE
      <3>1. s \in ResourceSet /\ InTable(s) /\ ~(Where(s) < k)
        BY <1>5, <2>2 DEF TypeOK, Signals, TableInv, PlaceInv
      <3>2. Where(s) \in 1 .. n + m
        BY <1>2, <3>1, WhereInTable
      <3>3. n \in Nat /\ m \in Nat /\ k > n + m
        BY <1>1, <1>2, TableTypes
      <3> QED BY <1>5, <3>1, <3>2, <3>3
    <2> QED BY <2>1, <2>2
  <1>7. /\ stack' = <<>> /\ StackInv(stack')
        /\ \A s : ~Dying(s)' /\ ~Doomed(s)'
    BY <1>4, FreedStack, DyingHasNext DEF Doomed
  <1>8. live' = {}
    BY <1>1, <1>6
  <1>9. CallInv'
    BY <1>1, <1>7, <1>8 DEF CallInv
  <1>10. EntryInv' /\ FreeInv'
    BY <1>1 DEF TableInv, EntryInv, FreeInv
  <1>11. PlaceInv' /\ IdInv'
    BY <1>7, <1>8 DEF PlaceInv, IdInv
  <1> QED BY <1>3, <1>6, <1>8, <1>9, <1>10, <1>11 DEF TableInv

-----------------------------------------------------------------------------
\* Steps that change the table

\* r's entry becomes one that holds no resource.
Takes(r) ==
  /\ objects' \in MapSet /\ UNCHANGED <<ids, made>>
  /\ \/ /\ ids[r] < WL_SERVER_ID_START /\ objects'.server = objects.server
        /\ Puts(objects.client, objects'.client, ids[r] + 1, 0)
     \/ /\ ~(ids[r] < WL_SERVER_ID_START) /\ objects'.client = objects.client
        /\ \E x \in Int : /\ x <= 0
                          /\ Puts(objects.server, objects'.server,
                                  ids[r] - WL_SERVER_ID_START + 1, x)

LEMMA TakesEntry ==
  ASSUME TypeOK, EntryInv, NEW r \in ResourceSet, InTable(r), Takes(r)
  PROVE  /\ EntryInv'
         /\ Len(objects'.client) = Len(objects.client)
         /\ Len(objects'.server) = Len(objects.server)
         /\ \A s \in ResourceSet : InTable(s)' <=> InTable(s) /\ s # r
  <1>1. PICK c, d, v, w, S, p : /\ c = objects.client /\ d = objects'.client
                                /\ v = objects.server /\ w = objects'.server
                                /\ S = WL_SERVER_ID_START
                                /\ p = IF ids[r] < S THEN ids[r] + 1 ELSE ids[r] - S + 1
    OBVIOUS
  <1>2. /\ c \in Seq(Int) /\ v \in Seq(Int) /\ Len(c) \in Nat /\ Len(v) \in Nat /\ S \in Nat
        /\ \A s \in ResourceSet : ids[s] \in Nat /\ s \in Int /\ s > 0
    BY <1>1, TableTypes, Constants
  <1>3. CASE ids[r] < S
    <2>1. p = ids[r] + 1 /\ w = v /\ Puts(c, d, p, 0)
      BY <1>1, <1>3 DEF Takes
    <2>2. p \in 1 .. Len(c) /\ c[p] = r
      BY <1>1, <1>3, <2>1 DEF InTable
    <2>3. /\ Len(d) = Len(c) /\ d[p] = 0 /\ Len(c) \in Nat
          /\ \A q \in 1 .. Len(c) : q # p => d[q] = c[q]
      BY <1>2, <2>1, <2>2 DEF Puts
    <2>4. ASSUME NEW s \in ResourceSet
          PROVE  InTable(s)' <=> InTable(s) /\ s # r
      <3>1. CASE ids[s] < S
        <4>1. PICK q : q = ids[s] + 1
          OBVIOUS
        <4>2. InTable(s) <=> q \in 1 .. Len(c) /\ c[q] = s
          BY <1>1, <3>1, <4>1 DEF InTable
        <4>3. InTable(s)' <=> q \in 1 .. Len(d) /\ d[q] = s
          BY <1>1, <3>1, <4>1 DEF InTable, Takes
        <4>4. s # 0 /\ (s = r => q = p)
          BY <1>2, <2>1, <4>1
        <4>5. CASE q = p
          BY <2>2, <2>3, <4>2, <4>3, <4>4, <4>5
        <4>6. CASE q # p
          BY <2>3, <4>2, <4>3, <4>4, <4>6
        <4> QED BY <4>5, <4>6
      <3>2. CASE ~(ids[s] < S)
        <4>1. PICK q : q = ids[s] - S + 1
          OBVIOUS
        <4>2. InTable(s) <=> q \in 1 .. Len(v) /\ v[q] = s
          BY <1>1, <3>2, <4>1 DEF InTable
        <4>3. InTable(s)' <=> q \in 1 .. Len(v) /\ v[q] = s
          BY <1>1, <2>1, <3>2, <4>1 DEF InTable, Takes
        <4> QED BY <1>3, <3>2, <4>2, <4>3
      <3> QED BY <3>1, <3>2
    <2>5. EntryInv'
      <3>1. Len(d) \in 1 .. S /\ d[1] = 0
        <4>1. Len(c) \in 1 .. S /\ c[1] = 0
          BY <1>1 DEF EntryInv
        <4>2. 1 \in 1 .. Len(c)
          BY <1>2, <4>1
        <4> QED BY <2>3, <4>1, <4>2
      <3>2. ASSUME NEW q \in 1 .. Len(d), d[q] # 0
            PROVE  d[q] \in Display .. made /\ ids[d[q]] = q - 1
        <4>1. d[q] = c[q] /\ q \in 1 .. Len(c)
          BY <2>3, <3>2
        <4> QED BY <1>1, <3>2, <4>1 DEF EntryInv
      <3> QED BY <1>1, <2>1, <3>1, <3>2 DEF EntryInv, Takes
    <2> QED BY <1>1, <2>1, <2>3, <2>4, <2>5
  <1>4. CASE ~(ids[r] < S)
    <2>1. PICK x \in Int : p = ids[r] - S + 1 /\ d = c /\ x <= 0 /\ Puts(v, w, p, x)
      BY <1>1, <1>4 DEF Takes
    <2>2. p \in 1 .. Len(v) /\ v[p] = r
      BY <1>1, <1>4, <2>1 DEF InTable
    <2>3. /\ Len(w) = Len(v) /\ w[p] = x
          /\ \A q \in 1 .. Len(v) : q # p => w[q] = v[q]
      BY <1>2, <2>1, <2>2 DEF Puts
    <2>4. ASSUME NEW s \in ResourceSet
          PROVE  InTable(s)' <=> InTable(s) /\ s # r
      <3>1. CASE ids[s] < S
        <4>1. PICK q : q = ids[s] + 1
          OBVIOUS
        <4>2. InTable(s) <=> q \in 1 .. Len(c) /\ c[q] = s
          BY <1>1, <3>1, <4>1 DEF InTable
        <4>3. InTable(s)' <=> q \in 1 .. Len(c) /\ c[q] = s
          BY <1>1, <2>1, <3>1, <4>1 DEF InTable, Takes
        <4> QED BY <1>4, <3>1, <4>2, <4>3
      <3>2. CASE ~(ids[s] < S)
        <4>1. PICK q : q = ids[s] - S + 1
          OBVIOUS
        <4>2. InTable(s) <=> q \in 1 .. Len(v) /\ v[q] = s
          BY <1>1, <3>2, <4>1 DEF InTable
        <4>3. InTable(s)' <=> q \in 1 .. Len(w) /\ w[q] = s
          BY <1>1, <3>2, <4>1 DEF InTable, Takes
        <4>4. s # x /\ (s = r => q = p)
          <5>1. s # x
            BY <1>2, <2>1
          <5> QED BY <2>1, <4>1, <5>1
        <4>5. CASE q = p
          BY <2>2, <2>3, <4>2, <4>3, <4>4, <4>5
        <4>6. CASE q # p
          BY <2>3, <4>2, <4>3, <4>4, <4>6
        <4> QED BY <4>5, <4>6
      <3> QED BY <3>1, <3>2
    <2>5. EntryInv'
      <3>1. ASSUME NEW q \in 1 .. Len(w), w[q] > 0
            PROVE  w[q] \in Display .. made /\ ids[w[q]] = S + q - 1
        <4>1. q # p
          BY <2>1, <2>3, <3>1
        <4>2. w[q] = v[q] /\ q \in 1 .. Len(v)
          BY <2>3, <4>1
        <4> QED BY <1>1, <3>1, <4>2 DEF EntryInv
      <3> QED BY <1>1, <2>1, <3>1 DEF EntryInv, Takes
    <2> QED BY <1>1, <2>1, <2>3, <2>4, <2>5
  <1> QED BY <1>3, <1>4

LEMMA ReturnKeeps ==
  ASSUME TypeOK, CallInv, TableInv, ReturnId
  PROVE  TypeOK' /\ CallInv' /\ TableInv'
  <1>1. /\ UNCHANGED <<made, ids, display_resource, live, listener_list, told>>
        /\ Space(ids[Top.of]) = "client" =>
              /\ freed_ids' = IF display_resource THEN freed_ids \cup {ids[Top.of]} ELSE freed_ids
              /\ objects' = wl_map_insert_at(objects, ids[Top.of], 0)
        /\ Space(ids[Top.of]) # "client" =>
              objects' = wl_map_remove(objects, ids[Top.of]) /\ freed_ids' = freed_ids
    BY DEF ReturnId
  <1>2. PICK r, id, n, m, S : /\ r = Top.of /\ id = ids[Top.of] /\ S = WL_SERVER_ID_START
                              /\ n = Len(objects.client) /\ m = Len(objects.server)
    OBVIOUS
  <1>3. /\ StackInv(stack') /\ Sweep(stack') = Sweep(stack)
        /\ \A s : Dying(s)' <=> Dying(s)
        /\ \A s : Doomed(s)' <=> Doomed(s) /\ s # r
        /\ r \in ResourceSet \ {Display} /\ Doomed(r) /\ ~Dying(r)
    <2>1. StackInv(stack)
      BY DEF CallInv
    <2> QED BY <1>2, <2>1, ReturnStack, DyingHas, DyingHasNext DEF Doomed
  <1>4. InTable(r) /\ r \notin live /\ id = ids[r]
    BY <1>2, <1>3 DEF TableInv, PlaceInv, CallInv
  <1>5. /\ id \in Nat /\ S \in Nat /\ n \in Nat /\ m \in Nat /\ objects \in MapSet
        /\ objects.client[1] = 0 /\ r # 0 /\ EntryInv /\ FreeInv
    BY <1>2, <1>3, TableTypes, Constants DEF TableInv, EntryInv
  <1>6. ASSUME id < S PROVE Takes(r) /\ FreeInv' /\ IdInv' /\ freed_ids' \subseteq Nat
    <2>1. Space(id) = "client"
      BY <1>2, <1>6 DEF Space
    <2>2. /\ objects' = wl_map_insert_at(objects, id, 0)
          /\ freed_ids' = IF display_resource THEN freed_ids \cup {id} ELSE freed_ids
      BY <1>1, <1>2, <2>1
    <2>3. id + 1 \in 1 .. n /\ objects.client[id + 1] = r /\ id # 0
      BY <1>2, <1>4, <1>5, <1>6 DEF InTable
    <2>4. /\ objects' \in MapSet /\ objects'.server = objects.server
          /\ objects'.free_list = objects.free_list
          /\ Puts(objects.client, objects'.client, id + 1, 0)
      <3>1. id <= Len(objects.client)
        BY <1>2, <1>5, <2>3
      <3> QED BY <1>2, <1>5, <1>6, <2>2, <3>1, InsertAtClient
    <2>5. Takes(r)
      BY <1>1, <1>2, <1>4, <1>6, <2>4 DEF Takes
    <2>6. FreeInv'
      BY <1>5, <2>4 DEF FreeInv
    <2>7. IdInv'
      <3>1. CASE Client \in live /\ ~Dying(Client)
        <4>1. /\ display_resource
              /\ freed_ids = {i \in 1 .. n - 1 : objects.client[i + 1] = 0}
          BY <1>2, <3>1 DEF TableInv, IdInv
        <4>2. /\ Len(objects'.client) = n /\ objects'.client[id + 1] = 0
              /\ \A q \in 1 .. n : q # id + 1 => objects'.client[q] = objects.client[q]
          BY <1>2, <1>5, <2>3, <2>4 DEF Puts
        <4>3. id \in 1 .. n - 1
          BY <1>5, <2>3
        <4>4. ASSUME NEW i \in 1 .. n - 1, i # id
              PROVE  objects'.client[i + 1] = objects.client[i + 1]
          <5>1. i + 1 \in 1 .. n /\ i + 1 # id + 1
            BY <1>5, <4>4
          <5> QED BY <4>2, <5>1
        <4>5. freed_ids' = {i \in 1 .. n - 1 : objects'.client[i + 1] = 0}
          BY <2>2, <4>1, <4>2, <4>3, <4>4
        <4> QED BY <1>1, <4>1, <4>2, <4>5 DEF IdInv
      <3>2. CASE ~(Client \in live /\ ~Dying(Client))
        BY <1>1, <1>3, <3>2 DEF IdInv
      <3> QED BY <3>1, <3>2
    <2>8. freed_ids' \subseteq Nat
      BY <1>5, <2>2 DEF TypeOK
    <2> QED BY <2>5, <2>6, <2>7, <2>8
  <1>7. ASSUME ~(id < S) PROVE Takes(r) /\ FreeInv' /\ IdInv' /\ freed_ids' \subseteq Nat
    <2>1. Space(id) # "client"
      BY <1>2, <1>7 DEF Space
    <2>2. objects' = wl_map_remove(objects, id) /\ freed_ids' = freed_ids
      BY <1>1, <1>2, <2>1
    <2>3. PICK p : p = id - S + 1
      OBVIOUS
    <2>4. p \in 1 .. m /\ objects.server[p] = r
      BY <1>2, <1>4, <1>7, <2>3 DEF InTable
    <2>5. id = S + p - 1 /\ r > 0
      <3>1. id = S + p - 1
        BY <1>5, <2>3
      <3> QED BY <1>3, <3>1, TableTypes
    <2>6. PICK ch \in Seq(Nat) : Chained(ch, objects.server, objects.free_list, {})
      BY <1>5 DEF FreeInv
    <2>7. /\ objects' \in MapSet /\ objects'.client = objects.client
          /\ Puts(objects.server, objects'.server, p, objects.free_list)
          /\ objects.free_list <= 0
          /\ \E c \in Seq(Nat) : Chained(c, objects'.server, objects'.free_list, {})
      BY <1>2, <1>5, <2>2, <2>4, <2>5, <2>6, RemoveServer
    <2>8. Takes(r)
      BY <1>1, <1>2, <1>4, <1>7, <2>3, <2>7, TableTypes DEF Takes
    <2>9. FreeInv'
      BY <2>7 DEF FreeInv
    <2>10. IdInv'
      BY <1>1, <1>3, <2>2, <2>7 DEF TableInv, IdInv
    <2>11. freed_ids' \subseteq Nat
      BY <2>2 DEF TypeOK
    <2> QED BY <2>8, <2>9, <2>10, <2>11
  <1>8. Takes(r) /\ FreeInv' /\ IdInv' /\ freed_ids' \subseteq Nat
    BY <1>6, <1>7
  <1>9. /\ EntryInv'
        /\ Len(objects'.client) = n /\ Len(objects'.server) = m
        /\ \A s \in ResourceSet : InTable(s)' <=> InTable(s) /\ s # r
    BY <1>2, <1>3, <1>4, <1>5, <1>8, TakesEntry
  <1>10. \A s : Where(s)' = Where(s)
    BY <1>1, <1>2, <1>9 DEF Where
  <1>11. TypeOK'
    BY <1>1, <1>8 DEF TypeOK, Takes, MapSet
  <1>12. CallInv'
    <2>1. Client \in live
      BY DEF ReturnId, In, CallInv
    <2> QED BY <1>1, <1>3, <1>4, <2>1 DEF CallInv
  <1>13. PlaceInv'
    <2>1. live \ {Client} \subseteq ResourceSet
      BY DEF TypeOK, Signals
    <2> HIDE DEF InTable, Where
    <2> QED BY <1>1, <1>3, <1>4, <1>9, <1>10, <2>1 DEF TableInv, PlaceInv
  <1> QED BY <1>8, <1>9, <1>11, <1>12, <1>13 DEF TableInv

\* The next resource r gets the id at, whose entry, if there is one, holds nothing.
Gives(r, at) ==
  /\ objects' \in MapSet /\ r = made + 1 /\ made' = r /\ r \in ResourceSet
  /\ ids' = [ids EXCEPT ![r] = at] /\ at \in Nat
  /\ \/ /\ at < WL_SERVER_ID_START /\ at # 0 /\ objects'.server = objects.server
        /\ Puts(objects.client, objects'.client, at + 1, r)
        /\ at + 1 <= Len(objects.client) => objects.client[at + 1] = 0
     \/ /\ ~(at < WL_SERVER_ID_START) /\ objects'.client = objects.client
        /\ Puts(objects.server, objects'.server, at - WL_SERVER_ID_START + 1, r)
        /\ at - WL_SERVER_ID_START + 1 <= Len(objects.server) =>
              objects.server[at - WL_SERVER_ID_START + 1] <= 0

LEMMA GivesEntry ==
  ASSUME TypeOK, EntryInv, NEW r, NEW at, Gives(r, at)
  PROVE  /\ EntryInv' /\ InTable(r)' /\ ~InTable(r)
         /\ \A s \in ResourceSet : s # r => (InTable(s)' <=> InTable(s))
  <1>1. PICK c, d, v, w, S, p : /\ c = objects.client /\ d = objects'.client
                                /\ v = objects.server /\ w = objects'.server
                                /\ S = WL_SERVER_ID_START
                                /\ p = IF at < S THEN at + 1 ELSE at - S + 1
    OBVIOUS
  <1>2. /\ c \in Seq(Int) /\ v \in Seq(Int) /\ Len(c) \in Nat /\ Len(v) \in Nat /\ S \in Nat
        /\ \A s \in ResourceSet : ids[s] \in Nat /\ s \in Int /\ s > 0
    BY <1>1, TableTypes, Constants
  <1>3. /\ r \in ResourceSet /\ ids'[r] = at /\ at \in Nat
        /\ \A s \in ResourceSet : s # r => ids'[s] = ids[s]
    BY DEF Gives, TypeOK
  <1>4. /\ r = made + 1 /\ made' = r /\ r \in Int /\ r > 0 /\ r \notin Display .. made
        /\ r \in Display .. made'
        /\ \A x \in Display .. made : x \in Display .. made' /\ x \in ResourceSet /\ x # r /\ x > 0
    BY <1>2, TableTypes, Constants DEF Gives
  <1>5. ~InTable(r)
    <2>1. \A q \in 1 .. Len(objects.client) : objects.client[q] # r
      BY <1>2, <1>3, <1>4 DEF EntryInv
    <2>2. \A q \in 1 .. Len(objects.server) : objects.server[q] # r
      BY <1>2, <1>3, <1>4 DEF EntryInv
    <2> QED BY <2>1, <2>2 DEF InTable
  <1>6. ASSUME at < S
        PROVE  /\ EntryInv' /\ InTable(r)'
               /\ \A s \in ResourceSet : s # r => (InTable(s)' <=> InTable(s))
    <2>1. /\ p = at + 1 /\ w = v /\ Puts(c, d, p, r) /\ at # 0
          /\ p <= Len(c) => c[p] = 0
      BY <1>1, <1>6 DEF Gives
    <2>2. /\ p \in 1 .. Len(c) + 1 /\ p \in 1 .. Len(d) /\ d[p] = r
          /\ Len(d) = IF p = Len(c) + 1 THEN Len(c) + 1 ELSE Len(c)
          /\ \A q \in 1 .. Len(c) : q # p => d[q] = c[q]
          /\ \A q \in 1 .. Len(d) : q # p => q \in 1 .. Len(c)
          /\ 1 .. Len(c) \subseteq 1 .. Len(d)
      <3>1. p \in 1 .. Len(c) + 1 /\ p \in Nat /\ d \in Seq(Int)
        BY <1>2, <2>1 DEF Puts
      <3> QED BY <1>2, <2>1, <3>1, PutsWhole DEF Puts
    <2>3. InTable(r)'
      BY <1>1, <1>3, <1>6, <2>1, <2>2 DEF InTable
    <2>4. ASSUME NEW s \in ResourceSet, s # r
          PROVE  InTable(s)' <=> InTable(s)
      <3>1. CASE ids[s] < S
        <4>1. PICK q : q = ids[s] + 1
          OBVIOUS
        <4>2. InTable(s) <=> q \in 1 .. Len(c) /\ c[q] = s
          BY <1>1, <3>1, <4>1 DEF InTable
        <4>3. InTable(s)' <=> q \in 1 .. Len(d) /\ d[q] = s
          BY <1>1, <1>3, <2>4, <3>1, <4>1 DEF InTable
        <4>4. s # 0
          BY <1>2
        <4>5. CASE q = p
          <5>1. q \in 1 .. Len(c) => c[q] = 0
            BY <1>2, <2>1, <4>5
          <5> QED BY <2>2, <2>4, <4>2, <4>3, <4>4, <4>5, <5>1
        <4>6. CASE q # p
          BY <2>2, <4>2, <4>3, <4>6
        <4> QED BY <4>5, <4>6
      <3>2. CASE ~(ids[s] < S)
        BY <1>1, <1>3, <2>1, <2>4, <3>2 DEF InTable
      <3> QED BY <3>1, <3>2
    <2>5. Len(d) \in 1 .. S /\ d[1] = 0
      <3>1. Len(c) \in 1 .. S /\ c[1] = 0
        BY <1>1 DEF EntryInv
      <3>2. p # 1 /\ p <= S /\ 1 \in 1 .. Len(c)
        BY <1>2, <1>3, <1>6, <2>1, <3>1
      <3>3. d[1] = 0
        BY <2>2, <3>1, <3>2
      <3>4. Len(d) \in 1 .. S
        BY <1>2, <2>2, <3>1, <3>2
      <3> QED BY <3>3, <3>4
    <2>6. ASSUME NEW q \in 1 .. Len(d), d[q] # 0
          PROVE  d[q] \in Display .. made' /\ ids'[d[q]] = q - 1
      <3>1. CASE q = p
        <4>1. q - 1 = at
          BY <1>3, <2>1, <3>1
        <4> QED BY <1>3, <1>4, <2>2, <3>1, <4>1
      <3>2. CASE q # p
        <4>1. d[q] = c[q] /\ q \in 1 .. Len(c)
          BY <2>2, <3>2
        <4>2. d[q] \in Display .. made /\ ids[d[q]] = q - 1
          BY <1>1, <2>6, <4>1 DEF EntryInv
        <4> QED BY <1>3, <1>4, <4>2
      <3> QED BY <3>1, <3>2
    <2>7. ASSUME NEW q \in 1 .. Len(w), w[q] > 0
          PROVE  w[q] \in Display .. made' /\ ids'[w[q]] = S + q - 1
      <3>1. w[q] \in Display .. made /\ ids[w[q]] = S + q - 1
        BY <1>1, <2>1, <2>7 DEF EntryInv
      <3> QED BY <1>3, <1>4, <3>1
    <2>8. EntryInv'
      BY <1>1, <2>5, <2>6, <2>7 DEF EntryInv
    <2> QED BY <2>3, <2>4, <2>8
  <1>7. ASSUME ~(at < S)
        PROVE  /\ EntryInv' /\ InTable(r)'
               /\ \A s \in ResourceSet : s # r => (InTable(s)' <=> InTable(s))
    <2>1. /\ p = at - S + 1 /\ d = c /\ Puts(v, w, p, r)
          /\ p <= Len(v) => v[p] <= 0
      BY <1>1, <1>7 DEF Gives
    <2>2. /\ p \in 1 .. Len(v) + 1 /\ p \in 1 .. Len(w) /\ w[p] = r
          /\ \A q \in 1 .. Len(v) : q # p => w[q] = v[q]
          /\ \A q \in 1 .. Len(w) : q # p => q \in 1 .. Len(v)
          /\ 1 .. Len(v) \subseteq 1 .. Len(w)
      <3>1. p \in 1 .. Len(v) + 1 /\ p \in Nat /\ w \in Seq(Int)
        BY <1>2, <2>1 DEF Puts
      <3> QED BY <1>2, <2>1, <3>1, PutsWhole DEF Puts
    <2>3. InTable(r)'
      BY <1>1, <1>3, <1>7, <2>1, <2>2 DEF InTable
    <2>4. ASSUME NEW s \in ResourceSet, s # r
          PROVE  InTable(s)' <=> InTable(s)
      <3>1. CASE ids[s] < S
        BY <1>1, <1>3, <2>1, <2>4, <3>1 DEF InTable
      <3>2. CASE ~(ids[s] < S)
        <4>1. PICK q : q = ids[s] - S + 1
          OBVIOUS
        <4>2. InTable(s) <=> q \in 1 .. Len(v) /\ v[q] = s
          BY <1>1, <3>2, <4>1 DEF InTable
        <4>3. InTable(s)' <=> q \in 1 .. Len(w) /\ w[q] = s
          BY <1>1, <1>3, <2>4, <3>2, <4>1 DEF InTable
        <4>4. CASE q = p
          <5>1. ~(q \in 1 .. Len(v) /\ v[q] = s)
            <6>1. q \in 1 .. Len(v) => v[q] <= 0
              BY <1>2, <2>1, <4>4
            <6>2. s \in Int /\ s > 0
              BY <1>2
            <6> QED BY <6>1, <6>2
          <5> QED BY <2>2, <2>4, <4>2, <4>3, <4>4, <5>1
        <4>5. CASE q # p
          BY <2>2, <4>2, <4>3, <4>5
        <4> QED BY <4>4, <4>5
      <3> QED BY <3>1, <3>2
    <2>5. ASSUME NEW q \in 1 .. Len(d), d[q] # 0
          PROVE  d[q] \in Display .. made' /\ ids'[d[q]] = q - 1
      <3>1. d[q] \in Display .. made /\ ids[d[q]] = q - 1
        BY <1>1, <2>1, <2>5 DEF EntryInv
      <3> QED BY <1>3, <1>4, <3>1
    <2>6. ASSUME NEW q \in 1 .. Len(w), w[q] > 0
          PROVE  w[q] \in Display .. made' /\ ids'[w[q]] = S + q - 1
      <3>1. CASE q = p
        <4>1. S + q - 1 = at
          BY <1>2, <1>3, <2>1, <3>1
        <4> QED BY <1>3, <1>4, <2>2, <3>1, <4>1
      <3>2. CASE q # p
        <4>1. w[q] = v[q] /\ q \in 1 .. Len(v)
          BY <2>2, <3>2
        <4>2. w[q] \in Display .. made /\ ids[w[q]] = S + q - 1
          BY <1>1, <2>6, <4>1 DEF EntryInv
        <4> QED BY <1>3, <1>4, <4>2
      <3> QED BY <3>1, <3>2
    <2>7. EntryInv'
      BY <1>1, <2>1, <2>5, <2>6 DEF EntryInv
    <2> QED BY <2>3, <2>4, <2>7
  <1> QED BY <1>5, <1>6, <1>7

LEMMA WhereNatural ==
  ASSUME TypeOK, NEW s \in ResourceSet
  PROVE  Where(s) \in Nat /\ ~(Where(s) < 0)
  <1>1. PICK n, i, S : n = Len(objects.client) /\ i = ids[s] /\ S = WL_SERVER_ID_START
    OBVIOUS
  <1>2. n \in Nat /\ i \in Nat /\ S \in Nat
    BY <1>1, TableTypes, Constants
  <1>3. PICK w : w = Where(s)
    OBVIOUS
  <1>4. w = IF i < S THEN i + 1 ELSE n + (i - S + 1)
    BY <1>1, <1>3 DEF Where
  <1>5. w \in Nat /\ ~(w < 0)
    BY <1>2, <1>4
  <1> QED BY <1>3, <1>5

LEMMA CreateGives ==
  ASSUME TypeOK, TableInv, NEW id \in 0 .. WL_SERVER_ID_START - 1, wl_resource_create(id)
  PROVE  \E at \in Nat : /\ Gives(made + 1, at) /\ freed_ids' = freed_ids \ {at} /\ FreeInv'
                         /\ id # 0 => at = id
  <1> DEFINE r   == made + 1
             at  == IF id = 0 THEN NewId(objects) ELSE id
             got == IF id = 0 THEN wl_map_insert_new(objects, 0) ELSE objects
  <1>1. /\ made < Display + MaxResources
        /\ objects' = wl_map_insert_at(got, at, r)
        /\ made' = r /\ ids' = [ids EXCEPT ![r] = at]
        /\ freed_ids' = freed_ids \ {at}
        /\ id # 0 => CanReserve(objects, id)
    BY DEF wl_resource_create
  <1>2. /\ objects \in MapSet /\ r \in ResourceSet /\ r \in Int /\ r > 0
        /\ id \in Nat /\ WL_SERVER_ID_START \in Nat /\ id < WL_SERVER_ID_START
        /\ Len(objects.client) \in Nat /\ objects.side = "server"
    BY <1>1, TableTypes, Constants DEF MapSet
  <1>3. CASE id = 0
    <2>1. PICK ch \in Seq(Nat) : Chained(ch, objects.server, objects.free_list, {})
      BY DEF TableInv, FreeInv
    <2>2. objects' = wl_map_insert_at(wl_map_insert_new(objects, 0), NewId(objects), r)
      BY <1>1, <1>3
    <2>3. PICK a : a = NewId(objects)
      OBVIOUS
    <2>4. /\ objects' \in MapSet /\ objects'.client = objects.client
          /\ a \in Nat /\ a >= WL_SERVER_ID_START
          /\ Puts(objects.server, objects'.server, a - WL_SERVER_ID_START + 1, r)
          /\ a - WL_SERVER_ID_START + 1 <= Len(objects.server) =>
                objects.server[a - WL_SERVER_ID_START + 1] <= 0
          /\ \E c \in Seq(Nat) : Chained(c, objects'.server, objects'.free_list, {})
      BY <1>2, <2>1, <2>2, <2>3, InsertNewServer
    <2>5. ~(a < WL_SERVER_ID_START)
      BY <1>2, <2>4
    <2>6. Gives(r, a)
      BY <1>1, <1>2, <1>3, <2>3, <2>4, <2>5 DEF Gives
    <2>7. FreeInv'
      BY <2>4 DEF FreeInv
    <2> QED BY <1>1, <1>3, <2>3, <2>4, <2>6, <2>7
  <1>4. CASE id # 0
    <2>1. Space(id) = "client" /\ Place(id) = id + 1
      BY <1>2 DEF Space, Place, Base
    <2>2. objects[Space(id)] = objects.client
      BY <2>1
    <2>3. /\ id + 1 <= Len(objects.client) + 1
          /\ id + 1 <= Len(objects.client) => objects.client[id + 1] = 0
      BY <1>1, <1>4, <2>1, <2>2 DEF CanReserve, CanInsertAt
    <2>4. id <= Len(objects.client)
      BY <1>2, <2>3
    <2>5. objects' = wl_map_insert_at(objects, id, r)
      BY <1>1, <1>4
    <2>6. /\ objects' \in MapSet /\ objects'.server = objects.server
          /\ objects'.free_list = objects.free_list
          /\ Puts(objects.client, objects'.client, id + 1, r)
      BY <1>2, <2>4, <2>5, InsertAtClient
    <2>7. Gives(r, id)
      BY <1>1, <1>2, <1>4, <2>3, <2>6 DEF Gives
    <2>8. FreeInv'
      BY <2>6 DEF TableInv, FreeInv
    <2> QED BY <1>1, <1>2, <1>4, <2>7, <2>8
  <1> QED BY <1>3, <1>4

LEMMA CreateKeeps ==
  ASSUME TypeOK, CallInv, TableInv, ~CreatesLate,
         NEW id \in 0 .. WL_SERVER_ID_START - 1, wl_resource_create(id)
  PROVE  TypeOK' /\ CallInv' /\ TableInv'
  <1>1. PICK r, S, n : r = made + 1 /\ S = WL_SERVER_ID_START /\ n = Len(objects.client)
    OBVIOUS
  <1>2. PICK at \in Nat : Gives(r, at) /\ freed_ids' = freed_ids \ {at} /\ FreeInv'
    BY <1>1, CreateGives
  <1>3. /\ Client \in live /\ ~Dying(Client) /\ live' = live \cup {r}
        /\ UNCHANGED <<display_resource, listener_list, told, stack>>
    BY <1>1 DEF wl_resource_create, Compositor
  <1>4. /\ EntryInv' /\ InTable(r)' /\ ~InTable(r)
        /\ \A s \in ResourceSet : s # r => (InTable(s)' <=> InTable(s))
    BY <1>2, GivesEntry DEF TableInv
  <1>5. Sweep(stack) = 0
    BY <1>3, SweepDies, DyingHas DEF CallInv
  <1>6. /\ r \in ResourceSet /\ r # Client /\ made' = r /\ r \notin live
        /\ live' \subseteq {Client} \cup Display .. made'
    <2>1. r \in ResourceSet /\ made' = r /\ r = made + 1
      BY <1>2 DEF Gives
    <2>2. made \in Nat /\ Display \in Nat /\ made >= Display
      BY TableTypes, Constants
    <2>3. r \notin Display .. made /\ Display .. made \subseteq Display .. r /\ r \in Display .. r
      BY <2>1, <2>2
    <2> QED BY <1>3, <2>1, <2>3, TableTypes DEF CallInv
  <1>7. ~Doomed(r) /\ ~Dying(r)
    BY <1>4, <1>6, Constants DEF TableInv, PlaceInv, CallInv, Signals
  <1>8. TypeOK'
    <2>1. live' \subseteq Signals
      BY <1>3, <1>6 DEF TypeOK, Signals
    <2>2. ids' \in [ResourceSet -> Nat] /\ made' \in ResourceSet /\ objects' \in MapSet
      BY <1>2, <1>6 DEF TypeOK, Gives
    <2> QED BY <1>2, <1>3, <2>1, <2>2 DEF TypeOK, MapSet
  <1>9. \A s : (Dying(s)' <=> Dying(s)) /\ (Doomed(s)' <=> Doomed(s))
    BY <1>3 DEF Dying, Doomed
  <1>10. CallInv'
    BY <1>3, <1>6, <1>7, <1>9 DEF CallInv
  <1>11. PlaceInv'
    <2>1. \A s \in ResourceSet : ~(Where(s) < 0) /\ ~(Where(s)' < 0)
      <3>1. ASSUME NEW s \in ResourceSet PROVE ~(Where(s)' < 0)
        <4>1. PICK i, T, w, m : i = ids'[s] /\ T = WL_SERVER_ID_START /\ w = Where(s)'
                                /\ m = Len(objects'.client)
          OBVIOUS
        <4>2. i \in Nat /\ T \in Nat /\ m \in Nat
          BY <1>8, <4>1, Constants DEF TypeOK
        <4>3. w = IF i < T THEN i + 1 ELSE m + (i - T + 1)
          BY <4>1 DEF Where
        <4>4. ~(w < 0)
          BY <4>2, <4>3
        <4> QED BY <4>1, <4>4
      <3> QED BY <3>1, WhereNatural
    <2>2. Sweep(stack') = 0
      BY <1>3, <1>5
    <2>3. live \ {Client} \subseteq ResourceSet
      BY DEF TypeOK, Signals
    <2>4. \A s \in ResourceSet : InTable(s)' => s \in live' \/ Doomed(s)'
      BY <1>3, <1>4, <1>5, <1>9, <2>1 DEF TableInv, PlaceInv
    <2>5. \A s \in live' \ {Client} : s \in ResourceSet /\ InTable(s)'
      BY <1>3, <1>4, <1>6, <2>3 DEF TableInv, PlaceInv
    <2>6. \A s \in ResourceSet : Doomed(s)' => InTable(s)'
      BY <1>4, <1>7, <1>9 DEF TableInv, PlaceInv
    <2>7. \A s \in ResourceSet : Dying(s)' => Doomed(s)'
      BY <1>5, <1>9, <2>1 DEF TableInv, PlaceInv
    <2> HIDE DEF InTable, Where
    <2> QED BY <2>1, <2>2, <2>4, <2>5, <2>6, <2>7 DEF PlaceInv
  <1>12. IdInv'
    <2>1. display_resource' /\ freed_ids = {i \in 1 .. n - 1 : objects.client[i + 1] = 0}
      BY <1>1, <1>3 DEF TableInv, IdInv
    <2>2. n \in 1 .. S /\ S \in Nat
      BY <1>1, Constants DEF TableInv, EntryInv
    <2>3. CASE at < S
      <3>1. Puts(objects.client, objects'.client, at + 1, r) /\ objects.client \in Seq(Int)
        BY <1>1, <1>2, <2>3, TableTypes DEF Gives
      <3>2. /\ at + 1 \in 1 .. n + 1 /\ objects'.client[at + 1] = r
            /\ Len(objects'.client) = IF at + 1 = n + 1 THEN n + 1 ELSE n
            /\ \A q \in 1 .. n : q # at + 1 => objects'.client[q] = objects.client[q]
        BY <1>1, <3>1 DEF Puts
      <3>3. PICK m : m = Len(objects'.client)
        OBVIOUS
      <3>4. m - 1 = IF at = n THEN n ELSE n - 1
        BY <2>2, <3>2, <3>3
      <3>5. ASSUME NEW i \in 1 .. m - 1
            PROVE  i \in freed_ids' <=> objects'.client[i + 1] = 0
        <4>1. CASE i = at
          <5>1. r # 0
            BY <1>6, TableTypes, Constants
          <5> QED BY <1>2, <3>2, <4>1, <5>1
        <4>2. CASE i # at
          <5>1. i \in 1 .. n - 1 /\ i + 1 \in 1 .. n /\ i + 1 # at + 1
            BY <2>2, <3>2, <3>4, <4>2
          <5> QED BY <1>2, <2>1, <3>2, <4>2, <5>1
        <4> QED BY <4>1, <4>2
      <3>6. freed_ids' \subseteq 1 .. m - 1
        BY <1>2, <2>1, <2>2, <3>2, <3>4
      <3> QED BY <2>1, <3>3, <3>5, <3>6 DEF IdInv
    <2>4. CASE ~(at < S)
      <3>1. objects'.client = objects.client
        BY <1>1, <1>2, <2>4 DEF Gives
      <3>2. at \notin 1 .. n - 1
        BY <2>2, <2>4
      <3>3. freed_ids' = freed_ids
        BY <1>2, <2>1, <3>2
      <3> QED BY <1>1, <2>1, <3>1, <3>3 DEF IdInv
    <2> QED BY <2>3, <2>4
  <1> QED BY <1>2, <1>4, <1>8, <1>10, <1>11, <1>12 DEF TableInv

-----------------------------------------------------------------------------
\* The lists of listeners: no listener is in two of them or twice in one.
ListenerInv ==
  /\ \A s \in Signals : IsInjective(listener_list[s])
  /\ \A s, t \in Signals : s # t => Linked(s) \cap Linked(t) = {}
  /\ \A s \in Signals \ ({Client} \cup Display .. made) : listener_list[s] = <<>>

LEMMA LinkedContains ==
  ASSUME TypeOK, NEW s \in Signals
  PROVE  /\ listener_list[s] \in Seq(Listeners)
         /\ \A x : x \in Linked(s) <=> Contains(listener_list[s], x)
  <1>1. listener_list[s] \in Seq(Listeners)
    BY DEF TypeOK
  <1> QED BY <1>1 DEF Linked, Contains

\* Listeners added and removed leave the rest as it is.
LEMMA SameTable ==
  ASSUME CallInv, TableInv, UNCHANGED <<tables, live, stack>>
  PROVE  CallInv' /\ TableInv'
  <1>1. UNCHANGED <<objects, made, ids, display_resource, freed_ids, live, stack>>
    BY DEF tables
  <1>2. \A s : /\ (Dying(s)' <=> Dying(s)) /\ (Doomed(s)' <=> Doomed(s))
               /\ InTable(s)' = InTable(s) /\ Where(s)' = Where(s)
    BY <1>1 DEF Dying, Doomed, InTable, Where
  <1>3. CallInv'
    BY <1>1, <1>2 DEF CallInv
  <1>4. EntryInv' /\ FreeInv'
    BY <1>1 DEF TableInv, EntryInv, FreeInv
  <1>5. PlaceInv'
    BY <1>1, <1>2 DEF TableInv, PlaceInv
  <1>6. IdInv'
    BY <1>1, <1>2 DEF TableInv, IdInv
  <1> QED BY <1>3, <1>4, <1>5, <1>6 DEF TableInv

\* The list of one signal changes.
LEMMA OneList ==
  ASSUME TypeOK, ListenerInv, NEW s \in Signals, s \in {Client} \cup Display .. made,
         NEW list \in Seq(Listeners), IsInjective(list),
         \A x : Contains(list, x) => \A t \in Signals : t # s => x \notin Linked(t),
         listener_list' = [listener_list EXCEPT ![s] = list], made' = made
  PROVE  /\ ListenerInv' /\ listener_list' \in [Signals -> Seq(Listeners)]
         /\ listener_list'[s] = list
         /\ \A t \in Signals : t # s => listener_list'[t] = listener_list[t] /\ Linked(t)' = Linked(t)
         /\ \A x : x \in Linked(s)' <=> Contains(list, x)
  <1>1. /\ listener_list' \in [Signals -> Seq(Listeners)] /\ listener_list'[s] = list
        /\ \A t \in Signals : t # s => listener_list'[t] = listener_list[t]
    BY DEF TypeOK
  <1>2. \A t \in Signals : t # s => Linked(t)' = Linked(t)
    BY <1>1 DEF Linked
  <1>3. \A x : x \in Linked(s)' <=> Contains(list, x)
    BY <1>1 DEF Linked, Contains
  <1>4. \A t \in Signals : IsInjective(listener_list'[t])
    BY <1>1 DEF ListenerInv
  <1>5. \A t, u \in Signals : t # u => Linked(t)' \cap Linked(u)' = {}
    BY <1>2, <1>3 DEF ListenerInv
  <1>6. \A t \in Signals \ ({Client} \cup Display .. made') : listener_list'[t] = <<>>
    BY <1>1 DEF ListenerInv
  <1> QED BY <1>1, <1>2, <1>3, <1>4, <1>5, <1>6 DEF ListenerInv

LEMMA AddList ==
  ASSUME TypeOK, CallInv, ListenerInv, NEW s \in Signals, NEW l \in Listeners,
         wl_resource_add_destroy_listener(s, l)
  PROVE  LET list == Append(listener_list[s], l)
         IN  /\ s \in {Client} \cup Display .. made
             /\ list \in Seq(Listeners) /\ IsInjective(list)
             /\ \A x : Contains(list, x) => \A t \in Signals : t # s => x \notin Linked(t)
             /\ listener_list' = [listener_list EXCEPT ![s] = list] /\ made' = made
             /\ \A x : Contains(list, x) <=> Contains(listener_list[s], x) \/ x = l
             /\ ~Contains(listener_list[s], l)
  <1>1. /\ s \in live /\ \A t \in Signals : l \notin Linked(t)
        /\ listener_list' = [listener_list EXCEPT ![s] = Append(@, l)] /\ made' = made
    BY DEF wl_resource_add_destroy_listener, tables
  <1>2. /\ listener_list[s] \in Seq(Listeners) /\ IsInjective(listener_list[s])
        /\ \A x : x \in Linked(s) <=> Contains(listener_list[s], x)
    BY LinkedContains DEF ListenerInv
  <1>3. ~Contains(listener_list[s], l)
    BY <1>1, <1>2
  <1>4. PICK list : list = Append(listener_list[s], l)
    OBVIOUS
  <1>5. /\ list \in Seq(Listeners) /\ IsInjective(list)
        /\ \A x : Contains(list, x) <=> Contains(listener_list[s], x) \/ x = l
    BY <1>2, <1>3, <1>4, ContainsAppend
  <1>6. \A x : Contains(list, x) => \A t \in Signals : t # s => x \notin Linked(t)
    BY <1>1, <1>2, <1>5 DEF ListenerInv
  <1>7. listener_list' = [listener_list EXCEPT ![s] = list]
    BY <1>1, <1>4 DEF TypeOK
  <1> QED BY <1>1, <1>3, <1>4, <1>5, <1>6, <1>7 DEF CallInv

LEMMA RemoveList ==
  ASSUME TypeOK, CallInv, ListenerInv, NEW s \in Signals, NEW l \in Listeners,
         wl_list_remove(s, l)
  PROVE  LET list == RemoveFirst(listener_list[s], l)
         IN  /\ s \in {Client} \cup Display .. made
             /\ list \in Seq(Listeners) /\ IsInjective(list)
             /\ \A x : Contains(list, x) => \A t \in Signals : t # s => x \notin Linked(t)
             /\ listener_list' = [listener_list EXCEPT ![s] = list] /\ made' = made
             /\ \A x : Contains(list, x) <=> Contains(listener_list[s], x) /\ x # l
             /\ Contains(listener_list[s], l)
  <1>1. /\ s \in live /\ l \in Linked(s)
        /\ listener_list' = [listener_list EXCEPT ![s] = RemoveFirst(@, l)] /\ made' = made
    BY DEF wl_list_remove, tables
  <1>2. /\ listener_list[s] \in Seq(Listeners) /\ IsInjective(listener_list[s])
        /\ \A x : x \in Linked(s) <=> Contains(listener_list[s], x)
    BY LinkedContains DEF ListenerInv
  <1>3. PICK list : list = RemoveFirst(listener_list[s], l)
    OBVIOUS
  <1>4. /\ list \in Seq(Listeners) /\ IsInjective(list)
        /\ \A x : Contains(list, x) <=> Contains(listener_list[s], x) /\ x # l
    BY <1>2, <1>3, ContainsRemove
  <1>5. \A x : Contains(list, x) => \A t \in Signals : t # s => x \notin Linked(t)
    BY <1>2, <1>4 DEF ListenerInv
  <1>6. listener_list' = [listener_list EXCEPT ![s] = list]
    BY <1>1, <1>3 DEF TypeOK
  <1> QED BY <1>1, <1>2, <1>3, <1>4, <1>5, <1>6 DEF CallInv

BaseInv == TypeOK /\ CallInv /\ TableInv /\ ListenerInv

LEMMA ListenersKeep ==
  ASSUME BaseInv, NEW s \in Signals, NEW l \in Listeners,
         wl_resource_add_destroy_listener(s, l) \/ wl_list_remove(s, l)
  PROVE  BaseInv'
  <1>1. /\ UNCHANGED <<tables, live, stack>> /\ told' = [told EXCEPT ![l] = 0]
        /\ TypeOK /\ CallInv /\ TableInv /\ ListenerInv
    BY DEF wl_resource_add_destroy_listener, wl_list_remove, BaseInv
  <1>2. CallInv' /\ TableInv'
    BY <1>1, SameTable
  <1>3. ListenerInv' /\ listener_list' \in [Signals -> Seq(Listeners)]
    <2>1. CASE wl_resource_add_destroy_listener(s, l)
      <3>1. PICK list : list = Append(listener_list[s], l)
        OBVIOUS
      <3>2. /\ s \in {Client} \cup Display .. made
            /\ list \in Seq(Listeners) /\ IsInjective(list)
            /\ \A x : Contains(list, x) => \A t \in Signals : t # s => x \notin Linked(t)
            /\ listener_list' = [listener_list EXCEPT ![s] = list] /\ made' = made
        BY <1>1, <2>1, <3>1, AddList
      <3> QED BY <1>1, <3>2, OneList
    <2>2. CASE wl_list_remove(s, l)
      <3>1. PICK list : list = RemoveFirst(listener_list[s], l)
        OBVIOUS
      <3>2. /\ s \in {Client} \cup Display .. made
            /\ list \in Seq(Listeners) /\ IsInjective(list)
            /\ \A x : Contains(list, x) => \A t \in Signals : t # s => x \notin Linked(t)
            /\ listener_list' = [listener_list EXCEPT ![s] = list] /\ made' = made
        BY <1>1, <2>2, <3>1, RemoveList
      <3> QED BY <1>1, <3>2, OneList
    <2> QED BY <2>1, <2>2
  <1>4. told' \in [Listeners -> Nat]
    BY <1>1 DEF TypeOK
  <1>5. TypeOK'
    BY <1>1, <1>3, <1>4 DEF TypeOK, tables
  <1> QED BY <1>2, <1>3, <1>5 DEF BaseInv

LEMMA SameLists ==
  ASSUME ListenerInv, listener_list' = listener_list, Display .. made \subseteq Display .. made'
  PROVE  ListenerInv'
  <1>1. \A s : Linked(s)' = Linked(s)
    BY DEF Linked
  <1> QED BY <1>1 DEF ListenerInv

LEMMA BaseInit == Init => BaseInv
  <1> SUFFICES ASSUME Init PROVE BaseInv
    OBVIOUS
  <1>1. /\ live = {Client, Display} /\ made = Display
        /\ ids = [r \in ResourceSet |-> IF r = Display THEN 1 ELSE 0]
        /\ display_resource = TRUE /\ freed_ids = {} /\ stack = <<>>
        /\ listener_list = [s \in Signals |-> <<>>] /\ told = [l \in Listeners |-> 0]
    BY DEF Init
  <1>2. /\ Client = 0 /\ Display = 2 /\ Display \in ResourceSet
        /\ ResourceSet \subseteq Signals /\ Client \in Signals
        /\ WL_SERVER_ID_START \in Nat /\ WL_SERVER_ID_START > 1
    BY Constants
  <1>3. PICK m0 : m0 = wl_map_init("server")
    OBVIOUS
  <1>4. /\ m0 \in MapSet /\ m0.client = <<>> /\ m0.server = <<>> /\ m0.free_list = 0
    BY <1>3 DEF wl_map_init, MapSet
  <1>5. PICK m1 : m1 = wl_map_insert_at(m0, 0, 0)
    OBVIOUS
  <1>6. /\ m1 \in MapSet /\ m1.server = m0.server /\ m1.free_list = m0.free_list
        /\ Puts(m0.client, m1.client, 0 + 1, 0)
    <2>1. 0 <= Len(m0.client)
      BY <1>4
    <2> QED BY <1>2, <1>4, <1>5, <2>1, InsertAtClient
  <1>7. Len(m1.client) = 1 /\ m1.client[1] = 0
    BY <1>4, <1>6 DEF Puts
  <1>8. objects = wl_map_insert_at(m1, 1, Display)
    BY <1>3, <1>5 DEF Init
  <1>9. /\ objects \in MapSet /\ objects.server = m1.server /\ objects.free_list = m1.free_list
        /\ Puts(m1.client, objects.client, 1 + 1, Display)
    BY <1>2, <1>6, <1>7, <1>8, InsertAtClient
  <1>10. /\ objects.server = <<>> /\ objects.free_list = 0
         /\ Len(objects.client) = 2 /\ objects.client[1] = 0 /\ objects.client[2] = Display
    BY <1>4, <1>6, <1>7, <1>9 DEF Puts
  <1>11. ids[Display] = 1 /\ ids \in [ResourceSet -> Nat]
    BY <1>1, <1>2
  <1>12. TypeOK
    <2>1. listener_list \in [Signals -> Seq(Listeners)] /\ told \in [Listeners -> Nat]
      BY <1>1
    <2> QED BY <1>1, <1>2, <1>9, <1>11, <2>1 DEF TypeOK, MapSet
  <1>13. \A F, s : ~Has(stack, F, s)
    BY <1>1 DEF Has
  <1>14. CallInv
    <2>1. StackInv(stack)
      BY <1>1 DEF StackInv
    <2>2. Display \in Display .. made
      BY <1>1, <1>2
    <2> QED BY <1>1, <1>2, <1>13, <2>1, <2>2, DyingHas DEF CallInv, Doomed
  <1>15. EntryInv
    BY <1>1, <1>2, <1>10, <1>11 DEF EntryInv
  <1>16. PlaceInv
    <2>1. Sweep(stack) = 0
      BY <1>1 DEF Sweep
    <2>2. InTable(Display) /\ ~(Where(Display) < 0)
      BY <1>2, <1>10, <1>11 DEF InTable, Where
    <2>3. ASSUME NEW r \in ResourceSet, InTable(r), r # Display PROVE FALSE
      <3>1. ids[r] = 0
        BY <1>1, <2>3
      <3>2. objects.client[0 + 1] = r
        BY <1>2, <2>3, <3>1 DEF InTable
      <3>3. r # 0
        BY <1>2, <1>12, TableTypes
      <3> QED BY <1>10, <3>2, <3>3
    <2> QED BY <1>1, <1>13, <2>1, <2>2, <2>3, DyingHas DEF PlaceInv, Doomed
  <1>17. IdInv
    BY <1>1, <1>2, <1>10 DEF IdInv
  <1>18. FreeInv
    <2>1. <<>> \in Seq(Nat) /\ Chained(<<>>, objects.server, objects.free_list, {})
      BY <1>10 DEF Chained
    <2> QED BY <2>1 DEF FreeInv
  <1>19. ListenerInv
    <2>1. \A s \in Signals : listener_list[s] = <<>> /\ Linked(s) = {}
      BY <1>1 DEF Linked
    <2> QED BY <2>1, ContainsEmpty DEF ListenerInv
  <1> QED BY <1>12, <1>14, <1>15, <1>16, <1>17, <1>18, <1>19 DEF BaseInv, TableInv

\* The calls of wl_client_destroy, wl_resource_destroy, destroy_resource and
\* wl_signal_emit in progress, the table of ids and its free list, and the lists of
\* listeners stay together.
LEMMA CallsAndTable == ASSUME ~CreatesLate PROVE Spec => []BaseInv
  <1>1. BaseInv /\ [Next]_vars => BaseInv'
    <2> SUFFICES ASSUME BaseInv, [Next]_vars PROVE BaseInv'
      OBVIOUS
    <2>0. TypeOK /\ CallInv /\ TableInv /\ ListenerInv
      BY DEF BaseInv
    <2>1. CASE Notify \/ EmitReturns \/ CallbackReturns
      <3>1. listener_list' = listener_list /\ made' = made
        BY <2>1 DEF Notify, EmitReturns, CallbackReturns, tables
      <3> QED BY <2>0, <2>1, <3>1, ReturnsKeep, SameLists DEF BaseInv
    <2>2. CASE CallDestroy
      <3>1. listener_list' = listener_list /\ made' = made
        BY <2>2 DEF CallDestroy
      <3> QED BY <2>0, <2>2, <3>1, CallDestroyKeeps, SameLists DEF BaseInv
    <2>3. CASE FreeResource
      <3>1. listener_list' = listener_list /\ made' = made
        BY <2>3 DEF FreeResource, tables
      <3> QED BY <2>0, <2>3, <3>1, FreeKeeps, SameLists DEF BaseInv
    <2>4. CASE ReturnId
      <3>1. listener_list' = listener_list /\ made' = made
        BY <2>4 DEF ReturnId
      <3> QED BY <2>0, <2>4, <3>1, ReturnKeeps, SameLists DEF BaseInv
    <2>5. CASE ForEachEntry
      <3>1. listener_list' = listener_list /\ made' = made
        BY <2>5 DEF ForEachEntry, tables
      <3> QED BY <2>0, <2>5, <3>1, ForEachKeeps, SameLists DEF BaseInv
    <2>6. CASE ClientFreed
      <3>1. listener_list' = listener_list /\ made' = made
        BY <2>6 DEF ClientFreed, tables
      <3> QED BY <2>0, <2>6, <3>1, ClientFreedKeeps, SameLists DEF BaseInv
    <2>7. CASE wl_client_destroy
      <3>1. listener_list' = listener_list /\ made' = made
        BY <2>7 DEF wl_client_destroy, tables
      <3> QED BY <2>0, <2>7, <3>1, ClientDestroyKeeps, SameLists DEF BaseInv
    <2>8. ASSUME NEW r \in ResourceSet, wl_resource_destroy(r) PROVE BaseInv'
      <3>1. listener_list' = listener_list /\ made' = made
        BY <2>8 DEF wl_resource_destroy, tables
      <3> QED BY <2>0, <2>8, <3>1, DestroyKeeps, SameLists DEF BaseInv
    <2>9. ASSUME NEW s \in Signals, NEW l \in Listeners,
                 wl_resource_add_destroy_listener(s, l) \/ wl_list_remove(s, l)
          PROVE  BaseInv'
      BY <2>9, ListenersKeep
    <2>10. ASSUME NEW id \in 0 .. WL_SERVER_ID_START - 1, wl_resource_create(id) PROVE BaseInv'
      <3>1. listener_list' = listener_list /\ made' = made + 1
        BY <2>10 DEF wl_resource_create
      <3>2. Display .. made \subseteq Display .. made'
        BY <2>0, <3>1, TableTypes, Constants
      <3> QED BY <2>0, <2>10, <3>1, <3>2, CreateKeeps, SameLists DEF BaseInv
    <2>11. CASE UNCHANGED vars
      <3>1. UNCHANGED <<tables, live, stack>> /\ UNCHANGED <<listener_list, told>>
        BY <2>11 DEF vars
      <3>2. TypeOK'
        BY <2>0, <3>1 DEF TypeOK, tables
      <3>3. Display .. made \subseteq Display .. made'
        BY <3>1 DEF tables
      <3> QED BY <2>0, <3>1, <3>2, <3>3, SameTable, SameLists DEF BaseInv
    <2> QED BY <2>1, <2>2, <2>3, <2>4, <2>5, <2>6, <2>7, <2>8, <2>9, <2>10, <2>11 DEF Next
  <1> QED BY <1>1, BaseInit, PTL DEF Spec

-----------------------------------------------------------------------------
\* The loops of wl_signal_emit stand at listeners that are linked.
Emits(f)     == f.fn = "wl_signal_emit"
Stands(s, x) == x = NoListener \/ x \in Linked(s)

Standing(st) == \A i \in 1 .. Len(st) : Emits(st[i]) => Stands(st[i].of, st[i].next)

\* While a loop is not in a callback, it has looked up the next listener.
Looked(f) == Emits(f) => Stands(f.of, f.l) /\ f.next = After(f.of, f.l)

EmitInv == Standing(stack) /\ (stack # <<>> => Looked(stack[Len(stack)]))

LEMMA SameLoops ==
  ASSUME listener_list' = listener_list, Standing(stack'),
         stack' # <<>> => Looked(stack'[Len(stack')])
  PROVE  EmitInv'
  <1>1. \A s : Linked(s)' = Linked(s)
    BY DEF Linked
  <1>2. \A s, x : Stands(s, x)' = Stands(s, x)
    BY <1>1 DEF Stands
  <1>3. \A s, x : After(s, x)' = After(s, x)
    BY <1>1 DEF After
  <1> QED BY <1>2, <1>3 DEF EmitInv, Standing, Looked, Emits

\* A list without repetitions leads from each listener to the one after it.
LEMMA AfterIs ==
  ASSUME TypeOK, ListenerInv, NEW s \in Signals, NEW k \in 1 .. Len(listener_list[s])
  PROVE  After(s, listener_list[s][k]) =
            IF k = Len(listener_list[s]) THEN NoListener ELSE listener_list[s][k + 1]
  <1> DEFINE i == CHOOSE j \in 1 .. Len(listener_list[s]) : listener_list[s][j] = listener_list[s][k]
  <1>1. i \in 1 .. Len(listener_list[s]) /\ listener_list[s][i] = listener_list[s][k]
    OBVIOUS
  <1>2. listener_list[s] \in Seq(Listeners) /\ IsInjective(listener_list[s])
    BY DEF TypeOK, ListenerInv
  <1>3. i = k
    <2> HIDE DEF i
    <2> QED BY <1>1, <1>2 DEF IsInjective
  <1>4. listener_list[s][k] \in Listeners /\ listener_list[s][k] \in Linked(s)
    BY <1>2 DEF Linked
  <1>5. listener_list[s][k] # NoListener
    BY <1>4, Constants
  <1> QED BY <1>3, <1>4, <1>5 DEF After

LEMMA AfterStands ==
  ASSUME TypeOK, ListenerInv, NEW s \in Signals, NEW x, Stands(s, x)
  PROVE  Stands(s, After(s, x))
  <1>1. CASE x = NoListener
    BY <1>1 DEF After, Stands
  <1>2. CASE x # NoListener
    <2>1. PICK k \in 1 .. Len(listener_list[s]) : listener_list[s][k] = x
      BY <1>2 DEF Stands, Linked
    <2>2. After(s, x) = IF k = Len(listener_list[s]) THEN NoListener ELSE listener_list[s][k + 1]
      BY <2>1, AfterIs
    <2>3. listener_list[s] \in Seq(Listeners)
      BY DEF TypeOK
    <2>4. k # Len(listener_list[s]) => k + 1 \in 1 .. Len(listener_list[s])
      BY <2>3
    <2> QED BY <2>2, <2>4 DEF Stands, Linked
  <1> QED BY <1>1, <1>2

LEMMA FirstStands ==
  ASSUME TypeOK, ListenerInv, NEW s \in Signals
  PROVE  /\ Looked(EmitFrame(s)) /\ Stands(s, EmitFrame(s).next)
  <1>1. listener_list[s] \in Seq(Listeners)
    BY DEF TypeOK
  <1>2. listener_list[s] # <<>> => 1 \in 1 .. Len(listener_list[s]) /\ Head(listener_list[s]) = listener_list[s][1]
    BY <1>1
  <1>3. Stands(s, First(s))
    BY <1>2 DEF First, Stands, Linked
  <1> QED BY <1>3, NewEmission, AfterStands DEF Looked

LEMMA PushStanding ==
  ASSUME NEW st \in Seq(FrameSet), NEW f \in FrameSet, Standing(st),
         Emits(f) => Stands(f.of, f.next)
  PROVE  Standing(Append(st, f)) /\ Append(st, f)[Len(Append(st, f))] = f
  <1> DEFINE t == Append(st, f)
  <1>1. /\ t \in Seq(FrameSet) /\ t # <<>> /\ Len(t) = Len(st) + 1 /\ Len(st) \in Nat
        /\ \A i \in 1 .. Len(st) : t[i] = st[i]
        /\ t[Len(st) + 1] = f
    BY PushShape
  <1> HIDE DEF t
  <1>2. 1 .. Len(t) = (1 .. Len(st)) \cup {Len(st) + 1}
    BY <1>1
  <1>3. Standing(t)
    BY <1>1, <1>2 DEF Standing
  <1> QED BY <1>1, <1>3 DEF t

LEMMA PopStanding ==
  ASSUME NEW st \in Seq(FrameSet), st # <<>>, Standing(st)
  PROVE  LET t == SubSeq(st, 1, Len(st) - 1)
         IN  /\ Standing(t) /\ t \in Seq(FrameSet) /\ Len(t) = Len(st) - 1
             /\ t # <<>> => /\ t[Len(t)] = st[Len(st) - 1] /\ Len(t) \in 1 .. Len(t)
                            /\ Len(st) # 1
  <1> DEFINE t == SubSeq(st, 1, Len(st) - 1)
  <1>1. /\ t \in Seq(FrameSet) /\ Len(t) = Len(st) - 1 /\ Len(t) \in Nat /\ Len(st) \in Nat
        /\ \A i \in 1 .. Len(t) : t[i] = st[i]
    BY PopShape, StackLen
  <1> HIDE DEF t
  <1>2. 1 .. Len(t) \subseteq 1 .. Len(st)
    BY <1>1
  <1>3. Standing(t)
    BY <1>1, <1>2 DEF Standing
  <1>4. t # <<>> => Len(t) \in 1 .. Len(t) /\ Len(st) # 1
    BY <1>1
  <1> QED BY <1>1, <1>3, <1>4 DEF t

LEMMA ReplaceStanding ==
  ASSUME NEW st \in Seq(FrameSet), st # <<>>, NEW f \in FrameSet, Standing(st),
         Emits(f) => Stands(f.of, f.next)
  PROVE  LET t == [st EXCEPT ![Len(st)] = f]
         IN  Standing(t) /\ t # <<>> /\ t \in Seq(FrameSet) /\ t[Len(t)] = f
  <1> DEFINE t == [st EXCEPT ![Len(st)] = f]
  <1>1. /\ t \in Seq(FrameSet) /\ t # <<>> /\ Len(t) = Len(st) /\ Len(st) \in Nat
        /\ t[Len(st)] = f
        /\ \A i \in 1 .. Len(st) : i # Len(st) => t[i] = st[i]
    BY ReplaceShape
  <1> HIDE DEF t
  <1>2. Standing(t)
    BY <1>1 DEF Standing
  <1> QED BY <1>1, <1>2 DEF t

LEMMA NotifyStands ==
  ASSUME BaseInv, EmitInv, Notify PROVE EmitInv'
  <1>1. /\ stack # <<>> /\ Top.fn = "wl_signal_emit" /\ Top.l \notin {NoListener, Wild}
        /\ stack' = Append(stack, Frame("callback", Top.l, "notify"))
        /\ listener_list' = listener_list
    BY DEF Notify, In
  <1>2. Top \in FrameSet /\ stack \in Seq(FrameSet)
    BY <1>1, TopFrame DEF BaseInv, CallInv
  <1>3. PICK f : f = Frame("callback", Top.l, "notify")
    OBVIOUS
  <1>4. f \in FrameSet /\ f.fn = "callback"
    <2>1. "notify" \in Positions /\ Top.l \in Signals \cup Listeners
      BY <1>1, <1>2 DEF Positions, FrameSet, Cursors
    <2> QED BY <1>3, <2>1, NewFrame
  <1>5. Standing(stack') /\ stack'[Len(stack')] = f
    BY <1>1, <1>2, <1>3, <1>4, PushStanding DEF EmitInv, Emits
  <1> QED BY <1>1, <1>4, <1>5, SameLoops DEF Looked, Emits

\* A call that returns to one that emits nothing
LEMMA PopStands ==
  ASSUME BaseInv, EmitInv, stack # <<>>, stack' = Popped, listener_list' = listener_list,
         Top.fn # "callback"
  PROVE  EmitInv'
  <1>1. /\ stack \in Seq(FrameSet)
        /\ Len(stack) # 1 => Calls(stack[Len(stack) - 1], Top)
    BY TopFrame DEF BaseInv, CallInv
  <1>2. /\ Standing(stack')
        /\ stack' # <<>> => stack'[Len(stack')] = stack[Len(stack) - 1] /\ Len(stack) # 1
    BY <1>1, PopStanding DEF EmitInv, Popped
  <1>3. stack' # <<>> => ~Emits(stack'[Len(stack')])
    BY <1>1, <1>2 DEF Calls, Emits
  <1> QED BY <1>2, <1>3, SameLoops DEF Looked

LEMMA CallbackReturnsStands ==
  ASSUME BaseInv, EmitInv, CallbackReturns PROVE EmitInv'
  <1> DEFINE t == SubSeq(stack, 1, Len(stack) - 1)
  <1>1. /\ stack # <<>> /\ Top.fn = "callback"
        /\ stack' = IF stack[Len(stack) - 1].fn = "wl_signal_emit"
                    THEN [t EXCEPT ![Len(stack) - 1] = Advance(@)] ELSE t
        /\ listener_list' = listener_list
    BY DEF CallbackReturns, In, Popped
  <1>2. /\ stack \in Seq(FrameSet) /\ Len(stack) # 1
        /\ TypeOK /\ ListenerInv /\ StackInv(stack)
    BY <1>1, TopFrame DEF Starts, BaseInv, CallInv
  <1>3. /\ Standing(t) /\ t \in Seq(FrameSet) /\ Len(t) = Len(stack) - 1
        /\ t # <<>> => t[Len(t)] = stack[Len(stack) - 1] /\ Len(t) \in 1 .. Len(t)
    BY <1>1, <1>2, PopStanding DEF EmitInv
  <1>4. t # <<>> /\ Kept(stack[Len(stack) - 1])
    <2>1. Len(stack) - 1 \in 1 .. Len(stack) /\ Len(stack) - 1 # 0
      BY <1>1, <1>2, StackLen, Before
    <2> QED BY <1>2, <1>3, <2>1 DEF StackInv
  <1> HIDE DEF t
  <1>5. CASE stack[Len(stack) - 1].fn # "wl_signal_emit"
    BY <1>1, <1>3, <1>4, <1>5, SameLoops DEF Looked, Emits
  <1>6. CASE stack[Len(stack) - 1].fn = "wl_signal_emit"
    <2>1. PICK g : g = t[Len(t)]
      OBVIOUS
    <2>2. g \in FrameSet /\ Emits(g) /\ g.of \in Signals /\ Stands(g.of, g.next)
      <3>1. g \in FrameSet /\ Emits(g) /\ Stands(g.of, g.next)
        BY <1>3, <1>4, <1>6, <2>1 DEF Emits, Standing
      <3> QED BY <1>3, <1>4, <2>1, <3>1 DEF Kept, Emits
    <2>3. PICK f : f = Advance(g)
      OBVIOUS
    <2>4. /\ f \in FrameSet /\ f.of = g.of /\ f.l = g.next /\ f.next = After(g.of, g.next)
          /\ stack' = [t EXCEPT ![Len(t)] = f]
      <3>1. stack' = [t EXCEPT ![Len(t)] = Advance(t[Len(t)])]
        BY <1>1, <1>3, <1>4, <1>6
      <3> QED BY <1>2, <2>1, <2>2, <2>3, <3>1, Advanced
    <2>5. Looked(f) /\ Stands(f.of, f.next)
      BY <1>2, <2>2, <2>4, AfterStands DEF Looked
    <2>6. Standing(stack') /\ stack'[Len(stack')] = f
      BY <1>3, <1>4, <2>4, <2>5, ReplaceStanding
    <2> QED BY <1>1, <2>5, <2>6, SameLoops
  <1> QED BY <1>5, <1>6

\* A new emission, called by destroy_resource or wl_client_destroy
LEMMA EmissionStands ==
  ASSUME BaseInv, NEW st \in Seq(FrameSet), Standing(st), NEW d \in FrameSet, ~Emits(d),
         NEW s \in Signals, stack' = Append(Append(st, d), EmitFrame(s)),
         listener_list' = listener_list
  PROVE  EmitInv'
  <1>1. PICK u, e : u = Append(st, d) /\ e = EmitFrame(s)
    OBVIOUS
  <1>2. Standing(u) /\ u \in Seq(FrameSet)
    BY <1>1, PushStanding, PushShape
  <1>3. /\ e \in FrameSet /\ Looked(e) /\ Stands(e.of, e.next)
    BY <1>1, FirstStands, NewEmission DEF BaseInv
  <1>4. Standing(stack') /\ stack'[Len(stack')] = e
    BY <1>1, <1>2, <1>3, PushStanding
  <1> QED BY <1>3, <1>4, SameLoops

LEMMA DestroyStands ==
  ASSUME BaseInv, EmitInv, NEW r \in ResourceSet, wl_resource_destroy(r) PROVE EmitInv'
  <1> DEFINE a == Frame("wl_resource_destroy", r, "id")
             d == Frame("destroy_resource", r, "handler")
  <1>1. stack' = stack \o <<a, d, EmitFrame(r)>> /\ listener_list' = listener_list
        /\ stack \in Seq(FrameSet) /\ r \in Signals
    BY DEF wl_resource_destroy, BaseInv, CallInv, StackInv, Signals
  <1>2. /\ a \in FrameSet /\ a.fn = "wl_resource_destroy"
        /\ d \in FrameSet /\ d.fn = "destroy_resource"
    <2>1. r \in Signals \cup Listeners /\ "id" \in Positions /\ "handler" \in Positions
      BY <1>1 DEF Positions
    <2> QED BY <2>1, NewFrame
  <1>3. stack' = Append(Append(Append(stack, a), d), EmitFrame(r))
    BY <1>1, <1>2, NewEmission, Concat3 DEF BaseInv
  <1> HIDE DEF a, d
  <1>4. Standing(Append(stack, a)) /\ Append(stack, a) \in Seq(FrameSet)
    BY <1>1, <1>2, PushStanding, PushShape DEF EmitInv, Emits
  <1>5. ~Emits(d)
    BY <1>2 DEF Emits
  <1> QED BY <1>1, <1>2, <1>3, <1>4, <1>5, EmissionStands

LEMMA ClientDestroyStands ==
  ASSUME BaseInv, wl_client_destroy PROVE EmitInv'
  <1> DEFINE c == Frame("wl_client_destroy", Client, 1)
  <1>1. stack' = <<c, EmitFrame(Client)>> /\ listener_list' = listener_list /\ Client \in Signals
    BY DEF wl_client_destroy, Signals
  <1>2. c \in FrameSet /\ c.fn = "wl_client_destroy"
    <2>1. Client \in Signals \cup Listeners /\ 1 \in Positions
      BY <1>1 DEF Positions
    <2> QED BY <2>1, NewFrame
  <1>3. EmitFrame(Client) \in FrameSet
    BY <1>1, NewEmission DEF BaseInv
  <1>4. stack' = Append(Append(<<>>, c), EmitFrame(Client))
    BY <1>1, <1>2, <1>3
  <1> HIDE DEF c
  <1>5. Standing(<<>>) /\ <<>> \in Seq(FrameSet) /\ ~Emits(c)
    BY <1>2 DEF Standing, Emits
  <1> QED BY <1>1, <1>2, <1>4, <1>5, EmissionStands

LEMMA ForEachStands ==
  ASSUME BaseInv, EmitInv, ForEachEntry,
         Entry(Top.at) > 0 => Entry(Top.at) \in ResourceSet
  PROVE  EmitInv'
  <1> DEFINE r == Entry(Top.at)
             f == [Top EXCEPT !.at = Top.at + 1]
             t == [stack EXCEPT ![Len(stack)] = f]
             d == Frame("destroy_resource", r, "handler")
  <1>1. /\ stack # <<>> /\ stack \in Seq(FrameSet)
        /\ Top \in FrameSet /\ Top.fn = "wl_client_destroy" /\ Top.at \in Nat \ {0}
    BY ClientDestroyAlone DEF ForEachEntry, BaseInv, CallInv
  <1>2. stack' = IF r > 0 THEN t \o <<d, EmitFrame(r)>> ELSE t
    BY DEF ForEachEntry, Going, Top
  <1>3. f \in FrameSet /\ f.fn = "wl_client_destroy"
    <2>1. Top.at + 1 \in Positions
      BY <1>1 DEF Positions
    <2> QED BY <1>1, <2>1, Moved
  <1> HIDE DEF f
  <1>4. Standing(t) /\ t # <<>> /\ t \in Seq(FrameSet) /\ t[Len(t)] = f
    BY <1>1, <1>3, ReplaceStanding DEF EmitInv, Emits
  <1> HIDE DEF t
  <1>5. listener_list' = listener_list
    BY DEF ForEachEntry
  <1>6. CASE ~(r > 0)
    BY <1>2, <1>3, <1>4, <1>5, <1>6, SameLoops DEF Looked, Emits
  <1>7. CASE r > 0
    <2> HIDE DEF r
    <2>1. r \in ResourceSet /\ r \in Signals
      BY <1>7 DEF r, Signals
    <2>2. d \in FrameSet /\ d.fn = "destroy_resource" /\ EmitFrame(r) \in FrameSet
      <3>1. r \in Signals \cup Listeners /\ "handler" \in Positions
        BY <2>1 DEF Positions
      <3> QED BY <2>1, <3>1, NewFrame, NewEmission DEF BaseInv
    <2>3. stack' = Append(Append(t, d), EmitFrame(r))
      BY <1>2, <1>4, <1>7, <2>2, Concat2
    <2> HIDE DEF d
    <2>4. ~Emits(d)
      BY <2>2 DEF Emits
    <2> QED BY <1>4, <1>5, <2>1, <2>2, <2>3, <2>4, EmissionStands
  <1> QED BY <1>6, <1>7

LEMMA CallDestroyStands ==
  ASSUME BaseInv, EmitInv, CallDestroy PROVE EmitInv'
  <1> DEFINE f == [Top EXCEPT !.at = "free"]
             t == [stack EXCEPT ![Len(stack)] = f]
             g == Frame("callback", Top.of, "destroy")
  <1>1. /\ stack # <<>> /\ Top.fn = "destroy_resource"
        /\ stack' = IF Top.of = Display THEN t ELSE Append(t, g)
        /\ listener_list' = listener_list
    BY DEF CallDestroy, In, Going, Top
  <1>2. stack \in Seq(FrameSet) /\ Top \in FrameSet /\ Kept(Top)
    BY <1>1, TopFrame DEF BaseInv, CallInv
  <1>3. f \in FrameSet /\ f.fn = "destroy_resource"
    BY <1>1, <1>2, Moved DEF Positions
  <1> HIDE DEF f
  <1>4. Standing(t) /\ t # <<>> /\ t \in Seq(FrameSet) /\ t[Len(t)] = f
    BY <1>1, <1>2, <1>3, ReplaceStanding DEF EmitInv, Emits
  <1>5. g \in FrameSet /\ g.fn = "callback"
    <2>1. "destroy" \in Positions /\ Top.of \in Signals \cup Listeners
      BY <1>1, <1>2 DEF Positions, Kept, Signals
    <2> QED BY <2>1, NewFrame
  <1> HIDE DEF t, g
  <1>6. Standing(Append(t, g)) /\ Append(t, g)[Len(Append(t, g))] = g
    BY <1>4, <1>5, PushStanding DEF Emits
  <1>7. /\ Standing(stack')
        /\ stack'[Len(stack')].fn \in {"destroy_resource", "callback"}
    BY <1>1, <1>3, <1>4, <1>5, <1>6
  <1> QED BY <1>1, <1>7, SameLoops DEF Looked, Emits

\* What is linked stays linked, but for the listener removed, at which no loop stands.
LEMMA ListsStand ==
  ASSUME BaseInv, EmitInv, NEW s \in Signals, NEW l \in Listeners,
         \/ wl_resource_add_destroy_listener(s, l)
         \/ ~RemovesNext /\ wl_list_remove(s, l)
  PROVE  EmitInv'
  <1>1. /\ stack' = stack /\ (stack # <<>> => Top.fn = "callback")
        /\ TypeOK /\ CallInv /\ ListenerInv
    BY DEF wl_resource_add_destroy_listener, wl_list_remove, Compositor, In, BaseInv
  <1>2. ASSUME NEW t \in Signals, NEW x \in Linked(t), x # l
        PROVE  x \in Linked(t)'
    <2>1. CASE wl_resource_add_destroy_listener(s, l)
      <3>1. PICK list : list = Append(listener_list[s], l)
        OBVIOUS
      <3>2. /\ s \in {Client} \cup Display .. made
            /\ list \in Seq(Listeners) /\ IsInjective(list)
            /\ \A y : Contains(list, y) => \A u \in Signals : u # s => y \notin Linked(u)
            /\ listener_list' = [listener_list EXCEPT ![s] = list] /\ made' = made
            /\ \A y : Contains(list, y) <=> Contains(listener_list[s], y) \/ y = l
        BY <1>1, <2>1, <3>1, AddList
      <3>3. /\ \A u \in Signals : u # s => Linked(u)' = Linked(u)
            /\ \A y : y \in Linked(s)' <=> Contains(list, y)
        BY <1>1, <3>2, OneList
      <3> QED BY <1>1, <1>2, <3>2, <3>3, LinkedContains
    <2>2. CASE wl_list_remove(s, l)
      <3>1. PICK list : list = RemoveFirst(listener_list[s], l)
        OBVIOUS
      <3>2. /\ s \in {Client} \cup Display .. made
            /\ list \in Seq(Listeners) /\ IsInjective(list)
            /\ \A y : Contains(list, y) => \A u \in Signals : u # s => y \notin Linked(u)
            /\ listener_list' = [listener_list EXCEPT ![s] = list] /\ made' = made
            /\ \A y : Contains(list, y) <=> Contains(listener_list[s], y) /\ y # l
        BY <1>1, <2>2, <3>1, RemoveList
      <3>3. /\ \A u \in Signals : u # s => Linked(u)' = Linked(u)
            /\ \A y : y \in Linked(s)' <=> Contains(list, y)
        BY <1>1, <3>2, OneList
      <3> QED BY <1>1, <1>2, <3>2, <3>3, LinkedContains
    <2> QED BY <2>1, <2>2
  <1>3. ASSUME NEW i \in 1 .. Len(stack), Emits(stack[i])
        PROVE  Stands(stack[i].of, stack[i].next)'
    <2>1. stack[i].of \in Signals /\ Stands(stack[i].of, stack[i].next)
      BY <1>1, <1>3 DEF CallInv, StackInv, Kept, Emits, EmitInv, Standing
    <2>2. CASE wl_resource_add_destroy_listener(s, l)
      <3>1. CASE stack[i].next = l
        <4>1. l \notin Linked(stack[i].of) /\ l # NoListener
          BY <2>1, <2>2, Constants DEF wl_resource_add_destroy_listener
        <4> QED BY <2>1, <3>1, <4>1 DEF Stands
      <3>2. CASE stack[i].next # l
        BY <1>1, <1>2, <2>1, <3>2 DEF Stands
      <3> QED BY <3>1, <3>2
    <2>3. CASE ~RemovesNext /\ wl_list_remove(s, l)
      <3>1. stack[i].next # l
        BY <2>3 DEF wl_list_remove
      <3> QED BY <1>1, <1>2, <2>1, <3>1 DEF Stands
    <2> QED BY <2>2, <2>3
  <1>4. stack # <<>> => ~Emits(stack[Len(stack)])
    BY <1>1 DEF Emits, Top
  <1>5. Standing(stack)'
    BY <1>1, <1>3 DEF Standing, Emits
  <1>6. stack' # <<>> => Looked(stack[Len(stack)])'
    BY <1>1, <1>4 DEF Looked, Emits
  <1> QED BY <1>1, <1>5, <1>6 DEF EmitInv

LoopInv == BaseInv /\ EmitInv

LEMMA LoopStep ==
  ASSUME ~RemovesNext, ~CreatesLate, LoopInv, BaseInv', [Next]_vars
  PROVE  LoopInv'
  <1>0. BaseInv /\ EmitInv /\ TypeOK /\ CallInv /\ TableInv /\ ListenerInv
    BY DEF LoopInv, BaseInv
  <1>1. CASE Notify
    BY <1>0, <1>1, NotifyStands DEF LoopInv
  <1>2. CASE EmitReturns
    <2>1. stack # <<>> /\ Top.fn # "callback" /\ stack' = Popped /\ listener_list' = listener_list
      BY <1>2 DEF EmitReturns, In
    <2> QED BY <1>0, <2>1, PopStands DEF LoopInv
  <1>3. CASE CallbackReturns
    BY <1>0, <1>3, CallbackReturnsStands DEF LoopInv
  <1>4. CASE CallDestroy
    BY <1>0, <1>4, CallDestroyStands DEF LoopInv
  <1>5. CASE FreeResource
    <2>1. stack # <<>> /\ Top.fn # "callback" /\ stack' = Popped /\ listener_list' = listener_list
      BY <1>5 DEF FreeResource, In
    <2> QED BY <1>0, <2>1, PopStands DEF LoopInv
  <1>6. CASE ReturnId
    <2>1. stack # <<>> /\ Top.fn # "callback" /\ stack' = Popped /\ listener_list' = listener_list
      BY <1>6 DEF ReturnId, In
    <2> QED BY <1>0, <2>1, PopStands DEF LoopInv
  <1>7. CASE ForEachEntry
    <2>1. Entry(Top.at) > 0 => Entry(Top.at) \in ResourceSet
      BY <1>0, <1>7, FoundEntry
    <2> QED BY <1>0, <1>7, <2>1, ForEachStands DEF LoopInv
  <1>8. CASE ClientFreed
    <2>1. stack # <<>> /\ Top.fn # "callback" /\ stack' = Popped /\ listener_list' = listener_list
      BY <1>8 DEF ClientFreed, In
    <2> QED BY <1>0, <2>1, PopStands DEF LoopInv
  <1>9. CASE wl_client_destroy
    BY <1>0, <1>9, ClientDestroyStands DEF LoopInv
  <1>10. ASSUME NEW r \in ResourceSet, wl_resource_destroy(r) PROVE LoopInv'
    BY <1>0, <1>10, DestroyStands DEF LoopInv
  <1>11. ASSUME NEW s \in Signals, NEW l \in Listeners,
                wl_resource_add_destroy_listener(s, l) \/ wl_list_remove(s, l)
         PROVE  LoopInv'
    BY <1>0, <1>11, ListsStand DEF LoopInv
  <1>12. ASSUME NEW id \in 0 .. WL_SERVER_ID_START - 1, wl_resource_create(id) PROVE LoopInv'
    <2>1. stack' = stack /\ listener_list' = listener_list
      BY <1>12 DEF wl_resource_create
    <2> QED BY <1>0, <2>1, SameLoops DEF LoopInv, EmitInv
  <1>13. CASE UNCHANGED vars
    <2>1. stack' = stack /\ listener_list' = listener_list
      BY <1>13 DEF vars
    <2> QED BY <1>0, <2>1, SameLoops DEF LoopInv, EmitInv
  <1> QED BY <1>1, <1>2, <1>3, <1>4, <1>5, <1>6, <1>7, <1>8, <1>9, <1>10, <1>11, <1>12, <1>13
           DEF Next

\* So do the loops of wl_signal_emit and the lists they go through, when no callback
\* removes the listener that a loop has looked up.
LEMMA EmissionsStand == ASSUME ~RemovesNext, ~CreatesLate PROVE Spec => []LoopInv
  <1>1. Init => LoopInv
    <2>1. Init => EmitInv
      BY DEF Init, EmitInv, Standing
    <2> QED BY <2>1, BaseInit DEF LoopInv
  <1>2. LoopInv /\ BaseInv' /\ [Next]_vars => LoopInv'
    BY LoopStep
  <1>3. Spec => []BaseInv
    BY CallsAndTable
  <1> QED BY <1>1, <1>2, <1>3, PTL DEF Spec

\* No call in progress works on what was freed or unlinked.
LEMMA LoopsDangleNot == LoopInv => NoDangling
  <1> SUFFICES ASSUME LoopInv PROVE NoDangling
    OBVIOUS
  <1>0. TypeOK /\ CallInv /\ TableInv /\ EmitInv /\ StackInv(stack)
    BY DEF LoopInv, BaseInv, CallInv
  <1>1. ASSUME NEW i \in 1 .. Len(stack), stack[i].fn \in Destroyers
        PROVE  stack[i].of \in live
    <2>1. Dying(stack[i].of)
      BY <1>1 DEF Dying, Destroyers
    <2>2. stack[i].of \in Signals
      BY <1>0, <1>1, Constants DEF StackInv, Kept, Destroyers
    <2> QED BY <1>0, <2>1, <2>2 DEF CallInv
  <1>2. ASSUME NEW i \in 1 .. Len(stack), Emits(stack[i])
        PROVE  stack[i].of \in live /\ Stands(stack[i].of, stack[i].next)
    <2>1. /\ stack \in Seq(FrameSet) /\ stack # <<>> /\ Len(stack) \in Nat
          /\ i # 1
      BY <1>0, <1>2 DEF StackInv, Starts, Emits
    <2>2. i - 1 \in 1 .. Len(stack) - 1 /\ i - 1 \in 1 .. Len(stack) /\ i - 1 + 1 = i
      BY <2>1
    <2>3. Calls(stack[i - 1], stack[i]) /\ Kept(stack[i - 1])
      BY <1>0, <2>2 DEF StackInv
    <2>4. stack[i - 1].fn \in Destroyers /\ stack[i - 1].of = stack[i].of
      BY <1>2, <2>3 DEF Calls, Kept, Emits, Destroyers
    <2> QED BY <1>0, <1>1, <1>2, <2>2, <2>4 DEF EmitInv, Standing
  <1>3. In("wl_signal_emit") => Stands(Top.of, Top.l)
    BY <1>0 DEF In, Top, EmitInv, Looked, Emits
  <1>4. In("wl_client_destroy") =>
          \A k \in Top.at .. Len(objects.client) + Len(objects.server) :
             Entry(k) > 0 => Entry(k) \in live
    <2> SUFFICES ASSUME In("wl_client_destroy"),
                        NEW k \in Top.at .. Len(objects.client) + Len(objects.server),
                        Entry(k) > 0
                 PROVE  Entry(k) \in live
      OBVIOUS
    <2>1. /\ Sweep(stack) = Top.at /\ Top.at \in Nat \ {0} /\ Dying(Client)
          /\ \A s : ~Doomed(s)
      BY <1>0, ClientDestroyAlone, DyingHas DEF Doomed
    <2>2. PICK r, n, m, a : /\ r = Entry(k) /\ n = Len(objects.client) /\ m = Len(objects.server)
                            /\ a = Top.at
      OBVIOUS
    <2>3. k \in 1 .. n + m /\ ~(k < a)
      <3>1. a \in Nat \ {0} /\ n \in Nat /\ m \in Nat /\ k \in a .. n + m
        BY <1>0, <2>1, <2>2, TableTypes
      <3> QED BY <3>1
    <2>4. r \in ResourceSet /\ InTable(r) /\ Where(r) = k
      BY <1>0, <2>2, <2>3, EntryInTable DEF TableInv
    <2>5. Client \in live
      BY <1>0, <2>1 DEF CallInv, Signals
    <2> QED BY <1>0, <2>1, <2>2, <2>3, <2>4, <2>5 DEF TableInv, PlaceInv
  <1> QED BY <1>0, <1>1, <1>2, <1>3, <1>4 DEF NoDangling, Destroyers, Emits, Stands, CallInv

\* Nothing that has been freed or unlinked is used by wl_signal_emit,
\* destroy_resource or the iteration of wl_client_destroy, however they are nested:
\* with ~RemovesNext no callback removes the listener that wl_list_for_each_safe has
\* looked up, with ~CreatesLate none makes a resource behind the iteration.
THEOREM NothingDangles == ASSUME ~RemovesNext, ~CreatesLate PROVE Spec => []NoDangling
  BY EmissionsStand, LoopsDangleNot, PTL

-----------------------------------------------------------------------------
\* The table agrees with the resources.

LEMMA LookupIs ==
  ASSUME TypeOK, EntryInv, NEW r \in ResourceSet, InTable(r)
  PROVE  wl_map_lookup(objects, ids[r]) = r
  <1>1. PICK id, S : id = ids[r] /\ S = WL_SERVER_ID_START
    OBVIOUS
  <1>2. id \in Nat /\ S \in Nat /\ r \in Int /\ r > 0
    BY <1>1, TableTypes, Constants
  <1>3. CASE id < S
    <2>1. Space(id) = "client" /\ Place(id) = id + 1
      BY <1>1, <1>2, <1>3 DEF Space, Place, Base
    <2>2. id + 1 \in 1 .. Len(objects.client) /\ objects.client[id + 1] = r
      BY <1>1, <1>3 DEF InTable
    <2>3. objects[Space(id)] = objects.client
      BY <2>1
    <2>4. ~IsFree(r)
      BY <1>2 DEF IsFree
    <2> QED BY <1>1, <2>1, <2>2, <2>3, <2>4 DEF wl_map_lookup
  <1>4. CASE ~(id < S)
    <2>1. Space(id) = "server" /\ Place(id) = id - S + 1
      BY <1>1, <1>2, <1>4 DEF Space, Place, Base
    <2>2. /\ id - S + 1 \in 1 .. Len(objects.server)
          /\ objects.server[id - S + 1] = r
      BY <1>1, <1>4 DEF InTable
    <2>3. objects[Space(id)] = objects.server
      BY <2>1
    <2>4. ~IsFree(r)
      BY <1>2 DEF IsFree
    <2> QED BY <1>1, <2>1, <2>2, <2>3, <2>4 DEF wl_map_lookup
  <1> QED BY <1>3, <1>4

LEMMA ClientLookup ==
  ASSUME TypeOK, EntryInv, NEW id \in Nat, id + 1 <= Len(objects.client)
  PROVE  wl_map_lookup(objects, id) = objects.client[id + 1]
  <1>1. PICK n, S : n = Len(objects.client) /\ S = WL_SERVER_ID_START
    OBVIOUS
  <1>2. n \in 1 .. S /\ S \in Nat
    BY <1>1, Constants DEF EntryInv
  <1>3. id < S /\ id + 1 \in 1 .. n
    BY <1>1, <1>2
  <1>4. Space(id) = "client" /\ Place(id) = id + 1
    BY <1>1, <1>3 DEF Space, Place, Base
  <1>5. objects[Space(id)] = objects.client
    BY <1>4
  <1>6. PICK x : x = objects.client[id + 1]
    OBVIOUS
  <1>7. x = 0 \/ x \in Display .. made
    BY <1>1, <1>3, <1>6 DEF EntryInv
  <1>8. ~IsFree(x)
    BY <1>7, Constants, TableTypes DEF IsFree
  <1> QED BY <1>1, <1>3, <1>4, <1>5, <1>6, <1>8 DEF wl_map_lookup

LEMMA BaseAgrees == BaseInv => TableAgrees
  <1> SUFFICES ASSUME BaseInv, Client \in live, ~Dying(Client)
               PROVE  LET dead == {stack[i].of : i \in {k \in 1 .. Len(stack) :
                                           stack[k].fn = "wl_resource_destroy"}}
                          Used(id) == wl_map_lookup(objects, id) \in (live \cup dead) \ {Client}
                      IN  /\ \A r \in live \ {Client} : wl_map_lookup(objects, ids[r]) = r
                          /\ \A id \in 1 .. Len(objects.client) - 1 : Used(id) # (id \in freed_ids)
                          /\ \A id \in freed_ids : wl_map_lookup(objects, id) = 0
                          /\ FreeListSound(objects, {})
    BY DEF TableAgrees
  <1> DEFINE dead == {stack[i].of : i \in {k \in 1 .. Len(stack) :
                                           stack[k].fn = "wl_resource_destroy"}}
             Used(id) == wl_map_lookup(objects, id) \in (live \cup dead) \ {Client}
  <1>1. /\ TypeOK /\ CallInv /\ EntryInv /\ PlaceInv /\ FreeInv
        /\ freed_ids = {id \in 1 .. Len(objects.client) - 1 : objects.client[id + 1] = 0}
    BY DEF BaseInv, TableInv, IdInv
  <1>2. \A r : r \in dead <=> Doomed(r)
    BY DEF Doomed, Has, Returners
  <1> HIDE DEF dead
  <1>3. Sweep(stack) = 0
    BY <1>1, SweepDies, DyingHas DEF CallInv
  <1>4. ASSUME NEW r \in live \ {Client}
        PROVE  wl_map_lookup(objects, ids[r]) = r
    <2>1. r \in ResourceSet /\ InTable(r)
      BY <1>1 DEF TypeOK, Signals, PlaceInv
    <2> QED BY <1>1, <2>1, LookupIs
  <1>5. ASSUME NEW id \in 1 .. Len(objects.client) - 1
        PROVE  /\ wl_map_lookup(objects, id) = objects.client[id + 1]
               /\ Used(id) <=> objects.client[id + 1] # 0
    <2>1. PICK n : n = Len(objects.client)
      OBVIOUS
    <2>2. n \in Nat /\ id \in 1 .. n - 1
      BY <1>1, <2>1, TableTypes
    <2>3. id \in Nat /\ id + 1 <= n /\ id + 1 \in 1 .. n
      BY <2>2
    <2>4. PICK x : x = objects.client[id + 1]
      OBVIOUS
    <2>5. wl_map_lookup(objects, id) = x
      BY <1>1, <2>1, <2>3, <2>4, ClientLookup
    <2>6. ASSUME x # 0 PROVE x \in (live \cup dead) \ {Client}
      <3>1. x \in Display .. made /\ ids[x] = id + 1 - 1
        BY <1>1, <2>1, <2>3, <2>4, <2>6 DEF EntryInv
      <3>2. x \in ResourceSet /\ ids[x] = id /\ x # Client
        BY <1>1, <2>3, <3>1, TableTypes, Constants
      <3>3. InTable(x)
        <4>1. n \in 1 .. WL_SERVER_ID_START
          BY <1>1, <2>1 DEF EntryInv
        <4>2. id < WL_SERVER_ID_START
          BY <2>3, <4>1, Constants
        <4> QED BY <2>1, <2>3, <2>4, <3>2, <4>2 DEF InTable
      <3>4. ~(Where(x) < Sweep(stack))
        BY <1>1, <1>3, <3>2, WhereNatural
      <3> QED BY <1>1, <1>2, <3>2, <3>3, <3>4 DEF PlaceInv
    <2>7. x = 0 => x \notin (live \cup dead) \ {Client}
      BY Constants
    <2> QED BY <2>4, <2>5, <2>6, <2>7
  <1>6. \A id \in 1 .. Len(objects.client) - 1 : Used(id) # (id \in freed_ids)
    BY <1>1, <1>5
  <1>7. \A id \in freed_ids : wl_map_lookup(objects, id) = 0
    BY <1>1, <1>5
  <1>8. FreeListSound(objects, {})
    <2>1. PICK ch \in Seq(Nat) : Chained(ch, objects.server, objects.free_list, {})
      BY <1>1 DEF FreeInv
    <2>2. objects \in MapSet /\ "server" \in Sides
      BY <1>1, TableTypes DEF Sides
    <2>3. objects \in MapOf("server") /\ FreePlaces(objects, {})
      BY <2>1, <2>2 DEF MapOf, MapSet, FreePlaces
    <2> QED BY <2>2, <2>3, MapSound
  <1> QED BY <1>4, <1>6, <1>7, <1>8 DEF dead

\* Until its client is destroyed, client->objects has exactly the live resources at
\* their ids, delete_id has been sent for exactly the ids given up, and the free list
\* of the server's ids has exactly the free entries.
THEOREM TableSound == ASSUME ~CreatesLate PROVE Spec => []TableAgrees
  BY CallsAndTable, BaseAgrees, PTL

-----------------------------------------------------------------------------
\* An emission has told the listeners it has come past, once each, and no other.
Nth(s, k) == IF k = Len(listener_list[s]) + 1 THEN NoListener ELSE listener_list[s][k]

ToldUpTo(s, k) ==
  \A j \in 1 .. Len(listener_list[s]) :
     told[listener_list[s][j]] = IF j < k THEN 1 ELSE 0

\* The next listener to be told of s is x.
ComesTo(s, x) ==
  \E k \in 1 .. Len(listener_list[s]) + 1 : x = Nth(s, k) /\ ToldUpTo(s, k)

AllTold(s)  == \A l \in Linked(s) : told[l] = 1
NoneTold(s) == \A l \in Linked(s) : told[l] = 0

Emitters    == {"wl_signal_emit"}
Emitting(s) == Has(stack, Emitters, s)

\* The emissions that are in a callback, and the one that is not
Waiting(st) == \A i \in 1 .. Len(st) : Emits(st[i]) => ComesTo(st[i].of, st[i].next)
Outer(st)   == \A i \in 1 .. Len(st) :
                  Emits(st[i]) /\ i # Len(st) => ComesTo(st[i].of, st[i].next)
Inner(f)    == Emits(f) => ComesTo(f.of, f.l)

\* What holds of s apart from emissions: they come first in its destruction.
Settled(s) ==
  /\ s \notin live => AllTold(s)
  /\ s \in live /\ ~Dying(s) => NoneTold(s)
  /\ Dying(s) /\ ~Emitting(s) => AllTold(s)

ToldInv ==
  /\ told \in [Listeners -> {0, 1}]
  /\ Outer(stack)
  /\ stack # <<>> => Inner(stack[Len(stack)])
  /\ \A s \in Signals : Settled(s)

\* No object is destroyed by two calls, so it has one emission at most.
LEMMA OneDestroyer ==
  ASSUME NEW st, StackInv(st), NEW i \in 1 .. Len(st), NEW j \in 1 .. Len(st),
         st[i].fn \in Destroyers, st[j].fn \in Destroyers, st[i].of = st[j].of
  PROVE  i = j
  <1>0. st \in Seq(FrameSet) /\ Len(st) \in Nat /\ i \in Nat /\ j \in Nat
    BY DEF StackInv
  <1>1. ASSUME NEW a \in 1 .. Len(st), NEW b \in 1 .. Len(st), a < b,
               st[a].fn \in Destroyers, st[b].fn \in Destroyers, st[a].of = st[b].of
        PROVE  FALSE
    <2>1. /\ Kept(st[a]) /\ Kept(st[b])
          /\ a \in 1 .. b - 1 /\ b - 1 \in 1 .. Len(st) - 1 /\ b - 1 + 1 = b
      BY <1>0, <1>1 DEF StackInv
    <2>2. Apart(st[a], st[b]) /\ Calls(st[b - 1], st[b])
      BY <2>1 DEF StackInv
    <2>3. st[b].fn = "destroy_resource"
      BY <1>1, <2>2 DEF Calls, Destroyers
    <2>4. st[a].fn = "wl_client_destroy"
      BY <1>1, <2>2, <2>3 DEF Apart, Destroyers
    <2>5. st[a].of = Client /\ st[b].of \in ResourceSet
      BY <2>1, <2>3, <2>4 DEF Kept
    <2> QED BY <1>1, <2>5, Constants
  <1>2. ~(i < j) /\ ~(j < i)
    BY <1>1
  <1> QED BY <1>0, <1>2

LEMMA EmitCaller ==
  ASSUME NEW st, StackInv(st), NEW i \in 1 .. Len(st), Emits(st[i])
  PROVE  /\ i - 1 \in 1 .. Len(st) /\ i \in Nat /\ Len(st) \in Nat
         /\ st[i - 1].fn \in Destroyers /\ st[i - 1].of = st[i].of
  <1>1. st \in Seq(FrameSet) /\ Len(st) \in Nat /\ i \in Nat /\ st # <<>>
    BY DEF StackInv
  <1>2. i # 1
    <2>1. Starts(st[1])
      BY <1>1 DEF StackInv
    <2> QED BY <2>1 DEF Starts, Emits
  <1>3. i - 1 \in 1 .. Len(st) - 1 /\ i - 1 + 1 = i /\ i - 1 \in 1 .. Len(st)
    BY <1>1, <1>2
  <1>4. Calls(st[i - 1], st[i]) /\ Kept(st[i - 1])
    BY <1>3 DEF StackInv
  <1> QED BY <1>1, <1>3, <1>4 DEF Calls, Kept, Emits, Destroyers

LEMMA OneEmission ==
  ASSUME NEW st, StackInv(st), NEW i \in 1 .. Len(st), NEW j \in 1 .. Len(st),
         Emits(st[i]), Emits(st[j]), st[i].of = st[j].of
  PROVE  i = j
  <1>1. /\ i - 1 \in 1 .. Len(st) /\ i \in Nat
        /\ st[i - 1].fn \in Destroyers /\ st[i - 1].of = st[i].of
    BY EmitCaller
  <1>2. /\ j - 1 \in 1 .. Len(st) /\ j \in Nat
        /\ st[j - 1].fn \in Destroyers /\ st[j - 1].of = st[j].of
    BY EmitCaller
  <1>3. i - 1 = j - 1
    BY <1>1, <1>2, OneDestroyer
  <1> QED BY <1>1, <1>2, <1>3

LEMMA EmittingDies ==
  ASSUME StackInv(stack), NEW s, Emitting(s)
  PROVE  Dying(s)
  <1>1. PICK i \in 1 .. Len(stack) : Emits(stack[i]) /\ stack[i].of = s
    BY DEF Emitting, Has, Emitters, Emits
  <1>2. i - 1 \in 1 .. Len(stack) /\ stack[i - 1].fn \in Destroyers /\ stack[i - 1].of = s
    BY <1>1, EmitCaller
  <1> QED BY <1>2, DyingHas DEF Has

\* What destroys an object has no emission under way when it goes on.
LEMMA QuietTop ==
  ASSUME StackInv(stack), stack # <<>>, Top.fn \in Destroyers
  PROVE  ~Emitting(Top.of)
  <1> SUFFICES ASSUME Emitting(Top.of) PROVE FALSE
    OBVIOUS
  <1>1. PICK i \in 1 .. Len(stack) : Emits(stack[i]) /\ stack[i].of = Top.of
    BY DEF Emitting, Has, Emitters, Emits
  <1>2. /\ i - 1 \in 1 .. Len(stack) /\ i \in Nat
        /\ stack[i - 1].fn \in Destroyers /\ stack[i - 1].of = Top.of
    BY <1>1, EmitCaller
  <1>3. Len(stack) \in 1 .. Len(stack) /\ Len(stack) \in Nat /\ Top = stack[Len(stack)]
    BY TopFrame DEF Top
  <1>4. i - 1 = Len(stack)
    BY <1>2, <1>3, OneDestroyer
  <1> QED BY <1>2, <1>3, <1>4

LEMMA EmittingNext == \A s : Emitting(s)' <=> Has(stack', Emitters, s)
  BY DEF Emitting, Has, Emitters

-----------------------------------------------------------------------------
\* Calls and returns while listeners stay as they are
LEMMA PushOuter ==
  ASSUME NEW st \in Seq(FrameSet), NEW f \in FrameSet, Waiting(st)
  PROVE  /\ Outer(Append(st, f)) /\ Append(st, f)[Len(Append(st, f))] = f
         /\ ~Emits(f) => Waiting(Append(st, f))
  <1> DEFINE t == Append(st, f)
  <1>1. /\ t \in Seq(FrameSet) /\ t # <<>> /\ Len(t) = Len(st) + 1 /\ Len(st) \in Nat
        /\ \A i \in 1 .. Len(st) : t[i] = st[i]
        /\ t[Len(st) + 1] = f
    BY PushShape
  <1> HIDE DEF t
  <1>2. 1 .. Len(t) = (1 .. Len(st)) \cup {Len(st) + 1}
    BY <1>1
  <1>3. Outer(t) /\ (~Emits(f) => Waiting(t))
    BY <1>1, <1>2 DEF Outer, Waiting
  <1> QED BY <1>1, <1>3 DEF t

LEMMA PopOuter ==
  ASSUME NEW st \in Seq(FrameSet), st # <<>>, Outer(st)
  PROVE  LET t == SubSeq(st, 1, Len(st) - 1)
         IN  /\ Waiting(t) /\ t \in Seq(FrameSet) /\ Len(t) = Len(st) - 1
             /\ t # <<>> => /\ t[Len(t)] = st[Len(st) - 1] /\ Len(t) \in 1 .. Len(t)
                            /\ Len(st) # 1
  <1> DEFINE t == SubSeq(st, 1, Len(st) - 1)
  <1>1. /\ t \in Seq(FrameSet) /\ Len(t) = Len(st) - 1 /\ Len(t) \in Nat /\ Len(st) \in Nat
        /\ \A i \in 1 .. Len(t) : t[i] = st[i]
    BY PopShape, StackLen
  <1> HIDE DEF t
  <1>2. \A i \in 1 .. Len(t) : i \in 1 .. Len(st) /\ i # Len(st)
    BY <1>1
  <1>3. Waiting(t)
    BY <1>1, <1>2 DEF Outer, Waiting
  <1>4. t # <<>> => Len(t) \in 1 .. Len(t) /\ Len(st) # 1
    BY <1>1
  <1> QED BY <1>1, <1>3, <1>4 DEF t

LEMMA ReplaceOuter ==
  ASSUME NEW st \in Seq(FrameSet), st # <<>>, NEW f \in FrameSet, Outer(st)
  PROVE  LET t == [st EXCEPT ![Len(st)] = f]
         IN  /\ Outer(t) /\ t # <<>> /\ t \in Seq(FrameSet) /\ t[Len(t)] = f
             /\ ~Emits(f) => Waiting(t)
  <1> DEFINE t == [st EXCEPT ![Len(st)] = f]
  <1>1. /\ t \in Seq(FrameSet) /\ t # <<>> /\ Len(t) = Len(st) /\ Len(st) \in Nat
        /\ t[Len(st)] = f
        /\ \A i \in 1 .. Len(st) : i # Len(st) => t[i] = st[i]
    BY ReplaceShape
  <1> HIDE DEF t
  <1>2. Outer(t) /\ (~Emits(f) => Waiting(t))
    BY <1>1 DEF Outer, Waiting
  <1> QED BY <1>1, <1>2 DEF t

LEMMA QuietWaits ==
  ASSUME NEW st, Outer(st), st # <<>> => ~Emits(st[Len(st)])
  PROVE  Waiting(st)
  <1>1. st # <<>> \/ st = <<>>
    OBVIOUS
  <1> QED BY <1>1 DEF Outer, Waiting

\* A step that tells nobody and changes no list
LEMMA ToldKeeps ==
  ASSUME ToldInv, told' = told, listener_list' = listener_list,
         Outer(stack'), stack' # <<>> => Inner(stack'[Len(stack')]),
         \A s \in Signals :
            /\ s \notin live' => AllTold(s)
            /\ s \in live' /\ ~Has(stack', Destroyers, s) => NoneTold(s)
            /\ Has(stack', Destroyers, s) /\ ~Has(stack', Emitters, s) => AllTold(s)
  PROVE  ToldInv'
  <1>1. \A s : Linked(s)' = Linked(s)
    BY DEF Linked
  <1>2. \A s : (AllTold(s)' <=> AllTold(s)) /\ (NoneTold(s)' <=> NoneTold(s))
    BY <1>1 DEF AllTold, NoneTold
  <1>3. \A s, k : (ToldUpTo(s, k)' <=> ToldUpTo(s, k)) /\ Nth(s, k)' = Nth(s, k)
    BY DEF ToldUpTo, Nth
  <1>4. \A s, x : ComesTo(s, x)' <=> ComesTo(s, x)
    BY <1>3 DEF ComesTo
  <1>5. \A s \in Signals : Settled(s)'
    BY <1>2, DyingHasNext, EmittingNext DEF Settled
  <1>6. Outer(stack)' /\ (stack' # <<>> => Inner(stack[Len(stack)])')
    BY <1>4 DEF Outer, Inner, Emits
  <1> QED BY <1>5, <1>6 DEF ToldInv

\* What settles objects when neither lives nor deaths change
LEMMA SettledSame ==
  ASSUME ToldInv, live' = live,
         \A s : Has(stack', Destroyers, s) <=> Has(stack, Destroyers, s),
         \A s \in Signals : Has(stack, Emitters, s) => Has(stack', Emitters, s) \/ AllTold(s)
  PROVE  \A s \in Signals :
            /\ s \notin live' => AllTold(s)
            /\ s \in live' /\ ~Has(stack', Destroyers, s) => NoneTold(s)
            /\ Has(stack', Destroyers, s) /\ ~Has(stack', Emitters, s) => AllTold(s)
  <1> SUFFICES ASSUME NEW s \in Signals
               PROVE  /\ s \notin live' => AllTold(s)
                      /\ s \in live' /\ ~Has(stack', Destroyers, s) => NoneTold(s)
                      /\ Has(stack', Destroyers, s) /\ ~Has(stack', Emitters, s) => AllTold(s)
    OBVIOUS
  <1>1. Settled(s) /\ (Dying(s) <=> Has(stack, Destroyers, s))
    BY DyingHas DEF ToldInv
  <1> QED BY <1>1 DEF Settled, Emitting

\* A signal whose listeners are neither told nor changed
LEMMA SameListeners ==
  ASSUME TypeOK, NEW t \in Signals, NEW l, l \notin Linked(t),
         listener_list'[t] = listener_list[t],
         \A x \in Listeners : x # l => told'[x] = told[x]
  PROVE  /\ AllTold(t) => AllTold(t)'
         /\ NoneTold(t) => NoneTold(t)'
         /\ \A y : ComesTo(t, y) => ComesTo(t, y)'
  <1>1. listener_list[t] \in Seq(Listeners)
    BY DEF TypeOK
  <1>2. \A j \in 1 .. Len(listener_list[t]) :
           told'[listener_list[t][j]] = told[listener_list[t][j]]
    BY <1>1 DEF Linked
  <1>3. \A x \in Linked(t) : told'[x] = told[x]
    BY <1>2 DEF Linked
  <1>4. Linked(t)' = Linked(t)
    BY DEF Linked
  <1>5. \A m : (ToldUpTo(t, m) => ToldUpTo(t, m)') /\ Nth(t, m)' = Nth(t, m)
    BY <1>2 DEF ToldUpTo, Nth
  <1> QED BY <1>3, <1>4, <1>5 DEF AllTold, NoneTold, ComesTo

\* The listener told was to be told, and the next one follows it.
LEMMA NotifyTells ==
  ASSUME BaseInv, EmitInv, ToldInv, Notify PROVE ToldInv'
  <1>1. /\ stack # <<>> /\ Top.fn = "wl_signal_emit" /\ Top.l \notin {NoListener, Wild}
        /\ stack' = Append(stack, Frame("callback", Top.l, "notify"))
        /\ listener_list' = listener_list /\ live' = live
        /\ told' = [told EXCEPT ![Top.l] = @ + 1]
    BY DEF Notify, In
  <1>2. /\ Top \in FrameSet /\ stack \in Seq(FrameSet) /\ Top.of \in Signals
        /\ Len(stack) \in 1 .. Len(stack) /\ Top = stack[Len(stack)]
        /\ TypeOK /\ ListenerInv /\ StackInv(stack)
    BY <1>1, TopFrame DEF BaseInv, CallInv, Kept, Top
  <1>3. PICK s, x, y, f, list :
           /\ s = Top.of /\ x = Top.l /\ y = Top.next /\ f = Frame("callback", Top.l, "notify")
           /\ list = listener_list[s]
    OBVIOUS
  <1>4. f \in FrameSet /\ f.fn = "callback" /\ x \in Listeners
    <2>1. "notify" \in Positions /\ Top.l \in Signals \cup Listeners /\ x \in Listeners
      BY <1>1, <1>2, <1>3 DEF Positions, FrameSet, Cursors
    <2> QED BY <1>3, <2>1, NewFrame
  <1>5. PICK k \in 1 .. Len(list) + 1 : x = Nth(s, k) /\ ToldUpTo(s, k)
    <2>1. Inner(Top) /\ Emits(Top)
      BY <1>1, <1>2 DEF ToldInv, Emits
    <2> QED BY <1>3, <2>1 DEF Inner, ComesTo
  <1>6. /\ list \in Seq(Listeners) /\ IsInjective(list) /\ Len(list) \in Nat /\ k \in Nat
        /\ s \in Signals
    BY <1>2, <1>3 DEF TypeOK, ListenerInv
  <1>7. k \in 1 .. Len(list) /\ x = list[k] /\ k + 1 \in 1 .. Len(list) + 1
    <2>1. k # Len(list) + 1
      BY <1>1, <1>3, <1>5 DEF Nth
    <2>2. k \in 1 .. Len(list) /\ k + 1 \in 1 .. Len(list) + 1
      BY <1>6, <2>1
    <2> QED BY <1>3, <1>5, <2>1, <2>2 DEF Nth
  <1>8. told[x] = 0 /\ told \in [Listeners -> {0, 1}]
    BY <1>3, <1>5, <1>6, <1>7 DEF ToldUpTo, ToldInv
  <1>9. told' = [told EXCEPT ![x] = 1]
    BY <1>1, <1>3, <1>8
  <1>10. /\ told' \in [Listeners -> {0, 1}] /\ told'[x] = 1
         /\ \A l \in Listeners : l # x => told'[l] = told[l]
    BY <1>4, <1>8, <1>9
  <1>11. ComesTo(s, y)'
    <2>1. Top.next = After(s, x)
      BY <1>1, <1>2, <1>3 DEF EmitInv, Looked, Emits
    <2>2. After(s, x) = IF k = Len(list) THEN NoListener ELSE list[k + 1]
      BY <1>2, <1>3, <1>6, <1>7, AfterIs
    <2>3. k + 1 = Len(list) + 1 <=> k = Len(list)
      BY <1>6
    <2>4. y = Nth(s, k + 1)'
      BY <1>1, <1>3, <2>1, <2>2, <2>3 DEF Nth
    <2>5. ASSUME NEW j \in 1 .. Len(list) PROVE told'[list[j]] = IF j < k + 1 THEN 1 ELSE 0
      <3>1. list[j] \in Listeners /\ told[list[j]] = IF j < k THEN 1 ELSE 0
        BY <1>3, <1>5, <1>6 DEF ToldUpTo
      <3>2. CASE j = k
        BY <1>6, <1>7, <1>10, <3>2
      <3>3. CASE j # k
        <4>1. list[j] # x
          BY <1>6, <1>7, <3>3 DEF IsInjective
        <4>2. j < k <=> j < k + 1
          BY <1>6, <3>3
        <4> QED BY <1>10, <3>1, <4>1, <4>2
      <3> QED BY <3>2, <3>3
    <2>6. ToldUpTo(s, k + 1)'
      BY <1>1, <1>3, <2>5 DEF ToldUpTo
    <2> QED BY <1>1, <1>3, <1>7, <2>4, <2>6 DEF ComesTo
  <1>12. x \in Linked(s)
    BY <1>3, <1>7 DEF Linked
  <1>13. ASSUME NEW t \in Signals, t # s
         PROVE  /\ AllTold(t) => AllTold(t)'
                /\ NoneTold(t) => NoneTold(t)'
                /\ \A z : ComesTo(t, z) => ComesTo(t, z)'
    <2>1. x \notin Linked(t)
      BY <1>2, <1>6, <1>12, <1>13 DEF ListenerInv
    <2> QED BY <1>1, <1>2, <1>10, <1>13, <2>1, SameListeners
  <1>14. PICK u : u = Append(stack, f)
    OBVIOUS
  <1>15. /\ stack' = u /\ u # <<>> /\ Len(u) = Len(stack) + 1 /\ Len(stack) \in Nat
         /\ \A i \in 1 .. Len(stack) : u[i] = stack[i]
         /\ u[Len(u)] = f
    BY <1>1, <1>2, <1>3, <1>4, <1>14, PushShape
  <1>16. Outer(stack)'
    <2> SUFFICES ASSUME NEW i \in 1 .. Len(u), Emits(u[i]), i # Len(u)
                 PROVE  ComesTo(u[i].of, u[i].next)'
      BY <1>15 DEF Outer, Emits
    <2>1. i \in 1 .. Len(stack) /\ u[i] = stack[i]
      BY <1>15
    <2>2. CASE i = Len(stack)
      BY <1>2, <1>3, <1>11, <2>1, <2>2
    <2>3. CASE i # Len(stack)
      <3>1. ComesTo(u[i].of, u[i].next) /\ u[i].of \in Signals
        BY <1>2, <2>1, <2>3 DEF ToldInv, Outer, StackInv, Kept, Emits
      <3>2. u[i].of # s
        BY <1>1, <1>2, <1>3, <2>1, <2>3, OneEmission DEF Emits
      <3> QED BY <1>13, <3>1, <3>2
    <2> QED BY <2>2, <2>3
  <1>17. (stack # <<>> => Inner(stack[Len(stack)]))'
    BY <1>4, <1>15 DEF Inner, Emits
  <1>18. \A F, t : Has(stack', F, t) <=> Has(stack, F, t) \/ ("callback" \in F /\ f.of = t)
    BY <1>1, <1>2, <1>3, <1>4, HasPush
  <1>19. \A t : (Dying(t)' <=> Dying(t)) /\ (Emitting(t)' <=> Emitting(t))
    BY <1>18, DyingHas, DyingHasNext, EmittingNext DEF Destroyers, Emitters, Emitting
  <1>20. ASSUME NEW t \in Signals PROVE Settled(t)'
    <2>1. Settled(t)
      BY DEF ToldInv
    <2>2. CASE t # s
      BY <1>1, <1>13, <1>19, <2>1, <2>2 DEF Settled
    <2>3. CASE t = s
      <3>1. Emitting(s)
        BY <1>1, <1>2, <1>3 DEF Emitting, Has, Emitters
      <3>2. Dying(s) /\ s \in live
        BY <1>2, <1>6, <3>1, EmittingDies DEF BaseInv, CallInv
      <3> QED BY <1>1, <1>19, <2>3, <3>1, <3>2 DEF Settled
    <2> QED BY <2>2, <2>3
  <1> QED BY <1>10, <1>16, <1>17, <1>20 DEF ToldInv

\* A call that returns to one that emits nothing
LEMMA PopTells ==
  ASSUME BaseInv, ToldInv, stack # <<>>, stack' = Popped, Top.fn # "callback"
  PROVE  /\ Outer(stack') /\ (stack' # <<>> => Inner(stack'[Len(stack')]))
         /\ \A F, s : Has(stack, F, s) <=> Has(stack', F, s) \/ (Top.fn \in F /\ Top.of = s)
  <1>1. /\ stack \in Seq(FrameSet) /\ Top = stack[Len(stack)]
        /\ Len(stack) # 1 => Calls(stack[Len(stack) - 1], Top)
    BY TopFrame DEF BaseInv, CallInv, Top
  <1>2. /\ Waiting(stack')
        /\ stack' # <<>> => stack'[Len(stack')] = stack[Len(stack) - 1] /\ Len(stack) # 1
    BY <1>1, PopOuter DEF ToldInv, Popped
  <1>3. stack' # <<>> => ~Emits(stack'[Len(stack')])
    BY <1>1, <1>2 DEF Calls, Emits
  <1>4. \A F, s : Has(stack, F, s) <=> Has(stack', F, s) \/ (Top.fn \in F /\ Top.of = s)
    BY <1>1, HasPop DEF Popped
  <1> QED BY <1>2, <1>3, <1>4 DEF Outer, Waiting, Inner

LEMMA EmitReturnsTells ==
  ASSUME BaseInv, ToldInv, EmitReturns PROVE ToldInv'
  <1>1. /\ stack # <<>> /\ Top.fn = "wl_signal_emit" /\ Top.l = NoListener
        /\ stack' = Popped /\ listener_list' = listener_list /\ live' = live /\ told' = told
    BY DEF EmitReturns, In
  <1>2. /\ Outer(stack') /\ (stack' # <<>> => Inner(stack'[Len(stack')]))
        /\ \A F, s : Has(stack, F, s) <=> Has(stack', F, s) \/ (Top.fn \in F /\ Top.of = s)
    BY <1>1, PopTells
  <1>3. Inner(Top) /\ Emits(Top) /\ Top.of \in Signals
    BY <1>1, TopFrame DEF BaseInv, CallInv, ToldInv, Emits, Top, Kept
  <1>4. PICK s, list : s = Top.of /\ list = listener_list[s]
    OBVIOUS
  <1>5. PICK k \in 1 .. Len(list) + 1 : NoListener = Nth(s, k) /\ ToldUpTo(s, k)
    BY <1>1, <1>3, <1>4 DEF Inner, ComesTo
  <1>6. list \in Seq(Listeners) /\ Len(list) \in Nat /\ k \in Nat
    BY <1>3, <1>4 DEF BaseInv, TypeOK
  <1>7. k = Len(list) + 1
    <2> SUFFICES ASSUME k # Len(list) + 1 PROVE FALSE
      OBVIOUS
    <2>1. k \in 1 .. Len(list)
      BY <1>6
    <2>2. list[k] \in Listeners /\ NoListener = list[k]
      BY <1>4, <1>5, <1>6, <2>1 DEF Nth
    <2> QED BY <2>2, Constants
  <1>8. \A j \in 1 .. Len(list) : told[list[j]] = 1
    <2>1. \A j \in 1 .. Len(list) : j < k
      BY <1>6, <1>7
    <2> QED BY <1>4, <1>5, <2>1 DEF ToldUpTo
  <1>9. AllTold(s)
    BY <1>4, <1>8 DEF AllTold, Linked
  <1>10. \A t : Has(stack', Destroyers, t) <=> Has(stack, Destroyers, t)
    BY <1>1, <1>2 DEF Destroyers
  <1>11. \A t : Has(stack, Emitters, t) => Has(stack', Emitters, t) \/ AllTold(t)
    BY <1>2, <1>4, <1>9
  <1> QED BY <1>1, <1>2, <1>10, <1>11, SettledSame, ToldKeeps

LEMMA CallbackReturnsTells ==
  ASSUME BaseInv, ToldInv, CallbackReturns PROVE ToldInv'
  <1> DEFINE t == SubSeq(stack, 1, Len(stack) - 1)
  <1>1. /\ stack # <<>> /\ Top.fn = "callback"
        /\ stack' = IF stack[Len(stack) - 1].fn = "wl_signal_emit"
                    THEN [t EXCEPT ![Len(stack) - 1] = Advance(@)] ELSE t
        /\ listener_list' = listener_list /\ told' = told /\ live' = live
    BY DEF CallbackReturns, In, Popped
  <1>2. /\ stack \in Seq(FrameSet) /\ Len(stack) # 1 /\ Top = stack[Len(stack)]
        /\ TypeOK /\ StackInv(stack)
    BY <1>1, TopFrame DEF Starts, BaseInv, CallInv, Top
  <1>3. /\ Waiting(t) /\ t \in Seq(FrameSet) /\ Len(t) = Len(stack) - 1
        /\ t # <<>> => t[Len(t)] = stack[Len(stack) - 1] /\ Len(t) \in 1 .. Len(t)
    BY <1>1, <1>2, PopOuter DEF ToldInv
  <1>4. t # <<>> /\ Kept(stack[Len(stack) - 1])
    <2>1. Len(stack) - 1 \in 1 .. Len(stack) /\ Len(stack) - 1 # 0
      BY <1>1, <1>2, StackLen, Before
    <2> QED BY <1>2, <1>3, <2>1 DEF StackInv
  <1>5. \A F, s : Has(stack, F, s) <=> Has(t, F, s) \/ ("callback" \in F /\ Top.of = s)
    BY <1>1, <1>2, HasPop
  <1>6. Outer(t)
    BY <1>3 DEF Outer, Waiting
  <1> HIDE DEF t
  <1>7. SameCalls
    BY <1>1, <1>2, CallbackReturnsStack
  <1>8. CASE stack[Len(stack) - 1].fn # "wl_signal_emit"
    <2>1. stack' = t /\ Inner(t[Len(t)])
      BY <1>1, <1>3, <1>4, <1>8 DEF Inner, Emits
    <2>2. \A s : Has(stack, Emitters, s) => Has(stack', Emitters, s)
      BY <1>5, <2>1 DEF Emitters
    <2> QED BY <1>1, <1>6, <1>7, <2>1, <2>2, SettledSame, ToldKeeps DEF SameCalls
  <1>9. CASE stack[Len(stack) - 1].fn = "wl_signal_emit"
    <2>1. PICK g : g = t[Len(t)]
      OBVIOUS
    <2>2. g \in FrameSet /\ Emits(g) /\ g.of \in Signals /\ ComesTo(g.of, g.next)
      <3>1. g \in FrameSet /\ Emits(g) /\ ComesTo(g.of, g.next)
        BY <1>3, <1>4, <1>9, <2>1 DEF Emits, Waiting
      <3> QED BY <1>3, <1>4, <2>1, <3>1 DEF Kept, Emits
    <2>3. PICK f : f = Advance(g)
      OBVIOUS
    <2>4. /\ f \in FrameSet /\ f.fn = g.fn /\ f.of = g.of /\ f.l = g.next
          /\ stack' = [t EXCEPT ![Len(t)] = f]
      <3>1. stack' = [t EXCEPT ![Len(t)] = Advance(t[Len(t)])]
        BY <1>1, <1>3, <1>4, <1>9
      <3> QED BY <1>2, <2>1, <2>2, <2>3, <3>1, Advanced
    <2>5. Outer(stack') /\ stack'[Len(stack')] = f
      BY <1>3, <1>4, <1>6, <2>4, ReplaceOuter
    <2>6. Inner(stack'[Len(stack')])
      BY <2>2, <2>4, <2>5 DEF Inner
    <2>7. \A s : Has(stack, Emitters, s) => Has(stack', Emitters, s)
      <3>1. \A s : Has(t, Emitters, s) => Has(stack', Emitters, s)
        BY <1>3, <1>4, <2>1, <2>4, HasReplace
      <3> QED BY <1>5, <3>1 DEF Emitters
    <2> QED BY <1>1, <1>7, <2>5, <2>6, <2>7, SettledSame, ToldKeeps DEF SameCalls
  <1> QED BY <1>8, <1>9

\* A new emission starts at the first listener, and none has been told.
LEMMA EmissionTells ==
  ASSUME BaseInv, NEW st \in Seq(FrameSet), Waiting(st), NEW d \in FrameSet, ~Emits(d),
         NEW s \in Signals, NoneTold(s), stack' = Append(Append(st, d), EmitFrame(s))
  PROVE  /\ Outer(stack') /\ Inner(stack'[Len(stack')])
         /\ \A F, t : Has(stack', F, t) <=> \/ Has(st, F, t)
                                            \/ d.fn \in F /\ d.of = t
                                            \/ "wl_signal_emit" \in F /\ s = t
  <1>1. PICK u, e : u = Append(st, d) /\ e = EmitFrame(s)
    OBVIOUS
  <1>2. Waiting(u) /\ u \in Seq(FrameSet)
    BY <1>1, PushOuter, PushShape
  <1>3. e \in FrameSet /\ e.fn = "wl_signal_emit" /\ e.of = s /\ e.l = First(s)
    BY <1>1, NewEmission DEF BaseInv
  <1>4. ComesTo(s, First(s))
    <2>1. PICK list : list = listener_list[s]
      OBVIOUS
    <2>2. list \in Seq(Listeners) /\ Len(list) \in Nat /\ 1 \in 1 .. Len(list) + 1
      BY <2>1 DEF BaseInv, TypeOK
    <2>3. First(s) = Nth(s, 1)
      <3>1. list = <<>> => 1 = Len(list) + 1
        OBVIOUS
      <3>2. list # <<>> => 1 # Len(list) + 1 /\ Head(list) = list[1]
        BY <2>2
      <3> QED BY <2>1, <3>1, <3>2 DEF First, Nth
    <2>4. ToldUpTo(s, 1)
      <3>1. \A j \in 1 .. Len(list) : ~(j < 1) /\ told[list[j]] = 0
        BY <2>1, <2>2 DEF NoneTold, Linked
      <3> QED BY <2>1, <3>1 DEF ToldUpTo
    <2> QED BY <2>1, <2>2, <2>3, <2>4 DEF ComesTo
  <1>5. Outer(stack') /\ stack'[Len(stack')] = e
    BY <1>1, <1>2, <1>3, PushOuter
  <1>6. Inner(e)
    BY <1>3, <1>4 DEF Inner
  <1>7. \A F, t : Has(stack', F, t) <=> Has(u, F, t) \/ ("wl_signal_emit" \in F /\ s = t)
    <2>1. \A F, t : Has(Append(u, e), F, t) <=> Has(u, F, t) \/ (e.fn \in F /\ e.of = t)
      BY <1>2, <1>3, HasPush
    <2>2. stack' = Append(u, e)
      BY <1>1
    <2> QED BY <1>3, <2>1, <2>2
  <1>8. \A F, t : Has(u, F, t) <=> Has(st, F, t) \/ (d.fn \in F /\ d.of = t)
    BY <1>1, HasPush
  <1> QED BY <1>5, <1>6, <1>7, <1>8

LEMMA DestroyTells ==
  ASSUME BaseInv, ToldInv, NEW r \in ResourceSet, wl_resource_destroy(r) PROVE ToldInv'
  <1> DEFINE a == Frame("wl_resource_destroy", r, "id")
             d == Frame("destroy_resource", r, "handler")
  <1>1. /\ stack' = stack \o <<a, d, EmitFrame(r)>> /\ listener_list' = listener_list
        /\ told' = told /\ live' = live /\ stack \in Seq(FrameSet) /\ r \in Signals
        /\ stack = <<>> \/ Top.fn = "callback"
        /\ r \in live /\ ~Dying(r)
    BY DEF wl_resource_destroy, BaseInv, CallInv, StackInv, Signals, Compositor, In
  <1>2. /\ a \in FrameSet /\ a.fn = "wl_resource_destroy" /\ a.of = r
        /\ d \in FrameSet /\ d.fn = "destroy_resource" /\ d.of = r
    <2>1. r \in Signals \cup Listeners /\ "id" \in Positions /\ "handler" \in Positions
      BY <1>1 DEF Positions
    <2> QED BY <2>1, NewFrame
  <1>3. stack' = Append(Append(Append(stack, a), d), EmitFrame(r))
    BY <1>1, <1>2, NewEmission, Concat3 DEF BaseInv
  <1> HIDE DEF a, d
  <1>4. PICK u : u = Append(stack, a)
    OBVIOUS
  <1>5. Waiting(stack)
    BY <1>1, QuietWaits DEF ToldInv, Top, Emits
  <1>6. /\ Waiting(u) /\ u \in Seq(FrameSet)
        /\ \A F, s : Has(u, F, s) <=> Has(stack, F, s) \/ ("wl_resource_destroy" \in F /\ r = s)
    BY <1>1, <1>2, <1>4, <1>5, PushOuter, PushShape, HasPush DEF Emits
  <1>7. \A s \in Signals : Settled(s)
    BY DEF ToldInv
  <1>8. NoneTold(r)
    BY <1>1, <1>7 DEF Settled
  <1>9. /\ Outer(stack') /\ Inner(stack'[Len(stack')])
        /\ \A F, s : Has(stack', F, s) <=> \/ Has(u, F, s)
                                           \/ "destroy_resource" \in F /\ r = s
                                           \/ "wl_signal_emit" \in F /\ r = s
    <2>1. stack' = Append(Append(u, d), EmitFrame(r)) /\ ~Emits(d)
      BY <1>2, <1>3, <1>4 DEF Emits
    <2>2. /\ Outer(stack') /\ Inner(stack'[Len(stack')])
          /\ \A F, s : Has(stack', F, s) <=> \/ Has(u, F, s)
                                             \/ d.fn \in F /\ d.of = s
                                             \/ "wl_signal_emit" \in F /\ r = s
      BY <1>1, <1>2, <1>6, <1>8, <2>1, EmissionTells
    <2> QED BY <1>2, <2>2
  <1>10. \A s : /\ Has(stack', Destroyers, s) <=> Has(stack, Destroyers, s) \/ r = s
                /\ Has(stack', Emitters, s) <=> Has(stack, Emitters, s) \/ r = s
    BY <1>6, <1>9 DEF Destroyers, Emitters
  <1>11. ASSUME NEW s \in Signals
         PROVE  /\ s \notin live' => AllTold(s)
                /\ s \in live' /\ ~Has(stack', Destroyers, s) => NoneTold(s)
                /\ Has(stack', Destroyers, s) /\ ~Has(stack', Emitters, s) => AllTold(s)
    BY <1>1, <1>7, <1>10, DyingHas DEF Settled, Emitting
  <1> QED BY <1>1, <1>9, <1>11, ToldKeeps

LEMMA ClientDestroyTells ==
  ASSUME BaseInv, ToldInv, wl_client_destroy PROVE ToldInv'
  <1> DEFINE c == Frame("wl_client_destroy", Client, 1)
  <1>1. /\ stack' = <<c, EmitFrame(Client)>> /\ listener_list' = listener_list
        /\ told' = told /\ live' = live /\ Client \in Signals /\ Client \in live /\ stack = <<>>
    BY DEF wl_client_destroy, Signals, Compositor
  <1>2. c \in FrameSet /\ c.fn = "wl_client_destroy" /\ c.of = Client
    <2>1. Client \in Signals \cup Listeners /\ 1 \in Positions
      BY <1>1 DEF Positions
    <2> QED BY <2>1, NewFrame
  <1>3. EmitFrame(Client) \in FrameSet
    BY <1>1, NewEmission DEF BaseInv
  <1>4. stack' = Append(Append(<<>>, c), EmitFrame(Client))
    BY <1>1, <1>2, <1>3
  <1> HIDE DEF c
  <1>5. /\ Waiting(<<>>) /\ <<>> \in Seq(FrameSet) /\ ~Emits(c)
        /\ \A F, s : ~Has(<<>>, F, s) /\ ~Has(stack, F, s)
    BY <1>1, <1>2 DEF Waiting, Emits, Has
  <1>6. \A s \in Signals : Settled(s) /\ ~Dying(s)
    BY <1>5, DyingHas DEF ToldInv
  <1>7. NoneTold(Client)
    BY <1>1, <1>6 DEF Settled
  <1>8. /\ Outer(stack') /\ Inner(stack'[Len(stack')])
        /\ \A F, s : Has(stack', F, s) <=> \/ "wl_client_destroy" \in F /\ Client = s
                                           \/ "wl_signal_emit" \in F /\ Client = s
    <2>1. /\ Outer(stack') /\ Inner(stack'[Len(stack')])
          /\ \A F, s : Has(stack', F, s) <=> \/ Has(<<>>, F, s)
                                             \/ c.fn \in F /\ c.of = s
                                             \/ "wl_signal_emit" \in F /\ Client = s
      BY <1>1, <1>2, <1>4, <1>5, <1>7, EmissionTells
    <2> QED BY <1>2, <1>5, <2>1
  <1>9. ASSUME NEW s \in Signals
        PROVE  /\ s \notin live' => AllTold(s)
               /\ s \in live' /\ ~Has(stack', Destroyers, s) => NoneTold(s)
               /\ Has(stack', Destroyers, s) /\ ~Has(stack', Emitters, s) => AllTold(s)
    BY <1>1, <1>6, <1>8 DEF Settled, Destroyers, Emitters
  <1> QED BY <1>1, <1>8, <1>9, ToldKeeps

LEMMA ForEachTells ==
  ASSUME BaseInv, ToldInv, ForEachEntry,
         Entry(Top.at) > 0 => /\ Entry(Top.at) \in ResourceSet /\ Entry(Top.at) \in live
                              /\ ~Dying(Entry(Top.at))
  PROVE  ToldInv'
  <1> DEFINE r == Entry(Top.at)
             f == [Top EXCEPT !.at = Top.at + 1]
             t == [stack EXCEPT ![Len(stack)] = f]
             d == Frame("destroy_resource", r, "handler")
  <1>1. /\ stack # <<>> /\ stack \in Seq(FrameSet) /\ Len(stack) = 1 /\ stack[1] = Top
        /\ Top \in FrameSet /\ Top.fn = "wl_client_destroy" /\ Top.of = Client
        /\ Top.at \in Nat \ {0}
        /\ \A s : Has(stack, Destroyers, s) <=> s = Client
        /\ StackInv(stack)
    BY ClientDestroyAlone DEF ForEachEntry, BaseInv, CallInv
  <1>2. /\ stack' = IF r > 0 THEN t \o <<d, EmitFrame(r)>> ELSE t
        /\ listener_list' = listener_list /\ told' = told /\ live' = live
    BY DEF ForEachEntry, Going, Top
  <1>3. f \in FrameSet /\ f.fn = Top.fn /\ f.of = Top.of
    <2>1. Top.at + 1 \in Positions
      BY <1>1 DEF Positions
    <2> QED BY <1>1, <2>1, Moved
  <1> HIDE DEF f
  <1>4. ~Emits(f) /\ Top = stack[Len(stack)]
    BY <1>1, <1>3 DEF Emits
  <1>5. /\ Waiting(t) /\ t # <<>> /\ t \in Seq(FrameSet) /\ t[Len(t)] = f
        /\ \A F, s : Has(t, F, s) <=> Has(stack, F, s)
    BY <1>1, <1>3, <1>4, ReplaceOuter, HasReplace DEF ToldInv
  <1> HIDE DEF t
  <1>6. \A s \in Signals : Settled(s)
    BY DEF ToldInv
  <1>7. CASE ~(r > 0)
    <2>1. stack' = t /\ Outer(t) /\ Inner(t[Len(t)])
      BY <1>2, <1>4, <1>5, <1>7 DEF Outer, Waiting, Inner
    <2>2. /\ \A s : Has(stack', Destroyers, s) <=> Has(stack, Destroyers, s)
          /\ \A s \in Signals : Has(stack, Emitters, s) => Has(stack', Emitters, s)
      BY <1>5, <2>1
    <2> QED BY <1>2, <2>1, <2>2, SettledSame, ToldKeeps
  <1>8. CASE r > 0
    <2> HIDE DEF r
    <2>1. r \in ResourceSet /\ r \in Signals /\ r \in live /\ ~Dying(r)
      BY <1>8 DEF r, Signals
    <2>2. d \in FrameSet /\ d.fn = "destroy_resource" /\ d.of = r /\ EmitFrame(r) \in FrameSet
      <3>1. r \in Signals \cup Listeners /\ "handler" \in Positions
        BY <2>1 DEF Positions
      <3> QED BY <2>1, <3>1, NewFrame, NewEmission DEF BaseInv
    <2>3. stack' = Append(Append(t, d), EmitFrame(r))
      BY <1>2, <1>5, <1>8, <2>2, Concat2
    <2> HIDE DEF d
    <2>4. ~Emits(d) /\ NoneTold(r)
      BY <1>6, <2>1, <2>2 DEF Emits, Settled
    <2>5. /\ Outer(stack') /\ Inner(stack'[Len(stack')])
          /\ \A F, s : Has(stack', F, s) <=> \/ Has(t, F, s)
                                             \/ "destroy_resource" \in F /\ r = s
                                             \/ "wl_signal_emit" \in F /\ r = s
      BY <1>5, <2>1, <2>2, <2>3, <2>4, EmissionTells
    <2>6. \A s : /\ Has(stack', Destroyers, s) <=> Has(stack, Destroyers, s) \/ r = s
                 /\ Has(stack', Emitters, s) <=> Has(stack, Emitters, s) \/ r = s
      BY <1>5, <2>5 DEF Destroyers, Emitters
    <2>7. ASSUME NEW s \in Signals
          PROVE  /\ s \notin live' => AllTold(s)
                 /\ s \in live' /\ ~Has(stack', Destroyers, s) => NoneTold(s)
                 /\ Has(stack', Destroyers, s) /\ ~Has(stack', Emitters, s) => AllTold(s)
      BY <1>2, <1>6, <2>1, <2>6, DyingHas DEF Settled, Emitting
    <2> QED BY <1>2, <2>5, <2>7, ToldKeeps
  <1> QED BY <1>7, <1>8

LEMMA CallDestroyTells ==
  ASSUME BaseInv, ToldInv, CallDestroy PROVE ToldInv'
  <1> DEFINE f == [Top EXCEPT !.at = "free"]
             t == [stack EXCEPT ![Len(stack)] = f]
             g == Frame("callback", Top.of, "destroy")
  <1>1. /\ stack # <<>> /\ Top.fn = "destroy_resource" /\ Top = stack[Len(stack)]
        /\ stack' = IF Top.of = Display THEN t ELSE Append(t, g)
        /\ listener_list' = listener_list /\ told' = told /\ live' = live
    BY DEF CallDestroy, In, Going, Top
  <1>2. /\ stack \in Seq(FrameSet) /\ Top \in FrameSet /\ Kept(Top) /\ TypeOK /\ StackInv(stack)
    BY <1>1, TopFrame DEF BaseInv, CallInv
  <1>3. f \in FrameSet /\ f.fn = Top.fn /\ f.of = Top.of
    BY <1>1, <1>2, Moved DEF Positions
  <1> HIDE DEF f
  <1>4. ~Emits(f)
    BY <1>1, <1>3 DEF Emits
  <1>5. /\ Waiting(t) /\ t # <<>> /\ t \in Seq(FrameSet) /\ t[Len(t)] = f
        /\ \A F, s : Has(t, F, s) <=> Has(stack, F, s)
    BY <1>1, <1>2, <1>3, <1>4, ReplaceOuter, HasReplace DEF ToldInv
  <1>6. g \in FrameSet /\ g.fn = "callback"
    <2>1. "destroy" \in Positions /\ Top.of \in Signals \cup Listeners
      BY <1>1, <1>2 DEF Positions, Kept, Signals
    <2> QED BY <2>1, NewFrame
  <1> HIDE DEF t, g
  <1>7. ~Emits(g)
    BY <1>6 DEF Emits
  <1>8. /\ Waiting(Append(t, g)) /\ Append(t, g)[Len(Append(t, g))] = g
        /\ \A F, s : Has(t, F, s) => Has(Append(t, g), F, s)
    BY <1>5, <1>6, <1>7, PushOuter, HasPush
  <1>9. Waiting(stack') /\ ~Emits(stack'[Len(stack')])
    BY <1>1, <1>4, <1>5, <1>7, <1>8
  <1>10. Outer(stack') /\ Inner(stack'[Len(stack')])
    BY <1>9 DEF Outer, Waiting, Inner
  <1>11. \A s : Has(stack, Emitters, s) => Has(stack', Emitters, s)
    BY <1>1, <1>5, <1>8
  <1>12. \A s : Has(stack', Destroyers, s) <=> Has(stack, Destroyers, s)
    BY <1>2, CallDestroyStack DEF SameCalls
  <1> QED BY <1>1, <1>10, <1>11, <1>12, SettledSame, ToldKeeps

\* What is freed has told its listeners.
LEMMA FreeTells ==
  ASSUME BaseInv, ToldInv, FreeResource \/ ReturnId \/ ClientFreed PROVE ToldInv'
  <1>1. /\ stack # <<>> /\ stack' = Popped /\ listener_list' = listener_list /\ told' = told
        /\ Top.fn \in {"wl_client_destroy", "wl_resource_destroy", "destroy_resource"}
    BY DEF FreeResource, ReturnId, ClientFreed, In
  <1>2. /\ Outer(stack') /\ (stack' # <<>> => Inner(stack'[Len(stack')]))
        /\ \A F, s : Has(stack, F, s) <=> Has(stack', F, s) \/ (Top.fn \in F /\ Top.of = s)
    BY <1>1, PopTells
  <1>3. \A s : Has(stack', Emitters, s) <=> Has(stack, Emitters, s)
    BY <1>1, <1>2 DEF Emitters
  <1>4. /\ TypeOK /\ CallInv /\ TableInv /\ StackInv(stack)
        /\ \A s \in Signals : Settled(s)
    BY DEF BaseInv, CallInv, ToldInv
  <1>5. CASE ReturnId
    <2>1. \A s : Has(stack', Destroyers, s) <=> Has(stack, Destroyers, s)
      BY <1>4, <1>5, ReturnStack
    <2>2. live' = live
      BY <1>5 DEF ReturnId
    <2> QED BY <1>1, <1>2, <1>3, <2>1, <2>2, SettledSame, ToldKeeps
  <1>6. ASSUME Top.fn \in Destroyers, Top.of \in Signals PROVE AllTold(Top.of)
    <2>1. ~Emitting(Top.of)
      BY <1>1, <1>4, <1>6, QuietTop
    <2>2. Dying(Top.of)
      BY <1>2, <1>6, DyingHas
    <2> QED BY <1>4, <1>6, <2>1, <2>2 DEF Settled
  <1>7. CASE FreeResource
    <2>1. /\ Top.fn \in Destroyers /\ Top.of \in Signals /\ live' = live \ {Top.of}
          /\ \A s : Has(stack', Destroyers, s) <=> Has(stack, Destroyers, s) /\ s # Top.of
      BY <1>4, <1>7, FreeStack DEF FreeResource, In, Destroyers, Signals
    <2>2. AllTold(Top.of)
      BY <1>6, <2>1
    <2>3. ASSUME NEW s \in Signals
          PROVE  /\ s \notin live' => AllTold(s)
                 /\ s \in live' /\ ~Has(stack', Destroyers, s) => NoneTold(s)
                 /\ Has(stack', Destroyers, s) /\ ~Has(stack', Emitters, s) => AllTold(s)
      BY <1>3, <1>4, <2>1, <2>2, DyingHas DEF Settled, Emitting
    <2> QED BY <1>1, <1>2, <2>3, ToldKeeps
  <1>8. CASE ClientFreed
    <2>1. /\ Top.fn \in Destroyers /\ Top.of = Client /\ Client \in Signals
          /\ live' = {} /\ live = {Client} /\ \A F, s : ~Has(stack', F, s)
      <3>1. Top.fn = "wl_client_destroy" /\ Top.of = Client
        BY <1>4, <1>8, ClientDestroyAlone DEF ClientFreed
      <3> QED BY <1>4, <1>8, <3>1, ClientFreedKeeps, FreedStack DEF Destroyers, Signals
    <2>2. AllTold(Client)
      BY <1>6, <2>1
    <2>3. ASSUME NEW s \in Signals
          PROVE  /\ s \notin live' => AllTold(s)
                 /\ s \in live' /\ ~Has(stack', Destroyers, s) => NoneTold(s)
                 /\ Has(stack', Destroyers, s) /\ ~Has(stack', Emitters, s) => AllTold(s)
      BY <1>4, <2>1, <2>2 DEF Settled
    <2> QED BY <1>1, <1>2, <2>3, ToldKeeps
  <1> QED BY <1>5, <1>7, <1>8

\* Nobody listens to a new resource yet.
LEMMA CreateTells ==
  ASSUME BaseInv, ToldInv, NEW id \in 0 .. WL_SERVER_ID_START - 1, wl_resource_create(id)
  PROVE  ToldInv'
  <1>1. /\ stack' = stack /\ listener_list' = listener_list /\ told' = told
        /\ live' = live \cup {made + 1} /\ made < Display + MaxResources
    BY DEF wl_resource_create
  <1>2. made + 1 \in Signals /\ made + 1 \notin {Client} \cup Display .. made
    <2>1. made \in ResourceSet
      BY DEF BaseInv, TypeOK
    <2> QED BY <1>1, <2>1, Constants
  <1>3. NoneTold(made + 1)
    <2>1. listener_list[made + 1] = <<>>
      BY <1>2 DEF BaseInv, ListenerInv
    <2> QED BY <2>1 DEF NoneTold, Linked
  <1>4. \A s \in Signals : Settled(s)
    BY DEF ToldInv
  <1>5. ASSUME NEW s \in Signals
        PROVE  /\ s \notin live' => AllTold(s)
               /\ s \in live' /\ ~Has(stack', Destroyers, s) => NoneTold(s)
               /\ Has(stack', Destroyers, s) /\ ~Has(stack', Emitters, s) => AllTold(s)
    BY <1>1, <1>3, <1>4, DyingHas DEF Settled, Emitting
  <1>6. Outer(stack') /\ (stack' # <<>> => Inner(stack'[Len(stack')]))
    BY <1>1 DEF ToldInv
  <1> QED BY <1>1, <1>5, <1>6, ToldKeeps

-----------------------------------------------------------------------------
\* Listeners that are added are not told late, and those that remove themselves
\* leave the others as they are.
LEMMA AddTells ==
  ASSUME BaseInv, ToldInv, ~AddsLate, NEW s \in Signals, NEW l \in Listeners,
         wl_resource_add_destroy_listener(s, l)
  PROVE  ToldInv'
  <1>1. /\ stack' = stack /\ live' = live /\ told' = [told EXCEPT ![l] = 0]
        /\ stack # <<>> => Top.fn = "callback"
        /\ s \in live /\ ~Dying(s) /\ \A t \in Signals : l \notin Linked(t)
        /\ TypeOK /\ CallInv /\ ListenerInv /\ StackInv(stack)
    BY DEF wl_resource_add_destroy_listener, Compositor, In, BaseInv, CallInv
  <1>2. /\ told' \in [Listeners -> {0, 1}] /\ told'[l] = 0
        /\ \A x \in Listeners : x # l => told'[x] = told[x]
    BY <1>1 DEF ToldInv
  <1>3. PICK list : list = Append(listener_list[s], l)
    OBVIOUS
  <1>4. /\ s \in {Client} \cup Display .. made
        /\ list \in Seq(Listeners) /\ IsInjective(list)
        /\ \A x : Contains(list, x) => \A t \in Signals : t # s => x \notin Linked(t)
        /\ listener_list' = [listener_list EXCEPT ![s] = list] /\ made' = made
        /\ \A x : Contains(list, x) <=> Contains(listener_list[s], x) \/ x = l
    BY <1>1, <1>3, AddList
  <1>5. /\ listener_list'[s] = list
        /\ \A t \in Signals : t # s => listener_list'[t] = listener_list[t] /\ Linked(t)' = Linked(t)
        /\ \A x : x \in Linked(s)' <=> Contains(list, x)
    BY <1>1, <1>4, OneList
  <1>6. ASSUME NEW t \in Signals, t # s
        PROVE  /\ AllTold(t) => AllTold(t)'
               /\ NoneTold(t) => NoneTold(t)'
               /\ \A y : ComesTo(t, y) => ComesTo(t, y)'
    BY <1>1, <1>2, <1>5, <1>6, SameListeners
  <1>7. \A i \in 1 .. Len(stack) : Emits(stack[i]) =>
           ComesTo(stack[i].of, stack[i].next) /\ stack[i].of \in Signals /\ stack[i].of # s
    <2> SUFFICES ASSUME NEW i \in 1 .. Len(stack), Emits(stack[i])
                 PROVE  /\ ComesTo(stack[i].of, stack[i].next) /\ stack[i].of \in Signals
                        /\ stack[i].of # s
      OBVIOUS
    <2>1. Emitting(stack[i].of) /\ stack[i].of \in Signals
      BY <1>1 DEF Emitting, Has, Emitters, Emits, StackInv, Kept
    <2>2. Waiting(stack)
      BY <1>1, QuietWaits DEF ToldInv, Top, Emits
    <2> QED BY <1>1, <2>1, <2>2, EmittingDies DEF Waiting
  <1>8. Outer(stack)' /\ (stack # <<>> => Inner(stack[Len(stack)]))'
    BY <1>1, <1>6, <1>7 DEF Outer, Inner, Emits, Top
  <1>9. \A t : (Dying(t)' <=> Dying(t)) /\ (Emitting(t)' <=> Emitting(t))
    BY <1>1 DEF Dying, Emitting, Has
  <1>10. ASSUME NEW t \in Signals PROVE Settled(t)'
    <2>1. Settled(t)
      BY DEF ToldInv
    <2>2. CASE t # s
      BY <1>1, <1>6, <1>9, <2>1, <2>2 DEF Settled
    <2>3. CASE t = s
      <3>1. NoneTold(s)
        BY <1>1, <2>1, <2>3 DEF Settled
      <3>2. ASSUME NEW x \in Linked(s)' PROVE told'[x] = 0
        <4>1. x = l \/ (x \in Linked(s) /\ x \in Listeners)
          <5>1. /\ Contains(list, x) /\ listener_list[s] \in Seq(Listeners)
                /\ x \in Linked(s) <=> Contains(listener_list[s], x)
            BY <1>1, <1>5, <3>2, LinkedContains
          <5>2. Contains(listener_list[s], x) => x \in Listeners
            BY <5>1 DEF Contains
          <5> QED BY <1>4, <5>1, <5>2
        <4> QED BY <1>2, <3>1, <4>1 DEF NoneTold
      <3>3. NoneTold(s)'
        BY <3>2 DEF NoneTold
      <3> QED BY <1>1, <1>9, <2>3, <3>3, EmittingDies DEF Settled
    <2> QED BY <2>2, <2>3
  <1> QED BY <1>2, <1>8, <1>10 DEF ToldInv

LEMMA RemoveTells ==
  ASSUME BaseInv, ToldInv, ~RemovesNext, NEW s \in Signals, NEW l \in Listeners,
         wl_list_remove(s, l)
  PROVE  ToldInv'
  <1>1. /\ stack' = stack /\ live' = live /\ told' = [told EXCEPT ![l] = 0]
        /\ stack # <<>> => Top.fn = "callback"
        /\ \A i \in 1 .. Len(stack) : stack[i].next # l
        /\ TypeOK /\ CallInv /\ ListenerInv /\ StackInv(stack)
    BY DEF wl_list_remove, Compositor, In, BaseInv, CallInv
  <1>2. /\ told' \in [Listeners -> {0, 1}]
        /\ \A x \in Listeners : x # l => told'[x] = told[x]
    BY <1>1 DEF ToldInv
  <1>3. PICK list, new : list = listener_list[s] /\ new = RemoveFirst(list, l)
    OBVIOUS
  <1>4. /\ s \in {Client} \cup Display .. made
        /\ new \in Seq(Listeners) /\ IsInjective(new)
        /\ \A x : Contains(new, x) => \A t \in Signals : t # s => x \notin Linked(t)
        /\ listener_list' = [listener_list EXCEPT ![s] = new] /\ made' = made
        /\ \A x : Contains(new, x) <=> Contains(list, x) /\ x # l
        /\ Contains(list, l)
    BY <1>1, <1>3, RemoveList
  <1>5. /\ listener_list'[s] = new
        /\ \A t \in Signals : t # s => listener_list'[t] = listener_list[t] /\ Linked(t)' = Linked(t)
        /\ \A x : x \in Linked(s)' <=> Contains(new, x)
    BY <1>1, <1>4, OneList
  <1>6. /\ list \in Seq(Listeners) /\ IsInjective(list) /\ Len(list) \in Nat
        /\ \A x : x \in Linked(s) <=> Contains(list, x)
    BY <1>1, <1>3, LinkedContains DEF ListenerInv
  <1>7. ASSUME NEW t \in Signals, t # s
        PROVE  /\ AllTold(t) => AllTold(t)'
               /\ NoneTold(t) => NoneTold(t)'
               /\ \A y : ComesTo(t, y) => ComesTo(t, y)'
    <2>1. l \notin Linked(t)
      BY <1>1, <1>4, <1>6, <1>7 DEF ListenerInv
    <2> QED BY <1>1, <1>2, <1>5, <1>7, <2>1, SameListeners
  <1>8. \A x \in Linked(s)' : x \in Linked(s) /\ told'[x] = told[x]
    <2> SUFFICES ASSUME NEW x \in Linked(s)' PROVE x \in Linked(s) /\ told'[x] = told[x]
      OBVIOUS
    <2>1. Contains(list, x) /\ x # l
      BY <1>4, <1>5
    <2>2. x \in Listeners
      BY <1>6, <2>1 DEF Contains
    <2> QED BY <1>2, <1>6, <2>1, <2>2
  <1>9. (AllTold(s) => AllTold(s)') /\ (NoneTold(s) => NoneTold(s)')
    BY <1>8 DEF AllTold, NoneTold
  <1>10. ASSUME NEW y, y # l, ComesTo(s, y) PROVE ComesTo(s, y)'
    <2>1. PICK k \in 1 .. Len(list) + 1 : y = Nth(s, k) /\ ToldUpTo(s, k)
      BY <1>3, <1>10 DEF ComesTo
    <2>2. PICK i \in 1 .. Len(list) : list[i] = l
      BY <1>4, <1>6 DEF Contains
    <2>3. /\ Len(new) = Len(list) - 1 /\ Len(new) \in Nat
          /\ \A j \in 1 .. Len(list) - 1 : new[j] = list[IF j < i THEN j ELSE j + 1]
      <3>1. /\ Len(RemoveFirst(list, list[i])) = Len(list) - 1
            /\ \A j \in 1 .. Len(list) - 1 :
                  RemoveFirst(list, list[i])[j] = list[IF j < i THEN j ELSE j + 1]
        BY <1>6, <2>2, RemoveShape
      <3>2. new = RemoveFirst(list, list[i]) /\ Len(new) \in Nat
        BY <1>3, <1>4, <2>2
      <3> QED BY <3>1, <3>2
    <2>4. k # i /\ k \in Nat /\ i \in Nat
      BY <1>3, <1>6, <1>10, <2>1, <2>2 DEF Nth
    <2>5. PICK m : m = IF k < i THEN k ELSE k - 1
      OBVIOUS
    <2>6. m \in 1 .. Len(new) + 1
      BY <1>6, <2>1, <2>2, <2>3, <2>4, <2>5
    <2>7. y = IF m = Len(new) + 1 THEN NoListener ELSE new[m]
      <3>1. CASE k < i
        <4>1. /\ m = k /\ k # Len(list) + 1 /\ m # Len(new) + 1 /\ k \in 1 .. Len(list) - 1
          BY <1>6, <2>1, <2>2, <2>3, <2>4, <2>5, <3>1
        <4> QED BY <1>3, <2>1, <2>3, <3>1, <4>1 DEF Nth
      <3>2. CASE ~(k < i)
        <4>1. /\ m = k - 1 /\ m + 1 = k /\ ~(m < i)
              /\ m = Len(new) + 1 <=> k = Len(list) + 1
              /\ k # Len(list) + 1 => m \in 1 .. Len(list) - 1
          BY <1>6, <2>1, <2>2, <2>3, <2>4, <2>5, <3>2
        <4> QED BY <1>3, <2>1, <2>3, <4>1 DEF Nth
      <3> QED BY <3>1, <3>2
    <2>8. ASSUME NEW j \in 1 .. Len(new) PROVE told'[new[j]] = IF j < m THEN 1 ELSE 0
      <3>1. PICK p : p = IF j < i THEN j ELSE j + 1
        OBVIOUS
      <3>2. p \in 1 .. Len(list) /\ p # i /\ (p < k <=> j < m)
        BY <1>6, <2>1, <2>2, <2>3, <2>4, <2>5, <3>1
      <3>3. new[j] = list[p]
        BY <2>3, <3>1
      <3>4. list[p] # l /\ list[p] \in Listeners
        BY <1>6, <2>2, <3>2 DEF IsInjective
      <3>5. told[list[p]] = IF p < k THEN 1 ELSE 0
        BY <1>3, <2>1, <3>2 DEF ToldUpTo
      <3> QED BY <1>2, <3>2, <3>3, <3>4, <3>5
    <2>9. y = Nth(s, m)' /\ ToldUpTo(s, m)'
      BY <1>5, <2>7, <2>8 DEF Nth, ToldUpTo
    <2> QED BY <1>5, <2>6, <2>9 DEF ComesTo
  <1>11. Waiting(stack)
    BY <1>1, QuietWaits DEF ToldInv, Top, Emits
  <1>12. ASSUME NEW i \in 1 .. Len(stack), Emits(stack[i])
         PROVE  ComesTo(stack[i].of, stack[i].next)'
    <2>1. PICK f : f = stack[i]
      OBVIOUS
    <2>2. ComesTo(f.of, f.next) /\ f.of \in Signals /\ f.next # l
      BY <1>1, <1>11, <1>12, <2>1 DEF Waiting, StackInv, Kept, Emits
    <2>3. ComesTo(f.of, f.next)'
      BY <1>7, <1>10, <2>2
    <2> QED BY <1>1, <2>1, <2>3
  <1>13. Outer(stack)' /\ (stack # <<>> => Inner(stack[Len(stack)]))'
    BY <1>1, <1>12 DEF Outer, Inner, Emits, Top
  <1>14. \A t : (Dying(t)' <=> Dying(t)) /\ (Emitting(t)' <=> Emitting(t))
    BY <1>1 DEF Dying, Emitting, Has
  <1>15. ASSUME NEW t \in Signals PROVE Settled(t)'
    <2>1. /\ Settled(t) /\ (AllTold(t) => AllTold(t)') /\ (NoneTold(t) => NoneTold(t)')
      BY <1>7, <1>9 DEF ToldInv
    <2> QED BY <1>1, <1>14, <2>1 DEF Settled
  <1> QED BY <1>2, <1>13, <1>15 DEF ToldInv

TellInv == LoopInv /\ ToldInv

LEMMA TellStep ==
  ASSUME ~RemovesNext, ~AddsLate, LoopInv, ToldInv, [Next]_vars
  PROVE  ToldInv'
  <1>0. BaseInv /\ EmitInv /\ TypeOK /\ CallInv /\ TableInv
    BY DEF LoopInv, BaseInv
  <1>1. CASE Notify
    BY <1>0, <1>1, NotifyTells
  <1>2. CASE EmitReturns
    BY <1>0, <1>2, EmitReturnsTells
  <1>3. CASE CallbackReturns
    BY <1>0, <1>3, CallbackReturnsTells
  <1>4. CASE CallDestroy
    BY <1>0, <1>4, CallDestroyTells
  <1>5. CASE FreeResource \/ ReturnId \/ ClientFreed
    BY <1>0, <1>5, FreeTells
  <1>6. CASE ForEachEntry
    <2>1. Entry(Top.at) > 0 => /\ Entry(Top.at) \in ResourceSet /\ Entry(Top.at) \in live
                               /\ ~Dying(Entry(Top.at))
      BY <1>0, <1>6, FoundEntry
    <2> QED BY <1>0, <1>6, <2>1, ForEachTells
  <1>7. CASE wl_client_destroy
    BY <1>0, <1>7, ClientDestroyTells
  <1>8. ASSUME NEW r \in ResourceSet, wl_resource_destroy(r) PROVE ToldInv'
    BY <1>0, <1>8, DestroyTells
  <1>9. ASSUME NEW s \in Signals, NEW l \in Listeners,
               wl_resource_add_destroy_listener(s, l) \/ wl_list_remove(s, l)
        PROVE  ToldInv'
    BY <1>0, <1>9, AddTells, RemoveTells
  <1>10. ASSUME NEW id \in 0 .. WL_SERVER_ID_START - 1, wl_resource_create(id) PROVE ToldInv'
    BY <1>0, <1>10, CreateTells
  <1>11. CASE UNCHANGED vars
    <2>1. stack' = stack /\ listener_list' = listener_list /\ told' = told /\ live' = live
      BY <1>11 DEF vars
    <2>2. Outer(stack') /\ (stack' # <<>> => Inner(stack'[Len(stack')]))
      BY <2>1 DEF ToldInv
    <2> QED BY <2>1, <2>2, SettledSame, ToldKeeps
  <1> QED BY <1>1, <1>2, <1>3, <1>4, <1>5, <1>6, <1>7, <1>8, <1>9, <1>10, <1>11 DEF Next

LEMMA ToldInit == Init => ToldInv
  <1> SUFFICES ASSUME Init PROVE ToldInv
    OBVIOUS
  <1>1. /\ stack = <<>> /\ listener_list = [s \in Signals |-> <<>>]
        /\ told = [l \in Listeners |-> 0]
    BY DEF Init
  <1>2. Outer(stack) /\ told \in [Listeners -> {0, 1}]
    BY <1>1 DEF Outer
  <1>3. \A s \in Signals : AllTold(s) /\ NoneTold(s)
    BY <1>1 DEF AllTold, NoneTold, Linked
  <1> QED BY <1>1, <1>2, <1>3 DEF ToldInv, Settled

\* However destructions nest and listeners remove themselves in the middle of them,
\* wl_signal_emit tells every listener of what dies once, provided that no callback
\* removes the listener that a loop stands at, adds one to a signal that is being
\* emitted or makes resources while the client is destroyed.
THEOREM EachIsToldOnce ==
  ASSUME ~RemovesNext, ~AddsLate, ~CreatesLate PROVE Spec => []ToldOnce
  <1>1. Init => ToldInv
    BY ToldInit
  <1>2. LoopInv /\ ToldInv /\ [Next]_vars => ToldInv'
    BY TellStep
  <1>3. ToldInv => ToldOnce
    BY DEF ToldInv, Settled, AllTold, ToldOnce
  <1> QED BY <1>1, <1>2, <1>3, EmissionsStand, PTL DEF Spec
=============================================================================
