----------------------------- MODULE ListProofs -----------------------------
(***************************************************************************)
(* Lemmas about lists, struct wl_list of wayland-util.c, which the models  *)
(* keep as sequences without repetitions: what is in a list after something*)
(* was put into it or taken out of it.  And induction on numbers, with the *)
(* set of those that have the property in place of the property.           *)
(* Last come the operations of struct wl_map, as changes of the entry at an*)
(* id, and its free list.                                                  *)
(***************************************************************************)
EXTENDS WlMap, FiniteSets, SequencesExt,
        FiniteSetTheorems, SequenceTheorems, WellFoundedInduction, TLAPS

LEMMA LeastNumber ==
  ASSUME NEW T \in SUBSET Nat, T # {}
  PROVE  \E x \in T : \A y \in T : x <= y
  <1> DEFINE R == {ss \in Nat \X Nat : ss[1] < ss[2]}
  <1>1. IsWellFoundedOn(R, Nat)
    BY NatLessThanWellFounded DEF OpToRel
  <1>2. PICK x \in T : \A y \in T : ~ (<<y, x>> \in R)
    BY <1>1, WFMin
  <1>3. \A y \in Nat : y < x => <<y, x>> \in R
    OBVIOUS
  <1>4. \A y \in T : ~(y < x)
    BY <1>2, <1>3
  <1> QED BY <1>4

LEMMA SetInduction ==
  ASSUME NEW T \in SUBSET Nat, 0 \in T, \A n \in T : n + 1 \in T
  PROVE  T = Nat
  <1> SUFFICES ASSUME Nat \ T # {} PROVE FALSE
    OBVIOUS
  <1>1. PICK n \in Nat \ T : \A y \in Nat \ T : n <= y
    BY LeastNumber
  <1>2. n # 0 /\ n - 1 \in Nat
    BY <1>1
  <1>3. n - 1 \in T
    BY <1>1, <1>2
  <1> QED BY <1>1, <1>2, <1>3

LEMMA ContainsEmpty == ASSUME NEW x PROVE ~Contains(<<>>, x) /\ IsInjective(<<>>)
  BY DEF Contains, IsInjective

LEMMA ContainsHead ==
  ASSUME NEW S, NEW list \in Seq(S), list # <<>>
  PROVE  Head(list) \in S /\ Contains(list, Head(list))
  BY DEF Contains

LEMMA ContainsElement ==
  ASSUME NEW S, NEW list \in Seq(S), NEW x, Contains(list, x)
  PROVE  x \in S /\ list # <<>>
  BY DEF Contains

LEMMA ContainsAppend ==
  ASSUME NEW S, NEW list \in Seq(S), NEW x \in S
  PROVE  /\ Append(list, x) \in Seq(S)
         /\ \A y : Contains(Append(list, x), y) <=> Contains(list, y) \/ y = x
         /\ IsInjective(list) /\ ~Contains(list, x) => IsInjective(Append(list, x))
  BY DEF Contains, IsInjective

LEMMA ContainsPrepend ==
  ASSUME NEW S, NEW list \in Seq(S), NEW x \in S
  PROVE  /\ <<x>> \o list \in Seq(S)
         /\ \A y : Contains(<<x>> \o list, y) <=> Contains(list, y) \/ y = x
         /\ IsInjective(list) /\ ~Contains(list, x) => IsInjective(<<x>> \o list)
  <1> DEFINE l == <<x>> \o list
  <1>1. /\ l \in Seq(S) /\ Len(l) = Len(list) + 1 /\ l[1] = x
        /\ \A i \in 1 .. Len(list) : l[i + 1] = list[i]
        /\ \A i \in 2 .. Len(l) : i - 1 \in 1 .. Len(list) /\ l[i] = list[i - 1]
    OBVIOUS
  <1> HIDE DEF l
  <1>2. DOMAIN l = 1 .. Len(list) + 1 /\ DOMAIN list = 1 .. Len(list) /\ Len(list) \in Nat
    BY <1>1
  <1>3. ASSUME NEW y PROVE Contains(l, y) <=> Contains(list, y) \/ y = x
    <2>1. ASSUME NEW i \in 1 .. Len(l), l[i] = y PROVE Contains(list, y) \/ y = x
      <3>1. CASE i = 1
        BY <1>1, <2>1, <3>1
      <3>2. CASE i # 1
        BY <1>1, <1>2, <2>1, <3>2 DEF Contains
      <3> QED BY <3>1, <3>2
    <2>2. ASSUME NEW i \in 1 .. Len(list), list[i] = y PROVE Contains(l, y)
      <3>1. i + 1 \in 1 .. Len(l) /\ l[i + 1] = y
        BY <1>1, <1>2, <2>2
      <3> QED BY <3>1 DEF Contains
    <2>3. Contains(l, x)
      BY <1>1, <1>2 DEF Contains
    <2> QED BY <2>1, <2>2, <2>3 DEF Contains
  <1>4. ASSUME IsInjective(list), ~Contains(list, x) PROVE IsInjective(l)
    <2>1. \A i \in 2 .. Len(l) : l[i] # x
      BY <1>1, <1>4 DEF Contains
    <2>2. ASSUME NEW i \in 1 .. Len(l), NEW j \in 1 .. Len(l), l[i] = l[j]
          PROVE  i = j
      <3>1. CASE i = 1 \/ j = 1
        BY <1>1, <1>2, <2>1, <2>2, <3>1
      <3>2. CASE i # 1 /\ j # 1
        <4>1. i \in 2 .. Len(l) /\ j \in 2 .. Len(l)
          BY <1>2, <3>2
        <4>2. i - 1 = j - 1
          BY <1>1, <1>2, <1>4, <2>2, <4>1 DEF IsInjective
        <4> QED BY <1>2, <4>2
      <3> QED BY <3>1, <3>2
    <2> QED BY <1>1, <1>2, <2>2 DEF IsInjective
  <1> QED BY <1>1, <1>3, <1>4 DEF l

LEMMA ContainsConcat ==
  ASSUME NEW S, NEW l1 \in Seq(S), NEW l2 \in Seq(S), NEW x,
         Contains(l1 \o l2, x)
  PROVE  Contains(l1, x) \/ Contains(l2, x)
  <1>1. PICK i \in 1 .. Len(l1 \o l2) : (l1 \o l2)[i] = x
    BY DEF Contains
  <1>2. i \in 1 .. Len(l1) + Len(l2) /\ Len(l1) \in Nat /\ Len(l2) \in Nat
    BY <1>1, ConcatProperties
  <1>3. CASE i <= Len(l1)
    BY <1>1, <1>2, <1>3, ConcatProperties DEF Contains
  <1>4. CASE i > Len(l1)
    <2>1. x = l2[i - Len(l1)] /\ i - Len(l1) \in 1 .. Len(l2)
      BY <1>1, <1>2, <1>4, ConcatProperties
    <2> QED BY <2>1 DEF Contains
  <1> QED BY <1>2, <1>3, <1>4

LEMMA ContainsTail ==
  ASSUME NEW S, NEW list \in Seq(S), list # <<>>
  PROVE  /\ Tail(list) \in Seq(S)
         /\ \A y : Contains(Tail(list), y) => Contains(list, y)
         /\ \A y : Contains(list, y) => y = Head(list) \/ Contains(Tail(list), y)
         /\ IsInjective(list) => IsInjective(Tail(list)) /\ ~Contains(Tail(list), Head(list))
  <1> DEFINE t == Tail(list)
  <1>1. /\ t \in Seq(S) /\ Len(list) = Len(t) + 1 /\ list[1] = Head(list)
        /\ \A i \in 1 .. Len(t) : t[i] = list[i + 1] /\ i + 1 \in 1 .. Len(list)
        /\ \A i \in 2 .. Len(list) : i - 1 \in 1 .. Len(t) /\ t[i - 1] = list[i]
    OBVIOUS
  <1> HIDE DEF t
  <1>2. DOMAIN t = 1 .. Len(t) /\ DOMAIN list = 1 .. Len(t) + 1 /\ Len(t) \in Nat
    BY <1>1
  <1>3. \A y : Contains(t, y) => Contains(list, y)
    BY <1>1 DEF Contains
  <1>4. ASSUME NEW i \in 1 .. Len(list) PROVE list[i] = Head(list) \/ Contains(t, list[i])
    <2>1. CASE i = 1
      BY <1>1, <2>1
    <2>2. CASE i # 1
      <3>1. i \in 2 .. Len(list)
        BY <1>1, <1>2, <2>2
      <3> QED BY <1>1, <3>1 DEF Contains
    <2> QED BY <2>1, <2>2
  <1>5. ASSUME IsInjective(list) PROVE IsInjective(t) /\ ~Contains(t, Head(list))
    <2>1. ASSUME NEW i \in 1 .. Len(t), NEW j \in 1 .. Len(t), t[i] = t[j]
          PROVE  i = j
      <3>1. /\ i + 1 \in DOMAIN list /\ j + 1 \in DOMAIN list
            /\ list[i + 1] = list[j + 1]
        BY <1>1, <1>2, <2>1
      <3>2. i + 1 = j + 1
        BY <1>5, <3>1 DEF IsInjective
      <3> QED BY <3>2
    <2>2. IsInjective(t)
      BY <1>2, <2>1 DEF IsInjective
    <2>3. ASSUME NEW i \in 1 .. Len(t) PROVE t[i] # Head(list)
      <3>1. 1 \in DOMAIN list /\ i + 1 \in DOMAIN list /\ i + 1 # 1
        BY <1>1, <1>2
      <3> QED BY <1>1, <1>5, <3>1 DEF IsInjective
    <2> QED BY <2>2, <2>3 DEF Contains
  <1> QED BY <1>1, <1>3, <1>4, <1>5 DEF t, Contains

\* What wl_list_remove takes out, and what follows moves up.
LEMMA RemoveShape ==
  ASSUME NEW S, NEW list \in Seq(S), IsInjective(list), NEW i \in 1 .. Len(list)
  PROVE  /\ RemoveFirst(list, list[i]) \in Seq(S)
         /\ Len(RemoveFirst(list, list[i])) = Len(list) - 1
         /\ \A j \in 1 .. Len(list) - 1 :
               RemoveFirst(list, list[i])[j] = list[IF j < i THEN j ELSE j + 1]
  <1>1. PICK x : x = list[i]
    OBVIOUS
  <1>2. SelectInSeq(list, LAMBDA v : v = x) = i
    <2>1. {j \in 1 .. Len(list) : list[j] = x} = {i}
      BY <1>1 DEF IsInjective
    <2> QED BY <2>1 DEF SelectInSeq, Min
  <1> DEFINE a == SubSeq(list, 1, i - 1)
             b == SubSeq(list, i + 1, Len(list))
             r == a \o b
  <1>3. RemoveFirst(list, x) = r
    BY <1>1, <1>2 DEF Contains, RemoveFirst, RemoveAt
  <1>4. /\ a \in Seq(S) /\ Len(a) = i - 1
        /\ \A j \in 1 .. i - 1 : a[j] = list[j]
    OBVIOUS
  <1>5. /\ b \in Seq(S) /\ Len(b) = Len(list) - i
        /\ \A j \in 1 .. Len(list) - i : b[j] = list[j + i]
    OBVIOUS
  <1> HIDE DEF a, b
  <1>6. /\ r \in Seq(S) /\ Len(r) = Len(list) - 1
        /\ \A j \in 1 .. Len(list) - 1 : r[j] = list[IF j < i THEN j ELSE j + 1]
    <2>1. /\ r \in Seq(S) /\ Len(r) = Len(a) + Len(b)
          /\ \A j \in 1 .. Len(a) + Len(b) :
                r[j] = IF j <= Len(a) THEN a[j] ELSE b[j - Len(a)]
      BY <1>4, <1>5, ConcatProperties
    <2> HIDE DEF r
    <2>2. i \in Nat /\ Len(list) \in Nat
      OBVIOUS
    <2>3. ASSUME NEW j \in 1 .. Len(list) - 1
          PROVE  r[j] = list[IF j < i THEN j ELSE j + 1]
      <3>1. CASE j < i
        <4>1. r[j] = a[j] /\ j \in 1 .. i - 1
          BY <1>4, <1>5, <2>1, <2>2, <3>1
        <4> QED BY <1>4, <3>1, <4>1
      <3>2. CASE j >= i
        <4>1. r[j] = b[j - (i - 1)] /\ j - (i - 1) \in 1 .. Len(list) - i
          <5>1. /\ j \in 1 .. Len(a) + Len(b) /\ ~(j <= Len(a)) /\ Len(a) = i - 1
                /\ j - (i - 1) \in 1 .. Len(list) - i
            BY <1>4, <1>5, <2>2, <3>2
          <5>2. r[j] = b[j - Len(a)]
            BY <2>1, <5>1
          <5> QED BY <5>1, <5>2
        <4>2. j - (i - 1) + i = j + 1
          BY <2>2
        <4> QED BY <1>5, <2>2, <3>2, <4>1, <4>2
      <3> QED BY <2>2, <3>1, <3>2
    <2> QED BY <1>4, <1>5, <2>1, <2>2, <2>3
  <1> QED BY <1>1, <1>3, <1>6

\* wl_list_remove
LEMMA ContainsRemove ==
  ASSUME NEW S, NEW list \in Seq(S), IsInjective(list), NEW x
  PROVE  /\ RemoveFirst(list, x) \in Seq(S)
         /\ \A y : Contains(RemoveFirst(list, x), y) <=> Contains(list, y) /\ y # x
         /\ IsInjective(RemoveFirst(list, x))
  <1>1. CASE ~Contains(list, x)
    BY <1>1 DEF Contains, RemoveFirst
  <1>2. CASE Contains(list, x)
    <2>1. PICK i \in 1 .. Len(list) : list[i] = x
      BY <1>2 DEF Contains
    <2> DEFINE r == RemoveFirst(list, x)
    <2>2. /\ r \in Seq(S) /\ Len(r) = Len(list) - 1
          /\ \A j \in 1 .. Len(list) - 1 : r[j] = list[IF j < i THEN j ELSE j + 1]
      BY <2>1, RemoveShape
    <2> HIDE DEF r
    <2>3. /\ DOMAIN r = 1 .. Len(list) - 1 /\ DOMAIN list = 1 .. Len(list)
          /\ i \in Nat /\ Len(list) \in Nat /\ i >= 1 /\ i <= Len(list)
      BY <2>2
    <2>4. IsInjective(r)
      <3>1. ASSUME NEW j \in 1 .. Len(list) - 1, NEW k \in 1 .. Len(list) - 1, r[j] = r[k]
            PROVE  j = k
        <4>1. PICK m, n : m = (IF j < i THEN j ELSE j + 1) /\ n = (IF k < i THEN k ELSE k + 1)
          OBVIOUS
        <4>2. m \in 1 .. Len(list) /\ n \in 1 .. Len(list) /\ list[m] = list[n]
          BY <2>2, <2>3, <3>1, <4>1
        <4>3. m = n
          BY <2>3, <4>2 DEF IsInjective
        <4> QED BY <2>3, <4>1, <4>3
      <3> QED BY <2>3, <3>1 DEF IsInjective
    <2>5. ASSUME NEW y PROVE Contains(r, y) <=> Contains(list, y) /\ y # x
      <3>1. ASSUME NEW j \in 1 .. Len(r), r[j] = y PROVE Contains(list, y) /\ y # x
        <4> DEFINE k == IF j < i THEN j ELSE j + 1
        <4>1. k \in 1 .. Len(list) /\ k # i /\ list[k] = y
          BY <2>2, <2>3, <3>1
        <4> HIDE DEF k
        <4> QED BY <2>1, <2>3, <4>1 DEF Contains, IsInjective
      <3>2. ASSUME NEW k \in 1 .. Len(list), list[k] = y, y # x PROVE Contains(r, y)
        <4>1. k # i
          BY <2>1, <3>2
        <4>2. CASE k < i
          <5>1. k \in 1 .. Len(list) - 1 /\ r[k] = y
            BY <2>2, <2>3, <3>2, <4>2
          <5> QED BY <2>2, <5>1 DEF Contains
        <4>3. CASE k > i
          <5>1. k - 1 \in 1 .. Len(list) - 1 /\ ~(k - 1 < i) /\ k - 1 + 1 = k
            BY <2>3, <4>3
          <5>2. r[k - 1] = y
            BY <2>2, <3>2, <5>1
          <5> QED BY <2>2, <5>1, <5>2 DEF Contains
        <4> QED BY <2>3, <4>1, <4>2, <4>3
      <3> QED BY <3>1, <3>2 DEF Contains
    <2> QED BY <2>2, <2>4, <2>5 DEF r
  <1> QED BY <1>1, <1>2

\* How often something is in a list.
LEMMA TimesInList ==
  ASSUME NEW S, NEW list \in Seq(S), IsInjective(list), NEW x
  PROVE  Cardinality({i \in 1 .. Len(list) : list[i] = x})
            = IF Contains(list, x) THEN 1 ELSE 0
  <1>1. CASE Contains(list, x)
    <2>1. PICK i \in 1 .. Len(list) : list[i] = x
      BY <1>1 DEF Contains
    <2>2. {j \in 1 .. Len(list) : list[j] = x} = {i}
      BY <2>1 DEF IsInjective
    <2> QED BY <1>1, <2>2, FS_Singleton
  <1>2. CASE ~Contains(list, x)
    <2>1. {j \in 1 .. Len(list) : list[j] = x} = {}
      BY <1>2 DEF Contains
    <2> QED BY <1>2, <2>1, FS_EmptySet
  <1> QED BY <1>1, <1>2

-----------------------------------------------------------------------------
\* The free list of wl_map, threaded through its entries: ch has the places of the
\* free entries from the head on, each entry has the negated place of the next
\* one, and every entry that is not on the list is positive, except those that are
\* kept: id 0 is never given out, though its entry is NULL.
Chained(ch, entries, free, kept) ==
  /\ \A i \in 1 .. Len(ch) : ch[i] \in 1 .. Len(entries) /\ ch[i] \notin kept
  /\ \A i, j \in 1 .. Len(ch) : ch[i] = ch[j] => i = j
  /\ \A p \in 1 .. Len(entries) \ kept : entries[p] <= 0 => \E i \in 1 .. Len(ch) : ch[i] = p
  /\ \A i \in 1 .. Len(ch) : entries[ch[i]] = IF i = Len(ch) THEN 0 ELSE -ch[i + 1]
  /\ free = IF ch = <<>> THEN 0 ELSE -ch[1]

\* No list is longer than the array.
LEMMA ChainLength ==
  ASSUME NEW entries \in Seq(Int), NEW free, NEW ch \in Seq(Nat), NEW kept, Chained(ch, entries, free, kept)
  PROVE  Len(ch) <= Len(entries)
  <1> DEFINE S == 1 .. Len(ch)
             T == 1 .. Len(entries)
  <1>1. Len(ch) \in Nat /\ Len(entries) \in Nat
    OBVIOUS
  <1>2. IsFiniteSet(S) /\ Cardinality(S) = Len(ch) /\ IsFiniteSet(T) /\ Cardinality(T) = Len(entries)
    <2>1. ASSUME NEW n \in Nat PROVE IsFiniteSet(1 .. n) /\ Cardinality(1 .. n) = n
      <3>1. IsFiniteSet(1 .. n) /\ Cardinality(1 .. n) = IF 1 > n THEN 0 ELSE n - 1 + 1
        BY FS_Interval
      <3> QED BY <3>1
    <2> QED BY <1>1, <2>1
  <1>3. ch \in [S -> T]
    BY <1>1 DEF Chained
  <1>4. \A i, j \in S : i # j => ch[i] # ch[j]
    BY DEF Chained
  <1> HIDE DEF S, T
  <1>5. ~(Cardinality(T) < Cardinality(S))
    BY <1>2, <1>3, <1>4, FS_PigeonHole
  <1> QED BY <1>1, <1>2, <1>5

\* Taking the head of the list
LEMMA ChainPop ==
  ASSUME NEW entries \in Seq(Int), NEW free \in Int, NEW ch \in Seq(Nat), NEW kept, Chained(ch, entries, free, kept),
         free # 0, NEW x \in Int, x > 0
  PROVE  /\ -free \in 1 .. Len(entries) /\ -free \notin kept /\ entries[-free] <= 0
         /\ Tail(ch) \in Seq(Nat)
         /\ Chained(Tail(ch), [entries EXCEPT ![-free] = x], entries[-free], kept)
  <1> DEFINE t == Tail(ch)
             e == [entries EXCEPT ![-free] = x]
  <1>1. /\ ch # <<>> /\ 1 \in 1 .. Len(ch) /\ free = -ch[1] /\ ch[1] \in Nat /\ -free = ch[1]
        /\ Len(ch) \in Nat /\ Len(ch) > 0 /\ Len(entries) \in Nat
    BY DEF Chained
  <1>2. /\ t \in Seq(Nat) /\ Len(t) = Len(ch) - 1
        /\ \A i \in 1 .. Len(t) : t[i] = ch[i + 1] /\ i + 1 \in 1 .. Len(ch)
    BY <1>1
  <1> HIDE DEF t
  <1>3. /\ -free \in 1 .. Len(entries) /\ -free \notin kept
        /\ entries[-free] = IF 1 = Len(ch) THEN 0 ELSE -ch[2]
    <2>1. /\ ch[1] \in 1 .. Len(entries) /\ ch[1] \notin kept
          /\ entries[ch[1]] = IF 1 = Len(ch) THEN 0 ELSE -ch[1 + 1]
      BY <1>1 DEF Chained
    <2> QED BY <1>1, <2>1
  <1>4. ASSUME Len(ch) # 1 PROVE ch[2] \in Nat
    <2>1. \A n \in Nat : n > 0 /\ n # 1 => 2 \in 1 .. n
      OBVIOUS
    <2>2. 2 \in 1 .. Len(ch)
      BY <1>1, <1>4, <2>1
    <2> QED BY <2>2
  <1>5. /\ e \in Seq(Int) /\ Len(e) = Len(entries) /\ e[-free] = x
        /\ \A p \in 1 .. Len(entries) : p # -free => e[p] = entries[p]
    BY <1>3
  <1> HIDE DEF e
  <1>6. \A i \in 1 .. Len(t) : t[i] \in 1 .. Len(e) /\ t[i] \notin kept /\ t[i] # -free
    <2> SUFFICES ASSUME NEW i \in 1 .. Len(t)
                 PROVE  t[i] \in 1 .. Len(e) /\ t[i] \notin kept /\ t[i] # -free
      OBVIOUS
    <2>1. i + 1 \in 1 .. Len(ch) /\ i + 1 # 1 /\ t[i] = ch[i + 1]
      BY <1>2
    <2> QED BY <1>1, <1>5, <2>1 DEF Chained
  <1>7. \A i, j \in 1 .. Len(t) : t[i] = t[j] => i = j
    <2> SUFFICES ASSUME NEW i \in 1 .. Len(t), NEW j \in 1 .. Len(t), t[i] = t[j] PROVE i = j
      OBVIOUS
    <2>1. /\ i + 1 \in 1 .. Len(ch) /\ j + 1 \in 1 .. Len(ch) /\ ch[i + 1] = ch[j + 1]
          /\ i \in Nat /\ j \in Nat
      BY <1>2, SMTT(30)
    <2>2. i + 1 = j + 1
      BY <2>1 DEF Chained
    <2> QED BY <2>1, <2>2
  <1>8. ASSUME NEW p \in 1 .. Len(e) \ kept, e[p] <= 0 PROVE \E i \in 1 .. Len(t) : t[i] = p
    <2>1. p # -free /\ entries[p] <= 0 /\ p \in 1 .. Len(entries)
      BY <1>5, <1>8
    <2>2. PICK i \in 1 .. Len(ch) : ch[i] = p
      BY <2>1 DEF Chained
    <2>3. i - 1 \in 1 .. Len(t) /\ i - 1 + 1 = i
      BY <1>1, <1>2, <2>1, <2>2
    <2> QED BY <1>2, <2>2, <2>3
  <1>9. ASSUME NEW i \in 1 .. Len(t)
        PROVE  e[t[i]] = IF i = Len(t) THEN 0 ELSE -t[i + 1]
    <2>1. /\ e[t[i]] = entries[ch[i + 1]] /\ i + 1 \in 1 .. Len(ch)
          /\ i # Len(t) => i + 1 \in 1 .. Len(t) /\ t[i + 1] = ch[i + 1 + 1]
          /\ i = Len(t) <=> i + 1 = Len(ch)
      <3>1. t[i] \in 1 .. Len(entries) /\ t[i] # -free /\ t[i] = ch[i + 1] /\ i + 1 \in 1 .. Len(ch)
        BY <1>2, <1>5, <1>6
      <3>2. e[t[i]] = entries[ch[i + 1]]
        BY <1>5, <3>1
      <3>3. /\ i # Len(t) => i + 1 \in 1 .. Len(t)
            /\ i = Len(t) <=> i + 1 = Len(ch)
        BY <1>1, <1>2
      <3> QED BY <1>2, <3>1, <3>2, <3>3
    <2> QED BY <2>1 DEF Chained
  <1>10. entries[-free] = IF t = <<>> THEN 0 ELSE -t[1]
    <2>1. CASE Len(ch) = 1
      BY <1>2, <1>3, <2>1
    <2>2. CASE Len(ch) # 1
      <3>1. 1 \in 1 .. Len(t) /\ t # <<>>
        BY <1>1, <1>2, <2>2
      <3> QED BY <1>2, <1>3, <2>2, <3>1, SMTT(30)
    <2> QED BY <2>1, <2>2
  <1>11. Chained(t, e, entries[-free], kept)
    BY <1>6, <1>7, <1>8, <1>9, <1>10 DEF Chained
  <1> QED BY <1>2, <1>3, <1>4, <1>11 DEF t, e

\* Putting an entry on the list
LEMMA ChainPush ==
  ASSUME NEW entries \in Seq(Int), NEW free \in Int, NEW ch \in Seq(Nat), NEW kept, Chained(ch, entries, free, kept),
         NEW p \in 1 .. Len(entries) \ kept, entries[p] > 0
  PROVE  <<p>> \o ch \in Seq(Nat) /\ Chained(<<p>> \o ch, [entries EXCEPT ![p] = free], -p, kept)
  <1> DEFINE c == <<p>> \o ch
             e == [entries EXCEPT ![p] = free]
  <1>1. /\ c \in Seq(Nat) /\ Len(c) = Len(ch) + 1 /\ c[1] = p /\ c # <<>>
        /\ \A i \in 1 .. Len(ch) : c[i + 1] = ch[i] /\ i + 1 \in 1 .. Len(c)
        /\ \A i \in 1 .. Len(c) : i = 1 \/ (i - 1 \in 1 .. Len(ch) /\ c[i] = ch[i - 1])
        /\ Len(ch) \in Nat /\ Len(entries) \in Nat /\ p \in Nat
    OBVIOUS
  <1>2. /\ e \in Seq(Int) /\ Len(e) = Len(entries) /\ e[p] = free
        /\ \A q \in 1 .. Len(entries) : q # p => e[q] = entries[q]
    OBVIOUS
  <1> HIDE DEF c, e
  <1>3. \A i \in 1 .. Len(ch) : ch[i] \in 1 .. Len(entries) /\ ch[i] \notin kept /\ ch[i] # p
    <2> SUFFICES ASSUME NEW i \in 1 .. Len(ch)
                 PROVE  ch[i] \in 1 .. Len(entries) /\ ch[i] \notin kept /\ ch[i] # p
      OBVIOUS
    <2>1. ASSUME i # Len(ch) PROVE ch[i + 1] \in Nat
      <3>1. i + 1 \in 1 .. Len(ch)
        BY <1>1, <2>1
      <3> QED BY <3>1
    <2>2. entries[ch[i]] = IF i = Len(ch) THEN 0 ELSE -ch[i + 1]
      BY DEF Chained
    <2>3. entries[ch[i]] <= 0
      BY <2>1, <2>2
    <2> QED BY <2>3 DEF Chained
  <1>4. \A i \in 1 .. Len(c) : c[i] \in 1 .. Len(e) /\ c[i] \notin kept
    BY <1>1, <1>2, <1>3
  <1>5. ASSUME NEW i \in 1 .. Len(c), NEW j \in 1 .. Len(c), c[i] = c[j] PROVE i = j
    <2>1. CASE i = 1 \/ j = 1
      <3>1. ASSUME NEW k \in 1 .. Len(c), k # 1 PROVE c[k] # p
        <4>1. k - 1 \in 1 .. Len(ch) /\ c[k] = ch[k - 1]
          BY <1>1, <3>1
        <4> QED BY <1>3, <4>1
      <3> QED BY <1>1, <1>5, <2>1, <3>1
    <2>2. CASE i # 1 /\ j # 1
      <3>1. i - 1 \in 1 .. Len(ch) /\ j - 1 \in 1 .. Len(ch) /\ ch[i - 1] = ch[j - 1]
        BY <1>1, <1>5, <2>2
      <3>2. i - 1 = j - 1
        BY <3>1 DEF Chained
      <3> QED BY <3>2
    <2> QED BY <2>1, <2>2
  <1>6. ASSUME NEW q \in 1 .. Len(e) \ kept, e[q] <= 0 PROVE \E i \in 1 .. Len(c) : c[i] = q
    <2>1. CASE q = p
      BY <1>1, <2>1
    <2>2. CASE q # p
      <3>1. PICK i \in 1 .. Len(ch) : ch[i] = q
        BY <1>2, <1>6, <2>2 DEF Chained
      <3> QED BY <1>1, <3>1
    <2> QED BY <2>1, <2>2
  <1>7. ASSUME NEW i \in 1 .. Len(c)
        PROVE  e[c[i]] = IF i = Len(c) THEN 0 ELSE -c[i + 1]
    <2>1. CASE i = 1
      <3>1. e[c[1]] = IF ch = <<>> THEN 0 ELSE -ch[1]
        BY <1>1, <1>2 DEF Chained
      <3>2. CASE ch = <<>>
        BY <1>1, <2>1, <3>1, <3>2
      <3>3. CASE ch # <<>>
        <4>1. 1 \in 1 .. Len(ch) /\ 1 # Len(c) /\ c[2] = ch[1]
          BY <1>1, <3>3, SMTT(30)
        <4> QED BY <2>1, <3>1, <3>3, <4>1
      <3> QED BY <3>2, <3>3
    <2>2. CASE i # 1
      <3>1. /\ i - 1 \in 1 .. Len(ch) /\ c[i] = ch[i - 1]
            /\ i = Len(c) <=> i - 1 = Len(ch)
            /\ i # Len(c) => i \in 1 .. Len(ch) /\ c[i + 1] = ch[i]
            /\ i - 1 + 1 = i
        BY <1>1, <2>2, SMTT(30)
      <3>2. e[c[i]] = entries[ch[i - 1]]
        BY <1>2, <1>3, <3>1
      <3>3. entries[ch[i - 1]] = IF i - 1 = Len(ch) THEN 0 ELSE -ch[i]
        BY <3>1 DEF Chained
      <3> QED BY <3>1, <3>2, <3>3
    <2> QED BY <2>1, <2>2
  <1>8. -p = IF c = <<>> THEN 0 ELSE -c[1]
    BY <1>1
  <1>9. Chained(c, e, -p, kept)
    BY <1>4, <1>5, <1>6, <1>7, <1>8 DEF Chained
  <1> QED BY <1>1, <1>9 DEF c, e

\* A new entry at the end
LEMMA ChainGrow ==
  ASSUME NEW entries \in Seq(Int), NEW free \in Int, NEW ch \in Seq(Nat), NEW kept, Chained(ch, entries, free, kept),
         NEW x \in Int, x > 0
  PROVE  Chained(ch, Append(entries, x), free, kept)
  <1> DEFINE e == Append(entries, x)
  <1>1. /\ e \in Seq(Int) /\ Len(e) = Len(entries) + 1 /\ e[Len(entries) + 1] = x
        /\ \A q \in 1 .. Len(entries) : e[q] = entries[q]
        /\ Len(entries) \in Nat /\ Len(ch) \in Nat
    OBVIOUS
  <1> HIDE DEF e
  <1>2. \A i \in 1 .. Len(ch) : /\ ch[i] \in 1 .. Len(e) /\ ch[i] \in 1 .. Len(entries)
                                /\ ch[i] \notin kept
    BY <1>1 DEF Chained
  <1>3. ASSUME NEW q \in 1 .. Len(e) \ kept, e[q] <= 0 PROVE \E i \in 1 .. Len(ch) : ch[i] = q
    <2>1. q # Len(entries) + 1
      BY <1>1, <1>3
    <2>2. q \in 1 .. Len(entries) /\ entries[q] <= 0
      BY <1>1, <1>3, <2>1
    <2> QED BY <2>2 DEF Chained
  <1>4. Chained(ch, e, free, kept)
    BY <1>1, <1>2, <1>3 DEF Chained
  <1> QED BY <1>4 DEF e

-----------------------------------------------------------------------------
\* FlattenSeq, which is defined by recursion

Flattens(f, ss, n) ==
    f = [i \in 1 .. n |-> IF i = 1 THEN ss[i] ELSE f[i - 1] \o ss[i]]

LEMMA FlattensExists ==
  ASSUME NEW ss, NEW n \in Nat
  PROVE  \E f : Flattens(f, ss, n)
  <1> DEFINE T == {m \in Nat : \E f : Flattens(f, ss, m)}
  <1>1. 0 \in T
    <2> DEFINE f == [i \in 1 .. 0 |-> ss]
    <2>1. Flattens(f, ss, 0)
      <3>1. 1 .. 0 = {}
        OBVIOUS
      <3> QED BY <3>1 DEF Flattens
    <2> QED BY <2>1
  <1>2. ASSUME NEW m \in T PROVE m + 1 \in T
    <2>1. PICK f : Flattens(f, ss, m)
      OBVIOUS
    <2>2. m \in Nat
      OBVIOUS
    <2> DEFINE g == [i \in 1 .. m + 1 |->
                       IF i \in 1 .. m THEN f[i]
                       ELSE IF i = 1 THEN ss[i] ELSE f[i - 1] \o ss[i]]
    <2>3. \A i \in 1 .. m : f[i] = IF i = 1 THEN ss[i] ELSE f[i - 1] \o ss[i]
      BY <2>1 DEF Flattens
    <2>4. ASSUME NEW i \in 1 .. m + 1
          PROVE  g[i] = IF i = 1 THEN ss[i] ELSE g[i - 1] \o ss[i]
      <3>1. CASE i = 1
        BY <2>2, <2>3, <3>1
      <3>2. CASE i # 1
        <4>1. i - 1 \in 1 .. m + 1 /\ i - 1 \in 1 .. m /\ g[i - 1] = f[i - 1]
          BY <2>2, <3>2
        <4> QED BY <2>2, <2>3, <3>2, <4>1
      <3> QED BY <3>1, <3>2
    <2>5. g = [i \in 1 .. m + 1 |-> g[i]]
      OBVIOUS
    <2> HIDE DEF g
    <2>6. Flattens(g, ss, m + 1)
      <3> DEFINE k == [i \in 1 .. m + 1 |-> IF i = 1 THEN ss[i] ELSE g[i - 1] \o ss[i]]
      <3>1. k = [i \in 1 .. m + 1 |-> g[i]]
        BY <2>4
      <3> QED BY <2>5, <3>1 DEF Flattens
    <2> QED BY <2>2, <2>6
  <1>3. T = Nat
    <2>1. T \in SUBSET Nat
      OBVIOUS
    <2> HIDE DEF T
    <2> QED BY <1>1, <1>2, <2>1, SetInduction
  <1> QED BY <1>3

LEMMA FlattenIs ==
  ASSUME NEW ss, Len(ss) \in Nat, Len(ss) # 0
  PROVE  \E f : Flattens(f, ss, Len(ss)) /\ FlattenSeq(ss) = f[Len(ss)]
  <1> DEFINE n == Len(ss)
             g == CHOOSE f : f = [i \in 1 .. n |-> IF i = 1 THEN ss[i] ELSE f[i - 1] \o ss[i]]
  <1>1. FlattenSeq(ss) = g[n]
    BY DEF FlattenSeq
  <1>2. \E f : f = [i \in 1 .. n |-> IF i = 1 THEN ss[i] ELSE f[i - 1] \o ss[i]]
    BY FlattensExists DEF Flattens
  <1>3. Flattens(g, ss, n)
    BY <1>2 DEF Flattens
  <1> HIDE DEF g
  <1> QED BY <1>1, <1>3

LEMMA ConcatGroups ==
  \A S : \A s, t, u \in Seq(S) : (s \o t) \o u = s \o (t \o u)
  OBVIOUS

LEMMA ConcatWithAppend ==
  ASSUME NEW S, NEW s \in Seq(S), NEW t \in Seq(S), NEW x \in S
  PROVE  s \o Append(t, x) = Append(s \o t, x) /\ s \o t \in Seq(S)
  OBVIOUS

LEMMA FlattenEmpty == FlattenSeq(<<>>) = <<>>
  BY DEF FlattenSeq

LEMMA FlattenAppend ==
  ASSUME NEW S, NEW ss \in Seq(Seq(S)), NEW s \in Seq(S)
  PROVE  FlattenSeq(Append(ss, s)) = FlattenSeq(ss) \o s
  <1> DEFINE n == Len(ss)
             tt == Append(ss, s)
  <1>1. /\ n \in Nat /\ Len(tt) = n + 1 /\ tt[n + 1] = s
        /\ \A i \in 1 .. n : ss[i] = tt[i]
    BY LenProperties, AppendProperties
  <1> HIDE DEF tt
  <1>2. PICK g : Flattens(g, tt, n + 1) /\ FlattenSeq(tt) = g[n + 1]
    <2>1. Len(tt) \in Nat /\ Len(tt) # 0
      BY <1>1
    <2> QED BY <1>1, <2>1, FlattenIs
  <1>3. g[n + 1] = IF n + 1 = 1 THEN tt[n + 1] ELSE g[n + 1 - 1] \o tt[n + 1]
    <2>1. n + 1 \in 1 .. n + 1
      BY <1>1
    <2>2. \A i \in 1 .. n + 1 : g[i] = IF i = 1 THEN tt[i] ELSE g[i - 1] \o tt[i]
      BY <1>2 DEF Flattens
    <2> HIDE DEF n
    <2> QED BY <1>1, <2>1, <2>2
  <1>4. CASE n = 0
    <2>1. ss = <<>>
      BY <1>4, EmptySeq
    <2>2. FlattenSeq(ss) \o s = s
      BY <2>1, FlattenEmpty, ConcatEmptySeq
    <2> QED BY <1>1, <1>2, <1>3, <1>4, <2>2 DEF tt
  <1>5. CASE n # 0
    <2>1. PICK f : Flattens(f, ss, n) /\ FlattenSeq(ss) = f[n]
      BY <1>1, <1>5, FlattenIs
    <2>2. n + 1 \in Nat /\ n <= n + 1 /\ n \in 1 .. n /\ n + 1 - 1 = n /\ n + 1 # 1
      BY <1>1, <1>5
    <2>3. \A i \in 1 .. n : f[i] = IF i = 1 THEN ss[i] ELSE f[i - 1] \o ss[i]
      BY <2>1 DEF Flattens
    <2>4. \A i \in 1 .. n : g[i] = IF i = 1 THEN tt[i] ELSE g[i - 1] \o tt[i]
      <3>1. \A i \in 1 .. n + 1 : g[i] = IF i = 1 THEN tt[i] ELSE g[i - 1] \o tt[i]
        BY <1>2 DEF Flattens
      <3>2. \A i \in 1 .. n : i \in 1 .. n + 1
        BY <1>1
      <3> QED BY ONLY <3>1, <3>2
    <2>5. f[n] = g[n]
      <3> DEFINE T == {k \in Nat : k \in 1 .. n => f[k] = g[k]}
      <3>1. 0 \in T
        OBVIOUS
      <3>2. ASSUME NEW k \in T PROVE k + 1 \in T
        <4> SUFFICES ASSUME k + 1 \in 1 .. n PROVE f[k + 1] = g[k + 1]
          OBVIOUS
        <4>1. k \in Nat /\ (k + 1) - 1 = k /\ (k # 0 => k \in 1 .. n)
          BY <1>1
        <4>2. f[k + 1] = IF k + 1 = 1 THEN ss[k + 1] ELSE f[(k + 1) - 1] \o ss[k + 1]
          BY <2>3
        <4>3. g[k + 1] = IF k + 1 = 1 THEN tt[k + 1] ELSE g[(k + 1) - 1] \o tt[k + 1]
          BY <2>4
        <4>4. ss[k + 1] = tt[k + 1]
          BY <1>1
        <4>5. k # 0 => f[k] = g[k]
          BY <4>1
        <4> QED BY ONLY <4>1, <4>2, <4>3, <4>4, <4>5
      <3>3. T = Nat
        <4>1. T \in SUBSET Nat
          OBVIOUS
        <4> HIDE DEF T
        <4> QED BY <3>1, <3>2, <4>1, SetInduction
      <3>4. n \in T
        BY <1>1, <3>3
      <3> QED BY <2>2, <3>4
    <2> QED BY <1>1, <1>2, <1>3, <2>1, <2>2, <2>5 DEF tt
  <1> QED BY <1>4, <1>5

\* Every sequence is a shorter one and an element behind it
LEMMA LastOf ==
  ASSUME NEW S, NEW s \in Seq(S), Len(s) # 0
  PROVE  \E t \in Seq(S), x \in S : s = Append(t, x) /\ Len(s) = Len(t) + 1
  <1>1. s # <<>>
    OBVIOUS
  <1>2. PICK t \in Seq(S), x \in S : s = Append(t, x)
    BY <1>1, SequenceEmptyOrAppend
  <1>3. Len(s) = Len(t) + 1
    BY <1>2, AppendProperties
  <1> QED BY <1>2, <1>3

LEMMA FlattenType ==
  ASSUME NEW S, NEW ss \in Seq(Seq(S))
  PROVE  FlattenSeq(ss) \in Seq(S)
  <1> DEFINE T == {n \in Nat : \A tt \in Seq(Seq(S)) : Len(tt) = n => FlattenSeq(tt) \in Seq(S)}
  <1>1. 0 \in T
    <2> SUFFICES ASSUME NEW tt \in Seq(Seq(S)), Len(tt) = 0 PROVE FlattenSeq(tt) \in Seq(S)
      OBVIOUS
    <2>1. tt = <<>>
      BY EmptySeq
    <2> QED BY <2>1, FlattenEmpty, EmptySeq
  <1>2. ASSUME NEW n \in T PROVE n + 1 \in T
    <2> SUFFICES ASSUME NEW tt \in Seq(Seq(S)), Len(tt) = n + 1
                 PROVE  FlattenSeq(tt) \in Seq(S)
      OBVIOUS
    <2>1. n \in Nat /\ Len(tt) # 0
      OBVIOUS
    <2>2. PICK uu \in Seq(Seq(S)), x \in Seq(S) : tt = Append(uu, x) /\ Len(tt) = Len(uu) + 1
      BY <2>1, LastOf
    <2>3. Len(uu) = n
      BY <2>1, <2>2, LenProperties
    <2>4. FlattenSeq(uu) \in Seq(S)
      BY <2>3
    <2> QED BY <2>2, <2>4, FlattenAppend, ConcatProperties
  <1>3. T = Nat
    <2>1. T \in SUBSET Nat
      OBVIOUS
    <2> HIDE DEF T
    <2> QED BY <1>1, <1>2, <2>1, SetInduction
  <1> QED BY <1>3, LenProperties

LEMMA FlattenConcatStep ==
  ASSUME NEW S, NEW ss \in Seq(Seq(S)), NEW tt \in Seq(Seq(S)), NEW s \in Seq(S),
         FlattenSeq(ss \o tt) = FlattenSeq(ss) \o FlattenSeq(tt)
  PROVE  FlattenSeq(ss \o Append(tt, s)) = FlattenSeq(ss) \o FlattenSeq(Append(tt, s))
  <1> DEFINE a == FlattenSeq(ss)
             b == FlattenSeq(tt)
  <1>1. a \in Seq(S) /\ b \in Seq(S)
    BY FlattenType
  <1>2. ss \o Append(tt, s) = Append(ss \o tt, s) /\ ss \o tt \in Seq(Seq(S))
    BY ConcatWithAppend
  <1>3. FlattenSeq(Append(ss \o tt, s)) = (a \o b) \o s
    BY <1>2, FlattenAppend
  <1>4. FlattenSeq(Append(tt, s)) = b \o s
    BY FlattenAppend
  <1> HIDE DEF a, b
  <1>5. (a \o b) \o s = a \o (b \o s)
    BY <1>1, ConcatGroups
  <1> QED BY <1>2, <1>3, <1>4, <1>5 DEF a

LEMMA FlattenConcat ==
  ASSUME NEW S, NEW ss \in Seq(Seq(S)), NEW tt \in Seq(Seq(S))
  PROVE  FlattenSeq(ss \o tt) = FlattenSeq(ss) \o FlattenSeq(tt)
  <1> DEFINE T == {n \in Nat : \A uu \in Seq(Seq(S)) : Len(uu) = n =>
                                  FlattenSeq(ss \o uu) = FlattenSeq(ss) \o FlattenSeq(uu)}
  <1>0. FlattenSeq(ss) \in Seq(S)
    BY FlattenType
  <1>1. 0 \in T
    <2> SUFFICES ASSUME NEW uu \in Seq(Seq(S)), Len(uu) = 0
                 PROVE  FlattenSeq(ss \o uu) = FlattenSeq(ss) \o FlattenSeq(uu)
      OBVIOUS
    <2>1. uu = <<>>
      BY EmptySeq
    <2>2. ss \o <<>> = ss
      BY ConcatEmptySeq
    <2>3. FlattenSeq(ss) \o <<>> = FlattenSeq(ss)
      BY <1>0, ConcatEmptySeq
    <2> QED BY <2>1, <2>2, <2>3, FlattenEmpty
  <1>2. ASSUME NEW n \in T PROVE n + 1 \in T
    <2> SUFFICES ASSUME NEW uu \in Seq(Seq(S)), Len(uu) = n + 1
                 PROVE  FlattenSeq(ss \o uu) = FlattenSeq(ss) \o FlattenSeq(uu)
      OBVIOUS
    <2>1. n \in Nat /\ Len(uu) # 0
      OBVIOUS
    <2>2. PICK vv \in Seq(Seq(S)), x \in Seq(S) : uu = Append(vv, x) /\ Len(uu) = Len(vv) + 1
      BY <2>1, LastOf
    <2>3. Len(vv) = n
      BY <2>1, <2>2, LenProperties
    <2>4. FlattenSeq(ss \o vv) = FlattenSeq(ss) \o FlattenSeq(vv)
      BY <2>3
    <2> HIDE DEF T
    <2> QED BY <2>2, <2>4, FlattenConcatStep
  <1>3. T = Nat
    <2>1. T \in SUBSET Nat
      OBVIOUS
    <2> HIDE DEF T
    <2> QED BY <1>1, <1>2, <2>1, SetInduction
  <1> QED BY <1>3, LenProperties

LEMMA FlattenOne ==
  ASSUME NEW S, NEW s \in Seq(S)
  PROVE  FlattenSeq(<<s>>) = s
  <1>1. <<>> \in Seq(Seq(S)) /\ Append(<<>>, s) = <<s>>
    OBVIOUS
  <1>2. FlattenSeq(Append(<<>>, s)) = FlattenSeq(<<>>) \o s
    BY <1>1, FlattenAppend
  <1> QED BY <1>1, <1>2, FlattenEmpty, ConcatEmptySeq

LEMMA FlattenElement ==
  ASSUME NEW S, NEW ss \in Seq(Seq(S)), NEW p \in 1 .. Len(FlattenSeq(ss))
  PROVE  \E i \in 1 .. Len(ss) : \E k \in 1 .. Len(ss[i]) : FlattenSeq(ss)[p] = ss[i][k]
  <1> DEFINE Comes(tt, q) == \E i \in 1 .. Len(tt) : \E k \in 1 .. Len(tt[i]) :
                                FlattenSeq(tt)[q] = tt[i][k]
             T == {n \in Nat : \A tt \in Seq(Seq(S)) : Len(tt) = n =>
                                  \A q \in 1 .. Len(FlattenSeq(tt)) : Comes(tt, q)}
  <1>1. 0 \in T
    <2> SUFFICES ASSUME NEW tt \in Seq(Seq(S)), Len(tt) = 0,
                        NEW q \in 1 .. Len(FlattenSeq(tt))
                 PROVE  Comes(tt, q)
      OBVIOUS
    <2>1. tt = <<>>
      BY EmptySeq
    <2>2. Len(FlattenSeq(tt)) = 0
      BY <2>1, FlattenEmpty
    <2> QED BY <2>2
  <1>2. ASSUME NEW n \in T PROVE n + 1 \in T
    <2> SUFFICES ASSUME NEW tt \in Seq(Seq(S)), Len(tt) = n + 1,
                        NEW q \in 1 .. Len(FlattenSeq(tt))
                 PROVE  Comes(tt, q)
      OBVIOUS
    <2>1. n \in Nat /\ Len(tt) # 0
      OBVIOUS
    <2>2. PICK uu \in Seq(Seq(S)), x \in Seq(S) : tt = Append(uu, x) /\ Len(tt) = Len(uu) + 1
      BY <2>1, LastOf
    <2>3. Len(uu) = n
      BY <2>1, <2>2, LenProperties
    <2>4. \A r \in 1 .. Len(FlattenSeq(uu)) : Comes(uu, r)
      BY <2>3
    <2> DEFINE f == FlattenSeq(uu)
    <2>5. FlattenSeq(tt) = f \o x /\ f \in Seq(S)
      BY <2>2, FlattenAppend, FlattenType
    <2>6. /\ Len(FlattenSeq(tt)) = Len(f) + Len(x) /\ Len(f) \in Nat /\ Len(x) \in Nat
          /\ FlattenSeq(tt)[q] = IF q <= Len(f) THEN f[q] ELSE x[q - Len(f)]
      BY <2>5, ConcatProperties, LenProperties
    <2>7. tt[n + 1] = x /\ \A i \in 1 .. n : tt[i] = uu[i]
      BY <2>2, <2>3, AppendProperties
    <2>8. CASE q <= Len(f)
      <3>1. q \in 1 .. Len(f) /\ FlattenSeq(tt)[q] = f[q]
        BY <2>6, <2>8
      <3>2. PICK i \in 1 .. n : \E k \in 1 .. Len(uu[i]) : f[q] = uu[i][k]
        BY <2>3, <2>4, <3>1
      <3>3. i \in 1 .. Len(tt) /\ tt[i] = uu[i]
        BY <2>1, <2>7
      <3> QED BY <3>1, <3>2, <3>3
    <2>9. CASE ~(q <= Len(f))
      <3>1. q - Len(f) \in 1 .. Len(x) /\ FlattenSeq(tt)[q] = x[q - Len(f)]
        BY <2>6, <2>9
      <3>2. n + 1 \in 1 .. Len(tt)
        BY <2>1
      <3> QED BY <2>7, <3>1, <3>2
    <2> QED BY <2>8, <2>9
  <1>3. T = Nat
    <2>1. T \in SUBSET Nat
      OBVIOUS
    <2> HIDE DEF T
    <2> QED BY <1>1, <1>2, <2>1, SetInduction
  <1> QED BY <1>3, LenProperties

LEMMA TwoElements ==
  ASSUME NEW S, NEW x \in S, NEW y \in S
  PROVE  <<x>> \in Seq(S) /\ Append(<<x>>, y) = <<x, y>>
  <1>1. <<x>> \in Seq(S)
    OBVIOUS
  <1>2. Append(<<x>>, y) = <<x, y>>
    <2>1. Append(<<x>>, y) \in Seq(S) /\ <<x, y>> \in Seq(S)
      OBVIOUS
    <2>2. Len(Append(<<x>>, y)) = 2 /\ Len(<<x, y>>) = 2
      OBVIOUS
    <2>3. \A i \in 1 .. 2 : Append(<<x>>, y)[i] = <<x, y>>[i]
      <3>1. Append(<<x>>, y)[1] = x /\ Append(<<x>>, y)[2] = y
        BY <1>1, AppendProperties
      <3> QED BY <3>1
    <2> QED BY <2>1, <2>2, <2>3, SeqEqual
  <1> QED BY <1>1, <1>2

\* Both parts of a sequence
LEMMA SplitSeq ==
  ASSUME NEW S, NEW s \in Seq(S), NEW k \in 0 .. Len(s)
  PROVE  /\ SubSeq(s, 1, k) \in Seq(S) /\ SubSeq(s, k + 1, Len(s)) \in Seq(S)
         /\ Len(SubSeq(s, 1, k)) = k /\ Len(SubSeq(s, k + 1, Len(s))) = Len(s) - k
         /\ \A i \in 1 .. k : SubSeq(s, 1, k)[i] = s[i]
         /\ \A i \in 1 .. Len(s) - k : SubSeq(s, k + 1, Len(s))[i] = s[k + i]
         /\ SubSeq(s, 1, k) \o SubSeq(s, k + 1, Len(s)) = s
  <1> DEFINE n == Len(s)
             p == SubSeq(s, 1, k)
             q == SubSeq(s, k + 1, n)
  <1>1. n \in Nat /\ k \in 0 .. n /\ \A i \in 1 .. n : s[i] \in S
    BY LenProperties, ElementOfSeq
  <1> HIDE DEF n
  <1>2. p \in Seq(S) /\ Len(p) = k /\ \A i \in 1 .. k : p[i] = s[i]
    <2>1. 1 \in Int /\ k \in Int /\ \A i \in 1 .. k : s[i] \in S
      BY <1>1
    <2>2. /\ p \in Seq(S) /\ Len(p) = IF 1 <= k THEN k - 1 + 1 ELSE 0
          /\ \A i \in 1 .. k - 1 + 1 : p[i] = s[1 + i - 1]
      BY <2>1, SubSeqProperties
    <2> HIDE DEF p
    <2>3. \A i \in 1 .. k : i \in 1 .. k - 1 + 1 /\ 1 + i - 1 = i
      BY <1>1
    <2> QED BY <1>1, <2>2, <2>3
  <1>3. q \in Seq(S) /\ Len(q) = n - k /\ \A i \in 1 .. n - k : q[i] = s[k + i]
    <2>1. k + 1 \in Int /\ n \in Int /\ \A i \in k + 1 .. n : s[i] \in S
      BY <1>1
    <2>2. /\ q \in Seq(S) /\ Len(q) = IF k + 1 <= n THEN n - (k + 1) + 1 ELSE 0
          /\ \A i \in 1 .. n - (k + 1) + 1 : q[i] = s[k + 1 + i - 1]
      BY <2>1, SubSeqProperties
    <2> HIDE DEF q
    <2>3. \A i \in 1 .. n - k : i \in 1 .. n - (k + 1) + 1 /\ k + 1 + i - 1 = k + i
      BY <1>1
    <2> QED BY <1>1, <2>2, <2>3
  <1>4. p \o q = s
    <2> HIDE DEF p, q
    <2> DEFINE c == p \o q
    <2>1. c \in Seq(S) /\ Len(c) = n /\ \A i \in 1 .. n : c[i] = IF i <= k THEN p[i] ELSE q[i - k]
      <3>1. /\ c \in Seq(S) /\ Len(c) = Len(p) + Len(q)
            /\ \A i \in 1 .. Len(p) + Len(q) : c[i] = IF i <= Len(p) THEN p[i] ELSE q[i - Len(p)]
        BY <1>2, <1>3, ConcatProperties
      <3> HIDE DEF c
      <3>2. Len(p) + Len(q) = n
        BY <1>1, <1>2, <1>3
      <3> QED BY <1>2, <3>1, <3>2
    <2> HIDE DEF c
    <2>2. ASSUME NEW i \in 1 .. n PROVE c[i] = s[i]
      <3>1. CASE i <= k
        BY <1>2, <2>1, <3>1
      <3>2. CASE ~(i <= k)
        <4>1. i - k \in 1 .. n - k /\ k + (i - k) = i
          BY <1>1, <3>2
        <4> QED BY <1>3, <2>1, <3>2, <4>1
      <3> QED BY <3>1, <3>2
    <2>3. c = s
      BY <2>1, <2>2, SeqEqual DEF n
    <2> QED BY <2>3 DEF c
  <1> QED BY <1>2, <1>3, <1>4 DEF n

\* Two ways to put the same sequence together
LEMMA CutConcat ==
  ASSUME NEW S, NEW p \in Seq(S), NEW q \in Seq(S), NEW u \in Seq(S), NEW v \in Seq(S)
  PROVE  p \o q = u \o v /\ Len(u) <= Len(p) =>
           /\ SubSeq(p, 1, Len(u)) = u
           /\ SubSeq(p, Len(u) + 1, Len(p)) \o q = v
  <1> DEFINE k == Len(u)
             a == SubSeq(p, 1, k)
             b == SubSeq(p, k + 1, Len(p))
  <1>1. CASE k <= Len(p)
    <2>1. Len(p) \in Nat /\ k \in 0 .. Len(p)
      BY <1>1, LenProperties
    <2>2. a \in Seq(S) /\ b \in Seq(S) /\ Len(a) = k /\ a \o b = p
      BY <2>1, SplitSeq
    <2> HIDE DEF a, b
    <2>3. (a \o b) \o q = a \o (b \o q)
      <3>1. a \in Seq(S) /\ b \in Seq(S) /\ q \in Seq(S)
        BY <2>2
      <3> QED BY <3>1
    <2> DEFINE w == b \o q
    <2>4. w \in Seq(S) /\ p \o q = a \o w
      BY <2>2, <2>3, ConcatProperties
    <2> HIDE DEF w
    <2>5. ASSUME p \o q = u \o v PROVE a = u /\ w = v
      <3>1. ASSUME NEW i \in 1 .. k PROVE a[i] = u[i]
        <4>1. (a \o w)[i] = a[i] /\ (u \o v)[i] = u[i]
          BY <2>2, <2>4
        <4> QED BY <2>4, <2>5, <4>1
      <3>2. a = u
        BY <2>2, <3>1, SeqEqual
      <3>3. w = v
        BY <2>4, <2>5, <3>2, ConcatSimplifications
      <3> QED BY <3>2, <3>3
    <2> QED BY <2>5 DEF a, w, b
  <1> QED BY <1>1

LEMMA FlattenHead ==
  ASSUME NEW S, NEW ss \in Seq(Seq(S)), Len(ss) # 0
  PROVE  /\ SubSeq(ss, 2, Len(ss)) \in Seq(Seq(S)) /\ ss[1] \in Seq(S)
         /\ FlattenSeq(ss) = ss[1] \o FlattenSeq(SubSeq(ss, 2, Len(ss)))
  <1> DEFINE a == SubSeq(ss, 1, 1)
             b == SubSeq(ss, 1 + 1, Len(ss))
  <1>1. Len(ss) \in Nat /\ 1 \in 0 .. Len(ss)
    BY LenProperties
  <1>2. a \in Seq(Seq(S)) /\ b \in Seq(Seq(S)) /\ Len(a) = 1 /\ a[1] = ss[1] /\ a \o b = ss
    BY <1>1, SplitSeq
  <1>3. ss[1] \in Seq(S)
    BY <1>1, ElementOfSeq
  <1> HIDE DEF a, b
  <1>4. a = <<ss[1]>>
    <2>1. <<ss[1]>> \in Seq(Seq(S)) /\ Len(<<ss[1]>>) = 1
      BY <1>3
    <2> QED BY <1>2, <2>1, SeqEqual
  <1>5. FlattenSeq(a \o b) = FlattenSeq(a) \o FlattenSeq(b)
    BY <1>2, FlattenConcat
  <1>6. FlattenSeq(a) = ss[1]
    BY <1>3, <1>4, FlattenOne
  <1>7. b = SubSeq(ss, 2, Len(ss))
    BY DEF b
  <1> QED BY <1>2, <1>3, <1>5, <1>6, <1>7

LEMMA FlattenEmpties ==
  ASSUME NEW S, NEW ss \in Seq(Seq(S)), \A i \in 1 .. Len(ss) : ss[i] = <<>>
  PROVE  FlattenSeq(ss) = <<>>
  <1>1. FlattenSeq(ss) \in Seq(S)
    BY FlattenType
  <1>2. Len(FlattenSeq(ss)) = 0
    <2> SUFFICES ASSUME Len(FlattenSeq(ss)) # 0 PROVE FALSE
      OBVIOUS
    <2>1. 1 \in 1 .. Len(FlattenSeq(ss))
      BY <1>1, LenProperties
    <2>2. PICK i \in 1 .. Len(ss) : \E k \in 1 .. Len(ss[i]) : FlattenSeq(ss)[1] = ss[i][k]
      BY <2>1, FlattenElement
    <2>3. Len(ss[i]) = 0
      OBVIOUS
    <2> QED BY <2>2, <2>3
  <1> QED BY <1>1, <1>2, EmptySeq

LEMMA ConcatIs ==
  ASSUME NEW S, NEW s \in Seq(S), NEW t \in Seq(S)
  PROVE  \A c : c = s \o t =>
           /\ c \in Seq(S) /\ Len(c) = Len(s) + Len(t)
           /\ \A i \in 1 .. Len(s) + Len(t) : c[i] = IF i <= Len(s) THEN s[i] ELSE t[i - Len(s)]
  BY ConcatProperties

-----------------------------------------------------------------------------
\* The tables of wl_map: the entry of an id, and whether the arrays reach as far
MapOf(side) == [side : {side}, client : Seq(Int), server : Seq(Int), free_list : Int]

HasId(m, i)   == Place(i) \in 1 .. Len(m[Space(i)])
IdEntry(m, i) == IF HasId(m, i) THEN m[Space(i)][Place(i)] ELSE 0

FreePlaces(m, kept) ==
  \E ch \in Seq(Nat) : Chained(ch, m[m.side], m.free_list, kept)

LEMMA MapTypes ==
  ASSUME NEW side \in Sides, NEW m \in MapOf(side)
  PROVE  /\ m.side = side /\ m.free_list \in Int
         /\ \A s \in Sides : m[s] \in Seq(Int) /\ Len(m[s]) \in Nat
         /\ m["client"] = m.client /\ m["server"] = m.server
  BY DEF MapOf, Sides

LEMMA PlaceIs ==
  ASSUME NEW i \in Nat
  PROVE  /\ Space(i) \in Sides /\ Place(i) \in Nat /\ Place(i) > 0
         /\ \A j \in Nat : Space(i) = Space(j) /\ Place(i) = Place(j) => i = j
         /\ \A j \in Nat : Space(i) = Space(j) => (i < j <=> Place(i) < Place(j))
         /\ i < WL_SERVER_ID_START <=> Space(i) = "client"
         /\ Space(i) = "client" => Place(i) = i + 1
         /\ Space(i) = "server" => Place(i) = i - WL_SERVER_ID_START + 1
         /\ i - Base(Space(i)) + 1 = Place(i)
  <1>1. WL_SERVER_ID_START \in Nat
    BY IdAssumption
  <1> QED BY <1>1 DEF Space, Place, Base, Sides

\* A map with another array, and with another free list, too
With(m, s, c)        == [m EXCEPT ![s] = c]
WithFree(m, s, c, f) == [m EXCEPT ![s] = c, !.free_list = f]

LEMMA MapPut ==
  ASSUME NEW side \in Sides, NEW m \in MapOf(side), NEW s \in Sides, NEW c \in Seq(Int)
  PROVE  LET k == With(m, s, c)
         IN  /\ k \in MapOf(side) /\ k[s] = c /\ k.side = side /\ k.free_list = m.free_list
             /\ \A t \in Sides : t # s => k[t] = m[t]
  <1>1. CASE s = "client"
    BY <1>1 DEF MapOf, Sides, With, WithFree
  <1>2. CASE s = "server"
    BY <1>2 DEF MapOf, Sides, With, WithFree
  <1> QED BY <1>1, <1>2 DEF Sides

LEMMA MapPutFree ==
  ASSUME NEW side \in Sides, NEW m \in MapOf(side), NEW s \in Sides, NEW c \in Seq(Int),
         NEW f \in Int
  PROVE  LET k == WithFree(m, s, c, f)
         IN  /\ k \in MapOf(side) /\ k[s] = c /\ k.side = side /\ k.free_list = f
             /\ \A t \in Sides : t # s => k[t] = m[t]
  <1>1. CASE s = "client"
    BY <1>1 DEF MapOf, Sides, With, WithFree
  <1>2. CASE s = "server"
    BY <1>2 DEF MapOf, Sides, With, WithFree
  <1> QED BY <1>1, <1>2 DEF Sides

\* What putting an entry into one array means for the ids
PutsEntry(m, n, i, x) ==
  LET s == Space(i)
      p == Place(i)
  IN  /\ \A t \in Sides : m[t] \in Seq(Int) /\ n[t] \in Seq(Int)
      /\ \A t \in Sides : t # s => n[t] = m[t]
      /\ n[s][p] = x
      /\ \A q \in 1 .. Len(m[s]) : q # p => n[s][q] = m[s][q]
      /\ \/ Len(n[s]) = Len(m[s]) /\ p \in 1 .. Len(m[s])
         \/ Len(n[s]) = Len(m[s]) + 1 /\ p = Len(m[s]) + 1

LEMMA EntryPut ==
  ASSUME NEW m, NEW n, NEW i \in Nat, NEW x, PutsEntry(m, n, i, x)
  PROVE  /\ \A j \in Nat : IdEntry(n, j) = IF j = i THEN x ELSE IdEntry(m, j)
         /\ \A j \in Nat : HasId(n, j) <=> HasId(m, j) \/ j = i
  <1> DEFINE s == Space(i)
             p == Place(i)
  <1>1. /\ s \in Sides /\ p \in Nat /\ p > 0 /\ m[s] \in Seq(Int) /\ n[s] \in Seq(Int)
        /\ Len(m[s]) \in Nat /\ Len(n[s]) \in Nat
    <2>1. s \in Sides /\ p \in Nat /\ p > 0
      BY PlaceIs
    <2>2. m[s] \in Seq(Int) /\ n[s] \in Seq(Int)
      BY <2>1 DEF PutsEntry
    <2> HIDE DEF s, p
    <2> QED BY <2>1, <2>2
  <1>2. \A q \in Nat : q > 0 => (q \in 1 .. Len(n[s]) <=> q \in 1 .. Len(m[s]) \/ q = p)
    BY <1>1 DEF PutsEntry
  <1>3. SUFFICES ASSUME NEW j \in Nat
                 PROVE  /\ IdEntry(n, j) = IF j = i THEN x ELSE IdEntry(m, j)
                        /\ HasId(n, j) <=> HasId(m, j) \/ j = i
    OBVIOUS
  <1>4. Space(j) \in Sides /\ Place(j) \in Nat /\ Place(j) > 0
    BY PlaceIs
  <1>5. CASE Space(j) # s
    <2>1. n[Space(j)] = m[Space(j)] /\ j # i
      BY <1>4, <1>5 DEF PutsEntry
    <2> QED BY <2>1 DEF IdEntry, HasId
  <1>6. CASE Space(j) = s
    <2>1. HasId(n, j) <=> HasId(m, j) \/ j = i
      <3>1. j = i <=> Place(j) = p
        BY <1>6, PlaceIs
      <3> QED BY <1>2, <1>4, <1>6, <3>1 DEF HasId
    <2>2. CASE j = i
      <3>1. HasId(n, i)
        BY <2>1, <2>2
      <3> QED BY <2>1, <2>2, <3>1 DEF IdEntry, PutsEntry
    <2>3. CASE j # i
      <3>1. Place(j) # p
        BY <1>6, <2>3, PlaceIs
      <3>2. HasId(m, j) => n[s][Place(j)] = m[s][Place(j)]
        BY <1>6, <3>1 DEF HasId, PutsEntry
      <3> QED BY <1>6, <2>1, <2>3, <3>2 DEF IdEntry
    <2> QED BY <2>1, <2>2, <2>3
  <1> QED BY <1>5, <1>6

LEMMA EntryIsNumber ==
  ASSUME NEW side \in Sides, NEW m \in MapOf(side), NEW i \in Nat
  PROVE  IdEntry(m, i) \in Int
  <1>1. m[Space(i)] \in Seq(Int)
    BY PlaceIs, MapTypes
  <1> QED BY <1>1 DEF IdEntry, HasId

LEMMA LookupEntry ==
  ASSUME NEW m, NEW i \in Nat
  PROVE  wl_map_lookup(m, i) = IF IdEntry(m, i) < 0 THEN 0 ELSE IdEntry(m, i)
  BY DEF wl_map_lookup, IdEntry, HasId, IsFree

\* Every id before one that has an entry has one.
LEMMA IdsBefore ==
  ASSUME NEW side \in Sides, NEW m \in MapOf(side), NEW i \in Nat, NEW j \in Nat,
         Space(i) = Space(j), i < j, HasId(m, j)
  PROVE  HasId(m, i)
  <1>1. Place(i) \in Nat /\ Place(i) > 0 /\ Place(j) \in Nat /\ Place(i) < Place(j)
    BY PlaceIs
  <1>2. Len(m[Space(i)]) \in Nat
    BY PlaceIs, MapTypes
  <1> QED BY <1>1, <1>2 DEF HasId

\* wl_map_insert_at succeeds when the ids before have entries.
LEMMA CanInsert ==
  ASSUME NEW side \in Sides, NEW m \in MapOf(side), NEW i \in Nat,
         \A q \in Nat : Space(q) = Space(i) /\ q < i => HasId(m, q)
  PROVE  CanInsertAt(m, i)
  <1>1. WL_SERVER_ID_START \in Nat
    BY IdAssumption
  <1>2. Place(i) \in Nat /\ Place(i) > 0 /\ Len(m[Space(i)]) \in Nat
    BY PlaceIs, MapTypes
  <1>3. CASE Place(i) = 1
    BY <1>2, <1>3 DEF CanInsertAt
  <1>4. CASE Place(i) # 1
    <2>1. i - 1 \in Nat /\ Space(i - 1) = Space(i) /\ Place(i - 1) = Place(i) - 1
      BY <1>1, <1>2, <1>4 DEF Space, Place, Base
    <2>2. HasId(m, i - 1)
      BY <2>1
    <2> QED BY <1>2, <2>1, <2>2 DEF HasId, CanInsertAt
  <1> QED BY <1>3, <1>4

LEMMA InsertAtIs ==
  ASSUME NEW side \in Sides, NEW m \in MapOf(side), NEW i \in Nat, NEW x \in Int,
         CanInsertAt(m, i)
  PROVE  LET n == wl_map_insert_at(m, i, x)
         IN  /\ n \in MapOf(side) /\ n.free_list = m.free_list
             /\ \A s \in Sides : s # Space(i) => n[s] = m[s]
             /\ \A j \in Nat : IdEntry(n, j) = IF j = i THEN x ELSE IdEntry(m, j)
             /\ \A j \in Nat : HasId(n, j) <=> HasId(m, j) \/ j = i
             /\ HasId(m, i) => Len(n[Space(i)]) = Len(m[Space(i)])
  <1> DEFINE n == wl_map_insert_at(m, i, x)
             s == Space(i)
             p == Place(i)
  <1>1. /\ s \in Sides /\ p \in Nat /\ p > 0 /\ m[s] \in Seq(Int) /\ Len(m[s]) \in Nat
        /\ m.free_list \in Int
    BY PlaceIs, MapTypes
  <1>2. p <= Len(m[s]) + 1
    BY DEF CanInsertAt
  <1>3. PICK c \in Seq(Int) :
             /\ n = With(m, s, c) /\ c[p] = x
             /\ \A q \in 1 .. Len(m[s]) : q # p => c[q] = m[s][q]
             /\ \/ Len(c) = Len(m[s]) /\ p \in 1 .. Len(m[s])
                \/ Len(c) = Len(m[s]) + 1 /\ p = Len(m[s]) + 1
    <2>1. CASE p = Len(m[s]) + 1
      <3>1. n = With(m, s, Append(m[s], x))
        BY <2>1 DEF wl_map_insert_at, With
      <3>2. /\ Append(m[s], x) \in Seq(Int) /\ Len(Append(m[s], x)) = Len(m[s]) + 1
            /\ Append(m[s], x)[p] = x
            /\ \A q \in 1 .. Len(m[s]) : Append(m[s], x)[q] = m[s][q]
        BY <1>1, <2>1
      <3> HIDE DEF n, s, p
      <3> QED BY <2>1, <3>1, <3>2
    <2>2. CASE p # Len(m[s]) + 1
      <3>1. n = With(m, s, [m[s] EXCEPT ![p] = x])
        BY <2>2 DEF wl_map_insert_at, With
      <3>2. p \in 1 .. Len(m[s])
        BY <1>1, <1>2, <2>2
      <3>3. LET c == [m[s] EXCEPT ![p] = x]
            IN  /\ c \in Seq(Int) /\ Len(c) = Len(m[s]) /\ c[p] = x
                /\ \A q \in 1 .. Len(m[s]) : q # p => c[q] = m[s][q]
        BY <1>1, <3>2
      <3> HIDE DEF n, s, p
      <3> QED BY <3>1, <3>2, <3>3
    <2> QED BY <2>1, <2>2
  <1> HIDE DEF n
  <1>4. /\ n \in MapOf(side) /\ n[s] = c /\ n.free_list = m.free_list
        /\ \A t \in Sides : t # s => n[t] = m[t]
    <2> HIDE DEF s, p
    <2>1. LET k == With(m, s, c)
          IN  /\ k \in MapOf(side) /\ k[s] = c /\ k.free_list = m.free_list
              /\ \A t \in Sides : t # s => k[t] = m[t]
      BY <1>1, MapPut
    <2> QED BY <1>3, <2>1
  <1>5. \A t \in Sides : m[t] \in Seq(Int) /\ n[t] \in Seq(Int)
    BY <1>4, MapTypes
  <1>6. PutsEntry(m, n, i, x)
    BY <1>3, <1>4, <1>5 DEF PutsEntry
  <1>7. /\ \A j \in Nat : IdEntry(n, j) = IF j = i THEN x ELSE IdEntry(m, j)
        /\ \A j \in Nat : HasId(n, j) <=> HasId(m, j) \/ j = i
    BY <1>6, EntryPut
  <1>8. HasId(m, i) => Len(n[s]) = Len(m[s])
    BY <1>1, <1>3, <1>4 DEF HasId
  <1> QED BY <1>4, <1>7, <1>8 DEF n

\* wl_map_insert_new: the id was free, or is the next one of its space.
LEMMA InsertNewIs ==
  ASSUME NEW side \in Sides, NEW m \in MapOf(side), NEW kept, FreePlaces(m, kept),
         NEW x \in Int, x > 0,
         side = "client" => Len(m.client) < WL_SERVER_ID_START
  PROVE  LET n == wl_map_insert_new(m, x)
             i == NewId(m)
         IN  /\ i \in Nat /\ Space(i) = side /\ IdEntry(m, i) <= 0
             /\ HasId(m, i) => Place(i) \notin kept
             /\ \A q \in Nat : Space(q) = side /\ q < i => HasId(m, q)
             /\ n \in MapOf(side) /\ FreePlaces(n, kept)
             /\ \A s \in Sides : s # side => n[s] = m[s]
             /\ \A j \in Nat : IdEntry(n, j) = IF j = i THEN x ELSE IdEntry(m, j)
             /\ \A j \in Nat : HasId(n, j) <=> HasId(m, j) \/ j = i
             /\ Len(n[side]) = IF HasId(m, i) THEN Len(m[side]) ELSE Len(m[side]) + 1
  <1> DEFINE n == wl_map_insert_new(m, x)
             i == NewId(m)
             f == m.free_list
             e == m[side]
  <1>1. /\ m.side = side /\ f \in Int /\ e \in Seq(Int) /\ Len(e) \in Nat
        /\ WL_SERVER_ID_START \in Nat /\ Base(side) \in Nat
        /\ side = "client" => Base(side) = 0 /\ Len(e) < WL_SERVER_ID_START
        /\ side = "server" => Base(side) = WL_SERVER_ID_START
        /\ side = "client" \/ side = "server"
    BY MapTypes, IdAssumption DEF Base, Sides
  <1>2. PICK ch \in Seq(Nat) : Chained(ch, e, f, kept)
    BY <1>1 DEF FreePlaces
  <1>3. \A p \in 1 .. Len(e) + 1 :
           LET j == Base(side) + p - 1
           IN  j \in Nat /\ Space(j) = side /\ Place(j) = p
    <2> SUFFICES ASSUME NEW p \in 1 .. Len(e) + 1, NEW j, j = Base(side) + p - 1
                 PROVE  j \in Nat /\ Space(j) = side /\ Place(j) = p
      OBVIOUS
    <2>1. j \in Nat /\ p \in Nat /\ p > 0
      BY <1>1
    <2>2. CASE side = "client"
      <3>1. j < WL_SERVER_ID_START /\ p = j + 1
        BY <1>1, <2>1, <2>2
      <3> QED BY <2>1, <2>2, <3>1 DEF Space, Place, Base
    <2>3. CASE side = "server"
      <3>1. ~(j < WL_SERVER_ID_START) /\ p = j - WL_SERVER_ID_START + 1
        BY <1>1, <2>1, <2>3
      <3> QED BY <2>1, <2>3, <3>1 DEF Space, Place, Base
    <2> QED BY <1>1, <2>2, <2>3
  <1>4. PICK p \in 1 .. Len(e) + 1, c \in Seq(Int), g \in Int :
             /\ i = Base(side) + p - 1
             /\ p \in 1 .. Len(e) => e[p] <= 0 /\ p \notin kept
             /\ n = WithFree(m, side, c, g)
             /\ c[p] = x
             /\ \A q \in 1 .. Len(e) : q # p => c[q] = e[q]
             /\ Len(c) = IF p \in 1 .. Len(e) THEN Len(e) ELSE Len(e) + 1
             /\ \E d \in Seq(Nat) : Chained(d, c, g, kept)
    <2>1. CASE f = 0
      <3>1. i = Base(side) + (Len(e) + 1) - 1 /\ Len(e) + 1 \in 1 .. Len(e) + 1
        BY <1>1, <2>1 DEF NewId
      <3>2. n = WithFree(m, side, Append(e, x), f)
        <4>1. PICK a : a = Append(e, x)
          OBVIOUS
        <4>2. a \in Seq(Int)
          BY <1>1, <4>1
        <4>3. n = With(m, side, a)
          BY <1>1, <2>1, <4>1 DEF wl_map_insert_new, With
        <4> HIDE DEF e, n
        <4>4. With(m, side, a) = WithFree(m, side, a, f)
          BY <1>1, <4>2 DEF With, WithFree, MapOf, Sides
        <4> QED BY <4>1, <4>3, <4>4
      <3>3. /\ Append(e, x) \in Seq(Int) /\ Len(Append(e, x)) = Len(e) + 1
            /\ Append(e, x)[Len(e) + 1] = x
            /\ \A q \in 1 .. Len(e) : Append(e, x)[q] = e[q]
            /\ Len(e) + 1 \notin 1 .. Len(e)
        BY <1>1
      <3>4. Chained(ch, Append(e, x), f, kept)
        BY <1>1, <1>2, ChainGrow
      <3> HIDE DEF n, i, f, e
      <3> QED BY <1>1, <3>1, <3>2, <3>3, <3>4
    <2>2. CASE f # 0
      <3>1. /\ -f \in 1 .. Len(e) /\ -f \notin kept /\ e[-f] <= 0 /\ Tail(ch) \in Seq(Nat)
            /\ Chained(Tail(ch), [e EXCEPT ![-f] = x], e[-f], kept)
        <4> HIDE DEF e, f
        <4>1. /\ -f \in 1 .. Len(e) /\ -f \notin kept /\ e[-f] <= 0 /\ Tail(ch) \in Seq(Nat)
              /\ Chained(Tail(ch), [e EXCEPT ![-f] = x], e[-f], kept)
          BY <1>1, <1>2, <2>2, ChainPop
        <4> QED BY <4>1
      <3>2. i = Base(side) + (-f) - 1
        BY <1>1, <2>2 DEF NewId, LinkOf
      <3>3. n = WithFree(m, side, [e EXCEPT ![-f] = x], e[-f])
        BY <1>1, <2>2 DEF wl_map_insert_new, LinkOf, WithFree
      <3>4. LET c == [e EXCEPT ![-f] = x]
            IN  /\ c \in Seq(Int) /\ Len(c) = Len(e) /\ c[-f] = x
                /\ \A q \in 1 .. Len(e) : q # -f => c[q] = e[q]
        BY <1>1, <3>1
      <3>5. e[-f] \in Int /\ -f \in 1 .. Len(e) + 1
        BY <1>1, <3>1
      <3> HIDE DEF n, i, f, e
      <3> QED BY <3>1, <3>2, <3>3, <3>4, <3>5
    <2> QED BY <2>1, <2>2
  <1>5. i \in Nat /\ Space(i) = side /\ Place(i) = p
    <2> HIDE DEF i
    <2> QED BY <1>3, <1>4
  <1> HIDE DEF n, i
  <1>6. IdEntry(m, i) <= 0 /\ (HasId(m, i) => p \notin kept)
    <2>1. HasId(m, i) <=> p \in 1 .. Len(e)
      BY <1>5 DEF HasId
    <2>2. HasId(m, i) => IdEntry(m, i) = e[p]
      BY <1>5 DEF IdEntry
    <2>3. ~HasId(m, i) => IdEntry(m, i) = 0
      BY DEF IdEntry
    <2> QED BY <1>4, <2>1, <2>2, <2>3
  <1>7. \A q \in Nat : Space(q) = side /\ q < i => HasId(m, q)
    <2> SUFFICES ASSUME NEW q \in Nat, Space(q) = side, q < i PROVE HasId(m, q)
      OBVIOUS
    <2>1. Place(q) \in Nat /\ Place(q) > 0 /\ Place(q) < p
      BY <1>5, PlaceIs
    <2> QED BY <1>1, <2>1 DEF HasId
  <1>8. /\ n \in MapOf(side) /\ n[side] = c /\ n.side = side /\ n.free_list = g
        /\ \A t \in Sides : t # side => n[t] = m[t]
    <2>1. LET k == WithFree(m, side, c, g)
          IN  /\ k \in MapOf(side) /\ k[side] = c /\ k.side = side /\ k.free_list = g
              /\ \A t \in Sides : t # side => k[t] = m[t]
      BY MapPutFree
    <2>2. n = WithFree(m, side, c, g)
      BY <1>4
    <2> QED BY <2>1, <2>2
  <1>9. FreePlaces(n, kept)
    BY <1>4, <1>8 DEF FreePlaces
  <1>10. PutsEntry(m, n, i, x)
    <2>1. \A t \in Sides : m[t] \in Seq(Int) /\ n[t] \in Seq(Int)
      BY <1>8, MapTypes
    <2>2. \/ Len(c) = Len(e) /\ p \in 1 .. Len(e)
          \/ Len(c) = Len(e) + 1 /\ p = Len(e) + 1
      BY <1>1, <1>4
    <2> QED BY <1>4, <1>5, <1>8, <2>1, <2>2 DEF PutsEntry
  <1>11. Len(n[side]) = IF HasId(m, i) THEN Len(m[side]) ELSE Len(m[side]) + 1
    BY <1>4, <1>5, <1>8 DEF HasId
  <1> QED BY <1>5, <1>6, <1>7, <1>8, <1>9, <1>10, <1>11, EntryPut DEF n, i

\* wl_resource_create inserts NULL and puts the resource there afterwards.
LEMMA InsertTwice ==
  ASSUME NEW side \in Sides, NEW m \in MapOf(side), NEW kept, FreePlaces(m, kept),
         NEW x \in Int, x > 0,
         side = "client" => Len(m.client) < WL_SERVER_ID_START
  PROVE  wl_map_insert_at(wl_map_insert_new(m, 0), NewId(m), x) = wl_map_insert_new(m, x)
  <1> DEFINE i == NewId(m)
             f == m.free_list
             e == m[side]
             w == wl_map_insert_new(m, 0)
  <1>1. /\ m.side = side /\ f \in Int /\ e \in Seq(Int) /\ Len(e) \in Nat
    BY MapTypes
  <1>2. i \in Nat /\ Space(i) = side
    BY InsertNewIs
  <1>3. CASE f = 0
    <2>1. Place(i) = Len(e) + 1
      <3>1. i = Base(side) + Len(e)
        BY <1>1, <1>3 DEF NewId
      <3>2. i - Base(side) + 1 = Place(i) /\ Base(side) \in Nat
        BY <1>2, PlaceIs, IdAssumption DEF Base
      <3> QED BY <1>1, <3>1, <3>2
    <2>2. PICK a, b : a = Append(e, 0) /\ b = Append(e, x)
      OBVIOUS
    <2>3. /\ a \in Seq(Int) /\ Len(a) = Len(e) + 1
          /\ b \in Seq(Int) /\ Len(b) = Len(e) + 1 /\ b[Len(e) + 1] = x
          /\ \A j \in 1 .. Len(e) : b[j] = a[j]
      BY <1>1, <2>2
    <2>4. w = With(m, side, a)
      BY <1>1, <1>3, <2>2 DEF wl_map_insert_new, With
    <2>5. w \in MapOf(side) /\ w[side] = a
      <3> HIDE DEF e, w
      <3>1. LET k == With(m, side, a) IN k \in MapOf(side) /\ k[side] = a
        BY <2>3, MapPut
      <3> QED BY <2>4, <3>1
    <2>6. wl_map_insert_at(w, i, x) = With(w, side, [a EXCEPT ![Len(e) + 1] = x])
      <3>1. Len(e) + 1 <= Len(e) + 1 + 1 /\ Len(e) + 1 # Len(e) + 1 + 1
        BY <1>1
      <3> HIDE DEF w, i, e
      <3> QED BY <1>1, <1>2, <2>1, <2>3, <2>5, <3>1 DEF wl_map_insert_at, CanInsertAt, With
    <2>7. [a EXCEPT ![Len(e) + 1] = x] = b
      <3> HIDE DEF e
      <3>1. PICK d : d = [a EXCEPT ![Len(e) + 1] = x]
        OBVIOUS
      <3>2. /\ d \in Seq(Int) /\ Len(d) = Len(e) + 1 /\ d[Len(e) + 1] = x
            /\ \A j \in 1 .. Len(e) : d[j] = a[j]
        <4>1. Len(e) + 1 \in 1 .. Len(a)
          BY <1>1, <2>3
        <4>2. d \in Seq(Int) /\ Len(d) = Len(a)
          BY <1>1, <2>3, <3>1, <4>1, ExceptSeq
        <4>3. d[Len(e) + 1] = x
          BY <2>3, <3>1, <4>1
        <4>4. ASSUME NEW j \in 1 .. Len(e) PROVE d[j] = a[j]
          <5>1. j # Len(e) + 1 /\ j \in 1 .. Len(a)
            BY <1>1, <2>3
          <5> QED BY <2>3, <3>1, <5>1
        <4> QED BY <2>3, <4>2, <4>3, <4>4
      <3>3. ASSUME NEW j \in 1 .. Len(e) + 1 PROVE d[j] = b[j]
        <4>1. j = Len(e) + 1 \/ j \in 1 .. Len(e)
          BY <1>1
        <4> QED BY <2>3, <3>2, <4>1
      <3>4. d = b
        BY <2>3, <3>2, <3>3, SeqEqual
      <3> QED BY <3>1, <3>4
    <2>8. With(w, side, b) = With(m, side, b)
      <3> HIDE DEF w
      <3> QED BY <2>4 DEF With
    <2>9. wl_map_insert_new(m, x) = With(m, side, b)
      BY <1>1, <1>3, <2>2 DEF wl_map_insert_new, With
    <2> QED BY <2>6, <2>7, <2>8, <2>9
  <1>4. CASE f # 0
    <2>1. PICK ch \in Seq(Nat) : Chained(ch, e, f, kept)
      BY <1>1 DEF FreePlaces
    <2>2. -f \in 1 .. Len(e) /\ e[-f] \in Int
      <3>1. -f \in 1 .. Len(e)
        <4> HIDE DEF e, f
        <4> QED BY <1>1, <1>4, <2>1, ChainPop
      <3> QED BY <1>1, <3>1
    <2>3. Place(i) = -f
      <3>1. i = Base(side) + (-f - 1)
        BY <1>1, <1>4 DEF NewId, LinkOf
      <3>2. i - Base(side) + 1 = Place(i) /\ Base(side) \in Nat
        BY <1>2, PlaceIs, IdAssumption DEF Base
      <3> QED BY <1>1, <3>1, <3>2
    <2>4. PICK a, b, g : a = [e EXCEPT ![-f] = 0] /\ b = [e EXCEPT ![-f] = x] /\ g = e[-f]
      OBVIOUS
    <2>5. /\ a \in Seq(Int) /\ Len(a) = Len(e) /\ [a EXCEPT ![-f] = x] = b /\ g \in Int
      BY <1>1, <2>2, <2>4
    <2>6. w = WithFree(m, side, a, g)
      BY <1>1, <1>4, <2>4 DEF wl_map_insert_new, LinkOf, WithFree
    <2>7. w \in MapOf(side) /\ w[side] = a
      <3> HIDE DEF e, f, w
      <3>1. LET k == WithFree(m, side, a, g) IN k \in MapOf(side) /\ k[side] = a
        BY <2>5, MapPutFree
      <3> QED BY <2>6, <3>1
    <2>8. wl_map_insert_at(w, i, x) = With(w, side, b)
      <3>1. -f <= Len(e) + 1 /\ -f # Len(e) + 1
        BY <1>1, <2>2
      <3> HIDE DEF w, i, e, f
      <3> QED BY <1>1, <1>2, <2>3, <2>5, <2>7, <3>1 DEF wl_map_insert_at, CanInsertAt, With
    <2>9. With(w, side, b) = WithFree(m, side, b, g)
      <3> HIDE DEF w, e, f
      <3>1. side # "free_list"
        BY DEF Sides
      <3> QED BY <2>6, <3>1 DEF With, WithFree
    <2>10. wl_map_insert_new(m, x) = WithFree(m, side, b, g)
      BY <1>1, <1>4, <2>4 DEF wl_map_insert_new, LinkOf, WithFree
    <2> QED BY <2>8, <2>9, <2>10
  <1> QED BY <1>3, <1>4

\* wl_map_remove by the owner of the id
LEMMA RemoveIs ==
  ASSUME NEW side \in Sides, NEW m \in MapOf(side), NEW kept, FreePlaces(m, kept),
         NEW i \in Nat, Space(i) = side, IdEntry(m, i) > 0, Place(i) \notin kept
  PROVE  LET n == wl_map_remove(m, i)
         IN  /\ n \in MapOf(side) /\ FreePlaces(n, kept) /\ m.free_list <= 0
             /\ \A s \in Sides : s # side => n[s] = m[s]
             /\ \A j \in Nat : IdEntry(n, j) = IF j = i THEN m.free_list ELSE IdEntry(m, j)
             /\ \A j \in Nat : HasId(n, j) <=> HasId(m, j)
             /\ Len(n[side]) = Len(m[side])
  <1> DEFINE n == wl_map_remove(m, i)
             p == Place(i)
             f == m.free_list
             e == m[side]
             c == [e EXCEPT ![p] = f]
  <1>1. /\ m.side = side /\ f \in Int /\ e \in Seq(Int) /\ Len(e) \in Nat
        /\ HasId(m, i) /\ p \in 1 .. Len(e) /\ e[p] > 0
    BY MapTypes DEF IdEntry, HasId
  <1>2. PICK ch \in Seq(Nat) : Chained(ch, e, f, kept)
    BY <1>1 DEF FreePlaces
  <1>3. n = WithFree(m, side, c, -p)
    <2>1. Link(i - Base(side)) = -p
      <3>1. i - Base(side) + 1 = p
        BY PlaceIs
      <3> QED BY <3>1 DEF Link
    <2> QED BY <1>1, <2>1 DEF wl_map_remove, WithFree
  <1>4. <<p>> \o ch \in Seq(Nat) /\ Chained(<<p>> \o ch, c, -p, kept)
    <2>1. p \in 1 .. Len(e) \ kept
      BY <1>1
    <2> HIDE DEF p, e, f
    <2> QED BY <1>1, <1>2, <2>1, ChainPush
  <1>5. c \in Seq(Int) /\ Len(c) = Len(e) /\ c[p] = f /\ (\A q \in 1 .. Len(e) : q # p => c[q] = e[q])
    BY <1>1
  <1>6. f <= 0
    <2>1. ch # <<>> => ch[1] \in Nat
      OBVIOUS
    <2> QED BY <1>1, <1>2, <2>1 DEF Chained
  <1> HIDE DEF c, n
  <1>7. /\ n \in MapOf(side) /\ n[side] = c /\ n.side = side /\ n.free_list = -p
        /\ \A t \in Sides : t # side => n[t] = m[t]
    <2>1. PICK g \in Int : g = -p
      BY <1>1
    <2>2. LET k == WithFree(m, side, c, g)
          IN  /\ k \in MapOf(side) /\ k[side] = c /\ k.side = side /\ k.free_list = g
              /\ \A t \in Sides : t # side => k[t] = m[t]
      BY <1>5, <2>1, MapPutFree
    <2> HIDE DEF p
    <2> QED BY <1>3, <2>1, <2>2
  <1>8. FreePlaces(n, kept)
    BY <1>4, <1>7 DEF FreePlaces
  <1>9. PutsEntry(m, n, i, f)
    <2>1. \A t \in Sides : m[t] \in Seq(Int) /\ n[t] \in Seq(Int)
      BY <1>7, MapTypes
    <2> QED BY <1>1, <1>5, <1>7, <2>1 DEF PutsEntry
  <1>10. \A j \in Nat : HasId(n, j) <=> HasId(m, j) \/ j = i
    BY <1>9, EntryPut
  <1> QED BY <1>1, <1>5, <1>6, <1>7, <1>8, <1>9, <1>10, EntryPut DEF n

\* wl_map_insert_at leaves the free list alone where it replaces an object by an
\* object, and in the space of the other end.
LEMMA ReplaceKeepsFree ==
  ASSUME NEW side \in Sides, NEW m \in MapOf(side), NEW kept, FreePlaces(m, kept),
         NEW i \in Nat, NEW x \in Int, CanInsertAt(m, i),
         Space(i) = side => IdEntry(m, i) > 0 /\ x > 0
  PROVE  FreePlaces(wl_map_insert_at(m, i, x), kept)
  <1>1. PICK n : n = wl_map_insert_at(m, i, x)
    OBVIOUS
  <1>2. /\ n \in MapOf(side) /\ n.free_list = m.free_list
        /\ \A s \in Sides : s # Space(i) => n[s] = m[s]
    BY <1>1, InsertAtIs
  <1>3. n.side = side /\ m.side = side /\ m[side] \in Seq(Int)
    BY <1>2, MapTypes
  <1>4. PICK ch \in Seq(Nat) : Chained(ch, m[side], m.free_list, kept)
    BY <1>3 DEF FreePlaces
  <1>5. CASE Space(i) # side
    <2>1. n[side] = m[side]
      BY <1>2, <1>5
    <2> QED BY <1>1, <1>2, <1>3, <1>4, <2>1 DEF FreePlaces
  <1>6. CASE Space(i) = side
    <2>1. PICK e, p, f : e = m[side] /\ p = Place(i) /\ f = [e EXCEPT ![p] = x]
      OBVIOUS
    <2>2. e \in Seq(Int) /\ p \in 1 .. Len(e) /\ e[p] > 0 /\ x > 0 /\ Len(e) \in Nat
      BY <1>3, <1>6, <2>1 DEF IdEntry, HasId
    <2>3. n = With(m, side, f)
      <3>1. p # Len(e) + 1
        BY <2>2
      <3> QED BY <1>1, <1>6, <2>1, <3>1 DEF wl_map_insert_at, With
    <2>4. /\ f \in Seq(Int) /\ Len(f) = Len(e) /\ f[p] = x
          /\ \A q \in 1 .. Len(e) : q # p => f[q] = e[q]
      BY <2>1, <2>2
    <2>5. n[side] = f
      <3>1. LET k == With(m, side, f) IN k[side] = f
        BY <2>4, MapPut
      <3> QED BY <2>3, <3>1
    <2>6. \A j \in 1 .. Len(ch) : ch[j] \in 1 .. Len(e) /\ ch[j] # p
      <3>1. ASSUME NEW j \in 1 .. Len(ch) PROVE ch[j] \in 1 .. Len(e) /\ e[ch[j]] <= 0
        <4>1. Len(ch) \in Nat /\ (j # Len(ch) => ch[j + 1] \in Nat)
          OBVIOUS
        <4>2. ch[j] \in 1 .. Len(e) /\ e[ch[j]] = IF j = Len(ch) THEN 0 ELSE -ch[j + 1]
          BY <1>4, <2>1 DEF Chained
        <4> QED BY <4>1, <4>2
      <3> QED BY <2>2, <3>1
    <2>7. Chained(ch, f, m.free_list, kept)
      <3>1. Chained(ch, e, m.free_list, kept)
        BY <1>4, <2>1
      <3>2. ASSUME NEW q \in 1 .. Len(f), f[q] <= 0 PROVE q \in 1 .. Len(e) /\ e[q] <= 0
        <4>1. q \in 1 .. Len(e) /\ q # p
          BY <2>2, <2>4, <3>2
        <4> QED BY <2>4, <3>2, <4>1
      <3>3. \A j \in 1 .. Len(ch) : f[ch[j]] = e[ch[j]]
        BY <2>4, <2>6
      <3> QED BY <2>4, <3>1, <3>2, <3>3 DEF Chained
    <2> QED BY <1>1, <1>2, <1>3, <2>5, <2>7 DEF FreePlaces
  <1> QED BY <1>5, <1>6

ChainPlaces(ch, n) == [k \in 0 .. n |-> IF k < Len(ch) THEN ch[k + 1] ELSE 0]

LEMMA FreeChainIs ==
  ASSUME NEW side \in Sides, NEW m \in MapOf(side), NEW e, e = m[side],
         NEW ch \in Seq(Nat), NEW kept, Chained(ch, e, m.free_list, kept)
  PROVE  FreeChain(m) = ChainPlaces(ch, Len(e))
  <1> DEFINE N == Len(e)
             Def(f) == [k \in 0 .. N |-> IF k = 0 THEN m.free_list
                                         ELSE IF f[k - 1] = 0 THEN 0
                                         ELSE e[LinkOf(f[k - 1])]]
             w == [k \in 0 .. N |-> IF k < Len(ch) THEN -ch[k + 1] ELSE 0]
             h == CHOOSE f : f = Def(f)
  <1>1. /\ m.side = side /\ e \in Seq(Int) /\ m.free_list \in Int /\ N \in Nat
        /\ Len(ch) \in Nat /\ Len(ch) <= N
    BY ChainLength, MapTypes
  <1>2. FreeChain(m) = [k \in 0 .. N |-> LinkOf(h[k])]
    BY <1>1 DEF FreeChain
  <1>3. ASSUME NEW k \in 0 .. N, NEW f, k # 0 => f[k - 1] = w[k - 1]
        PROVE  Def(f)[k] = w[k]
    <2>1. CASE k = 0
      <3>1. w[0] = IF 0 < Len(ch) THEN -ch[1] ELSE 0
        BY <1>1
      <3>2. m.free_list = IF ch = <<>> THEN 0 ELSE -ch[1]
        BY DEF Chained
      <3>3. 0 < Len(ch) <=> ch # <<>>
        BY <1>1
      <3>4. Def(f)[0] = m.free_list
        BY <1>1
      <3> HIDE DEF w, Def
      <3> QED BY <2>1, <3>1, <3>2, <3>3, <3>4
    <2>2. CASE k # 0
      <3>1. k - 1 \in 0 .. N /\ k - 1 + 1 = k /\ k \in Nat /\ k > 0
        BY <2>2
      <3>2. w[k - 1] = IF k - 1 < Len(ch) THEN -ch[k] ELSE 0
        BY <3>1
      <3>3. Def(f)[k] = IF f[k - 1] = 0 THEN 0 ELSE e[LinkOf(f[k - 1])]
        BY <2>2
      <3>4. w[k] = IF k < Len(ch) THEN -ch[k + 1] ELSE 0
        OBVIOUS
      <3> HIDE DEF w, Def
      <3>5. CASE k - 1 < Len(ch)
        <4>1. k \in 1 .. Len(ch) /\ ch[k] \in Nat
          BY <1>1, <3>1, <3>5
        <4>2. /\ ch[k] \in 1 .. N
              /\ e[ch[k]] = IF k = Len(ch) THEN 0 ELSE -ch[k + 1]
          BY <4>1 DEF Chained
        <4>3. w[k - 1] = -ch[k] /\ w[k - 1] # 0 /\ LinkOf(w[k - 1]) = ch[k]
          BY <3>2, <3>5, <4>1, <4>2 DEF LinkOf
        <4>4. k = Len(ch) <=> ~(k < Len(ch))
          BY <1>1, <3>1, <4>1
        <4> QED BY <1>3, <2>2, <3>3, <3>4, <4>2, <4>3, <4>4
      <3>6. CASE ~(k - 1 < Len(ch))
        <4>1. w[k - 1] = 0 /\ ~(k < Len(ch))
          BY <1>1, <3>1, <3>2, <3>6
        <4> QED BY <1>3, <2>2, <3>3, <3>4, <4>1
      <3> QED BY <3>5, <3>6
    <2> QED BY <2>1, <2>2
  <1>4. w = Def(w)
    <2>1. \A k \in 0 .. N : Def(w)[k] = w[k]
      BY <1>3
    <2>2. PICK f, g : f = w /\ g = Def(w)
      OBVIOUS
    <2>3. f = [k \in 0 .. N |-> f[k]] /\ g = [k \in 0 .. N |-> g[k]]
      BY <2>2
    <2> HIDE DEF w, Def
    <2>4. \A k \in 0 .. N : g[k] = f[k]
      BY <2>1, <2>2
    <2>5. f = g
      BY <2>3, <2>4
    <2> QED BY <2>2, <2>5
  <1>5. h = Def(h)
    <2>1. \E f : f = Def(f)
      BY <1>4
    <2> HIDE DEF Def
    <2> QED BY <2>1
  <1>6. \A k \in 0 .. N : h[k] = Def(h)[k]
    <2> HIDE DEF h, Def
    <2> QED BY <1>5
  <1> HIDE DEF h, Def, w
  <1> DEFINE T == {k \in Nat : k <= N => h[k] = w[k]}
  <1>7. 0 \in T
    BY <1>1, <1>3, <1>6
  <1>8. ASSUME NEW k \in T PROVE k + 1 \in T
    <2>1. CASE k + 1 <= N
      <3>1. k \in Nat /\ k <= N /\ k + 1 \in 0 .. N /\ k + 1 - 1 = k
        BY <1>1, <2>1
      <3>2. h[k] = w[k]
        BY <3>1
      <3>3. Def(h)[k + 1] = w[k + 1]
        BY <1>3, <3>1, <3>2
      <3> QED BY <1>6, <3>1, <3>3
    <2>2. CASE ~(k + 1 <= N)
      BY <2>2
    <2> QED BY <2>1, <2>2
  <1>9. T = Nat
    <2>1. T \in SUBSET Nat
      OBVIOUS
    <2> HIDE DEF T
    <2> QED BY <1>7, <1>8, <2>1, SetInduction
  <1>10. \A k \in 0 .. N : h[k] = w[k]
    BY <1>1, <1>9
  <1>11. \A k \in 0 .. N : LinkOf(h[k]) = IF k < Len(ch) THEN ch[k + 1] ELSE 0
    <2> SUFFICES ASSUME NEW k \in 0 .. N
                 PROVE  LinkOf(h[k]) = IF k < Len(ch) THEN ch[k + 1] ELSE 0
      OBVIOUS
    <2>1. h[k] = IF k < Len(ch) THEN -ch[k + 1] ELSE 0
      BY <1>10 DEF w
    <2>2. k < Len(ch) => ch[k + 1] \in Nat
      BY <1>1
    <2> QED BY <2>1, <2>2 DEF LinkOf
  <1> QED BY <1>2, <1>11 DEF ChainPlaces

LEMMA ChainedSound ==
  ASSUME NEW side \in Sides, NEW m \in MapOf(side), NEW e, e = m[side],
         NEW ch \in Seq(Nat), NEW kept, Chained(ch, e, m.free_list, kept)
  PROVE  FreeListSound(m, kept)
  <1> DEFINE c == FreeChain(m)
             N == Len(e)
             M == Len(ch)
             onList == {c[k] : k \in DOMAIN c} \ {0}
  <1>1. m[m.side] = e /\ e \in Seq(Int)
    BY MapTypes
  <1>2. c = ChainPlaces(ch, N)
    BY FreeChainIs
  <1>3. N \in Nat /\ M \in Nat /\ M <= N
    BY ChainLength, MapTypes
  <1>4. /\ DOMAIN c = 0 .. N
        /\ \A k \in 0 .. N : c[k] = IF k < M THEN ch[k + 1] ELSE 0
    BY <1>2 DEF ChainPlaces
  <1> HIDE DEF c
  <1>5. \A i \in 1 .. M : ch[i] \in 1 .. N /\ ch[i] # 0
    BY <1>3 DEF Chained
  <1>6. c[N] = 0
    BY <1>3, <1>4
  <1>7. ASSUME NEW k \in 0 .. N, NEW l \in 0 .. N, c[k] = c[l], c[k] # 0
        PROVE  k = l
    <2>1. k < M /\ l < M
      BY <1>4, <1>7
    <2>2. k + 1 \in 1 .. M /\ l + 1 \in 1 .. M /\ ch[k + 1] = ch[l + 1]
      BY <1>3, <1>4, <1>7, <2>1
    <2>3. k + 1 = l + 1
      BY <2>2 DEF Chained
    <2> QED BY <2>3
  <1>8. ASSUME NEW p \in 1 .. N \ kept
        PROVE  p \in onList <=> e[p] <= 0
    <2>1. ASSUME NEW k \in 0 .. N, c[k] = p PROVE e[p] <= 0
      <3>1. k < M
        BY <1>3, <1>4, <2>1
      <3>2. k + 1 \in 1 .. M /\ p = ch[k + 1]
        BY <1>3, <1>4, <2>1, <3>1
      <3>3. e[p] = IF k + 1 = M THEN 0 ELSE -ch[k + 1 + 1]
        BY <3>2 DEF Chained
      <3>4. k + 1 # M => ch[k + 1 + 1] \in Nat
        <4>1. k + 1 # M => k + 1 + 1 \in 1 .. M
          BY <1>3, <3>2
        <4> QED BY <4>1
      <3> QED BY <3>3, <3>4
    <2>2. ASSUME e[p] <= 0 PROVE p \in onList
      <3>1. PICK i \in 1 .. M : ch[i] = p
        BY <2>2 DEF Chained
      <3>2. i - 1 \in 0 .. N /\ i - 1 < M /\ i - 1 + 1 = i /\ p # 0
        BY <1>3, <3>1
      <3>3. c[i - 1] = p
        BY <1>4, <3>1, <3>2
      <3> QED BY <1>4, <3>2, <3>3
    <2> QED BY <1>4, <2>1, <2>2
  <1> QED BY <1>1, <1>4, <1>6, <1>7, <1>8 DEF FreeListSound, c

LEMMA MapSound ==
  ASSUME NEW side \in Sides, NEW m \in MapOf(side), NEW kept, FreePlaces(m, kept)
  PROVE  FreeListSound(m, kept)
  <1>1. PICK e : e = m[side]
    OBVIOUS
  <1>2. PICK ch \in Seq(Nat) : Chained(ch, e, m.free_list, kept)
    BY <1>1, MapTypes DEF FreePlaces
  <1> QED BY <1>1, <1>2, ChainedSound

=============================================================================
