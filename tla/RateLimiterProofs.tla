-------------------------- MODULE RateLimiterProofs --------------------------
(***************************************************************************)
(* The rate limiter, as a part of the server, for any callers, keys and    *)
(* limits: what it admits, the exactness of what it counts, and that an    *)
(* opened slot is announced.                                               *)
(*                                                                         *)
(* The invariant adds to what the run checks that a key has one entry and  *)
(* that entries are told apart by their ids, held ones included, so that a *)
(* reservation whose entry was evicted is settled on no other.             *)
(***************************************************************************)
EXTENDS MCServer, FiniteSetTheorems, SequenceTheorems, WellFoundedInduction, TLAPS

-----------------------------------------------------------------------------
(***************************************************************************)
(* Filters: what a recursive function picks from a sequence, in its order. *)
(***************************************************************************)

\* A nonempty set of naturals has a least element.
LEMMA LeastNat ==
  ASSUME NEW T, T \subseteq Nat, T # {}
  PROVE  \E m \in T : \A n \in T : m <= n
<1> DEFINE R == {ss \in Nat \X Nat : ss[1] < ss[2]}
<1>1. IsWellFoundedOn(R, Nat)
  BY NatLessThanWellFounded DEF OpToRel
<1>2. PICK m \in T : \A n \in T : ~(<<n, m>> \in R)
  BY <1>1, WFMin
<1>3. ASSUME NEW n \in T
      PROVE  m <= n
  <2>1. n \in Nat /\ m \in Nat
    OBVIOUS
  <2>2. n < m => <<n, m>> \in R
    BY <2>1
  <2> QED BY <1>2, <2>1, <2>2
<1> QED BY <1>3

\* Counting up from 0.
LEMMA UpTo ==
  ASSUME NEW N \in Nat, NEW T, 0 \in T, \A m \in 1..N : m - 1 \in T => m \in T
  PROVE  0..N \subseteq T
<1> DEFINE Out == {m \in 0..N : m \notin T}
<1> SUFFICES ASSUME Out # {}
             PROVE  FALSE
  OBVIOUS
<1>1. Out \subseteq Nat
  OBVIOUS
<1>2. PICK m \in Out : \A n \in Out : m <= n
  <2> HIDE DEF Out
  <2> QED BY <1>1, LeastNat
<1>3. m \in 1..N
  OBVIOUS
<1>4. m - 1 \in 0..N /\ ~(m <= m - 1)
  BY <1>3
<1>5. m - 1 \in T
  BY <1>2, <1>4
<1> QED BY <1>3, <1>5

\* f starts with base, and each value follows from the one before.
Follows(f, N, base, follow) ==
  f[0] = base /\ \A i \in 1..N : f[i] = follow[i][f[i - 1]]

\* What is defined step by step is defined.
LEMMA StepByStep ==
  ASSUME NEW N \in Nat, NEW V, NEW base \in V, NEW follow \in [1..N -> [V -> V]]
  PROVE  \E f \in [0..N -> V] : Follows(f, N, base, follow)
<1> DEFINE Reaches(m) == \E f \in [0..m -> V] :
              f[0] = base /\ \A i \in 1..m : f[i] = follow[i][f[i - 1]]
           T == {m \in 0..N : Reaches(m)}
<1>1. Reaches(0)
  <2> WITNESS [i \in 0..0 |-> base] \in [0..0 -> V]
  <2> QED OBVIOUS
<1>2. ASSUME NEW m \in 1..N, Reaches(m - 1)
      PROVE  Reaches(m)
  <2>1. PICK f \in [0..(m - 1) -> V] :
           f[0] = base /\ \A i \in 1..(m - 1) : f[i] = follow[i][f[i - 1]]
    BY <1>2
  <2> DEFINE g == [i \in 0..m |-> IF i = m THEN follow[m][f[m - 1]] ELSE f[i]]
  <2>2. f[m - 1] \in V
    OBVIOUS
  <2>3. g \in [0..m -> V]
    BY <2>2
  <2>4. \A i \in 0..m : g[i] = IF i = m THEN follow[m][f[m - 1]] ELSE f[i]
    OBVIOUS
  <2>5. g[0] = base
    BY <2>1, <2>4
  <2>6. ASSUME NEW i \in 1..m
        PROVE  g[i] = follow[i][g[i - 1]]
    <3>1. i - 1 \in 0..m /\ i - 1 # m /\ i \in 0..m
      OBVIOUS
    <3>2. g[i - 1] = f[i - 1]
      BY <2>4, <3>1
    <3> HIDE DEF g
    <3>3. CASE i = m
      BY <2>4, <3>1, <3>2, <3>3
    <3>4. CASE i # m
      <4>1. i \in 1..(m - 1)
        BY <3>4
      <4> QED BY <2>1, <2>4, <3>1, <3>2, <3>4, <4>1
    <3> QED BY <3>3, <3>4
  <2> HIDE DEF g
  <2> QED BY <2>3, <2>5, <2>6
<1> HIDE DEF Reaches
<1>3. 0 \in T /\ \A m \in 1..N : m - 1 \in T => m \in T
  BY <1>1, <1>2
<1> HIDE DEF T
<1>4. 0..N \subseteq T
  BY <1>3, UpTo
<1>5. N \in T
  BY <1>4
<1> QED BY <1>5 DEF T, Reaches, Follows

\* The places that are kept, in a sequence t that is filtered.
PicksBy(h, t, s, places) ==
    /\ h \in [1..Len(t) -> 1..Len(s)]
    /\ \A i \in 1..Len(t) : h[i] \in places /\ t[i] = s[h[i]]
    /\ \A i, j \in 1..Len(t) : h[i] = h[j] => i = j
    /\ \A p \in places \cap 1..Len(s) : \E i \in 1..Len(t) : h[i] = p

\* Filtering, one place after the other.
Filters(f, s, places) ==
    /\ f[0] = <<>>
    /\ \A i \in 1..Len(s) : f[i] = IF i \in places THEN Append(f[i - 1], s[i]) ELSE f[i - 1]
    /\ Limiter!Keeping(s, places) = f[Len(s)]

\* A filter builds its result one place after the other.
LEMMA FilteredByCount ==
    ASSUME NEW S, NEW s \in Seq(S), NEW places
    PROVE  \E f \in [0..Len(s) -> Seq(S)] : Filters(f, s, places)
<1> DEFINE N == Len(s)
           After(i, t) == IF i \in places THEN Append(t, s[i]) ELSE t
           Keeps(h) == h = [n \in 0..N |-> IF n = 0 THEN <<>>
                                           ELSE IF n \in places THEN Append(h[n - 1], s[n])
                                           ELSE h[n - 1]]
           g == CHOOSE h : Keeps(h)
<1>1. N \in Nat /\ \A i \in 1..N : s[i] \in S
  OBVIOUS
<1>2. PICK follow \in [1..N -> [Seq(S) -> Seq(S)]] :
         \A i \in 1..N, t \in Seq(S) : follow[i][t] = After(i, t)
  <2> DEFINE by == [i \in 1..N |-> [t \in Seq(S) |-> After(i, t)]]
  <2>1. ASSUME NEW i \in 1..N, NEW t \in Seq(S)
        PROVE  After(i, t) \in Seq(S)
    BY <1>1
  <2> HIDE DEF After
  <2>2. by \in [1..N -> [Seq(S) -> Seq(S)]]
    BY <2>1
  <2>3. \A i \in 1..N, t \in Seq(S) : by[i][t] = After(i, t)
    OBVIOUS
  <2> HIDE DEF by
  <2> QED BY <2>2, <2>3
<1>3. Limiter!Keeping(s, places) = g[N]
  BY DEF Limiter!Keeping
<1> HIDE DEF g
<1>4. PICK f \in [0..N -> Seq(S)] : Follows(f, N, <<>>, follow)
  <2> HIDE DEF N
  <2>0. <<>> \in Seq(S)
    OBVIOUS
  <2>1. PICK none \in Seq(S) : none = <<>>
    BY <2>0
  <2>2. \E f \in [0..N -> Seq(S)] : Follows(f, N, none, follow)
    BY <1>1, StepByStep
  <2> QED BY <2>1, <2>2
<1>5. f[0] = <<>> /\ \A i \in 1..N : f[i] = After(i, f[i - 1])
  <2>1. ASSUME NEW i \in 1..N
        PROVE  f[i] = After(i, f[i - 1])
    <3>1. i - 1 \in 0..N
      BY <1>1
    <3>2. f[i - 1] \in Seq(S)
      BY <3>1
    <3> HIDE DEF After
    <3> QED BY <1>2, <1>4, <3>2 DEF Follows
  <2> QED BY <1>4, <2>1 DEF Follows
<1>6. Keeps(f)
  <2> DEFINE rest(n) == IF n = 0 THEN <<>>
                        ELSE IF n \in places THEN Append(f[n - 1], s[n]) ELSE f[n - 1]
  <2>1. ASSUME NEW n \in 0..N
        PROVE  f[n] = rest(n)
    <3>1. n # 0 => n \in 1..N
      BY <1>1
    <3> QED BY <1>5, <3>1
  <2> HIDE DEF rest
  <2>2. f = [n \in 0..N |-> rest(n)]
    BY <2>1
  <2> QED BY <2>2 DEF rest
<1>7. Keeps(g)
  BY <1>6 DEF g
<1>8. g[0] = <<>> /\ \A i \in 1..N : g[i] = After(i, g[i - 1])
  <2> DEFINE rest(n) == IF n = 0 THEN <<>>
                        ELSE IF n \in places THEN Append(g[n - 1], s[n]) ELSE g[n - 1]
  <2>1. g = [n \in 0..N |-> rest(n)]
    BY <1>7
  <2>2. \A n \in 0..N : g[n] = rest(n)
    <3> HIDE DEF rest
    <3> QED BY <2>1
  <2>3. 0 \in 0..N /\ \A i \in 1..N : i \in 0..N /\ i # 0
    BY <1>1
  <2>4. rest(0) = <<>> /\ \A i \in 1..N : rest(i) = After(i, g[i - 1])
    BY <2>3
  <2> HIDE DEF rest, After
  <2> QED BY <2>2, <2>3, <2>4
<1> HIDE DEF After
<1> DEFINE T == {n \in 0..N : g[n] = f[n]}
<1>10. 0 \in T /\ \A m \in 1..N : m - 1 \in T => m \in T
  BY <1>1, <1>5, <1>8
<1>11. 0..N \subseteq T
  <2> HIDE DEF T
  <2> QED BY <1>1, <1>10, UpTo
<1>12. g[N] = f[N]
  BY <1>1, <1>11
<1> QED BY <1>3, <1>5, <1>12 DEF After, Filters

\* A filter keeps what stands in its places, each once.
LEMMA WhatIsKept ==
    ASSUME NEW S, NEW s \in Seq(S), NEW places
    PROVE  /\ Limiter!Keeping(s, places) \in Seq(S)
           /\ \E h \in [1..Len(Limiter!Keeping(s, places)) -> 1..Len(s)] :
                 PicksBy(h, Limiter!Keeping(s, places), s, places)
<1>0. PICK f \in [0..Len(s) -> Seq(S)] : Filters(f, s, places)
  BY FilteredByCount
<1>1. /\ f[0] = <<>>
      /\ \A i \in 1..Len(s) : f[i] = IF i \in places THEN Append(f[i - 1], s[i]) ELSE f[i - 1]
      /\ Limiter!Keeping(s, places) = f[Len(s)]
  BY <1>0 DEF Filters
<1> DEFINE N == Len(s)
           Upto(n, h) ==
             /\ h \in [1..Len(f[n]) -> 1..n]
             /\ \A i \in 1..Len(f[n]) : h[i] \in places /\ f[n][i] = s[h[i]]
             /\ \A i, j \in 1..Len(f[n]) : h[i] = h[j] => i = j
             /\ \A p \in places \cap 1..n : \E i \in 1..Len(f[n]) : h[i] = p
           T == {n \in 0..N : \E h \in [1..Len(f[n]) -> 1..n] : Upto(n, h)}
<1>2. N \in Nat /\ \A i \in 1..N : s[i] \in S
  OBVIOUS
<1>3. 0 \in T
  <2>1. f[0] = <<>> /\ Len(f[0]) = 0 /\ 0 \in 0..N
    BY <1>1, <1>2
  <2>2. PICK h \in [1..Len(f[0]) -> 1..0] : TRUE
    BY <2>1
  <2>3. Upto(0, h)
    BY <2>1
  <2> HIDE DEF Upto
  <2> QED BY <2>1, <2>3
<1>4. ASSUME NEW m \in 1..N, m - 1 \in T
      PROVE  m \in T
  <2>1. m \in 0..N /\ m - 1 \in 0..N
    BY <1>2
  <2>2. PICK h \in [1..Len(f[m - 1]) -> 1..(m - 1)] : Upto(m - 1, h)
    <3> HIDE DEF Upto
    <3> QED BY <1>4
  <2>3. f[m - 1] \in Seq(S) /\ f[m] \in Seq(S)
    BY <2>1
  <2>4. CASE m \notin places
    <3>1. f[m] = f[m - 1]
      BY <1>1, <2>4
    <3>2. h \in [1..Len(f[m]) -> 1..m]
      BY <2>2, <2>3, <3>1
    <3>3. Upto(m, h)
      <4>1. \A p \in places \cap 1..m : p \in 1..(m - 1)
        BY <2>4
      <4> QED BY <2>2, <2>3, <3>1, <3>2, <4>1
    <3> HIDE DEF Upto
    <3> QED BY <2>1, <3>2, <3>3
  <2>5. CASE m \in places
    <3> DEFINE L == Len(f[m - 1])
               k == [i \in 1..(L + 1) |-> IF i = L + 1 THEN m ELSE h[i]]
    <3>1. f[m] = Append(f[m - 1], s[m]) /\ s[m] \in S
      BY <1>1, <1>2, <2>5
    <3>2. /\ L \in Nat /\ Len(f[m]) = L + 1 /\ f[m][L + 1] = s[m]
          /\ \A i \in 1..L : f[m][i] = f[m - 1][i]
      <4>1. L \in Nat
        BY <2>3
      <4>2. Len(f[m]) = L + 1 /\ f[m][L + 1] = s[m]
        BY <2>3, <3>1
      <4>3. ASSUME NEW i \in 1..L
            PROVE  f[m][i] = f[m - 1][i]
        BY <2>3, <3>1
      <4> QED BY <4>1, <4>2, <4>3
    <3>3. /\ h \in [1..L -> 1..(m - 1)]
          /\ \A i \in 1..L : h[i] \in places /\ f[m - 1][i] = s[h[i]]
          /\ \A i, j \in 1..L : h[i] = h[j] => i = j
          /\ \A p \in places \cap 1..(m - 1) : \E i \in 1..L : h[i] = p
      BY <2>2
    <3> HIDE DEF L
    <3>4. \A i \in 1..L : h[i] \in 1..m /\ h[i] # m
      <4>1. \A q \in 1..(m - 1) : q \in 1..m /\ q # m
        BY <1>2
      <4> QED BY <3>3, <4>1
    <3>5. k[L + 1] = m /\ \A i \in 1..L : k[i] = h[i]
      BY <3>2
    <3>6. k \in [1..(L + 1) -> 1..m]
      BY <3>2, <3>4
    <3> HIDE DEF k
    <3>7. \A i \in 1..(L + 1) : i = L + 1 \/ i \in 1..L
      BY <3>2
    <3>8. \A i \in 1..(L + 1) : k[i] \in places /\ f[m][i] = s[k[i]]
      BY <2>5, <3>2, <3>3, <3>5, <3>7
    <3>9. \A i, j \in 1..(L + 1) : k[i] = k[j] => i = j
      BY <3>3, <3>4, <3>5, <3>7
    <3>10. ASSUME NEW p \in places \cap 1..m
           PROVE  \E i \in 1..(L + 1) : k[i] = p
      <4>1. CASE p = m
        BY <3>2, <3>5, <4>1
      <4>2. CASE p # m
        <5>1. PICK i \in 1..L : h[i] = p
          BY <3>3, <4>2
        <5>2. i \in 1..(L + 1)
          BY <3>2
        <5> QED BY <3>5, <5>1, <5>2
      <4> QED BY <4>1, <4>2
    <3>11. Upto(m, k)
      BY <3>2, <3>6, <3>8, <3>9, <3>10
    <3> HIDE DEF Upto
    <3> QED BY <2>1, <3>2, <3>6, <3>11
  <2> QED BY <2>4, <2>5
<1>5. 0..N \subseteq T
  <2> HIDE DEF T
  <2> QED BY <1>2, <1>3, <1>4, UpTo
<1>6. PICK h \in [1..Len(f[N]) -> 1..N] : Upto(N, h)
  <2>1. N \in 0..N
    BY <1>2
  <2>2. N \in T
    <3> HIDE DEF T, N
    <3> QED BY <1>5, <2>1
  <2> HIDE DEF Upto
  <2> QED BY <2>2
<1>7. f[N] \in Seq(S)
  BY <1>2
<1>8. PicksBy(h, f[N], s, places)
  BY <1>6 DEF PicksBy
<1> QED BY <1>1, <1>6, <1>7, <1>8

-----------------------------------------------------------------------------
(***************************************************************************)
(* The map of entries, as the set of its entries: what is left out of it,  *)
(* put into it and found in it.                                            *)
(***************************************************************************)

\* What a stamp and an entry of the map are.
Stamps == [age : Nat, how : {"reserved", "direct"}]
LimiterEntries ==
    [key : Keys, id : Limiter!Ids, stamps : Seq(Stamps), in_flight : Nat]

EntriesOf(s) == {s[i] : i \in 1..Len(s)}

\* A key has one entry, and entries are told apart.
MapOK(s) ==
    /\ s \in Seq(LimiterEntries)
    /\ \A i, j \in 1..Len(s) : s[i].key = s[j].key => i = j
    /\ \A e, f \in EntriesOf(s) : e.id = f.id => e = f

\* What is kept of a map is a map.
LEMMA FilteredMap ==
    ASSUME NEW s, MapOK(s), NEW places
    PROVE  /\ MapOK(Limiter!Keeping(s, places))
           /\ EntriesOf(Limiter!Keeping(s, places)) = {s[i] : i \in places \cap 1..Len(s)}
<1>1. s \in Seq(LimiterEntries)
  BY DEF MapOK
<1> DEFINE t == Limiter!Keeping(s, places)
<1>2. /\ t \in Seq(LimiterEntries)
      /\ \E h \in [1..Len(t) -> 1..Len(s)] : PicksBy(h, t, s, places)
  BY <1>1, WhatIsKept
<1> HIDE DEF t
<1>3. PICK h \in [1..Len(t) -> 1..Len(s)] : PicksBy(h, t, s, places)
  BY <1>2
<1>4. /\ \A i \in 1..Len(t) : h[i] \in places /\ h[i] \in 1..Len(s) /\ t[i] = s[h[i]]
      /\ \A i, j \in 1..Len(t) : h[i] = h[j] => i = j
      /\ \A p \in places \cap 1..Len(s) : \E i \in 1..Len(t) : h[i] = p
  BY <1>3 DEF PicksBy
<1>5. EntriesOf(t) = {s[i] : i \in places \cap 1..Len(s)}
  <2>1. ASSUME NEW i \in 1..Len(t)
        PROVE  \E p \in places \cap 1..Len(s) : t[i] = s[p]
    BY <1>4
  <2>2. ASSUME NEW p \in places \cap 1..Len(s)
        PROVE  \E i \in 1..Len(t) : t[i] = s[p]
    BY <1>4
  <2> DEFINE kept_places == places \cap 1..Len(s)
  <2>3. EntriesOf(t) \subseteq {s[i] : i \in kept_places}
    <3> HIDE DEF kept_places
    <3>1. \A i \in 1..Len(t) : \E p \in kept_places : t[i] = s[p]
      BY <2>1 DEF kept_places
    <3> QED BY <3>1 DEF EntriesOf
  <2>4. {s[i] : i \in kept_places} \subseteq EntriesOf(t)
    <3>1. \A p \in kept_places : \E i \in 1..Len(t) : t[i] = s[p]
      BY <2>2
    <3> HIDE DEF kept_places
    <3> QED BY <3>1 DEF EntriesOf
  <2> QED BY <2>3, <2>4
<1>6. \A i, j \in 1..Len(t) : t[i].key = t[j].key => i = j
  BY <1>4 DEF MapOK
<1>7. EntriesOf(t) \subseteq EntriesOf(s)
  BY <1>5 DEF EntriesOf
<1>8. MapOK(t)
  BY <1>2, <1>6, <1>7 DEF MapOK
<1> QED BY <1>5, <1>8 DEF t

\* A map without a key has the entries of the other keys.
LEMMA WithoutMap ==
    ASSUME NEW s, MapOK(s), NEW k
    PROVE  /\ MapOK(Limiter!Without(s, k))
           /\ EntriesOf(Limiter!Without(s, k)) = {e \in EntriesOf(s) : e.key # k}
<1> DEFINE places == {i \in 1..Len(s) : s[i].key # k}
<1>1. {s[i] : i \in places \cap 1..Len(s)} = {e \in EntriesOf(s) : e.key # k}
  BY DEF EntriesOf
<1>2. Limiter!Without(s, k) = Limiter!Keeping(s, places)
  BY DEF Limiter!Without
<1> HIDE DEF places
<1> QED BY <1>1, <1>2, FilteredMap

\* An entry of a new key and id can be appended.
LEMMA AppendedMap ==
    ASSUME NEW s, MapOK(s), NEW e \in LimiterEntries,
           \A f \in EntriesOf(s) : f.key # e.key /\ f.id # e.id
    PROVE  MapOK(Append(s, e)) /\ EntriesOf(Append(s, e)) = EntriesOf(s) \cup {e}
<1> DEFINE t == Append(s, e)
<1>1. s \in Seq(LimiterEntries) /\ Len(s) \in Nat
  BY DEF MapOK
<1>2. t \in Seq(LimiterEntries) /\ Len(t) = Len(s) + 1 /\ t[Len(s) + 1] = e
  BY <1>1
<1>3. ASSUME NEW i \in 1..Len(s)
      PROVE  t[i] = s[i]
  BY <1>1
<1>4. \A i \in 1..Len(t) : i = Len(s) + 1 \/ i \in 1..Len(s)
  BY <1>1, <1>2
<1>5. Len(s) + 1 \in 1..Len(t) /\ \A i \in 1..Len(s) : i \in 1..Len(t)
  BY <1>1, <1>2
<1> HIDE DEF t
<1>6. EntriesOf(t) = EntriesOf(s) \cup {e}
  <2>1. ASSUME NEW i \in 1..Len(t)
        PROVE  t[i] = e \/ \E j \in 1..Len(s) : t[i] = s[j]
    BY <1>2, <1>3, <1>4
  <2>2. \A i \in 1..Len(s) : \E j \in 1..Len(t) : t[j] = s[i]
    BY <1>3, <1>5
  <2>3. \E j \in 1..Len(t) : t[j] = e
    BY <1>2, <1>5
  <2> QED BY <2>1, <2>2, <2>3 DEF EntriesOf
<1>7. \A i \in 1..Len(s) : s[i].key # e.key
  BY DEF EntriesOf
<1>8. \A i, j \in 1..Len(t) : t[i].key = t[j].key => i = j
  BY <1>2, <1>3, <1>4, <1>7 DEF MapOK
<1>9. \A f, g \in EntriesOf(t) : f.id = g.id => f = g
  BY <1>6 DEF MapOK
<1>10. MapOK(t)
  BY <1>2, <1>8, <1>9 DEF MapOK
<1> QED BY <1>6, <1>10 DEF t

\* Dropping the least recent entry leaves a map of the others.
LEMMA TailMap ==
    ASSUME NEW s, MapOK(s), s # <<>>
    PROVE  /\ MapOK(Tail(s)) /\ EntriesOf(Tail(s)) \subseteq EntriesOf(s)
           /\ Len(s) > 1 => s[Len(s)] \in EntriesOf(Tail(s))
<1> DEFINE t == Tail(s)
<1>1. s \in Seq(LimiterEntries) /\ Len(s) \in Nat /\ Len(s) > 0
  BY DEF MapOK
<1>2. t \in Seq(LimiterEntries) /\ Len(t) = Len(s) - 1
  BY <1>1
<1>3. ASSUME NEW i \in 1..Len(t)
      PROVE  t[i] = s[i + 1] /\ i + 1 \in 1..Len(s)
  BY <1>1, <1>2
<1> HIDE DEF t
<1>4. EntriesOf(t) \subseteq EntriesOf(s)
  BY <1>3 DEF EntriesOf
<1>5. \A i, j \in 1..Len(t) : t[i].key = t[j].key => i = j
  <2> TAKE i, j \in 1..Len(t)
  <2>1. t[i].key = t[j].key => i + 1 = j + 1
    BY <1>3 DEF MapOK
  <2> QED BY <1>1, <1>2, <2>1
<1>6. Len(s) > 1 => s[Len(s)] \in EntriesOf(t)
  <2> SUFFICES ASSUME Len(s) > 1
               PROVE  s[Len(s)] \in EntriesOf(t)
    OBVIOUS
  <2>1. Len(t) \in 1..Len(t) /\ Len(t) + 1 = Len(s)
    BY <1>1, <1>2
  <2>2. t[Len(t)] = s[Len(s)]
    BY <1>3, <2>1
  <2> QED BY <2>1, <2>2 DEF EntriesOf
<1>7. MapOK(t)
  BY <1>2, <1>4, <1>5 DEF MapOK
<1> QED BY <1>4, <1>6, <1>7 DEF t

\* An entry that is put takes the place of its key's, and may evict another.
LEMMA PutMap ==
    ASSUME NEW s, MapOK(s), NEW e \in LimiterEntries,
           \A f \in EntriesOf(s) : f.key # e.key => f.id # e.id
    PROVE  /\ MapOK(Limiter!Put(s, e)) /\ e \in EntriesOf(Limiter!Put(s, e))
           /\ \A f \in EntriesOf(Limiter!Put(s, e)) :
                 f = e \/ (f \in EntriesOf(s) /\ f.key # e.key)
<1> DEFINE w == Limiter!Without(s, e.key)
           t == Append(w, e)
<1>1. MapOK(w) /\ EntriesOf(w) = {f \in EntriesOf(s) : f.key # e.key}
  BY WithoutMap
<1> HIDE DEF w
<1>2. MapOK(t) /\ EntriesOf(t) = EntriesOf(w) \cup {e}
  BY <1>1, AppendedMap
<1>3. t # <<>> /\ t[Len(t)] = e /\ Len(t) \in Nat
  <2>1. w \in Seq(LimiterEntries)
    BY <1>1 DEF MapOK
  <2> QED BY <2>1
<1>4. Limiter!Put(s, e) = IF Len(t) > MaxKeys THEN Tail(t) ELSE t
  BY DEF Limiter!Put, w
<1>5. MaxKeys \in Nat \ {0}
  BY LimiterBounds DEF Limiter!LimiterAssumption
<1> HIDE DEF t
<1>6. CASE Len(t) > MaxKeys
  <2>1. Len(t) > 1
    BY <1>3, <1>5, <1>6
  <2>2. MapOK(Tail(t)) /\ EntriesOf(Tail(t)) \subseteq EntriesOf(t) /\ e \in EntriesOf(Tail(t))
    BY <1>2, <1>3, <2>1, TailMap
  <2> QED BY <1>1, <1>2, <1>4, <1>6, <2>2
<1>7. CASE ~(Len(t) > MaxKeys)
  BY <1>1, <1>2, <1>4, <1>7
<1> QED BY <1>6, <1>7

\* The entry that is found for a key is the one it has.
LEMMA EntryFound ==
    ASSUME NEW s, MapOK(s), NEW k
    PROVE  /\ Limiter!Has(s, k) <=> \E e \in EntriesOf(s) : e.key = k
           /\ Limiter!Has(s, k) => /\ Limiter!EntryOf(s, k) \in EntriesOf(s)
                                   /\ Limiter!EntryOf(s, k).key = k
           /\ \A e \in EntriesOf(s) : e.key = k => Limiter!EntryOf(s, k) = e
<1>1. Limiter!Has(s, k) <=> \E e \in EntriesOf(s) : e.key = k
  BY DEF Limiter!Has, EntriesOf
<1>2. ASSUME NEW i \in 1..Len(s), s[i].key = k
      PROVE  Limiter!EntryOf(s, k) = s[i]
  <2> DEFINE c == CHOOSE j \in 1..Len(s) : s[j].key = k
  <2>1. c \in 1..Len(s) /\ s[c].key = k
    BY <1>2
  <2>2. Limiter!EntryOf(s, k) = s[c]
    BY DEF Limiter!EntryOf
  <2> HIDE DEF c
  <2>3. c = i
    BY <1>2, <2>1 DEF MapOK
  <2> QED BY <2>2, <2>3
<1>3. \A e \in EntriesOf(s) : e.key = k => Limiter!EntryOf(s, k) = e
  BY <1>2 DEF EntriesOf
<1> QED BY <1>1, <1>3

-----------------------------------------------------------------------------
(***************************************************************************)
(* What an entry counts, and what pruning, stamping and time do to it.     *)
(***************************************************************************)

\* How many of an entry's attempts are within the window, and how many of these were
\* reserved.
ActivePlaces(e) == {i \in 1..Len(e.stamps) : e.stamps[i].age < Window}
ActiveIn(e) == Cardinality(ActivePlaces(e))
ReservedIn(e) == Cardinality(Limiter!LiveReserved(e))

\* The library operator that the limiter has under its instance is the library operator.
LEMMA LimiterCardinality == \A S : Limiter!Cardinality(S) = Cardinality(S)
  BY DEF Limiter!Cardinality, Cardinality

\* The places a filter picks from are as many as those it fills.
LEMMA PlacesCounted ==
    ASSUME NEW t, NEW s, Len(t) \in Nat, Len(s) \in Nat, NEW places, NEW h,
           PicksBy(h, t, s, places), NEW Q, Q \subseteq places \cap 1..Len(s)
    PROVE  Cardinality({i \in 1..Len(t) : h[i] \in Q}) = Cardinality(Q)
<1> DEFINE A == {i \in 1..Len(t) : h[i] \in Q}
           g == [i \in A |-> h[i]]
<1>1. /\ \A i, j \in 1..Len(t) : h[i] = h[j] => i = j
      /\ \A p \in Q : \E i \in 1..Len(t) : h[i] = p
  BY DEF PicksBy
<1>2. IsFiniteSet(A)
  <2>1. IsFiniteSet(1..Len(t))
    BY FS_Interval
  <2>2. A \in SUBSET (1..Len(t))
    OBVIOUS
  <2> HIDE DEF A
  <2> QED BY <2>1, <2>2, FS_Subset
<1>3. g \in [A -> Q] /\ \A i \in A : g[i] = h[i]
  OBVIOUS
<1>4. A \subseteq 1..Len(t) /\ \A p \in Q : \E i \in A : g[i] = p
  BY <1>1, <1>3
<1> HIDE DEF g, A
<1>5. g \in Bijection(A, Q)
  <2>1. \A i, j \in A : g[i] = g[j] => i = j
    BY <1>1, <1>3, <1>4
  <2> QED BY <1>3, <1>4, <2>1 DEF Bijection, Injection, Surjection, IsInjective
<1>6. ExistsBijection(A, Q)
  BY <1>5 DEF ExistsBijection
<1>7. Cardinality(Q) = Cardinality(A)
  BY <1>2, <1>6, FS_Bijection
<1> QED BY <1>7 DEF A

\* The counts of an entry are numbers, in their order.
LEMMA CountsAreNat ==
    ASSUME NEW e \in LimiterEntries
    PROVE  /\ IsFiniteSet(ActivePlaces(e)) /\ IsFiniteSet(Limiter!LiveReserved(e))
           /\ ActiveIn(e) \in Nat /\ ReservedIn(e) \in Nat /\ Len(e.stamps) \in Nat
           /\ ReservedIn(e) <= ActiveIn(e) /\ ActiveIn(e) <= Len(e.stamps)
<1>1. Len(e.stamps) \in Nat
  BY DEF LimiterEntries
<1>2. IsFiniteSet(1..Len(e.stamps)) /\ Cardinality(1..Len(e.stamps)) = Len(e.stamps)
  BY <1>1, FS_Interval
<1>3. ActivePlaces(e) \in SUBSET (1..Len(e.stamps))
  BY DEF ActivePlaces
<1>4. Limiter!LiveReserved(e) \in SUBSET ActivePlaces(e)
  BY DEF ActivePlaces, Limiter!LiveReserved
<1>5. IsFiniteSet(ActivePlaces(e)) /\ ActiveIn(e) <= Len(e.stamps)
  BY <1>2, <1>3, FS_Subset DEF ActiveIn
<1>6. IsFiniteSet(Limiter!LiveReserved(e)) /\ ReservedIn(e) <= ActiveIn(e)
  BY <1>4, <1>5, FS_Subset DEF ActiveIn, ReservedIn
<1>7. ActiveIn(e) \in Nat /\ ReservedIn(e) \in Nat
  BY <1>5, <1>6, FS_CardinalityType DEF ActiveIn, ReservedIn
<1> QED BY <1>1, <1>5, <1>6, <1>7

\* Pruning leaves what is within the window.
LEMMA PrunedKeeps ==
    ASSUME NEW e \in LimiterEntries
    PROVE  /\ Limiter!Pruned(e) \in LimiterEntries
           /\ Limiter!Pruned(e).key = e.key /\ Limiter!Pruned(e).id = e.id
           /\ Limiter!Pruned(e).in_flight = e.in_flight
           /\ Limiter!Pruned(e).stamps = Limiter!Active(e.stamps)
           /\ Len(Limiter!Pruned(e).stamps) = ActiveIn(e)
           /\ ActiveIn(Limiter!Pruned(e)) = ActiveIn(e)
           /\ ReservedIn(Limiter!Pruned(e)) = ReservedIn(e)
<1>1. PICK s \in Seq(Stamps) : s = e.stamps
  BY DEF LimiterEntries
<1> DEFINE t == Limiter!Active(s)
           places == {i \in 1..Len(s) : s[i].age < Window}
           q == Limiter!Pruned(e)
<1>2. t = Limiter!Keeping(s, places)
  BY DEF Limiter!Active
<1>3. t \in Seq(Stamps) /\ \E h \in [1..Len(t) -> 1..Len(s)] : PicksBy(h, t, s, places)
  <2> HIDE DEF places, t
  <2> QED BY <1>2, WhatIsKept
<1>4. /\ q.key = e.key /\ q.id = e.id /\ q.in_flight = e.in_flight /\ q.stamps = t
      /\ q \in LimiterEntries
  <2> HIDE DEF t
  <2>0. t \in Seq(Stamps)
    BY <1>3
  <2>1. q = [e EXCEPT !.stamps = t]
    BY <1>1 DEF Limiter!Pruned, t
  <2> HIDE DEF q
  <2> QED BY <2>0, <2>1 DEF LimiterEntries
<1>5. places = ActivePlaces(e) /\ places \subseteq places \cap 1..Len(s)
  BY <1>1 DEF ActivePlaces
<1> HIDE DEF t, q
<1>6. PICK h \in [1..Len(t) -> 1..Len(s)] : PicksBy(h, t, s, places)
  BY <1>3
<1>7. \A i \in 1..Len(t) : h[i] \in places /\ h[i] \in 1..Len(s) /\ t[i] = s[h[i]]
  BY <1>6 DEF PicksBy
<1>8. Len(t) \in Nat /\ Len(s) \in Nat
  BY <1>3
<1>9. ActivePlaces(q) = 1..Len(t) /\ {i \in 1..Len(t) : h[i] \in places} = 1..Len(t)
  BY <1>4, <1>7 DEF ActivePlaces
<1>10. Cardinality(1..Len(t)) = Len(t)
  <2>1. Len(t) \in Int /\ 1 \in Int /\ ~(1 > Len(t) /\ Len(t) # 0)
    BY <1>8
  <2>2. Cardinality(1..Len(t)) = IF 1 > Len(t) THEN 0 ELSE Len(t) - 1 + 1
    BY <2>1, FS_Interval
  <2> QED BY <1>8, <2>2
<1>11. Cardinality({i \in 1..Len(t) : h[i] \in places}) = Cardinality(places)
  <2> HIDE DEF places
  <2> QED BY <1>5, <1>6, <1>8, PlacesCounted
<1>12. Len(t) = ActiveIn(e) /\ ActiveIn(q) = ActiveIn(e)
  BY <1>5, <1>9, <1>10, <1>11 DEF ActiveIn
<1>13. Limiter!LiveReserved(q) = {i \in 1..Len(t) : h[i] \in Limiter!LiveReserved(e)}
  BY <1>1, <1>4, <1>7 DEF Limiter!LiveReserved
<1>14. Limiter!LiveReserved(e) \subseteq places \cap 1..Len(s)
  BY <1>1 DEF Limiter!LiveReserved
<1>15. ReservedIn(q) = ReservedIn(e)
  <2> HIDE DEF places
  <2> QED BY <1>6, <1>8, <1>13, <1>14, PlacesCounted DEF ReservedIn
<1> QED BY <1>1, <1>4, <1>12, <1>15 DEF q, t

\* A stamp that is added counts once, and as a reservation only if it was one.
LEMMA StampedKeeps ==
    ASSUME NEW e \in LimiterEntries, NEW how \in {"reserved", "direct"}
    PROVE  /\ Limiter!Stamped(e, how) \in LimiterEntries
           /\ Limiter!Stamped(e, how).key = e.key /\ Limiter!Stamped(e, how).id = e.id
           /\ Limiter!Stamped(e, how).in_flight = e.in_flight
           /\ ReservedIn(Limiter!Stamped(e, how))
                 <= ReservedIn(e) + (IF how = "reserved" THEN 1 ELSE 0)
<1> DEFINE q == Limiter!Pruned(e)
           p == Limiter!Stamped(e, how)
           new == [age |-> 0, how |-> how]
<1>1. /\ q \in LimiterEntries /\ q.key = e.key /\ q.id = e.id /\ q.in_flight = e.in_flight
      /\ ReservedIn(q) = ReservedIn(e)
  BY PrunedKeeps
<1>2. p = [q EXCEPT !.stamps = Append(q.stamps, new)]
  BY DEF Limiter!Stamped
<1>3. new \in Stamps /\ new.how = how
  BY DEF Stamps
<1> HIDE DEF q, p, new
<1>4. PICK s \in Seq(Stamps) : s = q.stamps
  BY <1>1 DEF LimiterEntries
<1>5. PICK t \in Seq(Stamps) : t = Append(s, new)
  <2>1. Append(s, new) \in Seq(Stamps)
    BY <1>3
  <2> QED BY <2>1
<1>6. Len(s) \in Nat /\ Len(t) = Len(s) + 1 /\ t[Len(s) + 1] = new
  BY <1>3, <1>5
<1>7. ASSUME NEW i \in 1..Len(s)
      PROVE  t[i] = s[i]
  BY <1>3, <1>5
<1>8. /\ p \in LimiterEntries /\ p.key = q.key /\ p.id = q.id /\ p.in_flight = q.in_flight
      /\ p.stamps = t
  <2>1. p = [q EXCEPT !.stamps = t]
    BY <1>2, <1>4, <1>5
  <2> QED BY <1>1, <2>1 DEF LimiterEntries
<1> DEFINE last == Len(s) + 1
<1>9. ASSUME NEW i \in Limiter!LiveReserved(p)
      PROVE  \/ i \in Limiter!LiveReserved(q)
             \/ i = last /\ how = "reserved"
  <2>1. i \in 1..Len(t) /\ t[i].how = "reserved" /\ t[i].age < Window
    BY <1>8, <1>9 DEF Limiter!LiveReserved
  <2>2. i = last \/ i \in 1..Len(s)
    BY <1>6, <2>1
  <2>3. CASE i = last
    BY <1>3, <1>6, <2>1, <2>3
  <2>4. CASE i \in 1..Len(s)
    BY <1>4, <1>7, <2>1, <2>4 DEF Limiter!LiveReserved
  <2> QED BY <2>2, <2>3, <2>4
<1>10. IsFiniteSet(Limiter!LiveReserved(q)) /\ ReservedIn(q) \in Nat
  BY <1>1, CountsAreNat
<1>11. IsFiniteSet(Limiter!LiveReserved(p)) /\ ReservedIn(p) \in Nat
  BY <1>8, CountsAreNat
<1> HIDE DEF last
<1>12. CASE how = "direct"
  <2>1. Limiter!LiveReserved(p) \in SUBSET Limiter!LiveReserved(q)
    BY <1>9, <1>12
  <2>2. ReservedIn(p) <= ReservedIn(q)
    BY <1>10, <2>1, FS_Subset DEF ReservedIn
  <2> QED BY <1>1, <1>8, <1>10, <1>11, <1>12, <2>2 DEF p
<1>13. CASE how = "reserved"
  <2>1. Limiter!LiveReserved(p) \in SUBSET (Limiter!LiveReserved(q) \cup {last})
    BY <1>9
  <2>2. /\ IsFiniteSet(Limiter!LiveReserved(q) \cup {last})
        /\ Cardinality(Limiter!LiveReserved(q) \cup {last}) <= ReservedIn(q) + 1
        /\ Cardinality(Limiter!LiveReserved(q) \cup {last}) \in Nat
    <3> DEFINE live_then == Limiter!LiveReserved(q)
    <3>1. IsFiniteSet(live_then) /\ Cardinality(live_then) \in Nat
      BY <1>10 DEF ReservedIn
    <3> HIDE DEF live_then
    <3>2. /\ IsFiniteSet(live_then \cup {last})
          /\ Cardinality(live_then \cup {last})
                = IF last \in live_then THEN Cardinality(live_then) ELSE Cardinality(live_then) + 1
      BY <3>1, FS_AddElement
    <3> QED BY <3>1, <3>2 DEF live_then, ReservedIn
  <2>3. ReservedIn(p) <= Cardinality(Limiter!LiveReserved(q) \cup {last})
    BY <2>1, <2>2, FS_Subset DEF ReservedIn
  <2> QED BY <1>1, <1>8, <1>10, <1>11, <1>13, <2>2, <2>3 DEF p
<1> QED BY <1>12, <1>13

\* Time only takes attempts out of the window.
LEMMA AgedKeeps ==
    ASSUME NEW e \in LimiterEntries
    PROVE  /\ Limiter!Aged(e) \in LimiterEntries
           /\ Limiter!Aged(e).key = e.key /\ Limiter!Aged(e).id = e.id
           /\ Limiter!Aged(e).in_flight = e.in_flight
           /\ ReservedIn(Limiter!Aged(e)) <= ReservedIn(e)
<1>1. e.stamps \in Seq(Stamps)
  BY DEF LimiterEntries
<1> DEFINE t == [i \in 1..Len(e.stamps) |-> Limiter!Older(e.stamps[i])]
           q == Limiter!Aged(e)
<1>2. \A i \in 1..Len(e.stamps) : e.stamps[i] \in Stamps
  BY <1>1
<1>3. Window \in Nat
  BY LimiterBounds DEF Limiter!LimiterAssumption
<1>4. ASSUME NEW x \in Stamps
      PROVE  /\ Limiter!Older(x) \in Stamps /\ Limiter!Older(x).how = x.how
             /\ Limiter!Older(x).age >= x.age
  BY <1>3 DEF Stamps, Limiter!Older
<1>5. q = [e EXCEPT !.stamps = t]
  BY DEF Limiter!Aged
<1> HIDE DEF q
<1>6. /\ t \in Seq(Stamps) /\ Len(t) = Len(e.stamps)
      /\ \A i \in 1..Len(e.stamps) : t[i] = Limiter!Older(e.stamps[i])
  BY <1>1, <1>2, <1>4
<1> HIDE DEF t
<1>7. /\ q \in LimiterEntries /\ q.key = e.key /\ q.id = e.id /\ q.in_flight = e.in_flight
      /\ q.stamps = t
  BY <1>5, <1>6 DEF LimiterEntries
<1>8. ASSUME NEW i \in Limiter!LiveReserved(q)
      PROVE  i \in Limiter!LiveReserved(e)
  <2>1. i \in 1..Len(e.stamps) /\ t[i].how = "reserved" /\ t[i].age < Window
    BY <1>6, <1>7, <1>8 DEF Limiter!LiveReserved
  <2>2. /\ e.stamps[i] \in Stamps /\ t[i] \in Stamps
        /\ t[i].how = e.stamps[i].how /\ t[i].age >= e.stamps[i].age
    BY <1>2, <1>4, <1>6, <2>1
  <2>3. e.stamps[i].age < Window
    BY <1>3, <2>1, <2>2 DEF Stamps
  <2> QED BY <1>1, <2>1, <2>2, <2>3 DEF Limiter!LiveReserved
<1>9. Limiter!LiveReserved(q) \in SUBSET Limiter!LiveReserved(e)
  BY <1>8
<1>10. ReservedIn(q) <= ReservedIn(e)
  BY <1>9, CountsAreNat, FS_Subset DEF ReservedIn
<1> QED BY <1>7, <1>10 DEF q

-----------------------------------------------------------------------------
(***************************************************************************)
(* Where a key stands against the cap.                                     *)
(***************************************************************************)

\* An entry with less in it, and one with as much.
Fewer(e, f) ==
    /\ e.key = f.key /\ e.id = f.id /\ e.in_flight = f.in_flight
    /\ ReservedIn(e) <= ReservedIn(f)
Like(e, f) == Fewer(e, f) /\ ActiveIn(e) = ActiveIn(f)
AllLike(t, s) == \A e \in EntriesOf(t) : \E f \in EntriesOf(s) : Like(e, f)

Recent(s, k) == IF Limiter!Has(s, k) THEN ActiveIn(Limiter!EntryOf(s, k)) ELSE 0
Flying(s, k) == IF Limiter!Has(s, k) THEN Limiter!EntryOf(s, k).in_flight ELSE 0

\* What an entry of a map is.
LEMMA EntriesTyped ==
    ASSUME NEW s, MapOK(s), NEW e \in EntriesOf(s)
    PROVE  /\ e \in LimiterEntries /\ ActiveIn(e) \in Nat /\ ReservedIn(e) \in Nat
           /\ e.in_flight \in Nat /\ e.key \in Keys /\ e.id \in Limiter!Ids
<1>1. e \in LimiterEntries
  BY DEF MapOK, EntriesOf
<1> QED BY <1>1, CountsAreNat DEF LimiterEntries

\* What is left of an entry whose like is put in its place.
LEMMA PutLike ==
    ASSUME NEW s, MapOK(s), NEW f \in EntriesOf(s), NEW e \in LimiterEntries, Like(e, f)
    PROVE  MapOK(Limiter!Put(s, e)) /\ AllLike(Limiter!Put(s, e), s)
<1>1. \A g \in EntriesOf(s) : g.key # e.key => g.id # e.id
  BY DEF MapOK, Like, Fewer
<1>2. MapOK(Limiter!Put(s, e))
      /\ \A g \in EntriesOf(Limiter!Put(s, e)) : g = e \/ g \in EntriesOf(s)
  BY <1>1, PutMap
<1>3. \A g \in EntriesOf(s) : Like(g, g)
  BY EntriesTyped DEF Like, Fewer
<1> QED BY <1>2, <1>3 DEF AllLike

\* A map is like itself.
LEMMA SelfLike == ASSUME NEW s, MapOK(s) PROVE AllLike(s, s)
  BY EntriesTyped DEF AllLike, Like, Fewer

\* Pruning changes no count.
LEMMA PrunedIsLike ==
    ASSUME NEW e \in LimiterEntries
    PROVE  Limiter!Pruned(e) \in LimiterEntries /\ Like(Limiter!Pruned(e), e)
  BY PrunedKeeps, CountsAreNat DEF Like, Fewer

\* Looking at a key changes no count.
LEMMA LoadedMap ==
    ASSUME MapOK(attempts), NEW k
    PROVE  /\ MapOK(Limiter!Loaded(k)) /\ AllLike(Limiter!Loaded(k), attempts)
<1> DEFINE e == Limiter!EntryOf(attempts, k)
           q == Limiter!Pruned(e)
<1>1. CASE MaxAttempts = 0 \/ ~Limiter!Has(attempts, k)
  <2>1. Limiter!Loaded(k) = attempts
    BY <1>1 DEF Limiter!Loaded
  <2> QED BY <2>1, SelfLike
<1>2. CASE ~(MaxAttempts = 0 \/ ~Limiter!Has(attempts, k))
  <2>1. e \in EntriesOf(attempts)
    BY <1>2, EntryFound
  <2>2. e \in LimiterEntries
    BY <2>1, EntriesTyped
  <2>3. q \in LimiterEntries /\ Like(q, e)
    BY <2>2, PrunedIsLike
  <2>4. Limiter!Loaded(k) = IF Limiter!EntryIsIdle(q) THEN Limiter!Without(attempts, k)
                            ELSE Limiter!Put(attempts, q)
    BY <1>2 DEF Limiter!Loaded
  <2> HIDE DEF e, q
  <2>5. MapOK(Limiter!Put(attempts, q)) /\ AllLike(Limiter!Put(attempts, q), attempts)
    BY <2>1, <2>3, PutLike
  <2>6. /\ MapOK(Limiter!Without(attempts, k))
        /\ AllLike(Limiter!Without(attempts, k), attempts)
    BY WithoutMap, SelfLike DEF AllLike
  <2> QED BY <2>4, <2>5, <2>6
<1> QED BY <1>1, <1>2

\* The entry that is left is the one there was, pruned.
LEMMA LoadedEntry ==
    ASSUME MapOK(attempts), NEW k, MaxAttempts # 0
    PROVE  /\ Limiter!Has(Limiter!Loaded(k), k)
                 => /\ Limiter!Has(attempts, k)
                    /\ Limiter!EntryOf(Limiter!Loaded(k), k)
                         = Limiter!Pruned(Limiter!EntryOf(attempts, k))
           /\ ~Limiter!Has(Limiter!Loaded(k), k)
                 => Recent(attempts, k) = 0 /\ Flying(attempts, k) = 0
<1> DEFINE e == Limiter!EntryOf(attempts, k)
           q == Limiter!Pruned(e)
<1>1. CASE ~Limiter!Has(attempts, k)
  <2>1. Limiter!Loaded(k) = attempts
    BY <1>1 DEF Limiter!Loaded
  <2> QED BY <1>1, <2>1 DEF Recent, Flying
<1>2. CASE Limiter!Has(attempts, k)
  <2>1. e \in EntriesOf(attempts) /\ e.key = k
    BY <1>2, EntryFound
  <2>2. e \in LimiterEntries
    BY <2>1, EntriesTyped
  <2>3. /\ q \in LimiterEntries /\ Like(q, e) /\ q.key = k /\ q.in_flight = e.in_flight
        /\ Len(q.stamps) = ActiveIn(e)
    BY <2>1, <2>2, PrunedIsLike, PrunedKeeps
  <2>4. Limiter!Loaded(k) = IF Limiter!EntryIsIdle(q) THEN Limiter!Without(attempts, k)
                            ELSE Limiter!Put(attempts, q)
    BY <1>2 DEF Limiter!Loaded
  <2>5. Recent(attempts, k) = ActiveIn(e) /\ Flying(attempts, k) = e.in_flight
    BY <1>2 DEF Recent, Flying
  <2> HIDE DEF e, q
  <2>6. CASE Limiter!EntryIsIdle(q)
    <3>1. Limiter!Loaded(k) = Limiter!Without(attempts, k)
      BY <2>4, <2>6
    <3>2. ~Limiter!Has(Limiter!Loaded(k), k)
      BY <3>1, WithoutMap, EntryFound
    <3>3. q.in_flight = 0 /\ Len(q.stamps) = 0
      BY <2>6 DEF Limiter!EntryIsIdle
    <3> QED BY <2>3, <2>5, <3>2, <3>3
  <2>7. CASE ~Limiter!EntryIsIdle(q)
    <3>1. Limiter!Loaded(k) = Limiter!Put(attempts, q)
      BY <2>4, <2>7
    <3>2. \A g \in EntriesOf(attempts) : g.key # q.key => g.id # q.id
      BY <2>1, <2>3 DEF MapOK, Like, Fewer
    <3>3. MapOK(Limiter!Put(attempts, q)) /\ q \in EntriesOf(Limiter!Put(attempts, q))
      BY <2>3, <3>2, PutMap
    <3>4. /\ Limiter!Has(Limiter!Loaded(k), k)
          /\ Limiter!EntryOf(Limiter!Loaded(k), k) = q
      BY <2>3, <3>1, <3>3, EntryFound
    <3> QED BY <1>2, <3>4 DEF q, e
  <2> QED BY <2>6, <2>7
<1> QED BY <1>1, <1>2

\* Where a key stands against the cap, by what it holds.
LEMMA LoadIs ==
    ASSUME MapOK(attempts), NEW k
    PROVE  Limiter!Load(k) =
              IF MaxAttempts = 0 \/ Recent(attempts, k) >= MaxAttempts THEN "recorded"
              ELSE IF Recent(attempts, k) + Flying(attempts, k) < MaxAttempts THEN "free"
              ELSE "in_flight"
<1>1. CASE MaxAttempts = 0
  BY <1>1 DEF Limiter!Load
<1>2. CASE MaxAttempts # 0
  <2> DEFINE s == Limiter!Loaded(k)
             e == Limiter!EntryOf(attempts, k)
  <2>0. MaxAttempts \in Nat
    BY LimiterBounds DEF Limiter!LimiterAssumption
  <2>1. CASE ~Limiter!Has(s, k)
    <3>1. Recent(attempts, k) = 0 /\ Flying(attempts, k) = 0
      BY <1>2, <2>1, LoadedEntry
    <3>2. Limiter!Load(k) = "free"
      BY <1>2, <2>1 DEF Limiter!Load
    <3> QED BY <1>2, <2>0, <3>1, <3>2
  <2>2. CASE Limiter!Has(s, k)
    <3>1. Limiter!Has(attempts, k) /\ Limiter!EntryOf(s, k) = Limiter!Pruned(e)
      BY <1>2, <2>2, LoadedEntry
    <3>2. e \in LimiterEntries
      BY <3>1, EntryFound, EntriesTyped
    <3>3. /\ Len(Limiter!Pruned(e).stamps) = ActiveIn(e)
          /\ Limiter!Pruned(e).in_flight = e.in_flight
      BY <3>2, PrunedKeeps
    <3>4. Recent(attempts, k) = ActiveIn(e) /\ Flying(attempts, k) = e.in_flight
      BY <3>1 DEF Recent, Flying
    <3>5. Limiter!Load(k) =
            IF Len(Limiter!EntryOf(s, k).stamps) >= MaxAttempts THEN "recorded"
            ELSE IF Len(Limiter!EntryOf(s, k).stamps) + Limiter!EntryOf(s, k).in_flight
                      < MaxAttempts THEN "free"
            ELSE "in_flight"
      BY <1>2, <2>2 DEF Limiter!Load
    <3> HIDE DEF s, e
    <3> QED BY <1>2, <3>1, <3>3, <3>4, <3>5
  <2> QED BY <2>1, <2>2
<1> QED BY <1>1, <1>2

-----------------------------------------------------------------------------
(***************************************************************************)
(* The invariant, and what keeps it: an entry that counts less, or one     *)
(* that is new.                                                            *)
(***************************************************************************)

\* What a caller is.
LimiterCalls ==
    {Limiter!Idle}
      \cup [at : {"holding"}, key : Keys, id : Limiter!Ids]
      \cup [at : {"parked", "woken", "giving_up"}, key : Keys, left : Nat, aborted : BOOLEAN]

HoldersIn(calls, id) == {c \in Callers : calls[c].at = "holding" /\ calls[c].id = id}
WaitersIn(calls, k) ==
    {c \in Callers : calls[c].at \in {"parked", "woken", "giving_up"} /\ calls[c].key = k}

\* An entry keeps within the cap, and what it has in flight is what its holders have not
\* settled.
Sound(e, calls) ==
    /\ ReservedIn(e) + e.in_flight <= MaxAttempts
    /\ e.in_flight = Cardinality(HoldersIn(calls, e.id))
    /\ \A c \in HoldersIn(calls, e.id) : calls[c].key = e.key
AllSound(s, calls) == \A e \in EntriesOf(s) : Sound(e, calls)

LimiterInv ==
    /\ MapOK(attempts) /\ call \in [Callers -> LimiterCalls] /\ waiters \in [Keys -> Nat]
    /\ AllSound(attempts, call)
    /\ \A k \in Keys : waiters[k] = Cardinality(WaitersIn(call, k))

\* What the assumption on the constants gives.
LEMMA LimiterBounded ==
    /\ IsFiniteSet(Callers) /\ IsFiniteSet(Keys)
    /\ Cardinality(Callers) \in Nat /\ Cardinality(Keys) \in Nat
    /\ MaxAttempts \in Nat /\ MaxWait \in Nat /\ Window \in Nat
    /\ Limiter!Ids = 1..(Cardinality(Callers) + Cardinality(Keys))
<1>1. IsFiniteSet(Callers) /\ IsFiniteSet(Keys)
  BY LimiterBounds DEF Limiter!LimiterAssumption, Limiter!IsFiniteSet, IsFiniteSet
<1> QED BY <1>1, LimiterBounds, LimiterCardinality, FS_CardinalityType
        DEF Limiter!LimiterAssumption, Limiter!Ids

\* A function has no more values than arguments.
LEMMA FewValues ==
    ASSUME NEW S, IsFiniteSet(S), NEW f, f \in [S -> {f[x] : x \in S}]
    PROVE  /\ IsFiniteSet({f[x] : x \in S}) /\ Cardinality({f[x] : x \in S}) \in Nat
           /\ Cardinality({f[x] : x \in S}) <= Cardinality(S)
<1> DEFINE V == {f[x] : x \in S}
<1>1. f \in Surjection(S, V)
  BY DEF Surjection
<1> HIDE DEF V
<1>2. IsFiniteSet(V) /\ Cardinality(V) <= Cardinality(S)
  BY <1>1, FS_Surjection
<1>3. Cardinality(V) \in Nat
  BY <1>2, FS_CardinalityType
<1> QED BY <1>2, <1>3 DEF V

\* There is an id that no entry and no holder has, if a key has no entry or a caller holds
\* nothing.
LEMMA FreshIdIsNew ==
    ASSUME MapOK(attempts), call \in [Callers -> LimiterCalls],
           \/ \E c \in Callers : call[c].at # "holding"
           \/ \E k \in Keys : ~Limiter!Has(attempts, k)
    PROVE  /\ Limiter!FreshId \in Limiter!Ids
           /\ \A e \in EntriesOf(attempts) : e.id # Limiter!FreshId
           /\ HoldersIn(call, Limiter!FreshId) = {}
<1> DEFINE holders == {c \in Callers : call[c].at = "holding"}
           ids_kept == {attempts[i].id : i \in 1..Len(attempts)}
           ids_held == {call[c].id : c \in holders}
           used == ids_kept \cup ids_held
           keyed == {attempts[i].key : i \in 1..Len(attempts)}
           C == Cardinality(Callers)
           K == Cardinality(Keys)
<1>1. PICK n \in Nat : n = Len(attempts)
  BY DEF MapOK
<1>2. /\ IsFiniteSet(1..n) /\ Cardinality(1..n) = n
  <2>1. 1 \in Int /\ n \in Int /\ ~(1 > n /\ n # 0)
    BY <1>1
  <2>2. IsFiniteSet(1..n) /\ Cardinality(1..n) = IF 1 > n THEN 0 ELSE n - 1 + 1
    BY <2>1, FS_Interval
  <2> QED BY <1>1, <2>2
<1>3. IsFiniteSet(ids_kept) /\ Cardinality(ids_kept) <= n /\ Cardinality(ids_kept) \in Nat
  <2> DEFINE f == [i \in 1..n |-> attempts[i].id]
  <2>1. f \in [1..n -> {f[i] : i \in 1..n}] /\ {f[i] : i \in 1..n} = ids_kept
    BY <1>1
  <2> HIDE DEF f
  <2>2. /\ IsFiniteSet({f[i] : i \in 1..n}) /\ Cardinality({f[i] : i \in 1..n}) \in Nat
        /\ Cardinality({f[i] : i \in 1..n}) <= Cardinality(1..n)
    <3> DEFINE places == 1..n
    <3>1. IsFiniteSet(places) /\ f \in [places -> {f[i] : i \in places}]
      BY <1>2, <2>1
    <3> HIDE DEF places
    <3>2. /\ IsFiniteSet({f[i] : i \in places}) /\ Cardinality({f[i] : i \in places}) \in Nat
          /\ Cardinality({f[i] : i \in places}) <= Cardinality(places)
      BY <3>1, FewValues
    <3> QED BY <3>2 DEF places
  <2> HIDE DEF ids_kept
  <2> QED BY <1>2, <2>1, <2>2
<1>4. keyed \in SUBSET Keys /\ Cardinality(keyed) = n
  <2> DEFINE g == [i \in 1..n |-> attempts[i].key]
  <2>1. keyed \subseteq Keys
    <3>1. \A i \in 1..Len(attempts) : attempts[i] \in LimiterEntries
      BY DEF MapOK
    <3> QED BY <3>1 DEF LimiterEntries
  <2>2. g \in [1..n -> keyed] /\ \A i \in 1..n : g[i] = attempts[i].key
    BY <1>1
  <2>3. \A i, j \in 1..n : g[i] = g[j] => i = j
    BY <1>1, <2>2 DEF MapOK
  <2>4. \A k \in keyed : \E i \in 1..n : g[i] = k
    BY <1>1, <2>2
  <2> HIDE DEF g, keyed
  <2>5. g \in Bijection(1..n, keyed)
    BY <2>2, <2>3, <2>4 DEF Bijection, Injection, Surjection, IsInjective
  <2>6. ExistsBijection(1..n, keyed)
    BY <2>5 DEF ExistsBijection
  <2> QED BY <1>2, <2>1, <2>6, FS_Bijection
<1>5. /\ n <= K
      /\ (\E k \in Keys : ~Limiter!Has(attempts, k)) => n < K
  <2>1. Cardinality(keyed) <= K /\ (Cardinality(keyed) = K => keyed = Keys)
    <3> HIDE DEF keyed
    <3> QED BY <1>4, LimiterBounded, FS_Subset
  <2>2. (\E k \in Keys : ~Limiter!Has(attempts, k)) => keyed # Keys
    BY DEF Limiter!Has
  <2> HIDE DEF keyed
  <2> QED BY <1>1, <1>4, <2>1, <2>2, LimiterBounded
<1>6. /\ IsFiniteSet(holders) /\ Cardinality(holders) \in Nat /\ Cardinality(holders) <= C
      /\ (\E c \in Callers : call[c].at # "holding") => Cardinality(holders) < C
  <2>1. holders \in SUBSET Callers
    OBVIOUS
  <2>2. (\E c \in Callers : call[c].at # "holding") => holders # Callers
    OBVIOUS
  <2> HIDE DEF holders
  <2>3. /\ IsFiniteSet(holders) /\ Cardinality(holders) <= C
        /\ Cardinality(holders) = C => holders = Callers
    BY <2>1, LimiterBounded, FS_Subset
  <2>4. Cardinality(holders) \in Nat
    BY <2>3, FS_CardinalityType
  <2> QED BY <2>2, <2>3, <2>4, LimiterBounded
<1>7. /\ IsFiniteSet(ids_held) /\ Cardinality(ids_held) <= Cardinality(holders)
      /\ Cardinality(ids_held) \in Nat
  <2> DEFINE f == [c \in holders |-> call[c].id]
  <2>1. f \in [holders -> {f[c] : c \in holders}] /\ {f[c] : c \in holders} = ids_held
    <3> HIDE DEF holders
    <3> QED OBVIOUS
  <2> HIDE DEF ids_held, f, holders
  <2> QED BY <1>6, <2>1, FewValues
<1>8. IsFiniteSet(used) /\ Cardinality(used) < C + K
  <2> DEFINE both == ids_kept \cap ids_held
  <2>1. IsFiniteSet(both) /\ Cardinality(both) \in Nat
    <3> HIDE DEF ids_kept, ids_held
    <3>1. IsFiniteSet(both)
      BY <1>3, FS_Intersection
    <3> HIDE DEF both
    <3> QED BY <3>1, FS_CardinalityType
  <2>2. /\ IsFiniteSet(used)
        /\ Cardinality(used) = Cardinality(ids_kept) + Cardinality(ids_held) - Cardinality(both)
    <3> HIDE DEF ids_kept, ids_held
    <3> QED BY <1>3, <1>7, FS_Union
  <2> HIDE DEF used, both, ids_kept, ids_held, holders
  <2>3. n + Cardinality(holders) < C + K
    BY <1>5, <1>6, LimiterBounded
  <2> QED BY <1>1, <1>3, <1>6, <1>7, <2>1, <2>2, <2>3, LimiterBounded
<1>9. Cardinality(Limiter!Ids) = C + K /\ IsFiniteSet(Limiter!Ids)
  <2>1. PICK m \in Nat : m = C + K
    BY LimiterBounded
  <2>2. 1 \in Int /\ m \in Int /\ ~(1 > m /\ m # 0)
    BY <2>1
  <2>3. IsFiniteSet(1..m) /\ Cardinality(1..m) = IF 1 > m THEN 0 ELSE m - 1 + 1
    BY <2>2, FS_Interval
  <2> QED BY <2>1, <2>3, LimiterBounded
<1>10. Limiter!Ids \ used # {}
  <2> SUFFICES ASSUME Limiter!Ids \ used = {}
               PROVE  FALSE
    OBVIOUS
  <2> HIDE DEF used
  <2>1. Limiter!Ids \in SUBSET used
    OBVIOUS
  <2>2. Cardinality(Limiter!Ids) <= Cardinality(used)
    BY <1>8, <2>1, FS_Subset
  <2>3. Cardinality(used) \in Nat
    BY <1>8, FS_CardinalityType
  <2> QED BY <1>8, <1>9, <2>2, <2>3, LimiterBounded
<1>11. PICK m \in Limiter!Ids \ used : \A j \in Limiter!Ids \ used : m <= j
  <2>1. Limiter!Ids \ used \subseteq Nat
    BY LimiterBounded
  <2> HIDE DEF used
  <2> QED BY <1>10, <2>1, LeastNat
<1>12. Limiter!FreshId = CHOOSE i \in Limiter!Ids :
                           i \notin used /\ \A j \in Limiter!Ids \ used : i <= j
  BY DEF Limiter!FreshId, Limiter!IsHolding
<1>13. Limiter!FreshId \in Limiter!Ids /\ Limiter!FreshId \notin used
  <2> HIDE DEF used
  <2> QED BY <1>11, <1>12
<1> QED BY <1>13 DEF EntriesOf, HoldersIn

\* Holders that stay as they are.
SameHolders(calls, calls2, id) ==
    \A c \in Callers : (c \in HoldersIn(calls, id) <=> c \in HoldersIn(calls2, id))
                       /\ (c \in HoldersIn(calls, id) => calls2[c].key = calls[c].key)

\* An entry stays sound while its holders stay.
LEMMA StaysSound ==
    ASSUME NEW e, NEW calls, NEW calls2, SameHolders(calls, calls2, e.id), Sound(e, calls)
    PROVE  Sound(e, calls2)
<1>1. HoldersIn(calls2, e.id) = HoldersIn(calls, e.id)
  BY DEF SameHolders, HoldersIn
<1>2. \A c \in HoldersIn(calls, e.id) : c \in Callers
  BY DEF HoldersIn
<1> QED BY <1>1, <1>2 DEF Sound, SameHolders

\* An entry with fewer attempts, or one that is new.
Descends(e, s, calls) ==
    \/ \E f \in EntriesOf(s) : Fewer(e, f)
    \/ e.in_flight = 0 /\ ReservedIn(e) = 0 /\ HoldersIn(calls, e.id) = {}
AllDescend(t, s, calls) == \A e \in EntriesOf(t) : Descends(e, s, calls)

\* A map of entries that count less is sound if those it comes from were.
LEMMA DescentIsSound ==
    ASSUME NEW s, NEW t, MapOK(s), MapOK(t), NEW calls, NEW calls2,
           AllDescend(t, s, calls), AllSound(s, calls),
           \A e \in EntriesOf(s) : SameHolders(calls, calls2, e.id),
           \A c \in Callers : calls2[c].at = "holding" => calls2[c] = calls[c]
    PROVE  AllSound(t, calls2)
<1> SUFFICES ASSUME NEW e \in EntriesOf(t)
             PROVE  Sound(e, calls2)
  BY DEF AllSound
<1>1. Descends(e, s, calls)
  BY DEF AllDescend
<1>2. ReservedIn(e) \in Nat /\ e.in_flight \in Nat
  BY EntriesTyped
<1>3. ASSUME NEW f \in EntriesOf(s), Fewer(e, f)
      PROVE  Sound(e, calls2)
  <2>1. Sound(f, calls2)
    BY StaysSound DEF AllSound
  <2>2. ReservedIn(f) \in Nat /\ f.in_flight \in Nat
    BY EntriesTyped
  <2>3. e.key = f.key /\ e.id = f.id /\ e.in_flight = f.in_flight
        /\ ReservedIn(e) <= ReservedIn(f)
    BY <1>3 DEF Fewer
  <2>4. ReservedIn(f) + f.in_flight <= MaxAttempts
    BY <2>1 DEF Sound
  <2>5. ReservedIn(e) + e.in_flight <= MaxAttempts
    BY <1>2, <2>2, <2>3, <2>4, LimiterBounded
  <2> QED BY <2>1, <2>3, <2>5 DEF Sound
<1>4. ASSUME e.in_flight = 0, ReservedIn(e) = 0, HoldersIn(calls, e.id) = {}
      PROVE  Sound(e, calls2)
  <2>1. HoldersIn(calls2, e.id) = {}
    BY <1>4 DEF HoldersIn
  <2>2. Cardinality({}) = 0
    BY FS_EmptySet
  <2> QED BY <1>4, <2>1, <2>2, LimiterBounded DEF Sound
<1> QED BY <1>1, <1>3, <1>4 DEF Descends

\* Who holds something holds it still.
HoldersStay(calls, calls2) ==
    \A c \in Callers :
        calls[c].at = "holding" \/ calls2[c].at = "holding" => calls2[c] = calls[c]

\* So is one beside which nobody starts or stops holding.
LEMMA QuietIsSound ==
    ASSUME LimiterInv, NEW t, MapOK(t), AllDescend(t, attempts, call),
           NEW calls2, HoldersStay(call, calls2)
    PROVE  AllSound(t, calls2)
<1>1. MapOK(attempts) /\ AllSound(attempts, call)
  BY DEF LimiterInv
<1>2. ASSUME NEW id
      PROVE  SameHolders(call, calls2, id)
  BY DEF HoldersStay, SameHolders, HoldersIn
<1>3. \A c \in Callers : calls2[c].at = "holding" => calls2[c] = call[c]
  BY DEF HoldersStay
<1> QED BY <1>1, <1>2, <1>3, DescentIsSound

\* An entry like another counts no more.
LEMMA AlikeDescends ==
    ASSUME NEW t, NEW s, AllLike(t, s), NEW calls
    PROVE  AllDescend(t, s, calls)
  BY DEF AllLike, AllDescend, Descends, Like

\* What an entry is that has just been made.
LEMMA NewEntry ==
    ASSUME NEW k \in Keys, NEW id \in Limiter!Ids, NEW e,
           e = [key |-> k, id |-> id, stamps |-> <<>>, in_flight |-> 0]
    PROVE  /\ e \in LimiterEntries /\ e.key = k /\ e.id = id /\ e.in_flight = 0
           /\ ReservedIn(e) = 0
<1>1. <<>> \in Seq(Stamps)
  OBVIOUS
<1>2. e.key = k /\ e.id = id /\ e.in_flight = 0 /\ e.stamps = <<>>
  OBVIOUS
<1>3. e \in LimiterEntries
  BY <1>1 DEF LimiterEntries
<1>4. Limiter!LiveReserved(e) = {}
  BY <1>2 DEF Limiter!LiveReserved
<1>5. Cardinality({}) = 0
  BY FS_EmptySet
<1> QED BY <1>2, <1>3, <1>4, <1>5 DEF ReservedIn

\* What putting does to the rest.
LEMMA PutDescends ==
    ASSUME NEW s, MapOK(s), NEW calls, NEW e \in LimiterEntries, Descends(e, s, calls),
           \A f \in EntriesOf(s) : f.key # e.key => f.id # e.id
    PROVE  MapOK(Limiter!Put(s, e)) /\ AllDescend(Limiter!Put(s, e), s, calls)
<1>1. MapOK(Limiter!Put(s, e))
      /\ \A g \in EntriesOf(Limiter!Put(s, e)) : g = e \/ g \in EntriesOf(s)
  BY PutMap
<1>2. \A g \in EntriesOf(s) : Fewer(g, g)
  BY EntriesTyped DEF Fewer
<1>3. ASSUME NEW g \in EntriesOf(Limiter!Put(s, e))
      PROVE  Descends(g, s, calls)
  BY <1>1, <1>2 DEF Descends
<1> QED BY <1>1, <1>3 DEF AllDescend

\* A map comes from itself.
LEMMA SelfDescends == ASSUME NEW s, MapOK(s), NEW calls PROVE AllDescend(s, s, calls)
  BY SelfLike, AlikeDescends

\* An attempt that is recorded without a reservation adds none.
LEMMA RecordedMap ==
    ASSUME LimiterInv, NEW k \in Keys
    PROVE  /\ MapOK(Limiter!Recorded(k, "direct"))
           /\ AllDescend(Limiter!Recorded(k, "direct"), attempts, call)
<1>0. MapOK(attempts)
  BY DEF LimiterInv
<1>1. CASE Limiter!Has(attempts, k)
  <2> DEFINE e == Limiter!EntryOf(attempts, k)
             q == Limiter!Stamped(e, "direct")
  <2>1. e \in EntriesOf(attempts) /\ e \in LimiterEntries
    BY <1>0, <1>1, EntryFound, EntriesTyped
  <2>2. q \in LimiterEntries /\ Fewer(q, e)
    <3> HIDE DEF e
    <3>1. /\ q \in LimiterEntries /\ q.key = e.key /\ q.id = e.id /\ q.in_flight = e.in_flight
          /\ ReservedIn(q) <= ReservedIn(e) + 0
      BY <2>1, StampedKeeps
    <3>2. ReservedIn(e) \in Nat
      BY <2>1, CountsAreNat
    <3> QED BY <3>1, <3>2 DEF Fewer
  <2>3. Limiter!Recorded(k, "direct") = Limiter!Put(attempts, q)
    BY <1>1 DEF Limiter!Recorded
  <2> HIDE DEF e, q
  <2>4. \A f \in EntriesOf(attempts) : f.key # q.key => f.id # q.id
    BY <1>0, <2>1, <2>2 DEF MapOK, Fewer
  <2>5. Descends(q, attempts, call)
    BY <2>1, <2>2 DEF Descends
  <2> QED BY <1>0, <2>2, <2>3, <2>4, <2>5, PutDescends
<1>2. CASE ~Limiter!Has(attempts, k)
  <2> DEFINE id == Limiter!FreshId
             e == [key |-> k, id |-> id, stamps |-> <<>>, in_flight |-> 0]
             q == Limiter!Stamped(e, "direct")
  <2>1. /\ id \in Limiter!Ids /\ \A f \in EntriesOf(attempts) : f.id # id
        /\ HoldersIn(call, id) = {}
    BY <1>2, FreshIdIsNew DEF LimiterInv
  <2>2. Limiter!Recorded(k, "direct") = Limiter!Put(attempts, q)
    BY <1>2 DEF Limiter!Recorded
  <2> HIDE DEF id
  <2>3. /\ e \in LimiterEntries /\ e.key = k /\ e.id = id /\ e.in_flight = 0
        /\ ReservedIn(e) = 0
    BY <2>1, NewEntry
  <2> HIDE DEF e
  <2>4. /\ q \in LimiterEntries /\ q.key = k /\ q.id = id /\ q.in_flight = 0
        /\ ReservedIn(q) <= ReservedIn(e) + 0
    BY <2>3, StampedKeeps
  <2> HIDE DEF q
  <2>5. ReservedIn(q) = 0
    <3>1. ReservedIn(q) \in Nat
      BY <2>4, CountsAreNat
    <3> QED BY <2>3, <2>4, <3>1
  <2>6. Descends(q, attempts, call)
    BY <2>1, <2>4, <2>5 DEF Descends
  <2>7. \A f \in EntriesOf(attempts) : f.key # q.key => f.id # q.id
    BY <2>1, <2>4
  <2> QED BY <1>0, <2>2, <2>4, <2>6, <2>7, PutDescends
<1> QED BY <1>1, <1>2

\* Touching a key changes no count.
LEMMA TouchedMap ==
    ASSUME MapOK(attempts), NEW k
    PROVE  /\ MapOK(Limiter!Touch(attempts, k))
           /\ AllLike(Limiter!Touch(attempts, k), attempts)
<1> DEFINE e == Limiter!EntryOf(attempts, k)
<1>1. CASE Limiter!Has(attempts, k)
  <2>1. e \in EntriesOf(attempts) /\ e \in LimiterEntries /\ Like(e, e)
    BY <1>1, EntryFound, EntriesTyped DEF Like, Fewer
  <2>2. Limiter!Touch(attempts, k) = Limiter!Put(attempts, e)
    BY <1>1 DEF Limiter!Touch
  <2> HIDE DEF e
  <2> QED BY <2>1, <2>2, PutLike
<1>2. CASE ~Limiter!Has(attempts, k)
  BY <1>2, SelfLike DEF Limiter!Touch
<1> QED BY <1>1, <1>2

\* Forgiving takes attempts out, but not those in flight.
LEMMA ForgivenMap ==
    ASSUME MapOK(attempts), NEW k
    PROVE  /\ MapOK(Limiter!Forgiven(k))
           /\ AllDescend(Limiter!Forgiven(k), attempts, call)
<1> DEFINE e == Limiter!EntryOf(attempts, k)
           q == [e EXCEPT !.stamps = <<>>]
<1>1. CASE Limiter!Has(attempts, k) /\ e.in_flight > 0
  <2>1. e \in EntriesOf(attempts) /\ e \in LimiterEntries
    BY <1>1, EntryFound, EntriesTyped
  <2>2. Limiter!Forgiven(k) = Limiter!Put(attempts, q)
    BY <1>1 DEF Limiter!Forgiven
  <2> HIDE DEF e
  <2>3. <<>> \in Seq(Stamps)
    OBVIOUS
  <2>4. /\ q \in LimiterEntries /\ q.key = e.key /\ q.id = e.id /\ q.in_flight = e.in_flight
        /\ q.stamps = <<>>
    BY <2>1, <2>3 DEF LimiterEntries
  <2> HIDE DEF q
  <2>5. Limiter!LiveReserved(q) = {}
    BY <2>4 DEF Limiter!LiveReserved
  <2>6. ReservedIn(q) = 0 /\ ReservedIn(e) \in Nat
    BY <2>1, <2>5, FS_EmptySet, CountsAreNat DEF ReservedIn
  <2>7. Descends(q, attempts, call)
    BY <2>1, <2>4, <2>6 DEF Descends, Fewer
  <2>8. \A f \in EntriesOf(attempts) : f.key # q.key => f.id # q.id
    BY <2>1, <2>4 DEF MapOK
  <2> QED BY <2>2, <2>4, <2>7, <2>8, PutDescends
<1>2. CASE ~(Limiter!Has(attempts, k) /\ e.in_flight > 0)
  <2>1. Limiter!Forgiven(k) = Limiter!Without(attempts, k)
    BY <1>2 DEF Limiter!Forgiven
  <2>2. AllLike(Limiter!Without(attempts, k), attempts)
    BY WithoutMap, SelfLike DEF AllLike
  <2> QED BY <2>1, <2>2, WithoutMap, AlikeDescends
<1> QED BY <1>1, <1>2

\* A map whose entries are all replaced keeps its keys.
LEMMA ReplacedMap ==
    ASSUME MapOK(attempts), NEW t \in Seq(LimiterEntries), Len(t) = Len(attempts),
           \A i \in 1..Len(t) : t[i].key = attempts[i].key /\ t[i].id = attempts[i].id
    PROVE  MapOK(t)
<1>1. \A i, j \in 1..Len(t) : t[i].key = t[j].key => i = j
  BY DEF MapOK
<1>2. ASSUME NEW i \in 1..Len(t), NEW j \in 1..Len(t), t[i].id = t[j].id
      PROVE  t[i] = t[j]
  <2>1. attempts[i].id = attempts[j].id
    BY <1>2
  <2>2. attempts[i] = attempts[j]
    BY <2>1 DEF MapOK, EntriesOf
  <2>3. i = j
    BY <2>2 DEF MapOK
  <2> QED BY <2>3
<1>3. \A e, f \in EntriesOf(t) : e.id = f.id => e = f
  BY <1>2 DEF EntriesOf
<1> QED BY <1>1, <1>3 DEF MapOK

\* Cleanup changes no count.
LEMMA CleanedMap ==
    ASSUME MapOK(attempts), NEW s, s = [i \in 1..Len(attempts) |-> Limiter!Pruned(attempts[i])],
           NEW places
    PROVE  MapOK(Limiter!Keeping(s, places)) /\ AllLike(Limiter!Keeping(s, places), attempts)
<1>1. attempts \in Seq(LimiterEntries)
      /\ \A i \in 1..Len(attempts) : attempts[i] \in LimiterEntries
  BY DEF MapOK
<1>2. ASSUME NEW i \in 1..Len(attempts)
      PROVE  /\ Limiter!Pruned(attempts[i]) \in LimiterEntries
             /\ Like(Limiter!Pruned(attempts[i]), attempts[i])
  BY <1>1, PrunedIsLike
<1>3. /\ s \in Seq(LimiterEntries) /\ Len(s) = Len(attempts)
      /\ \A i \in 1..Len(s) : s[i] = Limiter!Pruned(attempts[i])
  BY <1>1, <1>2
<1>4. MapOK(s)
  BY <1>2, <1>3, ReplacedMap DEF Like, Fewer
<1>5. ASSUME NEW e \in EntriesOf(Limiter!Keeping(s, places))
      PROVE  \E f \in EntriesOf(attempts) : Like(e, f)
  <2>1. PICK i \in 1..Len(s) : e = s[i]
    BY <1>4, FilteredMap
  <2>2. Like(e, attempts[i]) /\ attempts[i] \in EntriesOf(attempts)
    BY <1>2, <1>3, <2>1 DEF EntriesOf
  <2> QED BY <2>2
<1> QED BY <1>4, <1>5, FilteredMap DEF AllLike

\* Time only lowers them.
LEMMA AgedMap ==
    ASSUME MapOK(attempts), NEW s, s = [i \in 1..Len(attempts) |-> Limiter!Aged(attempts[i])]
    PROVE  MapOK(s) /\ AllDescend(s, attempts, call)
<1>1. attempts \in Seq(LimiterEntries)
      /\ \A i \in 1..Len(attempts) : attempts[i] \in LimiterEntries
  BY DEF MapOK
<1>2. ASSUME NEW i \in 1..Len(attempts)
      PROVE  /\ Limiter!Aged(attempts[i]) \in LimiterEntries
             /\ Fewer(Limiter!Aged(attempts[i]), attempts[i])
  BY <1>1, AgedKeeps DEF Fewer
<1>3. /\ s \in Seq(LimiterEntries) /\ Len(s) = Len(attempts)
      /\ \A i \in 1..Len(s) : s[i] = Limiter!Aged(attempts[i])
  BY <1>1, <1>2
<1>4. MapOK(s)
  BY <1>2, <1>3, ReplacedMap DEF Fewer
<1>5. ASSUME NEW e \in EntriesOf(s)
      PROVE  \E f \in EntriesOf(attempts) : Fewer(e, f)
  <2>1. PICK i \in 1..Len(s) : e = s[i]
    BY DEF EntriesOf
  <2>2. Fewer(e, attempts[i]) /\ attempts[i] \in EntriesOf(attempts)
    BY <1>2, <1>3, <2>1 DEF EntriesOf
  <2> QED BY <2>2
<1> QED BY <1>4, <1>5 DEF AllDescend, Descends

-----------------------------------------------------------------------------
(***************************************************************************)
(* The callers: who waits and is counted, who holds an entry and is        *)
(* counted on it.                                                          *)
(***************************************************************************)

\* Callers that wait for a key, as they were.
WaitersStay(calls, calls2) ==
    \A k \in Keys, c \in Callers : c \in WaitersIn(calls, k) <=> c \in WaitersIn(calls2, k)

Counts(count, calls) ==
    count \in [Keys -> Nat] /\ \A k \in Keys : count[k] = Cardinality(WaitersIn(calls, k))

\* The counts of waiters hold while who waits stays.
LEMMA CountsStay ==
    ASSUME LimiterInv, NEW calls2, WaitersStay(call, calls2)
    PROVE  Counts(waiters, calls2)
<1>1. \A k \in Keys : WaitersIn(calls2, k) = WaitersIn(call, k)
  BY DEF WaitersStay, WaitersIn
<1> QED BY <1>1 DEF Counts, LimiterInv

\* The waiters of a key can be counted.
LEMMA WaitersFinite ==
    ASSUME NEW calls, NEW k
    PROVE  IsFiniteSet(WaitersIn(calls, k)) /\ Cardinality(WaitersIn(calls, k)) \in Nat
<1>1. WaitersIn(calls, k) \in SUBSET Callers
  BY DEF WaitersIn
<1>2. IsFiniteSet(WaitersIn(calls, k))
  BY <1>1, LimiterBounded, FS_Subset
<1> QED BY <1>2, FS_CardinalityType

\* A caller that stops waiting, and one that starts, is counted out or in.
LEMMA OneLeaves ==
    ASSUME LimiterInv, NEW c \in Callers, NEW k \in Keys, c \in WaitersIn(call, k),
           NEW calls2, \A j \in Keys : WaitersIn(calls2, j) = WaitersIn(call, j) \ {c},
           NEW count, count = [waiters EXCEPT ![k] = @ - 1]
    PROVE  Counts(count, calls2)
<1>1. waiters \in [Keys -> Nat] /\ \A j \in Keys : waiters[j] = Cardinality(WaitersIn(call, j))
  BY DEF LimiterInv
<1>2. count[k] = waiters[k] - 1 /\ \A j \in Keys : j # k => count[j] = waiters[j]
  BY <1>1
<1>3. DOMAIN count = Keys /\ count = [j \in Keys |-> count[j]]
  BY <1>1
<1>4. Cardinality(WaitersIn(call, k) \ {c}) = Cardinality(WaitersIn(call, k)) - 1
  BY WaitersFinite, FS_RemoveElement
<1>5. \A j \in Keys : j # k => c \notin WaitersIn(call, j)
  BY DEF WaitersIn
<1>6. \A j \in Keys : count[j] = Cardinality(WaitersIn(calls2, j))
  <2> TAKE j \in Keys
  <2>1. CASE j = k
    BY <1>1, <1>2, <1>4, <2>1
  <2>2. CASE j # k
    <3>1. WaitersIn(call, j) \ {c} = WaitersIn(call, j)
      BY <1>5, <2>2
    <3> QED BY <1>1, <1>2, <2>2, <3>1
  <2> QED BY <2>1, <2>2
<1>7. \A j \in Keys : count[j] \in Nat
  BY <1>6, WaitersFinite
<1> QED BY <1>3, <1>6, <1>7 DEF Counts

\* A caller that starts waiting is counted in.
LEMMA OneJoins ==
    ASSUME LimiterInv, NEW c \in Callers, NEW k \in Keys, c \notin WaitersIn(call, k),
           NEW calls2,
           \A j \in Keys : WaitersIn(calls2, j)
                             = IF j = k THEN WaitersIn(call, j) \cup {c} ELSE WaitersIn(call, j),
           NEW count, count = [waiters EXCEPT ![k] = @ + 1]
    PROVE  Counts(count, calls2)
<1>1. waiters \in [Keys -> Nat] /\ \A j \in Keys : waiters[j] = Cardinality(WaitersIn(call, j))
  BY DEF LimiterInv
<1>2. count[k] = waiters[k] + 1 /\ \A j \in Keys : j # k => count[j] = waiters[j]
  BY <1>1
<1>3. DOMAIN count = Keys /\ count = [j \in Keys |-> count[j]]
  BY <1>1
<1>4. Cardinality(WaitersIn(call, k) \cup {c}) = Cardinality(WaitersIn(call, k)) + 1
  BY WaitersFinite, FS_AddElement
<1>5. \A j \in Keys : count[j] = Cardinality(WaitersIn(calls2, j))
  BY <1>1, <1>2, <1>4
<1>6. \A j \in Keys : count[j] \in Nat
  BY <1>5, WaitersFinite
<1> QED BY <1>3, <1>5, <1>6 DEF Counts

\* A caller whose record is written.
LEMMA CallSet ==
    ASSUME NEW calls \in [Callers -> LimiterCalls], NEW c \in Callers,
           NEW new \in LimiterCalls, NEW calls2, calls2 = [calls EXCEPT ![c] = new]
    PROVE  /\ calls2 \in [Callers -> LimiterCalls] /\ calls2[c] = new
           /\ \A d \in Callers : d # c => calls2[d] = calls[d]
  OBVIOUS

\* The holders of an entry can be counted.
LEMMA HoldersFinite ==
    ASSUME NEW calls, NEW id
    PROVE  IsFiniteSet(HoldersIn(calls, id)) /\ Cardinality(HoldersIn(calls, id)) \in Nat
<1>1. HoldersIn(calls, id) \in SUBSET Callers
  BY DEF HoldersIn
<1>2. IsFiniteSet(HoldersIn(calls, id))
  BY <1>1, LimiterBounded, FS_Subset
<1> QED BY <1>2, FS_CardinalityType

\* Who is admitted holds the entry that counts it.
LEMMA HolderJoins ==
    ASSUME NEW e \in LimiterEntries, NEW calls, Sound(e, calls),
           ReservedIn(e) + e.in_flight < MaxAttempts,
           NEW c \in Callers, calls[c].at # "holding",
           NEW calls2, calls2[c] = [at |-> "holding", key |-> e.key, id |-> e.id],
           \A d \in Callers : d # c => calls2[d] = calls[d],
           NEW p, p = [e EXCEPT !.in_flight = @ + 1]
    PROVE  /\ p \in LimiterEntries /\ p.key = e.key /\ p.id = e.id /\ Sound(p, calls2)
           /\ \A id : id # e.id => SameHolders(calls, calls2, id)
<1>1. e.in_flight \in Nat /\ ReservedIn(e) \in Nat
  BY CountsAreNat DEF LimiterEntries
<1>2. /\ p \in LimiterEntries /\ p.key = e.key /\ p.id = e.id /\ p.stamps = e.stamps
      /\ p.in_flight = e.in_flight + 1
  BY DEF LimiterEntries
<1>3. ReservedIn(p) = ReservedIn(e)
  BY <1>2 DEF ReservedIn, Limiter!LiveReserved
<1>4. HoldersIn(calls2, e.id) = HoldersIn(calls, e.id) \cup {c} /\ c \notin HoldersIn(calls, e.id)
  BY DEF HoldersIn
<1>5. Cardinality(HoldersIn(calls, e.id) \cup {c}) = Cardinality(HoldersIn(calls, e.id)) + 1
  BY <1>4, HoldersFinite, FS_AddElement
<1>6. p.in_flight = Cardinality(HoldersIn(calls2, p.id))
  BY <1>2, <1>4, <1>5 DEF Sound
<1>7. \A d \in HoldersIn(calls2, p.id) : calls2[d].key = p.key
  <2> TAKE d \in HoldersIn(calls2, p.id)
  <2>1. d = c \/ d \in HoldersIn(calls, e.id)
    BY <1>2, <1>4
  <2>2. CASE d = c
    BY <1>2, <2>2
  <2>3. CASE d \in HoldersIn(calls, e.id) /\ d # c
    <3>1. d \in Callers /\ calls[d].key = e.key
      BY <2>3 DEF HoldersIn, Sound
    <3> QED BY <1>2, <2>3, <3>1
  <2> QED BY <2>1, <2>2, <2>3
<1>8. ReservedIn(p) + p.in_flight <= MaxAttempts
  BY <1>1, <1>2, <1>3, LimiterBounded
<1>9. ASSUME NEW id, id # e.id
      PROVE  SameHolders(calls, calls2, id)
  BY <1>9 DEF SameHolders, HoldersIn
<1> QED BY <1>2, <1>6, <1>7, <1>8, <1>9 DEF Sound

\* The entry that an admission takes up.
LEMMA EntryToTakeUp ==
    ASSUME LimiterInv, NEW k \in Keys, \E c \in Callers : call[c].at # "holding",
           Limiter!Load(k) = "free", NEW e,
           e = IF Limiter!Has(Limiter!Loaded(k), k) THEN Limiter!EntryOf(Limiter!Loaded(k), k)
               ELSE [key |-> k, id |-> Limiter!FreshId, stamps |-> <<>>, in_flight |-> 0]
    PROVE  /\ e \in LimiterEntries /\ e.key = k /\ Sound(e, call)
           /\ ReservedIn(e) + e.in_flight < MaxAttempts
           /\ \A f \in EntriesOf(Limiter!Loaded(k)) : f.key # k => f.id # e.id
<1> DEFINE s == Limiter!Loaded(k)
<1>1. MapOK(attempts) /\ call \in [Callers -> LimiterCalls]
  BY DEF LimiterInv
<1>2. MapOK(s) /\ AllLike(s, attempts)
  BY <1>1, LoadedMap
<1>3. AllSound(s, call)
  BY <1>2, AlikeDescends, QuietIsSound DEF HoldersStay
<1>4. /\ MaxAttempts # 0 /\ ~(Recent(attempts, k) >= MaxAttempts)
      /\ Recent(attempts, k) + Flying(attempts, k) < MaxAttempts
  BY <1>1, LoadIs
<1>5. CASE Limiter!Has(s, k)
  <2>1. e = Limiter!EntryOf(s, k)
    BY <1>5
  <2>2. e \in EntriesOf(s) /\ e.key = k
    BY <1>2, <1>5, <2>1, EntryFound
  <2>3. e \in LimiterEntries /\ Sound(e, call)
    BY <1>2, <1>3, <2>2, EntriesTyped DEF AllSound
  <2>4. Limiter!Has(attempts, k) /\ e = Limiter!Pruned(Limiter!EntryOf(attempts, k))
    BY <1>1, <1>4, <1>5, <2>1, LoadedEntry
  <2>5. Limiter!EntryOf(attempts, k) \in LimiterEntries
    BY <1>1, <2>4, EntryFound, EntriesTyped
  <2>6. /\ ReservedIn(e) = ReservedIn(Limiter!EntryOf(attempts, k))
        /\ e.in_flight = Flying(attempts, k)
        /\ ReservedIn(Limiter!EntryOf(attempts, k)) <= Recent(attempts, k)
        /\ ReservedIn(e) \in Nat /\ Recent(attempts, k) \in Nat /\ Flying(attempts, k) \in Nat
    <3>1. /\ Recent(attempts, k) = ActiveIn(Limiter!EntryOf(attempts, k))
          /\ Flying(attempts, k) = Limiter!EntryOf(attempts, k).in_flight
      BY <2>4 DEF Recent, Flying
    <3>2. Limiter!EntryOf(attempts, k).in_flight \in Nat
      BY <2>5 DEF LimiterEntries
    <3> QED BY <2>3, <2>4, <2>5, <3>1, <3>2, PrunedKeeps, CountsAreNat
  <2>7. ReservedIn(e) + e.in_flight < MaxAttempts
    BY <1>4, <2>6, LimiterBounded
  <2>8. \A f \in EntriesOf(s) : f.key # k => f.id # e.id
    BY <1>2, <2>2 DEF MapOK
  <2> QED BY <2>2, <2>3, <2>7, <2>8
<1>6. CASE ~Limiter!Has(s, k)
  <2> DEFINE id == Limiter!FreshId
  <2>1. /\ id \in Limiter!Ids /\ \A f \in EntriesOf(attempts) : f.id # id
        /\ HoldersIn(call, id) = {}
    BY <1>1, FreshIdIsNew
  <2>2. e = [key |-> k, id |-> id, stamps |-> <<>>, in_flight |-> 0]
    BY <1>6
  <2> HIDE DEF id
  <2>3. /\ e \in LimiterEntries /\ e.key = k /\ e.id = id /\ e.in_flight = 0
        /\ ReservedIn(e) = 0
    BY <2>1, <2>2, NewEntry
  <2>4. Cardinality({}) = 0 /\ 0 < MaxAttempts
    BY <1>4, FS_EmptySet, LimiterBounded
  <2>5. Sound(e, call)
    <3>1. ReservedIn(e) + e.in_flight <= MaxAttempts
      BY <2>3, <2>4, LimiterBounded
    <3>2. HoldersIn(call, e.id) = {}
      BY <2>1, <2>3
    <3> QED BY <2>3, <2>4, <3>1, <3>2 DEF Sound
  <2>6. \A f \in EntriesOf(s) : f.id # e.id
    BY <1>2, <2>1, <2>3 DEF AllLike, Like, Fewer
  <2>7. ReservedIn(e) + e.in_flight < MaxAttempts
    BY <2>3, <2>4
  <2> QED BY <2>3, <2>5, <2>6, <2>7
<1> QED BY <1>5, <1>6

\* What the map and its holders are after an admission.
LEMMA AdmitKeeps ==
    ASSUME LimiterInv, NEW c \in Callers, NEW k \in Keys, call[c].at # "holding",
           Limiter!Load(k) = "free", Limiter!Admit(c, k)
    PROVE  /\ MapOK(attempts') /\ AllSound(attempts', call')
           /\ call' \in [Callers -> LimiterCalls] /\ call'[c].at = "holding"
           /\ \A d \in Callers : d # c => call'[d] = call[d]
<1> DEFINE s == Limiter!Loaded(k)
<1>1. PICK e : e = IF Limiter!Has(s, k) THEN Limiter!EntryOf(s, k)
                   ELSE [key |-> k, id |-> Limiter!FreshId, stamps |-> <<>>, in_flight |-> 0]
  OBVIOUS
<1>2. /\ e \in LimiterEntries /\ e.key = k /\ Sound(e, call)
      /\ ReservedIn(e) + e.in_flight < MaxAttempts
      /\ \A f \in EntriesOf(s) : f.key # k => f.id # e.id
  BY <1>1, EntryToTakeUp
<1>3. PICK p : p = [e EXCEPT !.in_flight = @ + 1]
  OBVIOUS
<1>4. PICK t : t = Limiter!Put(s, p)
  OBVIOUS
<1>5. PICK calls2 : calls2 = [call EXCEPT ![c] = [at |-> "holding", key |-> k, id |-> e.id]]
  OBVIOUS
<1>6. attempts' = t /\ call' = calls2
  BY <1>1, <1>3, <1>4, <1>5 DEF Limiter!Admit
<1>7. MapOK(attempts) /\ call \in [Callers -> LimiterCalls]
  BY DEF LimiterInv
<1>8. MapOK(s) /\ AllSound(s, call)
  BY <1>7, LoadedMap, AlikeDescends, QuietIsSound DEF HoldersStay
<1> HIDE DEF s
<1>9. /\ calls2 \in [Callers -> LimiterCalls]
      /\ calls2[c] = [at |-> "holding", key |-> e.key, id |-> e.id]
      /\ \A d \in Callers : d # c => calls2[d] = call[d]
  <2>1. [at |-> "holding", key |-> k, id |-> e.id] \in LimiterCalls
    BY <1>2 DEF LimiterCalls, LimiterEntries
  <2> QED BY <1>2, <1>5, <1>7, <2>1, CallSet
<1>10. /\ p \in LimiterEntries /\ p.key = k /\ p.id = e.id /\ Sound(p, calls2)
       /\ \A id : id # e.id => SameHolders(call, calls2, id)
  BY <1>2, <1>3, <1>9, HolderJoins
<1>11. MapOK(t) /\ \A f \in EntriesOf(t) : f = p \/ (f \in EntriesOf(s) /\ f.key # p.key)
  BY <1>2, <1>4, <1>8, <1>10, PutMap
<1>12. ASSUME NEW f \in EntriesOf(s), f.key # k
       PROVE  Sound(f, calls2)
  <2>1. f.id # e.id
    BY <1>2, <1>12
  <2> QED BY <1>8, <1>10, <2>1, StaysSound DEF AllSound
<1>13. AllSound(t, calls2)
  BY <1>10, <1>11, <1>12 DEF AllSound
<1> QED BY <1>6, <1>9, <1>11, <1>13

-----------------------------------------------------------------------------
(***************************************************************************)
(* Each operation keeps the invariant.                                     *)
(***************************************************************************)

\* The invariant from its parts, in the next state.
LEMMA LimiterInvNext ==
    ASSUME MapOK(attempts'), call' \in [Callers -> LimiterCalls],
           AllSound(attempts', call'), Counts(waiters', call')
    PROVE  LimiterInv'
  BY DEF LimiterInv, Counts

\* Who is woken waits on.
LEMMA WokenCalls ==
    ASSUME LimiterInv, NEW k
    PROVE  /\ Limiter!Woken(k) \in [Callers -> LimiterCalls]
           /\ HoldersStay(call, Limiter!Woken(k)) /\ WaitersStay(call, Limiter!Woken(k))
           /\ \A c \in Callers : Limiter!Woken(k)[c].at = "parked" => Limiter!Woken(k)[c].key # k
<1>1. call \in [Callers -> LimiterCalls]
  BY DEF LimiterInv
<1>2. ASSUME NEW c \in Callers
      PROVE  /\ Limiter!Woken(k)[c] \in LimiterCalls
             /\ call[c].at = "holding" \/ Limiter!Woken(k)[c].at = "holding"
                   => Limiter!Woken(k)[c] = call[c]
             /\ \A j \in Keys : c \in WaitersIn(call, j) <=> c \in WaitersIn(Limiter!Woken(k), j)
             /\ Limiter!Woken(k)[c].at = "parked" => Limiter!Woken(k)[c].key # k
  <2>1. Limiter!Woken(k)[c] =
          IF call[c].at = "parked" /\ call[c].key = k THEN [call[c] EXCEPT !.at = "woken"]
          ELSE call[c]
    BY DEF Limiter!Woken
  <2>2. CASE call[c].at = "parked" /\ call[c].key = k
    <3>1. call[c] \in [at : {"parked", "woken", "giving_up"}, key : Keys, left : Nat,
                       aborted : BOOLEAN]
      BY <1>1, <2>2 DEF LimiterCalls, Limiter!Idle
    <3>2. /\ Limiter!Woken(k)[c] \in LimiterCalls /\ Limiter!Woken(k)[c].at = "woken"
          /\ Limiter!Woken(k)[c].key = call[c].key
      BY <2>1, <2>2, <3>1 DEF LimiterCalls
    <3> QED BY <2>2, <3>2 DEF WaitersIn
  <2>3. CASE ~(call[c].at = "parked" /\ call[c].key = k)
    <3>1. Limiter!Woken(k)[c] = call[c]
      BY <2>1, <2>3
    <3> QED BY <1>1, <2>3, <3>1 DEF WaitersIn
  <2> QED BY <2>2, <2>3
<1>3. Limiter!Woken(k) \in [Callers -> LimiterCalls]
  <2>1. Limiter!Woken(k) = [c \in Callers |-> Limiter!Woken(k)[c]]
    BY DEF Limiter!Woken
  <2> QED BY <1>2, <2>1
<1> QED BY <1>2, <1>3 DEF HoldersStay, WaitersStay

\* Steps that change nobody's holding.
LEMMA QuietKeeps ==
    ASSUME LimiterInv, MapOK(attempts'), AllDescend(attempts', attempts, call),
           call' \in [Callers -> LimiterCalls], HoldersStay(call, call'),
           Counts(waiters', call')
    PROVE  LimiterInv'
<1>1. PICK t : t = attempts'
  OBVIOUS
<1>2. PICK calls2 : calls2 = call'
  OBVIOUS
<1>3. AllSound(t, calls2)
  BY <1>1, <1>2, QuietIsSound
<1>4. AllSound(attempts', call')
  BY <1>1, <1>2, <1>3
<1> QED BY <1>4, LimiterInvNext

\* check keeps the invariant.
LEMMA CheckKeeps ==
    ASSUME LimiterInv, NEW k, attempts' = Limiter!Loaded(k), UNCHANGED <<waiters, call>>
    PROVE  LimiterInv'
<1>1. MapOK(Limiter!Loaded(k)) /\ AllDescend(Limiter!Loaded(k), attempts, call)
  BY LoadedMap, AlikeDescends DEF LimiterInv
<1>2. HoldersStay(call, call) /\ WaitersStay(call, call)
  BY DEF HoldersStay, WaitersStay
<1>3. Counts(waiters, call)
  BY <1>2, CountsStay
<1> QED BY <1>1, <1>2, <1>3, QuietKeeps DEF LimiterInv

\* record keeps it.
LEMMA RecordKeeps ==
    ASSUME LimiterInv, NEW k \in Keys, Limiter!Record(k)
    PROVE  LimiterInv'
<1>1. /\ attempts' = Limiter!Recorded(k, "direct") /\ call' = Limiter!Woken(k)
      /\ waiters' = waiters
  BY DEF Limiter!Record, Limiter!Wake
<1> QED BY <1>1, RecordedMap, WokenCalls, CountsStay, QuietKeeps

\* reset keeps it.
LEMMA ResetKeeps ==
    ASSUME LimiterInv, NEW k \in Keys, Limiter!Reset(k)
    PROVE  LimiterInv'
<1>1. attempts' = Limiter!Forgiven(k) /\ call' = Limiter!Woken(k) /\ waiters' = waiters
  BY DEF Limiter!Reset, Limiter!Wake
<1>2. MapOK(Limiter!Forgiven(k)) /\ AllDescend(Limiter!Forgiven(k), attempts, call)
  BY ForgivenMap DEF LimiterInv
<1> QED BY <1>1, <1>2, WokenCalls, CountsStay, QuietKeeps

\* cleanup keeps it.
LEMMA CleanupKeeps ==
    ASSUME LimiterInv, Limiter!Cleanup
    PROVE  LimiterInv'
<1> DEFINE s == [i \in 1..Len(attempts) |-> Limiter!Pruned(attempts[i])]
           places == {i \in 1..Len(s) : ~Limiter!EntryIsIdle(s[i])}
<1>1. attempts' = Limiter!Keeping(s, places) /\ UNCHANGED <<waiters, call>>
  BY DEF Limiter!Cleanup
<1>2. MapOK(Limiter!Keeping(s, places)) /\ AllLike(Limiter!Keeping(s, places), attempts)
  <2>1. PICK places2 : places2 = places
    OBVIOUS
  <2> HIDE DEF places
  <2>2. MapOK(Limiter!Keeping(s, places2)) /\ AllLike(Limiter!Keeping(s, places2), attempts)
    BY CleanedMap DEF LimiterInv
  <2> QED BY <2>1, <2>2
<1> HIDE DEF s, places
<1>3. HoldersStay(call, call) /\ WaitersStay(call, call)
  BY DEF HoldersStay, WaitersStay
<1>4. Counts(waiters, call) /\ AllDescend(Limiter!Keeping(s, places), attempts, call)
  BY <1>2, <1>3, CountsStay, AlikeDescends
<1> QED BY <1>1, <1>2, <1>3, <1>4, QuietKeeps DEF LimiterInv

\* The three kinds of a caller.
LEMMA KindsOfCall ==
    ASSUME LimiterInv, NEW c \in Callers
    PROVE  \/ call[c] = Limiter!Idle /\ call[c].at = "idle"
           \/ /\ call[c].at = "holding" /\ call[c].key \in Keys /\ call[c].id \in Limiter!Ids
           \/ /\ call[c].at \in {"parked", "woken", "giving_up"} /\ call[c].key \in Keys
              /\ call[c] \in [at : {"parked", "woken", "giving_up"}, key : Keys, left : Nat,
                              aborted : BOOLEAN]
<1>1. call[c] \in LimiterCalls
  BY DEF LimiterInv
<1> QED BY <1>1 DEF LimiterCalls, Limiter!Idle

\* Time keeps it.
LEMMA TickKeeps ==
    ASSUME LimiterInv, Limiter!Tick
    PROVE  LimiterInv'
<1> DEFINE s == [i \in 1..Len(attempts) |-> Limiter!Aged(attempts[i])]
<1>1. /\ attempts' = s /\ waiters' = waiters
      /\ call' = [c \in Callers |-> IF Limiter!IsWaiting(c) /\ call[c].left > 0
                                    THEN [call[c] EXCEPT !.left = @ - 1] ELSE call[c]]
  BY DEF Limiter!Tick
<1>2. MapOK(s) /\ AllDescend(s, attempts, call)
  BY AgedMap DEF LimiterInv
<1> HIDE DEF s
<1>3. ASSUME NEW c \in Callers
      PROVE  /\ call'[c] \in LimiterCalls
             /\ call[c].at = "holding" \/ call'[c].at = "holding" => call'[c] = call[c]
             /\ \A k \in Keys : c \in WaitersIn(call, k) <=> c \in WaitersIn(call', k)
  <2>1. CASE Limiter!IsWaiting(c) /\ call[c].left > 0
    <3>1. call'[c] = [call[c] EXCEPT !.left = call[c].left - 1]
      BY <1>1, <2>1
    <3>2. /\ call[c].at \in {"parked", "woken", "giving_up"}
          /\ call[c] \in [at : {"parked", "woken", "giving_up"}, key : Keys, left : Nat,
                          aborted : BOOLEAN]
      BY <2>1, KindsOfCall DEF Limiter!IsWaiting
    <3>3. call'[c] \in LimiterCalls /\ call'[c].at = call[c].at /\ call'[c].key = call[c].key
      BY <2>1, <3>1, <3>2 DEF LimiterCalls
    <3> QED BY <3>2, <3>3 DEF WaitersIn
  <2>2. CASE ~(Limiter!IsWaiting(c) /\ call[c].left > 0)
    <3>1. call'[c] = call[c]
      BY <1>1, <2>2
    <3> QED BY <3>1 DEF WaitersIn, LimiterInv
  <2> QED BY <2>1, <2>2
<1>4. call' \in [Callers -> LimiterCalls]
  <2>1. call' = [c \in Callers |-> call'[c]]
    BY <1>1
  <2> QED BY <1>3, <2>1
<1>5. HoldersStay(call, call') /\ WaitersStay(call, call')
  BY <1>3 DEF HoldersStay, WaitersStay
<1>6. Counts(waiters', call')
  <2>1. PICK calls2 : calls2 = call'
    OBVIOUS
  <2>2. Counts(waiters, calls2)
    BY <1>5, <2>1, CountsStay
  <2> QED BY <1>1, <2>1, <2>2
<1> QED BY <1>1, <1>2, <1>4, <1>5, <1>6, QuietKeeps

\* A caller that holds nothing, before and after.
LEMMA CallTurns ==
    ASSUME LimiterInv, NEW c \in Callers, call[c].at # "holding",
           NEW new \in LimiterCalls, new.at # "holding"
    PROVE  /\ [call EXCEPT ![c] = new] \in [Callers -> LimiterCalls]
           /\ HoldersStay(call, [call EXCEPT ![c] = new])
           /\ [call EXCEPT ![c] = new][c] = new
           /\ \A d \in Callers : d # c => [call EXCEPT ![c] = new][d] = call[d]
<1> DEFINE calls2 == [call EXCEPT ![c] = new]
<1>1. call \in [Callers -> LimiterCalls]
  BY DEF LimiterInv
<1>2. /\ calls2 \in [Callers -> LimiterCalls] /\ calls2[c] = new
      /\ \A d \in Callers : d # c => calls2[d] = call[d]
  BY <1>1, CallSet
<1> HIDE DEF calls2
<1>3. HoldersStay(call, calls2)
  BY <1>2 DEF HoldersStay
<1> QED BY <1>2, <1>3 DEF calls2

\* A caller at rest.
LEMMA IdleCall == Limiter!Idle \in LimiterCalls /\ Limiter!Idle.at = "idle"
  BY DEF LimiterCalls, Limiter!Idle

\* A caller that is parked.
LEMMA ParkedCall ==
    ASSUME NEW k \in Keys, NEW left_ \in Nat, NEW new,
           new = [at |-> "parked", key |-> k, left |-> left_, aborted |-> FALSE]
    PROVE  new \in LimiterCalls /\ new.at = "parked" /\ new.key = k
  BY DEF LimiterCalls

\* Steps that change nobody's holding, and look at a key or leave the map alone.
LEMMA LookingKeeps ==
    ASSUME LimiterInv, NEW k, attempts' \in {attempts, Limiter!Loaded(k)},
           call' \in [Callers -> LimiterCalls], HoldersStay(call, call'),
           Counts(waiters', call')
    PROVE  LimiterInv'
<1>1. MapOK(attempts)
  BY DEF LimiterInv
<1>2. MapOK(Limiter!Loaded(k)) /\ AllDescend(Limiter!Loaded(k), attempts, call)
  BY <1>1, LoadedMap, AlikeDescends
<1>3. AllDescend(attempts, attempts, call)
  BY <1>1, SelfDescends
<1>4. MapOK(attempts') /\ AllDescend(attempts', attempts, call)
  BY <1>1, <1>2, <1>3
<1> QED BY <1>4, QuietKeeps

\* A caller that was not waiting is admitted.
LEMMA AdmittedAtOnce ==
    ASSUME LimiterInv, NEW c \in Callers, NEW k \in Keys, call[c] = Limiter!Idle,
           Limiter!Load(k) = "free", Limiter!Admit(c, k), waiters' = waiters
    PROVE  LimiterInv'
<1>1. call[c].at = "idle"
  BY IdleCall
<1>2. /\ MapOK(attempts') /\ AllSound(attempts', call')
      /\ call' \in [Callers -> LimiterCalls] /\ call'[c].at = "holding"
      /\ \A d \in Callers : d # c => call'[d] = call[d]
  BY <1>1, AdmitKeeps
<1>3. WaitersStay(call, call')
  BY <1>1, <1>2 DEF WaitersStay, WaitersIn
<1>4. Counts(waiters', call')
  <2>1. PICK calls2 : calls2 = call'
    OBVIOUS
  <2>2. Counts(waiters, calls2)
    BY <1>3, <2>1, CountsStay
  <2> QED BY <2>1, <2>2
<1> QED BY <1>2, <1>4, LimiterInvNext

\* try_reserve keeps the invariant.
LEMMA TryReserveKeeps ==
    ASSUME LimiterInv, NEW c \in Callers, NEW k \in Keys, Limiter!TryReserve(c, k)
    PROVE  LimiterInv'
  BY AdmittedAtOnce DEF Limiter!TryReserve

\* The first turn of reserve keeps it, admitted, parked or refused.
LEMMA ReserveKeeps ==
    ASSUME LimiterInv, NEW c \in Callers, NEW k \in Keys, Limiter!Reserve(c, k)
    PROVE  LimiterInv'
<1>1. call[c] = Limiter!Idle /\ call[c].at = "idle"
  BY IdleCall DEF Limiter!Reserve
<1>2. CASE Limiter!Load(k) = "free"
  BY <1>1, <1>2, AdmittedAtOnce DEF Limiter!Reserve
<1>3. CASE Limiter!Load(k) = "in_flight" /\ Limiter!MayPark(k) /\ MaxWait > 0
  <2>1. PICK new : new = [at |-> "parked", key |-> k, left |-> MaxWait, aborted |-> FALSE]
    OBVIOUS
  <2>2. PICK calls2 : calls2 = [call EXCEPT ![c] = new]
    OBVIOUS
  <2>3. PICK count : count = [waiters EXCEPT ![k] = @ + 1]
    OBVIOUS
  <2>4. attempts' = Limiter!Loaded(k) /\ call' = calls2 /\ waiters' = count
    BY <1>3, <2>1, <2>2, <2>3 DEF Limiter!Reserve, Limiter!Park
  <2>5. new \in LimiterCalls /\ new.at = "parked" /\ new.key = k
    BY <2>1, ParkedCall, LimiterBounded
  <2>6. /\ calls2 \in [Callers -> LimiterCalls] /\ HoldersStay(call, calls2)
        /\ calls2[c] = new /\ \A d \in Callers : d # c => calls2[d] = call[d]
    <3>1. call[c].at # "holding" /\ new.at # "holding"
      BY <1>1, <2>5
    <3> QED BY <2>2, <2>5, <3>1, CallTurns
  <2>7. \A j \in Keys : WaitersIn(calls2, j)
                          = IF j = k THEN WaitersIn(call, j) \cup {c} ELSE WaitersIn(call, j)
    BY <1>1, <2>5, <2>6 DEF WaitersIn
  <2>8. c \notin WaitersIn(call, k)
    BY <1>1 DEF WaitersIn
  <2>9. Counts(count, calls2)
    BY <2>3, <2>7, <2>8, OneJoins
  <2> QED BY <2>4, <2>6, <2>9, LookingKeeps
<1>4. CASE /\ Limiter!Load(k) # "free"
           /\ ~(Limiter!Load(k) = "in_flight" /\ Limiter!MayPark(k) /\ MaxWait > 0)
  <2>1. attempts' = Limiter!Loaded(k) /\ UNCHANGED <<waiters, call>>
    BY <1>4 DEF Limiter!Reserve
  <2> QED BY <2>1, CheckKeeps
<1> QED BY <1>2, <1>3, <1>4

\* A caller that stops waiting and holds nothing.
LEMMA RefusalKeeps ==
    ASSUME LimiterInv, NEW c \in Callers, call[c].at \in {"parked", "woken", "giving_up"},
           Limiter!Leave(c), Limiter!Refused(c), NEW k,
           attempts' \in {attempts, Limiter!Loaded(k)}
    PROVE  LimiterInv'
<1>1. call[c].key \in Keys /\ c \in WaitersIn(call, call[c].key)
  <2>1. call[c].key \in Keys
    BY KindsOfCall
  <2> QED BY <2>1 DEF WaitersIn
<1>2. PICK calls2 : calls2 = [call EXCEPT ![c] = Limiter!Idle]
  OBVIOUS
<1>3. PICK count : count = [waiters EXCEPT ![call[c].key] = @ - 1]
  OBVIOUS
<1>4. call' = calls2 /\ waiters' = count
  BY <1>2, <1>3 DEF Limiter!Leave, Limiter!Refused
<1>5. /\ calls2 \in [Callers -> LimiterCalls] /\ HoldersStay(call, calls2)
      /\ calls2[c] = Limiter!Idle /\ \A d \in Callers : d # c => calls2[d] = call[d]
  <2>1. call[c].at # "holding" /\ Limiter!Idle.at # "holding"
    BY IdleCall
  <2> QED BY <1>2, <2>1, IdleCall, CallTurns
<1>6. \A j \in Keys : WaitersIn(calls2, j) = WaitersIn(call, j) \ {c}
  BY <1>5, IdleCall DEF WaitersIn
<1>7. Counts(count, calls2)
  BY <1>1, <1>3, <1>6, OneLeaves
<1> QED BY <1>4, <1>5, <1>7, LookingKeeps

\* A woken turn of reserve keeps it, admitted, parked again or refused.
LEMMA ResumeKeeps ==
    ASSUME LimiterInv, NEW c \in Callers, Limiter!Resume(c)
    PROVE  LimiterInv'
<1>1. call[c].at = "woken"
  BY DEF Limiter!Resume
<1>2. PICK k \in Keys : k = call[c].key
  BY <1>1, KindsOfCall
<1>3. PICK left_ \in Nat : left_ = call[c].left
  BY <1>1, KindsOfCall
<1>4. c \in WaitersIn(call, k) /\ \A j \in Keys : j # k => c \notin WaitersIn(call, j)
  BY <1>1, <1>2 DEF WaitersIn
<1>5. CASE Limiter!Load(k) = "free"
  <2>1. Limiter!Leave(c) /\ Limiter!Admit(c, k)
    BY <1>2, <1>5 DEF Limiter!Resume
  <2>2. /\ MapOK(attempts') /\ AllSound(attempts', call')
        /\ call' \in [Callers -> LimiterCalls] /\ call'[c].at = "holding"
        /\ \A d \in Callers : d # c => call'[d] = call[d]
    BY <1>1, <1>5, <2>1, AdmitKeeps
  <2>3. PICK calls2 : calls2 = call'
    OBVIOUS
  <2>4. PICK count : count = [waiters EXCEPT ![k] = @ - 1]
    OBVIOUS
  <2>5. \A j \in Keys : WaitersIn(calls2, j) = WaitersIn(call, j) \ {c}
    BY <2>2, <2>3 DEF WaitersIn
  <2>6. Counts(count, calls2)
    BY <1>4, <2>4, <2>5, OneLeaves
  <2>7. waiters' = count
    BY <1>2, <2>1, <2>4 DEF Limiter!Leave
  <2>8. Counts(waiters', call')
    BY <2>3, <2>6, <2>7
  <2> QED BY <2>2, <2>8, LimiterInvNext
<1>6. CASE Limiter!Load(k) = "in_flight" /\ call[c].left > 0 /\ ~call[c].aborted
  <2>1. PICK new : new = [at |-> "parked", key |-> k, left |-> left_, aborted |-> FALSE]
    OBVIOUS
  <2>2. PICK calls2 : calls2 = [call EXCEPT ![c] = new]
    OBVIOUS
  <2>3. attempts' = Limiter!Loaded(k) /\ call' = calls2 /\ waiters' = waiters
    BY <1>2, <1>3, <1>6, <2>1, <2>2 DEF Limiter!Resume, Limiter!Park
  <2>4. new \in LimiterCalls /\ new.at = "parked" /\ new.key = k
    BY <2>1, ParkedCall
  <2>5. /\ calls2 \in [Callers -> LimiterCalls] /\ HoldersStay(call, calls2)
        /\ calls2[c] = new /\ \A d \in Callers : d # c => calls2[d] = call[d]
    <3>1. call[c].at # "holding" /\ new.at # "holding"
      BY <1>1, <2>4
    <3> QED BY <2>2, <2>4, <3>1, CallTurns
  <2>6. WaitersStay(call, calls2)
    BY <1>1, <1>2, <2>4, <2>5 DEF WaitersStay, WaitersIn
  <2>7. Counts(waiters, calls2)
    BY <2>6, CountsStay
  <2> QED BY <2>3, <2>5, <2>7, LookingKeeps
<1>7. CASE /\ Limiter!Load(k) # "free"
           /\ ~(Limiter!Load(k) = "in_flight" /\ call[c].left > 0 /\ ~call[c].aborted)
  <2>1. Limiter!Leave(c) /\ Limiter!Refused(c) /\ attempts' = Limiter!Loaded(k)
    BY <1>2, <1>7 DEF Limiter!Resume
  <2> QED BY <1>1, <2>1, RefusalKeeps
<1> QED BY <1>5, <1>6, <1>7

\* A wait that ends otherwise: the caller still waits, to act on it.
LEMMA MarkedKeeps ==
    ASSUME LimiterInv, NEW c \in Callers, call[c].at \in {"parked", "woken", "giving_up"},
           NEW new \in LimiterCalls, new.at \in {"parked", "woken", "giving_up"},
           new.key = call[c].key, call' = [call EXCEPT ![c] = new],
           UNCHANGED <<attempts, waiters>>
    PROVE  LimiterInv'
<1>1. PICK calls2 : calls2 = [call EXCEPT ![c] = new]
  OBVIOUS
<1>2. /\ calls2 \in [Callers -> LimiterCalls] /\ HoldersStay(call, calls2)
      /\ calls2[c] = new /\ \A d \in Callers : d # c => calls2[d] = call[d]
  <2>1. call[c].at # "holding" /\ new.at # "holding"
    OBVIOUS
  <2> QED BY <1>1, <2>1, CallTurns
<1>3. WaitersStay(call, calls2)
  BY <1>2 DEF WaitersStay, WaitersIn
<1>4. Counts(waiters, calls2)
  BY <1>3, CountsStay
<1> QED BY <1>1, <1>2, <1>4, LookingKeeps

\* The timer of a wait keeps it.
LEMMA WaitTimeoutKeeps ==
    ASSUME LimiterInv, NEW c \in Callers, Limiter!WaitTimeout(c)
    PROVE  LimiterInv'
<1>1. call[c].at = "parked"
  BY DEF Limiter!WaitTimeout
<1>2. call[c] \in [at : {"parked", "woken", "giving_up"}, key : Keys, left : Nat, aborted : BOOLEAN]
  BY <1>1, KindsOfCall
<1>3. PICK new : new = [call[c] EXCEPT !.at = "giving_up"]
  OBVIOUS
<1>4. new \in LimiterCalls /\ new.at = "giving_up" /\ new.key = call[c].key
  BY <1>2, <1>3 DEF LimiterCalls
<1>5. call' = [call EXCEPT ![c] = new] /\ UNCHANGED <<attempts, waiters>>
  BY <1>3 DEF Limiter!WaitTimeout
<1> QED BY <1>1, <1>4, <1>5, MarkedKeeps

\* An abort keeps it.
LEMMA AbortKeeps ==
    ASSUME LimiterInv, NEW c \in Callers, Limiter!Abort(c)
    PROVE  LimiterInv'
<1>1. call[c].at \in {"parked", "woken"}
  BY DEF Limiter!Abort
<1>2. call[c] \in [at : {"parked", "woken", "giving_up"}, key : Keys, left : Nat, aborted : BOOLEAN]
  BY <1>1, KindsOfCall
<1>3. PICK next_at : next_at = IF call[c].at = "parked" THEN "giving_up" ELSE call[c].at
  OBVIOUS
<1>4. PICK new : new = [[call[c] EXCEPT !.aborted = TRUE] EXCEPT !.at = next_at]
  OBVIOUS
<1>5. new \in LimiterCalls /\ new.at = next_at /\ new.key = call[c].key
  BY <1>1, <1>2, <1>3, <1>4 DEF LimiterCalls
<1>6. call' = [call EXCEPT ![c] = new]
  <2>1. call \in [Callers -> LimiterCalls]
    BY DEF LimiterInv
  <2> QED BY <1>3, <1>4, <2>1 DEF Limiter!Abort
<1>7. UNCHANGED <<attempts, waiters>>
  BY DEF Limiter!Abort
<1> QED BY <1>1, <1>3, <1>5, <1>6, <1>7, MarkedKeeps

\* The turn after either keeps it.
LEMMA GiveUpKeeps ==
    ASSUME LimiterInv, NEW c \in Callers, Limiter!GiveUp(c)
    PROVE  LimiterInv'
  BY RefusalKeeps DEF Limiter!GiveUp

\* Who holds an entry is counted in flight there.
LEMMA HeldIsFlying ==
    ASSUME NEW e \in LimiterEntries, NEW calls, Sound(e, calls), NEW c \in HoldersIn(calls, e.id)
    PROVE  e.in_flight \in Nat /\ e.in_flight >= 1
<1>1. Cardinality(HoldersIn(calls, e.id) \ {c}) = Cardinality(HoldersIn(calls, e.id)) - 1
  BY HoldersFinite, FS_RemoveElement
<1>2. IsFiniteSet(HoldersIn(calls, e.id) \ {c})
  BY HoldersFinite, FS_RemoveElement
<1>3. Cardinality(HoldersIn(calls, e.id) \ {c}) \in Nat
  BY <1>2, FS_CardinalityType
<1>4. e.in_flight = Cardinality(HoldersIn(calls, e.id)) /\ e.in_flight \in Nat
  BY HoldersFinite DEF Sound
<1> QED BY <1>1, <1>3, <1>4

\* A caller that holds nothing any more, and what that leaves of its entry.
OneSettles(c, calls, calls2) ==
    /\ calls2[c].at # "holding"
    /\ \A d \in Callers : d # c /\ (calls[d].at = "holding" \/ calls2[d].at = "holding")
                          => calls2[d] = calls[d]
LeftOf(p, e) ==
    /\ p \in LimiterEntries /\ p.key = e.key /\ p.id = e.id
    /\ p.in_flight = e.in_flight - 1 /\ ReservedIn(p) <= ReservedIn(e) + 1

\* Who settles is counted out, and may leave a recorded attempt behind.
LEMMA HolderLeaves ==
    ASSUME NEW e \in LimiterEntries, NEW calls, Sound(e, calls), NEW c \in Callers,
           c \in HoldersIn(calls, e.id), NEW calls2, OneSettles(c, calls, calls2),
           NEW p, LeftOf(p, e)
    PROVE  Sound(p, calls2)
<1>0. /\ p \in LimiterEntries /\ p.key = e.key /\ p.id = e.id
      /\ p.in_flight = e.in_flight - 1 /\ ReservedIn(p) <= ReservedIn(e) + 1
  BY DEF LeftOf
<1>1. HoldersIn(calls2, p.id) = HoldersIn(calls, e.id) \ {c}
  <2>1. ASSUME NEW d \in Callers
        PROVE  d \in HoldersIn(calls2, p.id) <=> d \in HoldersIn(calls, e.id) /\ d # c
    BY <1>0 DEF HoldersIn, OneSettles
  <2>2. HoldersIn(calls2, p.id) \subseteq Callers /\ HoldersIn(calls, e.id) \subseteq Callers
    BY DEF HoldersIn
  <2> QED BY <2>1, <2>2
<1>2. Cardinality(HoldersIn(calls, e.id) \ {c}) = Cardinality(HoldersIn(calls, e.id)) - 1
  BY HoldersFinite, FS_RemoveElement
<1>3. p.in_flight = Cardinality(HoldersIn(calls2, p.id))
  BY <1>0, <1>1, <1>2 DEF Sound
<1>4. ReservedIn(p) + p.in_flight <= MaxAttempts
  <2>1. ReservedIn(p) \in Nat /\ ReservedIn(e) \in Nat /\ e.in_flight \in Nat
    BY <1>0, CountsAreNat DEF LimiterEntries
  <2>2. ReservedIn(e) + e.in_flight <= MaxAttempts
    BY DEF Sound
  <2> QED BY <1>0, <2>1, <2>2, LimiterBounded
<1>5. \A d \in HoldersIn(calls2, p.id) : calls2[d].key = p.key
  <2> TAKE d \in HoldersIn(calls2, p.id)
  <2>1. d \in HoldersIn(calls, e.id) /\ d # c /\ d \in Callers
    BY <1>1 DEF HoldersIn
  <2>2. calls[d].at = "holding" /\ calls[d].key = e.key
    BY <2>1 DEF HoldersIn, Sound
  <2> QED BY <1>0, <2>1, <2>2 DEF OneSettles
<1> QED BY <1>3, <1>4, <1>5 DEF Sound

\* The callers after one of them settled.
LEMMA SettledCalls ==
    ASSUME LimiterInv, NEW c \in Callers, call[c].at = "holding", NEW k,
           NEW calls2, calls2 = [Limiter!Woken(k) EXCEPT ![c] = Limiter!Idle]
    PROVE  /\ calls2 \in [Callers -> LimiterCalls] /\ calls2[c].at = "idle"
           /\ \A d \in Callers :
                 d # c /\ (call[d].at = "holding" \/ calls2[d].at = "holding")
                    => calls2[d] = call[d]
           /\ Counts(waiters, calls2)
           /\ \A id : id # call[c].id => SameHolders(call, calls2, id)
<1>1. PICK calls1 : calls1 = Limiter!Woken(k)
  OBVIOUS
<1>2. /\ calls1 \in [Callers -> LimiterCalls] /\ HoldersStay(call, calls1)
      /\ WaitersStay(call, calls1)
  BY <1>1, WokenCalls
<1>3. calls2 = [calls1 EXCEPT ![c] = Limiter!Idle]
  BY <1>1
<1>4. /\ calls2 \in [Callers -> LimiterCalls] /\ calls2[c] = Limiter!Idle
      /\ \A d \in Callers : d # c => calls2[d] = calls1[d]
  BY <1>2, <1>3, IdleCall
<1>5. \A d \in Callers :
        d # c /\ (call[d].at = "holding" \/ calls2[d].at = "holding") => calls2[d] = call[d]
  BY <1>2, <1>4 DEF HoldersStay
<1>6. calls2[c].at = "idle"
  BY <1>4, IdleCall
<1>7. WaitersStay(call, calls2)
  BY <1>2, <1>4, <1>6 DEF WaitersStay, WaitersIn
<1>8. Counts(waiters, calls2)
  BY <1>7, CountsStay
<1>9. ASSUME NEW id, id # call[c].id
      PROVE  SameHolders(call, calls2, id)
  BY <1>5, <1>6, <1>9 DEF SameHolders, HoldersIn
<1> QED BY <1>4, <1>5, <1>6, <1>8, <1>9

\* The entry of a current reservation, and what settling leaves of it.
LEMMA SettledMap ==
    ASSUME LimiterInv, NEW c \in Callers, Limiter!IsHolding(c), Limiter!IsCurrent(c),
           NEW k, k = call[c].key, NEW keeps \in BOOLEAN,
           NEW calls2, calls2 = [Limiter!Woken(k) EXCEPT ![c] = Limiter!Idle]
    PROVE  /\ MapOK(Limiter!Settled(c, k, keeps))
           /\ AllSound(Limiter!Settled(c, k, keeps), calls2)
<1>1. MapOK(attempts) /\ AllSound(attempts, call)
  BY DEF LimiterInv
<1>2. call[c].at = "holding"
  BY DEF Limiter!IsHolding
<1>3. PICK e : e = Limiter!EntryOf(attempts, k)
  OBVIOUS
<1>4. e \in EntriesOf(attempts) /\ e.key = k /\ e.id = call[c].id
  BY <1>1, <1>3, EntryFound DEF Limiter!IsCurrent
<1>5. e \in LimiterEntries /\ Sound(e, call)
  BY <1>1, <1>4, EntriesTyped DEF AllSound
<1>6. c \in HoldersIn(call, e.id)
  BY <1>2, <1>4 DEF HoldersIn
<1>7. e.in_flight \in Nat /\ e.in_flight >= 1
  BY <1>5, <1>6, HeldIsFlying
<1>8. /\ calls2[c].at = "idle"
      /\ \A d \in Callers :
            d # c /\ (call[d].at = "holding" \/ calls2[d].at = "holding")
               => calls2[d] = call[d]
      /\ \A id : id # call[c].id => SameHolders(call, calls2, id)
  BY <1>2, SettledCalls
<1>9. PICK given_back : given_back = [e EXCEPT !.in_flight = IF @ > 0 THEN @ - 1 ELSE 0]
  OBVIOUS
<1>10. /\ given_back \in LimiterEntries /\ given_back.key = k /\ given_back.id = e.id
       /\ given_back.in_flight = e.in_flight - 1 /\ given_back.stamps = e.stamps
  <2>1. e.in_flight - 1 \in Nat /\ e.in_flight > 0
    BY <1>7
  <2>2. given_back = [e EXCEPT !.in_flight = e.in_flight - 1]
    BY <1>9, <2>1
  <2> QED BY <1>4, <1>5, <2>1, <2>2 DEF LimiterEntries
<1>11. ReservedIn(given_back) = ReservedIn(e)
  BY <1>10 DEF ReservedIn, Limiter!LiveReserved
<1>12. ASSUME NEW f \in EntriesOf(attempts), f.key # k
       PROVE  Sound(f, calls2) /\ f.id # e.id
  <2>1. f.id # e.id
    BY <1>1, <1>4, <1>12 DEF MapOK
  <2>2. SameHolders(call, calls2, f.id)
    BY <1>4, <1>8, <2>1
  <2> QED BY <1>1, <2>1, <2>2, StaysSound DEF AllSound
<1>13. ASSUME NEW p \in LimiterEntries, p.key = k, p.id = e.id,
              p.in_flight = e.in_flight - 1, ReservedIn(p) <= ReservedIn(e) + 1
       PROVE  MapOK(Limiter!Put(attempts, p)) /\ AllSound(Limiter!Put(attempts, p), calls2)
  <2>1. Sound(p, calls2)
    <3>1. OneSettles(c, call, calls2)
      BY <1>8 DEF OneSettles
    <3>2. LeftOf(p, e)
      BY <1>4, <1>13 DEF LeftOf
    <3> QED BY <1>5, <1>6, <3>1, <3>2, HolderLeaves
  <2>2. \A f \in EntriesOf(attempts) : f.key # p.key => f.id # p.id
    BY <1>12, <1>13
  <2>3. /\ MapOK(Limiter!Put(attempts, p))
        /\ \A f \in EntriesOf(Limiter!Put(attempts, p)) :
              f = p \/ (f \in EntriesOf(attempts) /\ f.key # p.key)
    BY <1>1, <1>13, <2>2, PutMap
  <2> QED BY <1>12, <1>13, <2>1, <2>3 DEF AllSound
<1>14. CASE keeps
  <2>1. Limiter!Settled(c, k, keeps)
          = Limiter!Put(attempts, Limiter!Stamped(given_back, "reserved"))
    BY <1>3, <1>9, <1>14 DEF Limiter!Settled
  <2>2. PICK p : p = Limiter!Stamped(given_back, "reserved")
    OBVIOUS
  <2>3. /\ p \in LimiterEntries /\ p.key = given_back.key /\ p.id = given_back.id
        /\ p.in_flight = given_back.in_flight
        /\ ReservedIn(p) <= ReservedIn(given_back) + 1
    <3>1. ReservedIn(p) <= ReservedIn(given_back) + (IF "reserved" = "reserved" THEN 1 ELSE 0)
      BY <1>10, <2>2, StampedKeeps
    <3> QED BY <1>10, <2>2, <3>1, StampedKeeps
  <2> QED BY <1>10, <1>11, <1>13, <2>1, <2>2, <2>3
<1>15. CASE ~keeps /\ Limiter!EntryIsIdle(given_back)
  <2>1. Limiter!Settled(c, k, keeps) = Limiter!Without(attempts, k)
    BY <1>3, <1>9, <1>15 DEF Limiter!Settled
  <2>2. /\ MapOK(Limiter!Without(attempts, k))
        /\ EntriesOf(Limiter!Without(attempts, k)) = {f \in EntriesOf(attempts) : f.key # k}
    BY <1>1, WithoutMap
  <2> QED BY <1>12, <2>1, <2>2 DEF AllSound
<1>16. CASE ~keeps /\ ~Limiter!EntryIsIdle(given_back)
  <2>1. Limiter!Settled(c, k, keeps) = Limiter!Put(attempts, given_back)
    BY <1>3, <1>9, <1>16 DEF Limiter!Settled
  <2>2. ReservedIn(given_back) <= ReservedIn(e) + 1
    <3>1. ReservedIn(e) \in Nat
      BY <1>5, CountsAreNat
    <3> QED BY <1>11, <3>1
  <2> QED BY <1>10, <1>13, <2>1, <2>2
<1> QED BY <1>14, <1>15, <1>16

\* A reservation whose entry was evicted is of no entry that is there.
LEMMA SettledLate ==
    ASSUME LimiterInv, NEW c \in Callers, Limiter!IsHolding(c), ~Limiter!IsCurrent(c),
           NEW k, k = call[c].key,
           NEW calls2, calls2 = [Limiter!Woken(k) EXCEPT ![c] = Limiter!Idle],
           NEW t, MapOK(t), AllDescend(t, attempts, call)
    PROVE  AllSound(t, calls2)
<1>1. MapOK(attempts) /\ AllSound(attempts, call)
  BY DEF LimiterInv
<1>2. call[c].at = "holding"
  BY DEF Limiter!IsHolding
<1>3. /\ calls2[c].at = "idle"
      /\ \A d \in Callers :
            d # c /\ (call[d].at = "holding" \/ calls2[d].at = "holding")
               => calls2[d] = call[d]
      /\ \A id : id # call[c].id => SameHolders(call, calls2, id)
  BY <1>2, SettledCalls
<1>4. ASSUME NEW f \in EntriesOf(attempts)
      PROVE  f.id # call[c].id
  <2> SUFFICES ASSUME f.id = call[c].id
               PROVE  FALSE
    OBVIOUS
  <2>1. Sound(f, call) /\ c \in HoldersIn(call, f.id)
    BY <1>1, <1>2 DEF AllSound, HoldersIn
  <2>2. f.key = k
    BY <2>1 DEF Sound
  <2>3. Limiter!Has(attempts, k) /\ Limiter!EntryOf(attempts, k) = f
    BY <1>1, <2>2, EntryFound
  <2> QED BY <2>3 DEF Limiter!IsCurrent
<1>5. \A f \in EntriesOf(attempts) : SameHolders(call, calls2, f.id)
  BY <1>3, <1>4
<1>6. \A d \in Callers : calls2[d].at = "holding" => calls2[d] = call[d]
  BY <1>3
<1> QED BY <1>1, <1>5, <1>6, DescentIsSound

\* Settling keeps it, of a current reservation or a late one.
LEMMA SettleKeeps ==
    ASSUME LimiterInv, NEW c \in Callers, NEW keeps \in BOOLEAN, Limiter!Settle(c, keeps)
    PROVE  LimiterInv'
<1>1. Limiter!IsHolding(c) /\ call[c].at = "holding"
  BY DEF Limiter!Settle, Limiter!IsHolding
<1>2. PICK k \in Keys : k = call[c].key
  BY <1>1, KindsOfCall
<1>3. PICK calls2 : calls2 = [Limiter!Woken(k) EXCEPT ![c] = Limiter!Idle]
  OBVIOUS
<1>4. call' = calls2 /\ waiters' = waiters
  BY <1>2, <1>3 DEF Limiter!Settle
<1>5. calls2 \in [Callers -> LimiterCalls] /\ Counts(waiters, calls2)
  BY <1>1, <1>3, SettledCalls
<1>6. MapOK(attempts') /\ AllSound(attempts', calls2)
  <2>1. CASE Limiter!IsCurrent(c)
    <3>1. attempts' = Limiter!Settled(c, k, keeps)
      BY <1>2, <2>1 DEF Limiter!Settle
    <3>2. PICK t : t = Limiter!Settled(c, k, keeps)
      OBVIOUS
    <3>3. MapOK(t) /\ AllSound(t, calls2)
      BY <1>1, <1>2, <1>3, <2>1, <3>2, SettledMap
    <3> QED BY <3>1, <3>2, <3>3
  <2>2. CASE ~Limiter!IsCurrent(c)
    <3>1. PICK t : t = IF keeps THEN Limiter!Recorded(k, "direct") ELSE Limiter!Touch(attempts, k)
      OBVIOUS
    <3>2. attempts' = t
      BY <1>2, <2>2, <3>1 DEF Limiter!Settle
    <3>3. MapOK(attempts)
      BY DEF LimiterInv
    <3>4. CASE keeps
      <4>1. MapOK(t) /\ AllDescend(t, attempts, call)
        BY <3>1, <3>4, RecordedMap
      <4>2. AllSound(t, calls2)
        BY <1>1, <1>2, <1>3, <2>2, <4>1, SettledLate
      <4> QED BY <3>2, <4>1, <4>2
    <3>5. CASE ~keeps
      <4>1. MapOK(t) /\ AllDescend(t, attempts, call)
        BY <3>1, <3>3, <3>5, TouchedMap, AlikeDescends
      <4>2. AllSound(t, calls2)
        BY <1>1, <1>2, <1>3, <2>2, <4>1, SettledLate
      <4> QED BY <3>2, <4>1, <4>2
    <3> QED BY <3>4, <3>5
  <2> QED BY <2>1, <2>2
<1> QED BY <1>4, <1>5, <1>6, LimiterInvNext

\* Every step of the limiter keeps it.
LEMMA LimiterSteps == LimiterInv /\ (Limiter!Next \/ UNCHANGED limiter_vars) => LimiterInv'
<1> SUFFICES ASSUME LimiterInv, Limiter!Next \/ UNCHANGED limiter_vars
             PROVE  LimiterInv'
  OBVIOUS
<1>1. CASE UNCHANGED limiter_vars
  <2>1. attempts' = attempts /\ waiters' = waiters /\ call' = call
    BY <1>1 DEF limiter_vars
  <2> QED BY <2>1 DEF LimiterInv, AllSound
<1>2. ASSUME NEW k \in Keys, Limiter!Check(k) \/ Limiter!Record(k) \/ Limiter!Reset(k)
      PROVE  LimiterInv'
  BY <1>2, CheckKeeps, RecordKeeps, ResetKeeps DEF Limiter!Check
<1>3. ASSUME NEW c \in Callers,
             \/ \E k \in Keys : Limiter!TryReserve(c, k) \/ Limiter!Reserve(c, k)
             \/ \E keeps \in BOOLEAN : Limiter!Settle(c, keeps)
             \/ Limiter!Resume(c) \/ Limiter!WaitTimeout(c) \/ Limiter!Abort(c)
             \/ Limiter!GiveUp(c)
      PROVE  LimiterInv'
  BY <1>3, TryReserveKeeps, ReserveKeeps, SettleKeeps, ResumeKeeps, WaitTimeoutKeeps,
     AbortKeeps, GiveUpKeeps
<1>4. CASE Limiter!Next
  BY <1>2, <1>3, <1>4, CleanupKeeps, TickKeeps DEF Limiter!Next
<1> QED BY <1>1, <1>4

\* It holds at first.
LEMMA LimiterBegins == Limiter!Init => LimiterInv
<1> SUFFICES ASSUME Limiter!Init
             PROVE  LimiterInv
  OBVIOUS
<1>1. /\ attempts = <<>> /\ waiters = [k \in Keys |-> 0]
      /\ call = [c \in Callers |-> Limiter!Idle]
  BY DEF Limiter!Init
<1>2. <<>> \in Seq(LimiterEntries)
  OBVIOUS
<1>3. MapOK(attempts) /\ EntriesOf(attempts) = {}
  BY <1>1, <1>2 DEF MapOK, EntriesOf
<1>4. call \in [Callers -> LimiterCalls] /\ waiters \in [Keys -> Nat]
  BY <1>1, IdleCall
<1>5. AllSound(attempts, call)
  BY <1>3 DEF AllSound
<1>6. \A k \in Keys : waiters[k] = Cardinality(WaitersIn(call, k))
  <2>1. \A k \in Keys : WaitersIn(call, k) = {}
    BY <1>1, IdleCall DEF WaitersIn
  <2>2. Cardinality({}) = 0
    BY FS_EmptySet
  <2> QED BY <1>1, <2>1, <2>2
<1> QED BY <1>3, <1>4, <1>5, <1>6 DEF LimiterInv

\* What the invariant says of the counts.
LEMMA SoundIsCapped == ASSUME LimiterInv PROVE AttemptsAreCapped
<1>1. ASSUME NEW i \in 1..Len(attempts)
      PROVE  /\ Limiter!Cardinality(Limiter!LiveReserved(attempts[i])) + attempts[i].in_flight
                  <= MaxAttempts
             /\ attempts[i].in_flight
                  = Limiter!Cardinality(Limiter!HoldersOf(attempts[i]))
  <2>1. Sound(attempts[i], call)
    BY DEF LimiterInv, AllSound, EntriesOf
  <2>2. Limiter!HoldersOf(attempts[i]) = HoldersIn(call, attempts[i].id)
    BY DEF Limiter!HoldersOf, Limiter!IsHolding, HoldersIn
  <2> QED BY <2>1, <2>2, LimiterCardinality DEF Sound, ReservedIn
<1>2. ASSUME NEW k \in Keys
      PROVE  waiters[k] = Limiter!Cardinality(Limiter!WaitingOn(k))
  <2>1. Limiter!WaitingOn(k) = WaitersIn(call, k)
    BY DEF Limiter!WaitingOn, Limiter!IsWaiting, WaitersIn
  <2> QED BY <2>1, LimiterCardinality DEF LimiterInv
<1> QED BY <1>1, <1>2 DEF AttemptsAreCapped, Limiter!AttemptsAreCapped

(***************************************************************************)
(* A limiter admits no more than its limit past it: those in flight and    *)
(* those a reservation recorded within the window stay within max_attempts *)
(* together, and both counts it keeps, of reservations in flight and of    *)
(* callers waiting, are exact, whatever settles late, is evicted, aborts   *)
(* or times out: for any callers, keys and limits.                         *)
(***************************************************************************)
THEOREM TheLimitIsKept == ServerParts => []AttemptsAreCapped
<1>1. ServerInit => LimiterInv
  BY LimiterBegins DEF ServerInit
<1>2. LimiterInv /\ [ServerNext]_server_vars => LimiterInv'
  <2>1. [ServerNext]_server_vars => Limiter!Next \/ UNCHANGED limiter_vars
    BY DEF ServerNext, server_vars
  <2> QED BY <2>1, LimiterSteps
<1>3. LimiterInv => AttemptsAreCapped
  BY SoundIsCapped
<1> QED BY <1>1, <1>2, <1>3, PTL DEF ServerParts

-----------------------------------------------------------------------------
(***************************************************************************)
(* A slot that opens is announced: what a step leaves of the key that it   *)
(* opens on.                                                               *)
(***************************************************************************)

\* Where a key stands, by what it holds.
Classed ==
    \A k \in Keys : Limiter!Load(k) =
        IF MaxAttempts = 0 \/ Recent(attempts, k) >= MaxAttempts THEN "recorded"
        ELSE IF Recent(attempts, k) + Flying(attempts, k) < MaxAttempts THEN "free"
        ELSE "in_flight"

\* The invariant gives it.
LEMMA KeysAreClassed == LimiterInv => Classed
  BY LoadIs DEF Classed, LimiterInv

\* What a key holds, if it holds anything, is what it held.
Weighs(e, f) ==
    e.key = f.key /\ e.in_flight = f.in_flight /\ ActiveIn(e) = ActiveIn(f)
LikeAt(t, s, k) == \A e \in EntriesOf(t) : e.key = k => \E f \in EntriesOf(s) : Weighs(e, f)

\* What a key weighs, if it still has an entry that is like the one it had.
LEMMA NothingIsFreed ==
    ASSUME NEW s, NEW t, MapOK(s), MapOK(t), NEW k, LikeAt(t, s, k), Limiter!Has(t, k)
    PROVE  /\ Recent(t, k) = Recent(s, k) /\ Flying(t, k) = Flying(s, k)
<1>1. PICK e : e = Limiter!EntryOf(t, k)
  OBVIOUS
<1>2. e \in EntriesOf(t) /\ e.key = k
  BY <1>1, EntryFound
<1>3. PICK f \in EntriesOf(s) : Weighs(e, f)
  BY <1>2 DEF LikeAt
<1>4. f.key = k /\ ActiveIn(e) = ActiveIn(f) /\ e.in_flight = f.in_flight
  BY <1>2, <1>3 DEF Weighs
<1>5. Limiter!Has(s, k) /\ Limiter!EntryOf(s, k) = f
  BY <1>4, EntryFound
<1> QED BY <1>1, <1>4, <1>5 DEF Recent, Flying

\* Putting an entry leaves those of other keys as they are.
LEMMA PutSparesOthers ==
    ASSUME NEW s, MapOK(s), NEW e, NEW k, e.key # k
    PROVE  LikeAt(Limiter!Put(s, e), s, k)
<1>1. PICK w : w = Limiter!Without(s, e.key)
  OBVIOUS
<1>2. MapOK(w) /\ EntriesOf(w) \subseteq EntriesOf(s)
  BY <1>1, WithoutMap
<1>3. PICK t : t = Append(w, e)
  OBVIOUS
<1>4. PICK n \in Nat : n = Len(w)
  BY <1>2 DEF MapOK
<1>5. /\ t \in Seq(LimiterEntries \cup {e}) /\ Len(t) = n + 1
      /\ \A i \in 1..n : t[i] = w[i]
      /\ t[n + 1] = e
  BY <1>2, <1>3, <1>4 DEF MapOK
<1>6. \A i \in 1..Len(t) : t[i] = e \/ t[i] \in EntriesOf(s)
  <2> TAKE i \in 1..Len(t)
  <2>1. i \in 1..n \/ i = n + 1
    BY <1>5
  <2>2. CASE i \in 1..n
    <3>1. t[i] = w[i] /\ w[i] \in EntriesOf(w)
      BY <1>4, <1>5, <2>2 DEF EntriesOf
    <3> QED BY <1>2, <3>1
  <2> QED BY <1>5, <2>1, <2>2
<1>7. Limiter!Put(s, e) = IF Len(t) > MaxKeys THEN Tail(t) ELSE t
  BY <1>1, <1>3 DEF Limiter!Put
<1>8. \A i \in 1..Len(Tail(t)) : Tail(t)[i] = t[i + 1] /\ i + 1 \in 1..Len(t)
  BY <1>5
<1>9. \A f \in EntriesOf(Limiter!Put(s, e)) : f = e \/ f \in EntriesOf(s)
  BY <1>6, <1>7, <1>8 DEF EntriesOf
<1> QED BY <1>9 DEF LikeAt, Weighs

\* Leaving out an entry leaves the others as they are.
LEMMA WithoutSparesOthers ==
    ASSUME NEW s, MapOK(s), NEW j, NEW k
    PROVE  LikeAt(Limiter!Without(s, j), s, k)
  BY WithoutMap DEF LikeAt, Weighs

\* A map that is like another is so at each key.
LEMMA LikeIsLikeAt ==
    ASSUME NEW t, NEW s, AllLike(t, s), NEW k PROVE LikeAt(t, s, k)
  BY DEF AllLike, LikeAt, Weighs, Like, Fewer

\* Admitting, recording, settling and forgiving spare the other keys.
LEMMA AdmitSparesOthers ==
    ASSUME LimiterInv, NEW c \in Callers, NEW j \in Keys, NEW k, j # k,
           call[c].at # "holding", Limiter!Load(j) = "free", Limiter!Admit(c, j)
    PROVE  LikeAt(attempts', attempts, k)
<1> DEFINE s == Limiter!Loaded(j)
<1>1. PICK e : e = IF Limiter!Has(s, j) THEN Limiter!EntryOf(s, j)
                   ELSE [key |-> j, id |-> Limiter!FreshId, stamps |-> <<>>, in_flight |-> 0]
  OBVIOUS
<1>2. e \in LimiterEntries /\ e.key = j
  BY <1>1, EntryToTakeUp
<1>3. PICK p : p = [e EXCEPT !.in_flight = @ + 1]
  OBVIOUS
<1>4. p.key = j
  BY <1>2, <1>3 DEF LimiterEntries
<1>5. attempts' = Limiter!Put(s, p)
  BY <1>1, <1>3 DEF Limiter!Admit
<1>6. MapOK(s) /\ AllLike(s, attempts)
  BY LoadedMap DEF LimiterInv
<1> HIDE DEF s
<1>7. LikeAt(Limiter!Put(s, p), s, k)
  BY <1>4, <1>6, PutSparesOthers
<1>8. ASSUME NEW g \in EntriesOf(Limiter!Put(s, p)), g.key = k
      PROVE  \E f \in EntriesOf(attempts) : Weighs(g, f)
  <2>1. PICK h \in EntriesOf(s) : Weighs(g, h)
    BY <1>7, <1>8 DEF LikeAt
  <2>2. PICK f \in EntriesOf(attempts) : Like(h, f)
    BY <1>6 DEF AllLike
  <2> QED BY <2>1, <2>2 DEF Weighs, Like, Fewer
<1> QED BY <1>5, <1>8 DEF LikeAt

\* Recording on a key spares the others.
LEMMA RecordSparesOthers ==
    ASSUME LimiterInv, NEW j \in Keys, NEW k, j # k
    PROVE  LikeAt(Limiter!Recorded(j, "direct"), attempts, k)
<1>0. MapOK(attempts)
  BY DEF LimiterInv
<1>1. CASE Limiter!Has(attempts, j)
  <2>1. PICK e : e = Limiter!EntryOf(attempts, j)
    OBVIOUS
  <2>2. e \in LimiterEntries /\ e.key = j
    BY <1>0, <1>1, <2>1, EntryFound, EntriesTyped
  <2>3. PICK q : q = Limiter!Stamped(e, "direct")
    OBVIOUS
  <2>4. q.key = j
    BY <2>2, <2>3, StampedKeeps
  <2>5. Limiter!Recorded(j, "direct") = Limiter!Put(attempts, q)
    BY <1>1, <2>1, <2>3 DEF Limiter!Recorded
  <2> QED BY <1>0, <2>4, <2>5, PutSparesOthers
<1>2. CASE ~Limiter!Has(attempts, j)
  <2>1. PICK id : id = Limiter!FreshId
    OBVIOUS
  <2>2. id \in Limiter!Ids
    BY <1>2, <2>1, FreshIdIsNew DEF LimiterInv
  <2>3. PICK e : e = [key |-> j, id |-> id, stamps |-> <<>>, in_flight |-> 0]
    OBVIOUS
  <2>4. e \in LimiterEntries /\ e.key = j
    BY <2>2, <2>3, NewEntry
  <2>5. PICK q : q = Limiter!Stamped(e, "direct")
    OBVIOUS
  <2>6. q.key = j
    BY <2>4, <2>5, StampedKeeps
  <2>7. Limiter!Recorded(j, "direct") = Limiter!Put(attempts, q)
    BY <1>2, <2>1, <2>3, <2>5 DEF Limiter!Recorded
  <2> QED BY <1>0, <2>6, <2>7, PutSparesOthers
<1> QED BY <1>1, <1>2

\* So does a reset.
LEMMA ResetSparesOthers ==
    ASSUME LimiterInv, NEW j \in Keys, NEW k, j # k
    PROVE  LikeAt(Limiter!Forgiven(j), attempts, k)
<1>0. MapOK(attempts)
  BY DEF LimiterInv
<1>1. PICK e : e = Limiter!EntryOf(attempts, j)
  OBVIOUS
<1>2. CASE Limiter!Has(attempts, j) /\ e.in_flight > 0
  <2>1. e \in LimiterEntries /\ e.key = j
    BY <1>0, <1>1, <1>2, EntryFound, EntriesTyped
  <2>2. PICK q : q = [e EXCEPT !.stamps = <<>>]
    OBVIOUS
  <2>3. q.key = j
    BY <2>1, <2>2 DEF LimiterEntries
  <2>4. Limiter!Forgiven(j) = Limiter!Put(attempts, q)
    BY <1>1, <1>2, <2>2 DEF Limiter!Forgiven
  <2> QED BY <1>0, <2>3, <2>4, PutSparesOthers
<1>3. CASE ~(Limiter!Has(attempts, j) /\ e.in_flight > 0)
  BY <1>0, <1>1, <1>3, WithoutSparesOthers DEF Limiter!Forgiven
<1> QED BY <1>2, <1>3

\* So does settling.
LEMMA SettleSparesOthers ==
    ASSUME LimiterInv, NEW c \in Callers, Limiter!IsHolding(c), NEW keeps \in BOOLEAN,
           NEW j \in Keys, j = call[c].key, NEW k, j # k, Limiter!IsCurrent(c)
    PROVE  LikeAt(Limiter!Settled(c, j, keeps), attempts, k)
<1>0. MapOK(attempts)
  BY DEF LimiterInv
<1>1. PICK e : e = Limiter!EntryOf(attempts, j)
  OBVIOUS
<1>2. e \in LimiterEntries /\ e.key = j
  BY <1>0, <1>1, EntryFound, EntriesTyped DEF Limiter!IsCurrent
<1>3. PICK n \in Nat : n = IF e.in_flight > 0 THEN e.in_flight - 1 ELSE 0
  BY <1>2 DEF LimiterEntries
<1>4. PICK q : q = [e EXCEPT !.in_flight = IF @ > 0 THEN @ - 1 ELSE 0]
  OBVIOUS
<1>5. q \in LimiterEntries /\ q.key = j
  <2>1. q = [e EXCEPT !.in_flight = n]
    BY <1>3, <1>4
  <2> QED BY <1>2, <2>1 DEF LimiterEntries
<1>6. PICK p : p = Limiter!Stamped(q, "reserved")
  OBVIOUS
<1>7. p.key = j
  BY <1>5, <1>6, StampedKeeps
<1>8. Limiter!Settled(c, j, keeps) = IF keeps THEN Limiter!Put(attempts, p)
                                     ELSE IF Limiter!EntryIsIdle(q)
                                     THEN Limiter!Without(attempts, j)
                                     ELSE Limiter!Put(attempts, q)
  BY <1>1, <1>4, <1>6 DEF Limiter!Settled
<1> QED BY <1>0, <1>5, <1>7, <1>8, PutSparesOthers, WithoutSparesOthers

\* What a step does for who waits on a key: time, a key as it was, or nobody left asleep.
Spares(k) ==
    \/ LikeAt(attempts', attempts, k)
    \/ Limiter!Tick
    \/ \A c \in Callers : call'[c].at = "parked" => call'[c].key # k

\* Looking at a key spares all.
LEMMA LoadedSparesAll ==
    ASSUME LimiterInv, NEW j, attempts' \in {attempts, Limiter!Loaded(j)}, NEW k
    PROVE  LikeAt(attempts', attempts, k)
<1>1. MapOK(attempts)
  BY DEF LimiterInv
<1>2. LikeAt(Limiter!Loaded(j), attempts, k) /\ LikeAt(attempts, attempts, k)
  BY <1>1, LoadedMap, SelfLike, LikeIsLikeAt
<1> QED BY <1>2

\* An admission takes a slot of a key that had one.
LEMMA AdmitSpares ==
    ASSUME LimiterInv, NEW c \in Callers, NEW j \in Keys, NEW k \in Keys,
           call[c].at # "holding", Limiter!Load(j) = "free", Limiter!Admit(c, j),
           Limiter!Load(k) = "in_flight"
    PROVE  Spares(k)
<1>1. j # k
  OBVIOUS
<1> QED BY <1>1, AdmitSparesOthers DEF Spares

\* No turn of a caller that waits frees a slot.
LEMMA TurnsSpare ==
    ASSUME LimiterInv, NEW c \in Callers, NEW k \in Keys, Limiter!Load(k) = "in_flight",
           \/ \E j \in Keys : Limiter!TryReserve(c, j) \/ Limiter!Reserve(c, j)
           \/ Limiter!Resume(c) \/ Limiter!WaitTimeout(c) \/ Limiter!Abort(c)
           \/ Limiter!GiveUp(c)
    PROVE  Spares(k)
<1>1. ASSUME NEW j \in Keys, Limiter!TryReserve(c, j)
      PROVE  Spares(k)
  <2>1. call[c].at # "holding" /\ Limiter!Load(j) = "free" /\ Limiter!Admit(c, j)
    BY <1>1, IdleCall DEF Limiter!TryReserve
  <2> QED BY <2>1, AdmitSpares
<1>2. ASSUME NEW j \in Keys, Limiter!Reserve(c, j)
      PROVE  Spares(k)
  <2>1. call[c].at # "holding"
    BY <1>2, IdleCall DEF Limiter!Reserve
  <2>2. CASE Limiter!Load(j) = "free"
    <3>1. Limiter!Admit(c, j)
      BY <1>2, <2>2 DEF Limiter!Reserve
    <3> QED BY <2>1, <2>2, <3>1, AdmitSpares
  <2>3. CASE Limiter!Load(j) # "free"
    <3>1. attempts' = Limiter!Loaded(j)
      BY <1>2, <2>3 DEF Limiter!Reserve
    <3> QED BY <3>1, LoadedSparesAll DEF Spares
  <2> QED BY <2>2, <2>3
<1>3. CASE Limiter!Resume(c)
  <2>1. call[c].at = "woken"
    BY <1>3 DEF Limiter!Resume
  <2>2. PICK j \in Keys : j = call[c].key
    BY <2>1, KindsOfCall
  <2>3. CASE Limiter!Load(j) = "free"
    <3>1. Limiter!Admit(c, j) /\ call[c].at # "holding"
      BY <1>3, <2>1, <2>2, <2>3 DEF Limiter!Resume
    <3> QED BY <2>3, <3>1, AdmitSpares
  <2>4. CASE Limiter!Load(j) # "free"
    <3>1. attempts' = Limiter!Loaded(j)
      BY <1>3, <2>2, <2>4 DEF Limiter!Resume
    <3> QED BY <3>1, LoadedSparesAll DEF Spares
  <2> QED BY <2>3, <2>4
<1>4. CASE Limiter!WaitTimeout(c) \/ Limiter!Abort(c) \/ Limiter!GiveUp(c)
  <2>1. attempts' = attempts
    BY <1>4 DEF Limiter!WaitTimeout, Limiter!Abort, Limiter!GiveUp
  <2> QED BY <2>1, LoadedSparesAll DEF Spares
<1> QED BY <1>1, <1>2, <1>3, <1>4

\* Who settles frees a slot of its own key, and wakes it.
LEMMA SettleSpares ==
    ASSUME LimiterInv, NEW c \in Callers, NEW k \in Keys, NEW keeps \in BOOLEAN,
           Limiter!Settle(c, keeps)
    PROVE  Spares(k)
<1>1. Limiter!IsHolding(c) /\ call[c].at = "holding"
  BY DEF Limiter!Settle, Limiter!IsHolding
<1>2. PICK j \in Keys : j = call[c].key
  BY <1>1, KindsOfCall
<1>3. CASE j = k
  <2>1. PICK calls1 : calls1 = Limiter!Woken(k)
    OBVIOUS
  <2>2. /\ calls1 \in [Callers -> LimiterCalls]
        /\ \A d \in Callers : calls1[d].at = "parked" => calls1[d].key # k
    BY <2>1, WokenCalls
  <2>3. call' = [calls1 EXCEPT ![c] = Limiter!Idle]
    BY <1>2, <1>3, <2>1 DEF Limiter!Settle
  <2>4. \A d \in Callers : call'[d].at = "parked" => call'[d].key # k
    BY <2>2, <2>3, IdleCall
  <2> QED BY <2>4 DEF Spares
<1>4. CASE j # k
  <2>1. CASE Limiter!IsCurrent(c)
    <3>1. attempts' = Limiter!Settled(c, j, keeps)
      BY <1>2, <2>1 DEF Limiter!Settle
    <3> QED BY <1>1, <1>2, <1>4, <2>1, <3>1, SettleSparesOthers DEF Spares
  <2>2. CASE ~Limiter!IsCurrent(c)
    <3>1. attempts' = IF keeps THEN Limiter!Recorded(j, "direct") ELSE Limiter!Touch(attempts, j)
      BY <1>2, <2>2 DEF Limiter!Settle
    <3>2. LikeAt(Limiter!Recorded(j, "direct"), attempts, k)
      BY <1>4, RecordSparesOthers
    <3>3. LikeAt(Limiter!Touch(attempts, j), attempts, k)
      BY TouchedMap, LikeIsLikeAt DEF LimiterInv
    <3> QED BY <3>1, <3>2, <3>3 DEF Spares
  <2> QED BY <2>1, <2>2
<1> QED BY <1>3, <1>4

\* So do record and reset; check and cleanup free none.
LEMMA OthersSpare ==
    ASSUME LimiterInv, NEW k \in Keys,
           \/ \E j \in Keys : Limiter!Check(j) \/ Limiter!Record(j) \/ Limiter!Reset(j)
           \/ Limiter!Cleanup
    PROVE  Spares(k)
<1>1. ASSUME NEW j \in Keys, Limiter!Check(j)
      PROVE  Spares(k)
  <2>1. attempts' = Limiter!Loaded(j)
    BY <1>1 DEF Limiter!Check
  <2> QED BY <2>1, LoadedSparesAll DEF Spares
<1>2. ASSUME NEW j \in Keys, Limiter!Record(j) \/ Limiter!Reset(j)
      PROVE  Spares(k)
  <2>1. call' = Limiter!Woken(j)
    BY <1>2 DEF Limiter!Record, Limiter!Reset, Limiter!Wake
  <2>2. CASE j = k
    BY <2>1, <2>2, WokenCalls DEF Spares
  <2>3. CASE j # k
    <3>1. attempts' \in {Limiter!Recorded(j, "direct"), Limiter!Forgiven(j)}
      BY <1>2 DEF Limiter!Record, Limiter!Reset
    <3>2. LikeAt(Limiter!Recorded(j, "direct"), attempts, k)
      BY <2>3, RecordSparesOthers
    <3>3. LikeAt(Limiter!Forgiven(j), attempts, k)
      BY <2>3, ResetSparesOthers
    <3> QED BY <3>1, <3>2, <3>3 DEF Spares
  <2> QED BY <2>2, <2>3
<1>3. CASE Limiter!Cleanup
  <2> DEFINE s == [i \in 1..Len(attempts) |-> Limiter!Pruned(attempts[i])]
             places == {i \in 1..Len(s) : ~Limiter!EntryIsIdle(s[i])}
  <2>1. attempts' = Limiter!Keeping(s, places)
    BY <1>3 DEF Limiter!Cleanup
  <2>2. PICK places2 : places2 = places
    OBVIOUS
  <2> HIDE DEF places
  <2>3. AllLike(Limiter!Keeping(s, places2), attempts)
    BY CleanedMap DEF LimiterInv
  <2> HIDE DEF s
  <2>4. LikeAt(Limiter!Keeping(s, places2), attempts, k)
    BY <2>3, LikeIsLikeAt
  <2> QED BY <2>1, <2>2, <2>4 DEF Spares
<1> QED BY <1>1, <1>2, <1>3

\* Every step spares a key, wakes who is parked on it, or is time.
LEMMA StepsSpare ==
    ASSUME LimiterInv, NEW k \in Keys, Limiter!Next, Limiter!Load(k) = "in_flight"
    PROVE  Spares(k)
<1>1. CASE Limiter!Tick
  BY <1>1 DEF Spares
<1>2. CASE ~Limiter!Tick
  BY <1>2, TurnsSpare, SettleSpares, OthersSpare DEF Limiter!Next
<1> QED BY <1>1, <1>2

\* A slot that opens in a step that is no eviction was announced.
LEMMA FreedIsAnnounced ==
    ASSUME LimiterInv, LimiterInv', Classed, Classed', Limiter!Next, NEW k \in Keys,
           Limiter!Load(k) = "in_flight", Limiter!Load(k)' = "free"
    PROVE  \/ Limiter!Tick \/ Limiter!Evicts(k)
           \/ \A c \in Callers : call'[c].at = "parked" => call'[c].key # k
<1> SUFFICES ASSUME LikeAt(attempts', attempts, k), ~Limiter!Evicts(k)
             PROVE  FALSE
  BY StepsSpare DEF Spares
<1>1. PICK t : t = attempts'
  OBVIOUS
<1>2. MapOK(attempts) /\ MapOK(t)
  BY <1>1 DEF LimiterInv
<1>3. /\ MaxAttempts # 0 /\ ~(Recent(attempts, k) >= MaxAttempts)
      /\ ~(Recent(attempts, k) + Flying(attempts, k) < MaxAttempts)
  BY DEF Classed
<1>4. Recent(t, k) + Flying(t, k) < MaxAttempts
  BY <1>1 DEF Classed
<1>5. Limiter!Has(attempts, k)
  <2> SUFFICES ASSUME ~Limiter!Has(attempts, k)
               PROVE  FALSE
    OBVIOUS
  <2>1. Recent(attempts, k) = 0 /\ Flying(attempts, k) = 0
    BY DEF Recent, Flying
  <2> QED BY <1>3, <2>1, LimiterBounded
<1>6. PICK e : e = Limiter!EntryOf(attempts, k)
  OBVIOUS
<1>7. e \in EntriesOf(attempts) /\ ActiveIn(e) \in Nat /\ e.in_flight \in Nat
  BY <1>2, <1>5, <1>6, EntryFound, EntriesTyped
<1>8. Recent(attempts, k) = ActiveIn(e) /\ Flying(attempts, k) = e.in_flight
  BY <1>5, <1>6 DEF Recent, Flying
<1>9. e.in_flight > 0
  BY <1>3, <1>7, <1>8, LimiterBounded
<1>10. Limiter!Has(t, k)
  BY <1>1, <1>5, <1>6, <1>9 DEF Limiter!Evicts
<1>11. Recent(t, k) = Recent(attempts, k) /\ Flying(t, k) = Flying(attempts, k)
  BY <1>1, <1>2, <1>10, NothingIsFreed
<1> QED BY <1>3, <1>4, <1>11

(***************************************************************************)
(* A slot that opens while callers are parked on its key leaves none of    *)
(* them asleep, unless time opened it or its entry was evicted: a call     *)
(* settled, released, reset or recorded beside them wakes them.            *)
(***************************************************************************)
THEOREM OpenedSlotsAreAnnounced == ServerParts => FreedSlotWakes
<1> DEFINE Announced ==
        \A k \in Keys :
          Limiter!Load(k) = "in_flight" /\ Limiter!Load(k)' = "free" =>
            \/ Limiter!Tick \/ Limiter!Evicts(k)
            \/ \A c \in Callers : call'[c].at = "parked" => call'[c].key # k
<1>1. ServerInit => LimiterInv
  BY LimiterBegins DEF ServerInit
<1>2. [ServerNext]_server_vars => Limiter!Next \/ UNCHANGED limiter_vars
  BY DEF ServerNext, server_vars
<1>3. LimiterInv /\ [ServerNext]_server_vars => LimiterInv'
  BY <1>2, LimiterSteps
<1>4. LimiterInv => Classed
  BY KeysAreClassed
<1>5. LimiterInv /\ LimiterInv' /\ Classed /\ Classed' /\ [ServerNext]_server_vars
        => [Announced]_Limiter!vars
  <2>1. LimiterInv /\ LimiterInv' /\ Classed /\ Classed' /\ Limiter!Next => Announced
    BY FreedIsAnnounced
  <2>2. UNCHANGED limiter_vars => UNCHANGED Limiter!vars
    BY DEF limiter_vars, Limiter!vars
  <2> HIDE DEF Announced
  <2> QED BY <1>2, <2>1, <2>2
<1> QED BY <1>1, <1>3, <1>4, <1>5, PTL
        DEF ServerParts, FreedSlotWakes, Limiter!FreedSlotWakes

=============================================================================
