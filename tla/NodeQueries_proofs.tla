------------------------- MODULE NodeQueries_proofs -------------------------
(***************************************************************************)
(* The interview, for any nodes, questions and bounds.  First what the     *)
(* operators on lists return, then what a handler makes of one node, then  *)
(* the invariants, one step per action.                                    *)
(***************************************************************************)
EXTENDS NodeQueries, SendQueue_proofs, FiniteSetTheorems, SequenceTheorems

\* No item of q is before another that it clashes with, R being the clashing pairs.
Never(q, R) == \A k, l \in DOMAIN q : k < l => <<q[k], q[l]>> \notin R

Distinct(q) == \A k, l \in DOMAIN q : k # l => ~SameItem(q[k], q[l])

\* Items are equal but for retry.
LEMMA SameItemEquivalence ==
  ASSUME NEW i, NEW j, NEW k
  PROVE  /\ SameItem(i, i)
         /\ SameItem(i, j) => SameItem(j, i)
         /\ SameItem(i, j) /\ SameItem(j, k) => SameItem(i, k)
BY DEF SameItem

\* f begins with a and makes each of its values from the one before by G.
Iterates(f, X, a, N, G) ==
  f \in [0 .. N -> X] /\ f[0] = a /\ \A k \in 1 .. N : f[k] = G[<<f[k - 1], k>>]

Iterable(X, N, G) == N \in Nat /\ G \in [X \X (1 .. N) -> X]

LEMMA IterationExists ==
  ASSUME NEW X, NEW a, NEW N, NEW G, a \in X, Iterable(X, N, G)
  PROVE  \E f : Iterates(f, X, a, N, G)
<1> USE DEF Iterable
<1> DEFINE Defined(k) == \E f \in [0 .. k -> X] :
             f[0] = a /\ \A j \in 1 .. k : f[j] = G[<<f[j - 1], j>>]
           P == { k \in Nat : k <= N => Defined(k) }
<1>1. 0 \in P
  <2>1. [j \in 0 .. 0 |-> a] \in [0 .. 0 -> X] /\ [j \in 0 .. 0 |-> a][0] = a /\ 1 .. 0 = {}
    OBVIOUS
  <2>2. Defined(0)
    <3>1. PICK f \in [0 .. 0 -> X] : f[0] = a
      BY <2>1
    <3> QED BY <2>1, <3>1
  <2> QED BY <2>2
<1>2. ASSUME NEW k \in P PROVE k + 1 \in P
  <2>1. SUFFICES ASSUME k + 1 <= N PROVE Defined(k + 1)
    OBVIOUS
  <2>2. PICK g \in [0 .. k -> X] : g[0] = a /\ \A j \in 1 .. k : g[j] = G[<<g[j - 1], j>>]
    BY <2>1
  <2> DEFINE h == [j \in 0 .. k + 1 |-> IF j = k + 1 THEN G[<<g[k], k + 1>>] ELSE g[j]]
  <2>3. g[k] \in X /\ k + 1 \in 1 .. N
    BY <2>1, <2>2
  <2>4. G[<<g[k], k + 1>>] \in X
    BY <2>3
  <2>5. h \in [0 .. k + 1 -> X]
    BY <2>2, <2>4
  <2>6. h[0] = a
    BY <2>2
  <2>7. ASSUME NEW j \in 1 .. k + 1 PROVE h[j] = G[<<h[j - 1], j>>]
    <3>1. j - 1 \in 0 .. k + 1 /\ j - 1 # k + 1 /\ h[j - 1] = g[j - 1]
      OBVIOUS
    <3>2. CASE j = k + 1
      BY <3>1, <3>2
    <3>3. CASE j # k + 1
      BY <2>2, <3>1, <3>3
    <3> QED BY <3>2, <3>3
  <2> HIDE DEF h
  <2> QED BY <2>5, <2>6, <2>7
<1>3. P = Nat
  <2> HIDE DEF P
  <2>1. P \subseteq Nat
    BY DEF P
  <2> QED BY <1>1, <1>2, <2>1, SetInduction
<1>4. Defined(N)
  <2> HIDE DEF Defined
  <2> QED BY <1>3
<1> QED BY <1>4 DEF Iterates

\* The items of a kept list come from the list, in the same order.
LEMMA KeepSub ==
  ASSUME NEW T, NEW q \in Seq(T), NEW S
  PROVE  \E e \in [DOMAIN Keep(q, S) -> DOMAIN q] :
           /\ \A k \in DOMAIN Keep(q, S) : Keep(q, S)[k] = q[e[k]]
           /\ \A k, l \in DOMAIN Keep(q, S) : k < l => e[k] < e[l]
<1>1. PICK f : f[0] = << >> /\ Keep(q, S) = f[Len(q)]
               /\ \A i \in 1 .. Len(q) : f[i] = Step(q, S, f, i)
  BY KeepUnfolds
<1>2. Len(q) \in Nat /\ DOMAIN q = 1 .. Len(q) /\ \A i \in 1 .. Len(q) : q[i] \in T
  OBVIOUS
<1> DEFINE Sub(s, e, k) == /\ e \in [DOMAIN s -> 1 .. k]
                           /\ \A i \in DOMAIN s : s[i] = q[e[i]]
                           /\ \A i, j \in DOMAIN s : i < j => e[i] < e[j]
           Good(k) == f[k] \in Seq(T) /\ \E e : Sub(f[k], e, k)
           P == { k \in Nat : k <= Len(q) => Good(k) }
<1>3. 0 \in P
  <2>1. << >> \in Seq(T) /\ DOMAIN << >> = {} /\ << >> \in [{} -> 1 .. 0]
    OBVIOUS
  <2>2. Sub(f[0], << >>, 0)
    BY <1>1, <2>1
  <2> QED BY <1>1, <2>1, <2>2
<1>4. ASSUME NEW k \in P PROVE k + 1 \in P
  <2>1. SUFFICES ASSUME k + 1 <= Len(q) PROVE Good(k + 1)
    OBVIOUS
  <2>2. k \in Nat /\ k + 1 \in 1 .. Len(q) /\ k + 1 # 0 /\ (k + 1) - 1 = k /\ q[k + 1] \in T
    <3>1. k \in Nat
      OBVIOUS
    <3> HIDE DEF P, Good, Sub
    <3>2. k + 1 \in 1 .. Len(q) /\ k + 1 # 0 /\ (k + 1) - 1 = k
      BY <1>2, <2>1, <3>1
    <3> QED BY <1>2, <3>1, <3>2
  <2>3. PICK s \in Seq(T) : s = f[k]
    BY <1>2, <2>1
  <2>4. PICK e : Sub(s, e, k)
    BY <1>2, <2>1, <2>3
  <2>5. f[k + 1] = IF q[k + 1] \in S THEN Append(s, q[k + 1]) ELSE s
    BY <1>1, <2>2, <2>3 DEF Step
  <2>6. CASE q[k + 1] \in S
    <3> DEFINE a == Append(s, q[k + 1])
               d == [i \in 1 .. Len(s) + 1 |-> IF i = Len(s) + 1 THEN k + 1 ELSE e[i]]
    <3>1. /\ a \in Seq(T) /\ Len(s) \in Nat /\ DOMAIN s = 1 .. Len(s)
          /\ DOMAIN a = 1 .. Len(s) + 1 /\ a[Len(s) + 1] = q[k + 1]
          /\ \A i \in 1 .. Len(s) : a[i] = s[i]
      BY <2>2
    <3> HIDE DEF a
    <3>2. \A i \in 1 .. Len(s) : e[i] \in 1 .. k
      BY <2>4, <3>1
    <3>3. d \in [1 .. Len(s) + 1 -> 1 .. k + 1]
      BY <2>2, <3>1, <3>2
    <3>4. \A i \in 1 .. Len(s) + 1 : d[i] = IF i = Len(s) + 1 THEN k + 1 ELSE e[i]
      OBVIOUS
    <3> HIDE DEF d
    <3>5. \A i \in 1 .. Len(s) + 1 : a[i] = q[d[i]]
      <4>1. TAKE i \in 1 .. Len(s) + 1
      <4>2. CASE i = Len(s) + 1
        BY <3>1, <3>4, <4>2
      <4>3. CASE i \in 1 .. Len(s)
        BY <2>4, <3>1, <3>4, <4>3
      <4> QED BY <3>1, <4>2, <4>3
    <3>6. \A i, j \in 1 .. Len(s) + 1 : i < j => d[i] < d[j]
      <4>1. SUFFICES ASSUME NEW i \in 1 .. Len(s) + 1, NEW j \in 1 .. Len(s) + 1, i < j
                     PROVE  d[i] < d[j]
        OBVIOUS
      <4>2. i \in 1 .. Len(s) /\ d[i] = e[i] /\ e[i] \in 1 .. k
        BY <3>1, <3>2, <3>4, <4>1
      <4>3. CASE j = Len(s) + 1
        BY <2>2, <3>4, <4>2, <4>3
      <4>4. CASE j \in 1 .. Len(s)
        <5>1. j # Len(s) + 1 /\ d[j] = e[j]
          BY <3>1, <3>4, <4>4
        <5>2. i \in DOMAIN s /\ j \in DOMAIN s
          BY <3>1, <4>2, <4>4
        <5>3. e[i] < e[j]
          BY <2>4, <4>1, <5>2
        <5> QED BY <4>2, <5>1, <5>3
      <4> QED BY <3>1, <4>3, <4>4
    <3>7. Sub(a, d, k + 1)
      BY <3>1, <3>3, <3>5, <3>6
    <3>8. f[k + 1] = a
      BY <2>5, <2>6 DEF a
    <3> QED BY <3>1, <3>7, <3>8
  <2>7. CASE q[k + 1] \notin S
    <3>1. Sub(s, e, k + 1)
      BY <2>2, <2>4
    <3> QED BY <2>5, <2>7, <3>1
  <2> QED BY <2>6, <2>7
<1>5. P = Nat
  <2> HIDE DEF P
  <2>1. P \subseteq Nat
    BY DEF P
  <2> QED BY <1>3, <1>4, <2>1, SetInduction
<1>6. Good(Len(q))
  <2> HIDE DEF Good
  <2> QED BY <1>2, <1>5
<1> QED BY <1>1, <1>2, <1>6

LEMMA NeverTail ==
  ASSUME NEW T, NEW q \in Seq(T), q # << >>, NEW R, Never(q, R)
  PROVE  /\ Never(Tail(q), R)
         /\ \A x \in Range(Tail(q)) : <<Head(q), x>> \notin R
<1>1. /\ Len(q) \in Nat /\ Len(q) > 0 /\ DOMAIN q = 1 .. Len(q)
      /\ Head(q) = q[1] /\ DOMAIN Tail(q) = 1 .. Len(q) - 1
      /\ \A i \in 1 .. Len(q) - 1 : Tail(q)[i] = q[i + 1]
  OBVIOUS
<1> DEFINE t == Tail(q)
<1> HIDE DEF t
<1>2. \A i \in DOMAIN t : i + 1 \in DOMAIN q /\ 1 < i + 1 /\ t[i] = q[i + 1]
  BY <1>1 DEF t
<1>3. 1 \in DOMAIN q
  BY <1>1
<1>4. \A x \in Range(t) : <<Head(q), x>> \notin R
  BY <1>1, <1>2, <1>3 DEF Range, Never
<1>5. ASSUME NEW k \in DOMAIN t, NEW l \in DOMAIN t, k < l PROVE <<t[k], t[l]>> \notin R
  <2>1. k + 1 < l + 1
    BY <1>1, <1>5 DEF t
  <2> QED BY <1>2, <2>1 DEF Never
<1>6. Never(t, R)
  BY <1>5 DEF Never
<1> QED BY <1>4, <1>6 DEF t

LEMMA NeverConcat ==
  ASSUME NEW T, NEW p \in Seq(T), NEW q \in Seq(T), NEW R, Never(p, R), Never(q, R),
         \A x \in Range(p), y \in Range(q) : <<x, y>> \notin R
  PROVE  Never(p \o q, R)
<1>1. /\ Len(p) \in Nat /\ Len(q) \in Nat
      /\ DOMAIN (p \o q) = 1 .. Len(p) + Len(q) /\ DOMAIN p = 1 .. Len(p) /\ DOMAIN q = 1 .. Len(q)
      /\ \A i \in 1 .. Len(p) + Len(q) : (p \o q)[i] = IF i <= Len(p) THEN p[i] ELSE q[i - Len(p)]
  OBVIOUS
<1> DEFINE c == p \o q
<1> HIDE DEF c
<1>2. \A i \in DOMAIN c : \/ i \in DOMAIN p /\ c[i] = p[i]
                          \/ i > Len(p) /\ i - Len(p) \in DOMAIN q /\ c[i] = q[i - Len(p)]
  BY <1>1 DEF c
<1>3. ASSUME NEW k \in DOMAIN c, NEW l \in DOMAIN c, k < l PROVE <<c[k], c[l]>> \notin R
  <2>1. CASE k \in DOMAIN p /\ c[k] = p[k] /\ l \in DOMAIN p /\ c[l] = p[l]
    BY <1>3, <2>1 DEF Never
  <2>2. CASE /\ k > Len(p) /\ k - Len(p) \in DOMAIN q /\ c[k] = q[k - Len(p)]
             /\ l > Len(p) /\ l - Len(p) \in DOMAIN q /\ c[l] = q[l - Len(p)]
    <3>1. k - Len(p) < l - Len(p)
      BY <1>1, <1>3 DEF c
    <3> QED BY <2>2, <3>1 DEF Never
  <2>3. CASE /\ k \in DOMAIN p /\ c[k] = p[k]
             /\ l - Len(p) \in DOMAIN q /\ c[l] = q[l - Len(p)]
    BY <2>3 DEF Range
  <2>4. ~(k > Len(p) /\ l \in DOMAIN p)
    BY <1>1, <1>3 DEF c
  <2> QED BY <1>2, <2>1, <2>2, <2>3, <2>4
<1> QED BY <1>3 DEF Never, c

LEMMA NeverKeep ==
  ASSUME NEW T, NEW q \in Seq(T), NEW S, NEW R, Never(q, R)
  PROVE  Never(Keep(q, S), R)
<1>1. PICK e \in [DOMAIN Keep(q, S) -> DOMAIN q] :
             /\ \A k \in DOMAIN Keep(q, S) : Keep(q, S)[k] = q[e[k]]
             /\ \A k, l \in DOMAIN Keep(q, S) : k < l => e[k] < e[l]
  BY KeepSub
<1> QED BY <1>1 DEF Never

LEMMA DistinctKeep ==
  ASSUME NEW q \in Seq(Items), NEW S, Distinct(q)
  PROVE  Distinct(Keep(q, S))
<1>1. PICK e \in [DOMAIN Keep(q, S) -> DOMAIN q] :
             /\ \A k \in DOMAIN Keep(q, S) : Keep(q, S)[k] = q[e[k]]
             /\ \A k, l \in DOMAIN Keep(q, S) : k < l => e[k] < e[l]
  BY KeepSub
<1>2. Keep(q, S) \in Seq(Items \cap S)
  BY KeepList
<1>3. ASSUME NEW k \in DOMAIN Keep(q, S), NEW l \in DOMAIN Keep(q, S), k # l
      PROVE  ~SameItem(Keep(q, S)[k], Keep(q, S)[l])
  <2>1. k \in Nat /\ l \in Nat /\ e[k] \in Nat /\ e[l] \in Nat
    BY <1>1, <1>2
  <2>2. e[k] # e[l]
    BY <1>1, <1>3, <2>1
  <2> QED BY <1>1, <2>2 DEF Distinct
<1> QED BY <1>3 DEF Distinct

-----------------------------------------------------------------------------
\* Parking an item.
LEMMA ParkOne ==
  ASSUME NEW p \in Seq(Items), NEW i \in Items
  PROVE  /\ Park(p, i) \in Seq(Items)
         /\ Range(Park(p, i)) = { j \in Range(p) : ~SameItem(i, j) } \cup {i}
         /\ Distinct(p) => Distinct(Park(p, i))
<1> DEFINE S == { j \in Items : ~SameItem(i, j) }
           s == Keep(p, S)
<1>1. s \in Seq(Items \cap S) /\ Range(s) = Range(p) \cap S
  BY KeepList
<1>2. s \in Seq(Items)
  BY <1>1
<1>3. Range(p) \subseteq Items
  BY DEF Range
<1>4. Distinct(p) => Distinct(s)
  BY DistinctKeep
<1>5. \A x \in Range(s) : ~SameItem(i, x)
  BY <1>1
<1>6. Range(s) = { j \in Range(p) : ~SameItem(i, j) }
  BY <1>1, <1>3
<1>7. Park(p, i) = Append(s, i)
  BY DEF Park
<1> HIDE DEF s, S
<1>8. Append(s, i) \in Seq(Items) /\ Range(Append(s, i)) = Range(s) \cup {i}
  BY <1>2, AppendItem
<1>9. ASSUME Distinct(s) PROVE Distinct(Append(s, i))
  <2>1. /\ DOMAIN Append(s, i) = 1 .. Len(s) + 1 /\ DOMAIN s = 1 .. Len(s) /\ Len(s) \in Nat
        /\ Append(s, i)[Len(s) + 1] = i
        /\ \A k \in 1 .. Len(s) : Append(s, i)[k] = s[k]
    BY <1>2
  <2> DEFINE a == Append(s, i)
  <2> HIDE DEF a
  <2>2. \A k \in DOMAIN a : \/ k = Len(s) + 1 /\ a[k] = i
                            \/ k \in DOMAIN s /\ a[k] = s[k] /\ a[k] \in Range(s)
    BY <2>1 DEF a, Range
  <2>3. ASSUME NEW k \in DOMAIN a, NEW l \in DOMAIN a, k # l PROVE ~SameItem(a[k], a[l])
    BY <1>5, <1>9, <2>2, <2>3, SameItemEquivalence DEF Distinct
  <2> QED BY <2>3 DEF Distinct, a
<1> QED BY <1>4, <1>6, <1>7, <1>8, <1>9

\* The list after the first k items of s were parked on p.
LEMMA ParkAllUnfolds ==
  ASSUME NEW p \in Seq(Items), NEW s \in Seq(Items)
  PROVE  \E f : /\ f[0] = p /\ ParkAll(p, s) = f[Len(s)]
                /\ \A k \in 1 .. Len(s) : f[k] = Park(f[k - 1], s[k])
<1> DEFINE N == Len(s)
           parked == CHOOSE f : f = [k \in 0 .. N |-> IF k = 0 THEN p ELSE Park(f[k - 1], s[k])]
           G == [x \in Seq(Items) \X (1 .. N) |-> Park(x[1], s[x[2]])]
<1>1. N \in Nat /\ \A k \in 1 .. N : s[k] \in Items
  OBVIOUS
<1>2. G \in [Seq(Items) \X (1 .. N) -> Seq(Items)]
  BY <1>1, ParkOne
<1>3. PICK g \in [0 .. N -> Seq(Items)] : g[0] = p /\ \A k \in 1 .. N : g[k] = G[<<g[k - 1], k>>]
  <2> HIDE DEF N, G
  <2>1. Iterable(Seq(Items), N, G)
    BY <1>1, <1>2 DEF Iterable
  <2>2. \E g : Iterates(g, Seq(Items), p, N, G)
    BY <2>1, IterationExists
  <2> QED BY <2>2 DEF Iterates
<1>4. \A k \in 1 .. N : g[k] = Park(g[k - 1], s[k])
  <2>1. \A k \in 1 .. N : g[k - 1] \in Seq(Items)
    BY <1>1, <1>3
  <2> QED BY <1>3, <2>1
<1>5. g = [k \in 0 .. N |-> IF k = 0 THEN p ELSE Park(g[k - 1], s[k])]
  <2>1. \A k \in 0 .. N : k = 0 \/ k \in 1 .. N
    BY <1>1
  <2>2. \A k \in 0 .. N : g[k] = IF k = 0 THEN p ELSE Park(g[k - 1], s[k])
    BY <1>3, <1>4, <2>1
  <2> HIDE DEF N
  <2> QED BY <1>3, <2>2
<1>6. parked = [k \in 0 .. N |-> IF k = 0 THEN p ELSE Park(parked[k - 1], s[k])]
  BY <1>5
<1>7. ParkAll(p, s) = parked[N]
  BY DEF ParkAll, parked
<1> HIDE DEF parked
<1>8. \A k \in 0 .. N : parked[k] = IF k = 0 THEN p ELSE Park(parked[k - 1], s[k])
  BY <1>6
<1>9. 0 \in 0 .. N /\ \A k \in 1 .. N : k \in 0 .. N /\ k # 0
  BY <1>1
<1>10. parked[0] = p
  BY <1>8, <1>9
<1>11. \A k \in 1 .. N : parked[k] = Park(parked[k - 1], s[k])
  BY <1>8, <1>9
<1> QED BY <1>7, <1>10, <1>11

\* What is parked after the items of s: nothing else than before and s, and an equal
\* of each of them.
LEMMA ParkAllList ==
  ASSUME NEW p \in Seq(Items), NEW s \in Seq(Items)
  PROVE  /\ ParkAll(p, s) \in Seq(Items)
         /\ Range(ParkAll(p, s)) \subseteq Range(p) \cup Range(s)
         /\ \A x \in Range(p) \cup Range(s) : \E y \in Range(ParkAll(p, s)) : SameItem(x, y)
         /\ Distinct(p) => Distinct(ParkAll(p, s))
<1>1. PICK f : /\ f[0] = p /\ ParkAll(p, s) = f[Len(s)]
               /\ \A k \in 1 .. Len(s) : f[k] = Park(f[k - 1], s[k])
  BY ParkAllUnfolds
<1> DEFINE First(k) == { s[j] : j \in 1 .. k }
           Good(k) == /\ f[k] \in Seq(Items)
                      /\ Range(f[k]) \subseteq Range(p) \cup First(k)
                      /\ \A x \in Range(p) \cup First(k) : \E y \in Range(f[k]) : SameItem(x, y)
                      /\ Distinct(p) => Distinct(f[k])
           P == { k \in Nat : k <= Len(s) => Good(k) }
<1>2. Len(s) \in Nat /\ DOMAIN s = 1 .. Len(s) /\ \A k \in 1 .. Len(s) : s[k] \in Items
  OBVIOUS
<1>3. Good(0)
  <2>1. First(0) = {}
    OBVIOUS
  <2> HIDE DEF First
  <2> QED BY <1>1, <2>1, SameItemEquivalence
<1>4. ASSUME NEW k \in Nat, k + 1 <= Len(s), Good(k) PROVE Good(k + 1)
  <2>1. k + 1 \in 1 .. Len(s) /\ (k + 1) - 1 = k
    BY <1>2, <1>4
  <2>2. First(k + 1) = First(k) \cup {s[k + 1]}
    <3>1. \A j : j \in 1 .. k + 1 <=> j \in 1 .. k \/ j = k + 1
      OBVIOUS
    <3> QED BY <3>1
  <2>3. PICK i \in Items : i = s[k + 1]
    BY <1>2, <2>1
  <2>4. PICK l \in Seq(Items) : l = f[k]
    BY <1>4
  <2>5. f[k + 1] = Park(l, i)
    BY <1>1, <2>1, <2>3, <2>4
  <2>6. /\ Park(l, i) \in Seq(Items)
        /\ Range(Park(l, i)) = { j \in Range(l) : ~SameItem(i, j) } \cup {i}
        /\ Distinct(l) => Distinct(Park(l, i))
    BY ParkOne
  <2> HIDE DEF First
  <2>7. Range(f[k + 1]) \subseteq Range(p) \cup First(k + 1)
    BY <1>4, <2>2, <2>3, <2>4, <2>5, <2>6
  <2>8. ASSUME NEW x \in Range(p) \cup First(k + 1)
        PROVE  \E y \in Range(f[k + 1]) : SameItem(x, y)
    <3>1. CASE x = i
      BY <2>5, <2>6, <3>1, SameItemEquivalence
    <3>2. CASE x \in Range(p) \cup First(k)
      <4>1. PICK y \in Range(l) : SameItem(x, y)
        BY <1>4, <2>4, <3>2
      <4>2. y \in Range(Park(l, i)) \/ SameItem(i, y)
        BY <2>6
      <4>3. SameItem(i, y) => SameItem(x, i)
        BY <4>1, SameItemEquivalence
      <4> QED BY <2>5, <2>6, <4>1, <4>2, <4>3
    <3> QED BY <2>2, <2>3, <3>1, <3>2
  <2> QED BY <1>4, <2>4, <2>5, <2>6, <2>7, <2>8
<1>5. P = Nat
  <2>1. P \subseteq Nat
    OBVIOUS
  <2>2. 0 \in P
    BY <1>3
  <2>3. \A k \in P : k + 1 \in P
    <3> HIDE DEF Good
    <3>1. TAKE k \in P
    <3>2. k \in Nat /\ k + 1 \in Nat /\ (k + 1 <= Len(s) => k <= Len(s))
      BY <1>2
    <3> QED BY <1>4, <3>2
  <2> HIDE DEF P
  <2> QED BY <2>1, <2>2, <2>3, SetInduction
<1>6. Good(Len(s))
  <2> HIDE DEF Good
  <2> QED BY <1>2, <1>5
<1>7. First(Len(s)) = Range(s)
  BY <1>2 DEF Range
<1> HIDE DEF First
<1> QED BY <1>1, <1>6, <1>7

-----------------------------------------------------------------------------
\* The lists of ss up to the k-th, one behind another.
LEMMA ConcatUnfolds ==
  ASSUME NEW T, NEW ss \in Seq(Seq(T))
  PROVE  \E f : /\ f[0] = << >> /\ Concat(ss) = f[Len(ss)]
                /\ \A k \in 1 .. Len(ss) : f[k] = f[k - 1] \o ss[k]
<1> DEFINE N == Len(ss)
           joined == CHOOSE f : f = [k \in 0 .. N |-> IF k = 0 THEN << >> ELSE f[k - 1] \o ss[k]]
           G == [x \in Seq(T) \X (1 .. N) |-> x[1] \o ss[x[2]]]
<1>1. N \in Nat /\ << >> \in Seq(T) /\ \A k \in 1 .. N : ss[k] \in Seq(T)
  OBVIOUS
<1>2. G \in [Seq(T) \X (1 .. N) -> Seq(T)]
  <2>1. \A x \in Seq(T) \X (1 .. N) : x[1] \in Seq(T) /\ ss[x[2]] \in Seq(T)
    BY <1>1
  <2>2. \A p, q \in Seq(T) : p \o q \in Seq(T)
    OBVIOUS
  <2> QED BY <2>1, <2>2
<1>3. PICK g \in [0 .. N -> Seq(T)] : g[0] = << >> /\ \A k \in 1 .. N : g[k] = G[<<g[k - 1], k>>]
  <2> HIDE DEF N, G
  <2>1. Iterable(Seq(T), N, G)
    BY <1>1, <1>2 DEF Iterable
  <2>2. \E g : Iterates(g, Seq(T), << >>, N, G)
    BY <1>1, <2>1, IterationExists
  <2> QED BY <2>2 DEF Iterates
<1>4. \A k \in 1 .. N : g[k] = g[k - 1] \o ss[k]
  <2>1. ASSUME NEW k \in 1 .. N PROVE g[k] = g[k - 1] \o ss[k]
    <3>1. k - 1 \in 0 .. N
      BY <1>1
    <3>2. g[k - 1] \in Seq(T)
      <4> HIDE DEF N, G
      <4> QED BY <1>3, <3>1
    <3>3. <<g[k - 1], k>> \in Seq(T) \X (1 .. N)
      BY <3>2
    <3> QED BY <1>3, <3>3
  <2> QED BY <2>1
<1>5. g = [k \in 0 .. N |-> IF k = 0 THEN << >> ELSE g[k - 1] \o ss[k]]
  <2>1. \A k \in 0 .. N : k = 0 \/ k \in 1 .. N
    BY <1>1
  <2>2. \A k \in 0 .. N : g[k] = IF k = 0 THEN << >> ELSE g[k - 1] \o ss[k]
    BY <1>3, <1>4, <2>1
  <2> HIDE DEF N
  <2> QED BY <1>3, <2>2
<1>6. joined = [k \in 0 .. N |-> IF k = 0 THEN << >> ELSE joined[k - 1] \o ss[k]]
  BY <1>5
<1>7. Concat(ss) = joined[N]
  BY DEF Concat, joined
<1> HIDE DEF joined
<1>8. \A k \in 0 .. N : joined[k] = IF k = 0 THEN << >> ELSE joined[k - 1] \o ss[k]
  BY <1>6
<1>9. 0 \in 0 .. N /\ \A k \in 1 .. N : k \in 0 .. N /\ k # 0
  BY <1>1
<1>10. joined[0] = << >>
  BY <1>8, <1>9
<1>11. \A k \in 1 .. N : joined[k] = joined[k - 1] \o ss[k]
  BY <1>8, <1>9
<1> QED BY <1>7, <1>10, <1>11

\* The items of the lists of ss, in their order.
LEMMA Concatenated ==
  ASSUME NEW T, NEW ss \in Seq(Seq(T))
  PROVE  /\ Concat(ss) \in Seq(T)
         /\ Range(Concat(ss)) = UNION { Range(ss[k]) : k \in 1 .. Len(ss) }
         /\ \A R : /\ \A k \in 1 .. Len(ss) : Never(ss[k], R)
                   /\ \A j, k \in 1 .. Len(ss) : j < k =>
                        \A x \in Range(ss[j]), y \in Range(ss[k]) : <<x, y>> \notin R
                   => Never(Concat(ss), R)
<1>1. PICK f : /\ f[0] = << >> /\ Concat(ss) = f[Len(ss)]
               /\ \A k \in 1 .. Len(ss) : f[k] = f[k - 1] \o ss[k]
  BY ConcatUnfolds
<1> DEFINE N == Len(ss)
           First(k) == UNION { Range(ss[j]) : j \in 1 .. k }
           Apart(R) == /\ \A k \in 1 .. N : Never(ss[k], R)
                       /\ \A j, k \in 1 .. N : j < k =>
                            \A x \in Range(ss[j]), y \in Range(ss[k]) : <<x, y>> \notin R
           Good(k) == /\ f[k] \in Seq(T)
                      /\ Range(f[k]) = First(k)
                      /\ \A R : Apart(R) => Never(f[k], R)
           P == { k \in Nat : k <= N => Good(k) }
<1>2. N \in Nat /\ \A k \in 1 .. N : ss[k] \in Seq(T)
  OBVIOUS
<1>3. Good(0)
  <2>1. << >> \in Seq(T) /\ DOMAIN << >> = {} /\ First(0) = {}
    OBVIOUS
  <2> HIDE DEF First
  <2> QED BY <1>1, <2>1 DEF Range, Never
<1>4. ASSUME NEW k \in Nat, k + 1 <= N, Good(k) PROVE Good(k + 1)
  <2>1. k + 1 \in 1 .. N /\ (k + 1) - 1 = k
    BY <1>2, <1>4
  <2>2. First(k + 1) = First(k) \cup Range(ss[k + 1])
    <3>1. \A j : j \in 1 .. k + 1 <=> j \in 1 .. k \/ j = k + 1
      OBVIOUS
    <3> QED BY <3>1
  <2>3. PICK s \in Seq(T) : s = ss[k + 1]
    BY <1>2, <2>1
  <2>4. PICK l \in Seq(T) : l = f[k]
    BY <1>4
  <2>5. f[k + 1] = l \o s
    BY <1>1, <2>1, <2>3, <2>4
  <2>6. l \o s \in Seq(T) /\ Range(l \o s) = Range(l) \cup Range(s)
    BY ConcatList
  <2>7. ASSUME NEW R, Apart(R) PROVE Never(f[k + 1], R)
    <3>1. Never(l, R) /\ Never(s, R)
      BY <1>4, <2>1, <2>3, <2>4, <2>7
    <3>2. ASSUME NEW x \in Range(l), NEW y \in Range(s) PROVE <<x, y>> \notin R
      <4>1. PICK j \in 1 .. k : x \in Range(ss[j])
        BY <1>4, <2>4, <3>2
      <4>2. j \in 1 .. N /\ j < k + 1
        BY <1>2, <1>4, <4>1
      <4> QED BY <2>1, <2>3, <2>7, <4>1, <4>2
    <3> QED BY <2>5, <3>1, <3>2, NeverConcat
  <2> HIDE DEF First, Apart
  <2> QED BY <1>4, <2>2, <2>3, <2>4, <2>5, <2>6, <2>7
<1>5. P = Nat
  <2>1. P \subseteq Nat
    OBVIOUS
  <2>2. 0 \in P
    BY <1>3
  <2>3. \A k \in P : k + 1 \in P
    <3> HIDE DEF Good
    <3>1. TAKE k \in P
    <3>2. k \in Nat /\ k + 1 \in Nat /\ (k + 1 <= N => k <= N)
      BY <1>2
    <3> QED BY <1>4, <3>2
  <2> HIDE DEF P
  <2> QED BY <2>1, <2>2, <2>3, SetInduction
<1>6. Good(N)
  <2> HIDE DEF Good
  <2> QED BY <1>2, <1>5
<1> QED BY <1>1, <1>6

\* SetToSeq lists the nodes, each once.
LEMMA NodesListed ==
  /\ SetToSeq(Node) \in [1 .. Cardinality(Node) -> Node]
  /\ Cardinality(Node) \in Nat
  /\ Range(SetToSeq(Node)) = Node
  /\ IsInjective(SetToSeq(Node))
<1> DEFINE N == Cardinality(Node)
           ids == SetToSeq(Node)
<1>1. IsFiniteSet(Node)
  BY NodeQueriesAssumption
<1>2. N \in Nat /\ ExistsBijection(1 .. N, Node)
  BY <1>1, FS_CardinalityType
<1>3. PICK g \in [1 .. N -> Node] : IsInjective(g)
  BY <1>2 DEF ExistsBijection, Bijection, Injection, IsInjective
<1>4. ids \in [1 .. N -> Node] /\ IsInjective(ids)
  BY <1>3 DEF SetToSeq
<1>5. ids \in Injection(1 .. N, Node)
  <2> HIDE DEF N, ids
  <2>1. DOMAIN ids = 1 .. N
    BY <1>4
  <2> QED BY <1>4, <2>1 DEF Injection, IsInjective
<1>6. IsFiniteSet(1 .. N) /\ Cardinality(1 .. N) = N
  BY <1>2, FS_Interval
<1>7. ids \in Surjection(1 .. N, Node)
  <2> HIDE DEF ids
  <2> QED BY <1>1, <1>5, <1>6, FS_Injection
<1>8. Range(ids) = Node
  <2> HIDE DEF N, ids
  <2>1. DOMAIN ids = 1 .. N /\ \A n \in Node : \E k \in 1 .. N : ids[k] = n
    BY <1>4, <1>7 DEF Surjection
  <2> QED BY <1>4, <2>1 DEF Range
<1> QED BY <1>2, <1>4, <1>8

LEMMA SmallestExists ==
  ASSUME NEW S, S \subseteq Nat, S # {}
  PROVE  Min(S) \in S
<1>1. PICK x \in S : \A y \in S : ~ (<<y, x>> \in Less)
  BY LessWellFounded, WFMin
<1>2. \A y \in S : x <= y
  <2>1. SUFFICES ASSUME NEW y \in S, y < x PROVE FALSE
    OBVIOUS
  <2>2. <<y, x>> \in Nat \X Nat /\ <<y, x>>[1] = y /\ <<y, x>>[2] = x
    BY <1>1
  <2> QED BY <1>1, <2>1, <2>2 DEF Less
<1> QED BY <1>1, <1>2 DEF Min

IsMarker(i, n) == i.kind = "marker" /\ i.node = n

IsQuestion(i, n) == i.kind = "question" /\ i.node = n

\* The same items, but that some markers of the node n may be marked for retry.
Marked(q, n, m) ==
  /\ m \in Seq(Items) /\ DOMAIN m = DOMAIN q
  /\ \A k \in DOMAIN q : SameItem(q[k], m[k]) /\ (m[k] = q[k] \/ IsMarker(q[k], n))

LEMMA ItemFields ==
  ASSUME NEW i \in Items
  PROVE  /\ i.kind \in {"question", "marker", "sleep"} /\ i.node \in Node
         /\ i.stage \in Stages /\ i.retry \in BOOLEAN
BY DEF Items

LEMMA NewItems ==
  ASSUME NEW n \in Node, NEW s \in Stages
  PROVE  /\ Question(n, s) \in Items /\ Marker(n, s) \in Items /\ GoToSleep(n) \in Items
         /\ IsQuestion(Question(n, s), n) /\ Question(n, s).stage = s
         /\ IsMarker(Marker(n, s), n) /\ Marker(n, s).stage = s /\ ~Marker(n, s).retry
         /\ GoToSleep(n).kind = "sleep" /\ GoToSleep(n).node = n
<1>1. None \in Stages
  BY DEF Stages, None, Complete
<1> QED BY <1>1 DEF Question, Marker, GoToSleep, Items, IsQuestion, IsMarker

\* Retrying changes no more than the flag of one marker.
LEMMA RetryMarks ==
  ASSUME NEW q \in Seq(Items), NEW n \in Node, NEW s \in Stages
  PROVE  Marked(q, n, MarkRetry(q, n, s))
<1> DEFINE at == { k \in DOMAIN q : SameItem(q[k], Marker(n, s)) }
<1>1. DOMAIN q = 1 .. Len(q) /\ Len(q) \in Nat /\ \A k \in DOMAIN q : q[k] \in Items
  OBVIOUS
<1>2. CASE at = {}
  <2>1. MarkRetry(q, n, s) = q
    BY <1>2 DEF MarkRetry
  <2> QED BY <2>1, SameItemEquivalence DEF Marked
<1>3. CASE at # {}
  <2>1. at \subseteq Nat
    BY <1>1
  <2>2. PICK l \in at : l = Min(at)
    <3> HIDE DEF at
    <3> QED BY <1>3, <2>1, SmallestExists
  <2>3. l \in DOMAIN q /\ SameItem(q[l], Marker(n, s)) /\ q[l] \in Items
    BY <1>1
  <2>4. PICK x : x = [q[l] EXCEPT !.retry = TRUE]
    OBVIOUS
  <2>5. x \in Items /\ x.kind = q[l].kind /\ x.node = q[l].node /\ x.stage = q[l].stage
    BY <2>3, <2>4 DEF Items
  <2>6. MarkRetry(q, n, s) = [q EXCEPT ![l] = x]
    <3>1. MarkRetry(q, n, s) = [q EXCEPT ![Min(at)].retry = TRUE]
      BY <1>3 DEF MarkRetry
    <3> HIDE DEF at
    <3> QED BY <2>2, <2>3, <2>4, <3>1
  <2>7. IsMarker(q[l], n)
    BY <2>3 DEF SameItem, Marker, IsMarker
  <2> DEFINE m == [q EXCEPT ![l] = x]
  <2>8. m \in Seq(Items) /\ DOMAIN m = DOMAIN q
    BY <1>1, <2>3, <2>5
  <2>9. \A k \in DOMAIN q : m[k] = IF k = l THEN x ELSE q[k]
    BY <2>3
  <2>10. SameItem(q[l], x)
    BY <2>5 DEF SameItem
  <2> HIDE DEF m, at
  <2>11. ASSUME NEW k \in DOMAIN q
         PROVE  SameItem(q[k], m[k]) /\ (m[k] = q[k] \/ IsMarker(q[k], n))
    BY <2>7, <2>9, <2>10, SameItemEquivalence
  <2>12. Marked(q, n, m)
    BY <2>8, <2>11 DEF Marked
  <2> QED BY <2>6, <2>12 DEF m
<1> QED BY <1>2, <1>3

\* What markers marked for retry mean for the items of a list.
LEMMA MarkedRange ==
  ASSUME NEW q \in Seq(Items), NEW n \in Node, NEW m, Marked(q, n, m)
  PROVE  /\ \A x \in Range(q) : \E y \in Range(m) : SameItem(x, y)
         /\ \A y \in Range(m) : \E x \in Range(q) : SameItem(x, y)
         /\ \A x \in Range(q) : ~IsMarker(x, n) => x \in Range(m)
         /\ \A y \in Range(m) : ~IsMarker(y, n) => y \in Range(q)
BY DEF Marked, Range, SameItem, IsMarker

-----------------------------------------------------------------------------
\* A node while a handler is at work.
Rec == [stage : Stages, pending : BOOLEAN, retries : 0 .. ProbeAttempts - 1,
        info : BOOLEAN, alive : BOOLEAN, errors : 0 .. DeadAfter, awake : BOOLEAN,
        parked : Seq(Items), early : Seq(Items), late : Seq(Items), check : BOOLEAN]

\* The item i is on its way: in the queue it belongs to, or parked.
Put(n, r, i, a) ==
  IF Asleep(n, r) THEN a.parked = Park(r.parked, i) /\ a.early = r.early /\ a.late = r.late
  ELSE /\ a.parked = r.parked
       /\ IF Early(i) THEN a.early = Append(r.early, i) /\ a.late = r.late
          ELSE a.early = r.early /\ a.late = Append(r.late, i)

SameLists(r, a) == a.parked = r.parked /\ a.early = r.early /\ a.late = r.late

SameStatus(r, a) ==
  a.info = r.info /\ a.alive = r.alive /\ a.awake = r.awake /\ a.errors = r.errors

\* Questions for the stage s were sent, and there is no marker behind them yet.
Questioned(n, r, s, a) ==
  /\ a \in Rec /\ SameStatus(r, a)
  /\ a.stage = s /\ a.pending /\ a.check = r.check
  /\ Put(n, r, Question(n, s), a)

\* There was nothing left to ask; the neighbors, at least, are always asked for.
Finished(r, a) ==
  /\ a \in Rec /\ SameStatus(r, a) /\ SameLists(r, a)
  /\ a.stage = Complete /\ ~a.pending /\ r.stage > Neighbors

LEMMA RecFields ==
  ASSUME NEW r \in Rec
  PROVE  /\ r.stage \in Stages /\ r.pending \in BOOLEAN /\ r.retries \in 0 .. ProbeAttempts - 1
         /\ r.info \in BOOLEAN /\ r.alive \in BOOLEAN /\ r.errors \in 0 .. DeadAfter
         /\ r.awake \in BOOLEAN /\ r.check \in BOOLEAN
         /\ r.parked \in Seq(Items) /\ r.early \in Seq(Items) /\ r.late \in Seq(Items)
BY DEF Rec

LEMMA SendItem ==
  ASSUME NEW n \in Node, NEW r \in Rec, NEW i \in Items
  PROVE  /\ Send(n, r, i) \in Rec /\ SameStatus(r, Send(n, r, i)) /\ Put(n, r, i, Send(n, r, i))
         /\ Send(n, r, i).stage = r.stage /\ Send(n, r, i).pending = r.pending
         /\ Send(n, r, i).check = r.check
<1>1. r.parked \in Seq(Items) /\ r.early \in Seq(Items) /\ r.late \in Seq(Items)
  BY RecFields
<1>2. Park(r.parked, i) \in Seq(Items)
  BY <1>1, ParkOne
<1>3. Append(r.early, i) \in Seq(Items) /\ Append(r.late, i) \in Seq(Items)
  BY <1>1
<1>4. CASE Asleep(n, r)
  <2>1. Send(n, r, i) = [r EXCEPT !.parked = Park(r.parked, i)]
    BY <1>4 DEF Send
  <2> QED BY <1>2, <1>4, <2>1 DEF Rec, SameStatus, Put
<1>5. CASE ~Asleep(n, r) /\ Early(i)
  <2>1. Send(n, r, i) = [r EXCEPT !.early = Append(r.early, i)]
    BY <1>5 DEF Send
  <2> QED BY <1>3, <1>5, <2>1 DEF Rec, SameStatus, Put
<1>6. CASE ~Asleep(n, r) /\ ~Early(i)
  <2>1. Send(n, r, i) = [r EXCEPT !.late = Append(r.late, i)]
    BY <1>6 DEF Send
  <2> QED BY <1>3, <1>6, <2>1 DEF Rec, SameStatus, Put
<1> QED BY <1>4, <1>5, <1>6

AskedAt(n, r, s, a) ==
  /\ a \in Rec /\ SameStatus(r, a)
  /\ a.stage = s /\ a.pending /\ a.check = r.check
  /\ \E b : Questioned(n, r, s, b) /\ Put(n, b, Marker(n, s), a)

Advanced(n, r, a) ==
  \/ (r.pending \/ ~r.alive) /\ a = r
  \/ /\ r.alive /\ ~r.pending
     /\ \E s \in Stages \ {Complete} : r.stage <= s /\ AskedAt(n, r, s, a)
  \/ r.alive /\ ~r.pending /\ Finished(r, a)

LEMMA GoToStage ==
  ASSUME NEW r \in Rec, NEW s \in Stages
  PROVE  /\ GoTo(r, s) \in Rec /\ SameStatus(r, GoTo(r, s)) /\ SameLists(r, GoTo(r, s))
         /\ GoTo(r, s).stage = s /\ GoTo(r, s).pending = r.pending /\ GoTo(r, s).check = r.check
<1>1. CASE s = r.stage
  BY <1>1 DEF GoTo, SameStatus, SameLists
<1>2. CASE s # r.stage
  <2>1. GoTo(r, s) = [r EXCEPT !.stage = s, !.retries = 0]
    BY <1>2 DEF GoTo
  <2>2. 0 \in 0 .. ProbeAttempts - 1
    BY DEF ProbeAttempts
  <2> QED BY <2>1, <2>2 DEF Rec, SameStatus, SameLists
<1> QED BY <1>1, <1>2

LEMMA StagesOrdered ==
  /\ Stages = 0 .. 18
  /\ None = 0 /\ ProtocolInfo = 1 /\ Probe = 2 /\ WakeUp = 3 /\ NodeInfo = 5
  /\ SecurityReport = 7 /\ ManufacturerSpecific2 = 8 /\ CacheLoad = 12 /\ Neighbors = 14
  /\ Dynamic = 16 /\ Complete = 18
<1>1. Stages = 0 .. 18
  BY DEF Stages, None, Complete
<1>2. None = 0 /\ ProtocolInfo = 1 /\ Probe = 2 /\ WakeUp = 3
  BY DEF None, ProtocolInfo, Probe, WakeUp
<1>3. NodeInfo = 5 /\ SecurityReport = 7 /\ ManufacturerSpecific2 = 8
  BY DEF NodeInfo, SecurityReport, ManufacturerSpecific2
<1>4. CacheLoad = 12 /\ Neighbors = 14 /\ Dynamic = 16 /\ Complete = 18
  BY DEF CacheLoad, Neighbors, Dynamic, Complete
<1> QED BY <1>1, <1>2, <1>3, <1>4

\* A node has questions only in a stage from its own to the last but one.
LEMMA AsksLater ==
  ASSUME NEW n \in Node, NEW r \in Rec, NEW s \in Asks(n, r)
  PROVE  s \in Stages \ {Complete} /\ r.stage <= s
<1>1. s \in Stages /\ s \in Visits(r, s) /\ (MustAsk(n, r, s) \/ s \in MayAsk[n])
  BY DEF Asks, Reaches
<1>2. MayAsk[n] \subseteq Stages \ {Complete}
  BY NodeQueriesAssumption
<1>3. MustAsk(n, r, s) => s # Complete
  BY StagesOrdered DEF MustAsk
<1>4. r.stage \in Stages
  BY RecFields
<1>5. s \in r.stage .. s
  BY <1>1 DEF Visits
<1> QED BY <1>1, <1>2, <1>3, <1>4, <1>5, StagesOrdered

LEMMA AskOutcome ==
  ASSUME NEW n \in Node, NEW r \in Rec, NEW a \in Ask(n, r)
  PROVE  \/ (r.pending \/ ~r.alive) /\ a = r
         \/ /\ r.alive /\ ~r.pending
            /\ \E s \in Stages \ {Complete} : r.stage <= s /\ Questioned(n, r, s, a)
         \/ r.alive /\ ~r.pending /\ Finished(r, a)
<1>1. CASE r.pending \/ ~r.alive
  BY <1>1 DEF Ask
<1>2. CASE r.alive /\ ~r.pending
  <2>1. \/ \E s \in Asks(n, r) :
             a = Send(n, [GoTo(r, s) EXCEPT !.pending = TRUE], Question(n, s))
        \/ Reaches(n, r, Complete) /\ a = [GoTo(r, Complete) EXCEPT !.check = TRUE]
    BY <1>2 DEF Ask
  <2>2. CASE \E s \in Asks(n, r) :
               a = Send(n, [GoTo(r, s) EXCEPT !.pending = TRUE], Question(n, s))
    <3>1. PICK s \in Asks(n, r) :
            a = Send(n, [GoTo(r, s) EXCEPT !.pending = TRUE], Question(n, s))
      BY <2>2
    <3>2. s \in Stages \ {Complete} /\ r.stage <= s
      BY AsksLater
    <3>3. PICK g \in Rec : g = GoTo(r, s)
      BY <3>2, GoToStage
    <3>4. PICK h : h = [g EXCEPT !.pending = TRUE]
      OBVIOUS
    <3>5. /\ SameStatus(r, g) /\ SameLists(r, g) /\ g.stage = s /\ g.check = r.check
      BY <3>2, <3>3, GoToStage
    <3>6. h \in Rec /\ h.pending /\ SameStatus(g, h) /\ SameLists(g, h) /\ h.stage = g.stage
          /\ h.check = g.check
      BY <3>4 DEF Rec, SameStatus, SameLists
    <3>7. SameStatus(r, h) /\ SameLists(r, h) /\ h.stage = s /\ h.check = r.check
      BY <3>5, <3>6 DEF SameStatus, SameLists
    <3>8. a = Send(n, h, Question(n, s)) /\ Question(n, s) \in Items
      BY <3>1, <3>2, <3>3, <3>4, NewItems
    <3>9. /\ a \in Rec /\ SameStatus(h, a) /\ Put(n, h, Question(n, s), a)
          /\ a.stage = h.stage /\ a.pending = h.pending /\ a.check = h.check
      BY <3>6, <3>8, SendItem
    <3>10. SameStatus(r, a)
      BY <3>7, <3>9 DEF SameStatus
    <3>11. Put(n, r, Question(n, s), a)
      BY <3>7, <3>9 DEF Put, SameStatus, SameLists, Asleep, Sleeps
    <3>12. Questioned(n, r, s, a)
      BY <3>6, <3>7, <3>9, <3>10, <3>11 DEF Questioned
    <3> QED BY <1>2, <3>2, <3>12
  <2>3. CASE Reaches(n, r, Complete) /\ a = [GoTo(r, Complete) EXCEPT !.check = TRUE]
    <3>1. PICK g \in Rec : g = GoTo(r, Complete)
      BY StagesOrdered, GoToStage
    <3>2. SameStatus(r, g) /\ SameLists(r, g) /\ g.stage = Complete /\ g.pending = r.pending
      BY <3>1, StagesOrdered, GoToStage
    <3>3. a = [g EXCEPT !.check = TRUE]
      BY <2>3, <3>1
    <3>4. a \in Rec /\ SameStatus(g, a) /\ SameLists(g, a) /\ a.stage = g.stage /\ a.pending = g.pending
      BY <3>3 DEF Rec, SameStatus, SameLists
    <3>5. r.stage > Neighbors
      <4>1. MustAsk(n, r, Neighbors)
        BY DEF MustAsk
      <4>2. Neighbors \notin Visits(r, Complete) \ {Complete}
        BY <2>3, <4>1 DEF Reaches
      <4>3. r.stage \in 0 .. 18
        BY RecFields, StagesOrdered
      <4>4. Neighbors \notin ((r.stage .. 18) \ (IF r.stage = 12 THEN {} ELSE {12})) \ {18}
        BY <4>2, StagesOrdered DEF Visits
      <4> QED BY <4>3, <4>4, StagesOrdered
    <3>6. Finished(r, a)
      BY <1>2, <3>2, <3>4, <3>5 DEF Finished, SameStatus, SameLists
    <3> QED BY <1>2, <3>6
  <2> QED BY <2>1, <2>2, <2>3
<1> QED BY <1>1, <1>2, RecFields

\* AdvanceQueries leaves the node as it is, or asks it and puts a marker behind the
\* questions, or finds it complete.
LEMMA AdvanceOutcome ==
  ASSUME NEW n \in Node, NEW r \in Rec, NEW a \in AdvanceQueries(n, r)
  PROVE  Advanced(n, r, a) /\ a \in Rec
<1>1. PICK q \in Ask(n, r) : a = IF q.pending /\ ~r.pending THEN AddMarker(n, q) ELSE q
  BY DEF AdvanceQueries
<1>2. CASE (r.pending \/ ~r.alive) /\ q = r
  <2>1. a = r
    BY <1>1, <1>2
  <2> QED BY <1>2, <2>1 DEF Advanced
<1>3. CASE /\ r.alive /\ ~r.pending
           /\ \E s \in Stages \ {Complete} : r.stage <= s /\ Questioned(n, r, s, q)
  <2>1. PICK s \in Stages \ {Complete} : r.stage <= s /\ Questioned(n, r, s, q)
    BY <1>3
  <2>2. q \in Rec /\ SameStatus(r, q) /\ q.stage = s /\ q.pending /\ q.check = r.check
    BY <2>1 DEF Questioned
  <2>3. a = Send(n, q, Marker(n, s))
    BY <1>1, <1>3, <2>2 DEF AddMarker, SameStatus
  <2>4. /\ a \in Rec /\ SameStatus(q, a) /\ Put(n, q, Marker(n, s), a)
        /\ a.stage = q.stage /\ a.pending = q.pending /\ a.check = q.check
    <3>1. Marker(n, s) \in Items
      BY NewItems
    <3>2. PICK i \in Items : i = Marker(n, s)
      BY <3>1
    <3> QED BY <2>2, <2>3, <3>2, SendItem
  <2>5. SameStatus(r, a)
    BY <2>2, <2>4 DEF SameStatus
  <2>6. AskedAt(n, r, s, a)
    BY <2>1, <2>2, <2>4, <2>5 DEF AskedAt
  <2> QED BY <1>3, <2>1, <2>4, <2>6 DEF Advanced
<1>4. CASE r.alive /\ ~r.pending /\ Finished(r, q)
  <2>1. ~q.pending /\ q \in Rec
    BY <1>4 DEF Finished
  <2>2. a = q
    BY <1>1, <2>1
  <2> QED BY <1>4, <2>1, <2>2 DEF Advanced
<1> QED BY <1>2, <1>3, <1>4, AskOutcome

-----------------------------------------------------------------------------
\* The same node, but for its stage and whether questions of it are pending.
Kin(r, a) == a \in Rec /\ SameStatus(r, a) /\ SameLists(r, a) /\ a.check = r.check

LEMMA KinSelf == ASSUME NEW r \in Rec PROVE Kin(r, r)
BY DEF Kin, SameStatus, SameLists

LEMMA CompleteStage ==
  ASSUME NEW r \in Rec, NEW s \in Stages
  PROVE  /\ Kin(r, QueryStageComplete(r, s))
         /\ s # r.stage \/ s = Complete => QueryStageComplete(r, s) = r
         /\ s = r.stage /\ s # Complete =>
              /\ ~QueryStageComplete(r, s).pending
              /\ QueryStageComplete(r, s).stage > s
<1>1. CASE s # r.stage \/ s = Complete
  <2>1. QueryStageComplete(r, s) = r
    BY <1>1 DEF QueryStageComplete
  <2> QED BY <1>1, <2>1, KinSelf
<1>2. CASE s = r.stage /\ s # Complete
  <2>1. PICK t : t = NextStage(s)
    OBVIOUS
  <2>2. t \in Stages /\ t > s
    BY <1>2, <2>1, StagesOrdered DEF NextStage
  <2>3. QueryStageComplete(r, s) = [r EXCEPT !.pending = FALSE, !.stage = t, !.retries = 0]
    BY <1>2, <2>1 DEF QueryStageComplete
  <2>4. 0 \in 0 .. ProbeAttempts - 1
    BY DEF ProbeAttempts
  <2>5. PICK a : a = [r EXCEPT !.pending = FALSE, !.stage = t, !.retries = 0]
    OBVIOUS
  <2>6. Kin(r, a)
    BY <2>2, <2>4, <2>5 DEF Kin, Rec, SameStatus, SameLists
  <2>7. ~a.pending /\ a.stage = t
    BY <2>5 DEF Rec
  <2> QED BY <1>2, <2>2, <2>3, <2>5, <2>6, <2>7
<1> QED BY <1>1, <1>2

LEMMA RetryStage ==
  ASSUME NEW r \in Rec, NEW s \in {Probe, CacheLoad, NodeInfo},
         NEW attempts \in {ProbeAttempts, NodeInfoAttempts}
  PROVE  /\ Kin(r, QueryStageRetry(r, s, attempts))
         /\ s # r.stage => QueryStageRetry(r, s, attempts) = r
         /\ s = r.stage =>
              /\ ~QueryStageRetry(r, s, attempts).pending
              /\ \/ QueryStageRetry(r, s, attempts).stage = s
                 \/ s = NodeInfo /\ QueryStageRetry(r, s, attempts).stage = s + 1
<1>1. CASE s # r.stage
  <2>1. QueryStageRetry(r, s, attempts) = r
    BY <1>1 DEF QueryStageRetry
  <2> QED BY <1>1, <2>1, KinSelf
<1>2. CASE s = r.stage /\ r.retries + 1 < attempts
  <2>1. QueryStageRetry(r, s, attempts) = [r EXCEPT !.pending = FALSE, !.retries = r.retries + 1]
    BY <1>2 DEF QueryStageRetry
  <2>2. r.retries + 1 \in 0 .. ProbeAttempts - 1
    BY <1>2, RecFields DEF ProbeAttempts, NodeInfoAttempts
  <2>3. PICK a : a = [r EXCEPT !.pending = FALSE, !.retries = r.retries + 1]
    OBVIOUS
  <2>4. Kin(r, a)
    BY <2>2, <2>3 DEF Kin, Rec, SameStatus, SameLists
  <2>5. ~a.pending /\ a.stage = r.stage
    BY <2>3 DEF Rec
  <2> QED BY <1>2, <2>1, <2>3, <2>4, <2>5
<1>3. CASE s = r.stage /\ ~(r.retries + 1 < attempts)
  <2>1. PICK t : t = IF r.stage \in {Probe, CacheLoad} THEN r.stage ELSE r.stage + 1
    OBVIOUS
  <2>2. QueryStageRetry(r, s, attempts) = [r EXCEPT !.pending = FALSE, !.retries = 0, !.stage = t]
    BY <1>3, <2>1 DEF QueryStageRetry
  <2>3. t \in Stages /\ (t = s \/ (s = NodeInfo /\ t = s + 1))
    <3>1. s = Probe \/ s = CacheLoad => t = s /\ t \in Stages
      BY <1>3, <2>1, RecFields
    <3>2. s = NodeInfo => t = 6 /\ s = 5
      BY <1>3, <2>1, StagesOrdered
    <3>3. 6 \in Stages /\ 5 + 1 = 6
      BY StagesOrdered
    <3>4. s = NodeInfo => t \in Stages /\ t = s + 1
      BY <3>2, <3>3
    <3>5. s = Probe \/ s = CacheLoad \/ s = NodeInfo
      OBVIOUS
    <3> QED BY <3>1, <3>4, <3>5
  <2>4. 0 \in 0 .. ProbeAttempts - 1
    BY DEF ProbeAttempts
  <2>5. PICK a : a = [r EXCEPT !.pending = FALSE, !.retries = 0, !.stage = t]
    OBVIOUS
  <2>6. Kin(r, a)
    BY <2>3, <2>4, <2>5 DEF Kin, Rec, SameStatus, SameLists
  <2>7. ~a.pending /\ a.stage = t
    BY <2>5 DEF Rec
  <2> QED BY <1>3, <2>2, <2>3, <2>5, <2>6, <2>7
<1> QED BY <1>1, <1>2, <1>3

LEMMA BackToStage ==
  ASSUME NEW r \in Rec, NEW s \in Stages
  PROVE  /\ Kin(r, Back(r, s))
         /\ s < r.stage => ~Back(r, s).pending /\ Back(r, s).stage = s
         /\ r.stage <= s => Back(r, s) = r
<1>1. CASE s < r.stage
  <2>1. PICK a : a = [r EXCEPT !.stage = s, !.pending = FALSE]
    OBVIOUS
  <2>2. Kin(r, a)
    BY <2>1 DEF Kin, Rec, SameStatus, SameLists
  <2>3. ~a.pending /\ a.stage = s
    BY <2>1 DEF Rec
  <2>4. Back(r, s) = a
    BY <1>1, <2>1 DEF Back
  <2>5. r.stage \in 0 .. 18 /\ s \in 0 .. 18
    BY RecFields, StagesOrdered
  <2>6. ~(r.stage <= s)
    BY <1>1, <2>5
  <2> QED BY <2>2, <2>3, <2>4, <2>6
<1>2. CASE ~(s < r.stage)
  <2>1. Back(r, s) = r
    BY <1>2 DEF Back
  <2> QED BY <1>2, <2>1, KinSelf
<1> QED BY <1>1, <1>2

\* The same node, but for being alive and for what it counts.
Vital(r, a) ==
  /\ a \in Rec /\ SameLists(r, a)
  /\ a.stage = r.stage /\ a.pending = r.pending /\ a.info = r.info /\ a.awake = r.awake

\* A dead node is alive again, and is asked where it was left.
Revived(n, r, a) ==
  \E q \in Rec : /\ Vital(r, q) /\ q.alive /\ q.check = r.check
                 /\ IF r.stage = Complete THEN a = q ELSE Advanced(n, q, a)

LEMMA ReviveOutcome ==
  ASSUME NEW n \in Node, NEW r \in Rec, NEW a \in Revive(n, r)
  PROVE  a \in Rec /\ Revived(n, r, a)
<1> DEFINE q == [r EXCEPT !.alive = TRUE, !.errors = 0]
           p == [q EXCEPT !.retries = 0]
<1>1. 0 \in 0 .. ProbeAttempts - 1 /\ 0 \in 0 .. DeadAfter
  BY DEF ProbeAttempts, DeadAfter
<1>2. Vital(r, q) /\ q.alive /\ q.check = r.check
  BY <1>1 DEF Vital, Rec, SameLists
<1>3. q \in Rec
  BY <1>2 DEF Vital
<1> HIDE DEF q
<1>4. Vital(q, p) /\ p.alive = q.alive /\ p.check = q.check
  BY <1>1, <1>3 DEF Vital, Rec, SameLists
<1> HIDE DEF p
<1>5. Vital(r, p) /\ p \in Rec /\ p.alive /\ p.check = r.check
  BY <1>2, <1>4 DEF Vital, SameLists
<1>6. a \in IF r.stage = Complete THEN {q} ELSE AdvanceQueries(n, p)
  BY DEF Revive, q, p
<1>7. CASE r.stage = Complete
  BY <1>2, <1>3, <1>6, <1>7 DEF Revived
<1>8. CASE r.stage # Complete
  <2>1. Advanced(n, p, a) /\ a \in Rec
    BY <1>5, <1>6, <1>8, AdvanceOutcome
  <2> QED BY <1>5, <1>8, <2>1 DEF Revived
<1> QED BY <1>7, <1>8

LEMMA HeardOutcome ==
  ASSUME NEW n \in Node, NEW r \in Rec, NEW a \in Heard(n, r)
  PROVE  a \in Rec /\ ((r.alive /\ a = r) \/ (~r.alive /\ Revived(n, r, a)))
<1>1. CASE r.alive
  <2>1. a = r
    BY <1>1 DEF Heard
  <2>2. a \in Rec
    BY <2>1
  <2> QED BY <1>1, <2>1, <2>2, Zenon
<1>2. CASE ~r.alive
  <2>1. a \in Revive(n, r)
    BY <1>2 DEF Heard
  <2> QED BY <1>2, <2>1, ReviveOutcome
<1> QED BY <1>1, <1>2

LEMMA DieOutcome ==
  ASSUME NEW r \in Rec
  PROVE  Vital(r, Die(r)) /\ ~Die(r).alive /\ Die(r).errors = r.errors
BY RecFields DEF Die, Vital, Rec, SameLists

-----------------------------------------------------------------------------
\* The node woke up: what was parked is queued, and it may be sent to sleep again.
Woken(n, r, b) ==
  /\ b \in Rec /\ b.stage = r.stage /\ b.pending = r.pending /\ b.info = r.info
  /\ b.alive = r.alive /\ b.check = r.check /\ b.awake /\ b.parked = << >>
  /\ \E qs, z, ms \in Seq(Items) :
       /\ b.early = (r.early \o qs) \o z
       /\ b.late = r.late \o ms
       /\ Range(qs) = { i \in Range(r.parked) : i.kind = "question" }
       /\ z = << >> \/ (r.stage = Complete /\ z = << GoToSleep(n) >>)
       /\ \A x \in Range(r.parked) : x.kind = "marker" =>
            \E y \in Range(ms) : SameItem(x, y) /\ ~y.retry
       /\ \A y \in Range(ms) : y.kind = "marker" /\ \E x \in Range(r.parked) : SameItem(x, y)
       /\ Distinct(r.parked) => Distinct(qs) /\ Distinct(ms)

LEMMA ParkedList ==
  ASSUME NEW r \in Rec, NEW kind
  PROVE  /\ Parked(r, kind) \in Seq(Items)
         /\ Range(Parked(r, kind)) = { i \in Range(r.parked) : i.kind = kind }
         /\ Distinct(r.parked) => Distinct(Parked(r, kind))
<1> DEFINE S == { i \in Items : i.kind = kind }
<1>1. r.parked \in Seq(Items)
  BY RecFields
<1>2. Parked(r, kind) = Keep(r.parked, S)
  BY DEF Parked
<1>3. Range(r.parked) \subseteq Items
  BY <1>1 DEF Range
<1>4. Keep(r.parked, S) \in Seq(Items \cap S) /\ Range(Keep(r.parked, S)) = Range(r.parked) \cap S
  <2> HIDE DEF S
  <2> QED BY <1>1, KeepList
<1>5. Range(r.parked) \cap S = { i \in Range(r.parked) : i.kind = kind }
  BY <1>3
<1>6. Distinct(r.parked) => Distinct(Keep(r.parked, S))
  <2> HIDE DEF S
  <2> QED BY <1>1, DistinctKeep
<1>7. Keep(r.parked, S) \in Seq(Items)
  BY <1>4
<1> QED BY <1>2, <1>4, <1>5, <1>6, <1>7

LEMMA PendingSent ==
  ASSUME NEW n \in Node, NEW r \in Rec, NEW notified \in BOOLEAN
  PROVE  Woken(n, r, SendPending(n, r, notified)) /\ SendPending(n, r, notified) \in Rec
<1> DEFINE qs == Parked(r, "question")
           ps == Parked(r, "marker")
           ms == [k \in DOMAIN ps |-> [ps[k] EXCEPT !.retry = FALSE]]
           z == IF notified /\ r.stage = Complete THEN << GoToSleep(n) >> ELSE << >>
<1>1. /\ qs \in Seq(Items) /\ Range(qs) = { i \in Range(r.parked) : i.kind = "question" }
      /\ Distinct(r.parked) => Distinct(qs)
  BY ParkedList
<1>2. /\ ps \in Seq(Items) /\ Range(ps) = { i \in Range(r.parked) : i.kind = "marker" }
      /\ Distinct(r.parked) => Distinct(ps)
  BY ParkedList
<1>3. z \in Seq(Items)
  <2>1. GoToSleep(n) \in Items
    <3>1. PICK s \in Stages : s = None
      BY StagesOrdered
    <3> QED BY NewItems
  <2>2. << GoToSleep(n) >> \in Seq(Items) /\ << >> \in Seq(Items)
    BY <2>1
  <2> QED BY <2>2
<1>4. z = << >> \/ (r.stage = Complete /\ z = << GoToSleep(n) >>)
  OBVIOUS
<1>5. SendPending(n, r, notified) =
        [r EXCEPT !.awake = TRUE, !.parked = << >>, !.early = (r.early \o qs) \o z,
                  !.late = r.late \o ms]
  BY DEF SendPending
<1> HIDE DEF qs, ps, z
<1>6. \A k \in DOMAIN ps : ps[k] \in Items /\ ps[k] \in Range(ps)
  BY <1>2 DEF Range
<1>7. ASSUME NEW x \in Items
      PROVE  /\ [x EXCEPT !.retry = FALSE] \in Items /\ SameItem(x, [x EXCEPT !.retry = FALSE])
             /\ [x EXCEPT !.retry = FALSE].kind = x.kind
             /\ ~[x EXCEPT !.retry = FALSE].retry
  BY DEF Items, SameItem
<1>8. DOMAIN ms = DOMAIN ps /\ DOMAIN ps = 1 .. Len(ps) /\ Len(ps) \in Nat
  BY <1>2
<1>9. \A k \in DOMAIN ps : /\ ms[k] \in Items /\ SameItem(ps[k], ms[k])
                           /\ ms[k].kind = ps[k].kind /\ ~ms[k].retry
  BY <1>6, <1>7
<1> HIDE DEF ms
<1>10. ms \in Seq(Items)
  <2>1. ms = [k \in 1 .. Len(ps) |-> [ps[k] EXCEPT !.retry = FALSE]]
    BY <1>8 DEF ms
  <2>2. \A k \in 1 .. Len(ps) : [ps[k] EXCEPT !.retry = FALSE] \in Items
    BY <1>6, <1>7, <1>8
  <2> QED BY <1>8, <2>1, <2>2
<1>11. \A x \in Range(r.parked) : x.kind = "marker" => \E y \in Range(ms) : SameItem(x, y) /\ ~y.retry
  BY <1>2, <1>8, <1>9 DEF Range
<1>12. \A y \in Range(ms) : y.kind = "marker" /\ \E x \in Range(r.parked) : SameItem(x, y)
  <2>1. TAKE y \in Range(ms)
  <2>2. PICK k \in DOMAIN ps : y = ms[k]
    BY <1>8 DEF Range
  <2>3. ps[k] \in Range(r.parked) /\ ps[k].kind = "marker"
    BY <1>2, <1>6
  <2> QED BY <1>9, <2>2, <2>3
<1>13. Distinct(ps) => Distinct(ms)
  BY <1>8, <1>9, SameItemEquivalence DEF Distinct
<1>14. r.early \in Seq(Items) /\ r.late \in Seq(Items)
  BY RecFields
<1>15. (r.early \o qs) \o z \in Seq(Items) /\ r.late \o ms \in Seq(Items)
  BY <1>1, <1>3, <1>10, <1>14
<1>16. PICK e \in Seq(Items) : e = (r.early \o qs) \o z
  BY <1>15
<1>17. PICK l \in Seq(Items) : l = r.late \o ms
  BY <1>15
<1>18. PICK b : b = [r EXCEPT !.awake = TRUE, !.parked = << >>, !.early = e, !.late = l]
  OBVIOUS
<1>19. << >> \in Seq(Items)
  OBVIOUS
<1>20. /\ b \in Rec /\ b.stage = r.stage /\ b.pending = r.pending /\ b.info = r.info
       /\ b.alive = r.alive /\ b.check = r.check /\ b.awake /\ b.parked = << >>
       /\ b.early = e /\ b.late = l
  BY <1>18, <1>19 DEF Rec
<1>21. SendPending(n, r, notified) = b
  BY <1>5, <1>16, <1>17, <1>18
<1>22. Woken(n, r, b)
  BY <1>1, <1>2, <1>3, <1>4, <1>10, <1>11, <1>12, <1>13, <1>16, <1>17, <1>20 DEF Woken
<1> QED BY <1>20, <1>21, <1>22

-----------------------------------------------------------------------------
NodeRec == [stage : Stages, pending : BOOLEAN, retries : 0 .. ProbeAttempts - 1,
            info : BOOLEAN, alive : BOOLEAN, errors : 0 .. DeadAfter, awake : BOOLEAN,
            parked : Seq(Items), early : {<< >>}, late : {<< >>}, check : {FALSE}]

LEMMA NodeIsRec ==
  ASSUME NEW r \in NodeRec
  PROVE  r \in Rec /\ r.early = << >> /\ r.late = << >> /\ ~r.check
<1>1. << >> \in Seq(Items) /\ FALSE \in BOOLEAN
  OBVIOUS
<1> QED BY <1>1 DEF NodeRec, Rec

\* What a handler leaves of the node it was working on.
Left(r, a) ==
  /\ a \in NodeRec
  /\ a.stage = r.stage /\ a.pending = r.pending /\ a.info = r.info /\ a.alive = r.alive
  /\ a.awake = r.awake /\ a.parked = r.parked

LEMMA Settles ==
  ASSUME NEW r \in Rec
  PROVE  Left(r, [r EXCEPT !.early = << >>, !.late = << >>, !.check = FALSE])
BY DEF Rec, NodeRec, Left

\* The queues and the node after a handler.
Handled(n, r, f, q) ==
  /\ node' \in [Node -> NodeRec]
  /\ \A m \in Node \ {n} : node'[m] = node[m]
  /\ Left(r, node'[n])
  /\ first' = f \o r.early /\ first' \in Seq(Items) /\ Range(first') = Range(f) \cup Range(r.early)
  /\ query' = q \o r.late /\ query' \in Seq(Items) /\ Range(query') = Range(q) \cup Range(r.late)
  /\ allQueried' \in BOOLEAN /\ awakeQueried' \in BOOLEAN

LEMMA HandleOutcome ==
  ASSUME TypeOK, NEW n \in Node, NEW r \in Rec, NEW f \in Seq(Items), NEW q \in Seq(Items),
         Handle(n, r, f, q)
  PROVE  Handled(n, r, f, q)
<1>1. node \in [Node -> NodeRec] /\ allQueried \in BOOLEAN /\ awakeQueried \in BOOLEAN
  BY DEF TypeOK, NodeRec
<1>2. PICK a : a = [r EXCEPT !.early = << >>, !.late = << >>, !.check = FALSE]
  OBVIOUS
<1>3. Left(r, a) /\ a \in NodeRec
  BY <1>2, Settles DEF Left
<1>4. node' = [node EXCEPT ![n] = a]
  BY <1>2 DEF Handle
<1>5. /\ node' \in [Node -> NodeRec] /\ node'[n] = a
      /\ \A m \in Node \ {n} : node'[m] = node[m]
  BY <1>1, <1>3, <1>4
<1>6. r.early \in Seq(Items) /\ r.late \in Seq(Items)
  BY RecFields
<1>7. /\ first' = f \o r.early /\ first' \in Seq(Items)
      /\ Range(first') = Range(f) \cup Range(r.early)
  BY <1>6, ConcatList DEF Handle
<1>8. /\ query' = q \o r.late /\ query' \in Seq(Items)
      /\ Range(query') = Range(q) \cup Range(r.late)
  BY <1>6, ConcatList DEF Handle
<1>9. UNCHANGED driverVars \/ CheckCompletedNodeQueries([node EXCEPT ![n] = r])
  BY DEF Handle
<1>10. allQueried' \in BOOLEAN /\ awakeQueried' \in BOOLEAN
  BY <1>1, <1>9 DEF driverVars, CheckCompletedNodeQueries
<1> QED BY <1>3, <1>5, <1>7, <1>8, <1>10 DEF Handled

\* The items of the node in the queues are parked, behind those that were.
MovedItems(n, q) == { i \in {current} \cup Range(first) \cup Range(q) : i.node = n /\ Kept(i) }

Moved(n, r, q, m) ==
  /\ m \in Rec /\ m.stage = r.stage /\ m.pending = r.pending /\ m.info = r.info
  /\ m.alive = r.alive /\ m.check = r.check /\ ~m.awake
  /\ m.early = r.early /\ m.late = r.late
  /\ Range(m.parked) \subseteq Range(r.parked) \cup MovedItems(n, q)
  /\ \A x \in Range(r.parked) \cup MovedItems(n, q) : \E y \in Range(m.parked) : SameItem(x, y)
  /\ Distinct(r.parked) => Distinct(m.parked)

LEMMA OfNode ==
  ASSUME NEW n, NEW s \in Seq(Items)
  PROVE  /\ Of(n, s) \in Seq(Items) /\ Range(Of(n, s)) = { i \in Range(s) : i.node = n }
         /\ NotOf(n, s) \in Seq(Items) /\ Range(NotOf(n, s)) = { i \in Range(s) : i.node # n }
         /\ \A R : Never(s, R) => Never(NotOf(n, s), R)
<1> DEFINE S == { i \in Items : i.node = n }
           U == { i \in Items : i.node # n }
<1>1. Of(n, s) = Keep(s, S) /\ NotOf(n, s) = Keep(s, U)
  BY DEF Of, NotOf
<1>2. Range(s) \subseteq Items
  BY DEF Range
<1>3. /\ Keep(s, S) \in Seq(Items \cap S) /\ Range(Keep(s, S)) = Range(s) \cap S
      /\ Keep(s, U) \in Seq(Items \cap U) /\ Range(Keep(s, U)) = Range(s) \cap U
      /\ \A R : Never(s, R) => Never(Keep(s, U), R)
  <2> HIDE DEF S, U
  <2> QED BY KeepList, NeverKeep
<1>4. Keep(s, S) \in Seq(Items) /\ Keep(s, U) \in Seq(Items)
  BY <1>3
<1>5. Range(s) \cap S = { i \in Range(s) : i.node = n }
  BY <1>2
<1>6. Range(s) \cap U = { i \in Range(s) : i.node # n }
  BY <1>2
<1> QED BY <1>1, <1>3, <1>4, <1>5, <1>6

LEMMA MoveOutcome ==
  ASSUME TypeOK, NEW n \in Node, NEW r \in Rec, NEW q \in Seq(Items),
         current # NoItem, current.node = n, MoveMessages(n, r, q)
  PROVE  \E m \in Rec : Moved(n, r, q, m) /\ Handle(n, m, NotOf(n, first), NotOf(n, q))
<1>1. current \in Items /\ first \in Seq(Items)
  BY DEF TypeOK
<1> DEFINE S == { i \in Items : Kept(i) }
           all == << current >> \o Of(n, first) \o Of(n, q)
           moved == Keep(all, S)
<1>2. << current >> \in Seq(Items) /\ Range(<< current >>) = {current}
  <2>1. DOMAIN << current >> = {1} /\ << current >>[1] = current
    OBVIOUS
  <2> QED BY <1>1, <2>1 DEF Range
<1>3. /\ Of(n, first) \in Seq(Items) /\ Range(Of(n, first)) = { i \in Range(first) : i.node = n }
      /\ Of(n, q) \in Seq(Items) /\ Range(Of(n, q)) = { i \in Range(q) : i.node = n }
      /\ NotOf(n, first) \in Seq(Items) /\ NotOf(n, q) \in Seq(Items)
  BY <1>1, OfNode
<1>4. PICK b \in Seq(Items) :
        b = << current >> \o Of(n, first) /\ Range(b) = {current} \cup Range(Of(n, first))
  <2>1. PICK c \in Seq(Items) : c = << current >>
    BY <1>2
  <2>2. PICK d \in Seq(Items) : d = Of(n, first)
    BY <1>3
  <2>3. c \o d \in Seq(Items) /\ Range(c \o d) = Range(c) \cup Range(d)
    BY ConcatList
  <2> QED BY <1>2, <2>1, <2>2, <2>3
<1>5. all \in Seq(Items) /\ Range(all) = Range(b) \cup Range(Of(n, q))
  <2>1. all = b \o Of(n, q)
    BY <1>4
  <2>2. b \o Of(n, q) \in Seq(Items) /\ Range(b \o Of(n, q)) = Range(b) \cup Range(Of(n, q))
    BY <1>3, ConcatList
  <2> HIDE DEF all
  <2> QED BY <2>1, <2>2
<1>6. moved \in Seq(Items \cap S) /\ Range(moved) = Range(all) \cap S
  <2> HIDE DEF all, S
  <2> QED BY <1>5, KeepList
<1>7. moved \in Seq(Items)
  BY <1>6
<1>8. Range(first) \subseteq Items /\ Range(q) \subseteq Items
  BY <1>1 DEF Range
<1>9. Range(moved) = MovedItems(n, q)
  <2>1. Range(moved) = { i \in {current} \cup Range(Of(n, first)) \cup Range(Of(n, q)) : i \in Items /\ Kept(i) }
    <3> HIDE DEF moved, all
    <3> QED BY <1>4, <1>5, <1>6
  <2> HIDE DEF moved
  <2> QED BY <1>1, <1>3, <1>8, <2>1 DEF MovedItems
<1> HIDE DEF moved
<1>10. r.parked \in Seq(Items)
  BY RecFields
<1>11. PICK p \in Seq(Items) : p = ParkAll(r.parked, moved)
  BY <1>7, <1>10, ParkAllList
<1>12. /\ Range(p) \subseteq Range(r.parked) \cup Range(moved)
       /\ \A x \in Range(r.parked) \cup Range(moved) : \E y \in Range(p) : SameItem(x, y)
       /\ Distinct(r.parked) => Distinct(p)
  BY <1>7, <1>10, <1>11, ParkAllList
<1>13. PICK m : m = [r EXCEPT !.awake = FALSE, !.parked = p]
  OBVIOUS
<1>14. /\ m \in Rec /\ m.stage = r.stage /\ m.pending = r.pending /\ m.info = r.info
       /\ m.alive = r.alive /\ m.check = r.check /\ ~m.awake
       /\ m.early = r.early /\ m.late = r.late /\ m.parked = p
  BY <1>13 DEF Rec
<1>15. Moved(n, r, q, m)
  BY <1>9, <1>12, <1>14 DEF Moved
<1>16. Handle(n, [r EXCEPT !.awake = FALSE, !.parked = ParkAll(r.parked, moved)],
                NotOf(n, first), NotOf(n, q))
  BY DEF MoveMessages, moved
<1>17. Handle(n, m, NotOf(n, first), NotOf(n, q))
  BY <1>11, <1>13, <1>16
<1> QED BY <1>14, <1>15, <1>17
-----------------------------------------------------------------------------
\* What each action does.  A handler works on the node n and leaves it as it leaves a;
\* f and q are the queues without what it sends.
Acts(n, a, f, q) ==
  /\ n \in Node /\ a \in Rec /\ f \in Seq(Items) /\ q \in Seq(Items)
  /\ Handled(n, a, f, q) /\ TypeOK'

Quiet == marking = NoNode /\ marking' = NoNode /\ present' = present

Alike(r, a) ==
  /\ a \in Rec /\ SameLists(r, a)
  /\ a.stage = r.stage /\ a.pending = r.pending /\ a.alive = r.alive /\ a.check = r.check

HeardFrom(n, r, a) == a \in Rec /\ ((r.alive /\ a = r) \/ (~r.alive /\ Revived(n, r, a)))

WentBack(r, a) == Kin(r, a) /\ (a = r \/ ~a.pending)

LEMMA StateTypes ==
  ASSUME TypeOK
  PROVE  /\ node \in [Node -> NodeRec] /\ present \subseteq Node
         /\ first \in Seq(Items) /\ query \in Seq(Items) /\ current \in Items \cup {NoItem}
         /\ marking \in Node \cup {NoNode} /\ changes \in 0 .. Changes /\ revivals \in 0 .. Revivals
         /\ \A n \in Node : /\ node[n] \in Rec /\ node[n] \in NodeRec
                            /\ node[n].early = << >> /\ node[n].late = << >> /\ ~node[n].check
         /\ current # NoItem => current \in Items /\ current.node \in Node
<1>1. node \in [Node -> NodeRec]
  BY DEF TypeOK, NodeRec
<1>2. \A n \in Node : node[n] \in NodeRec
  BY <1>1
<1>3. current # NoItem => current \in Items
  BY DEF TypeOK
<1> QED BY <1>1, <1>2, <1>3, NodeIsRec, ItemFields DEF TypeOK

LEMMA TypeStep ==
  ASSUME TypeOK, NEW n \in Node, NEW a \in Rec, NEW f \in Seq(Items), NEW q \in Seq(Items),
         Handle(n, a, f, q), present' \subseteq Node, current' \in Items \cup {NoItem},
         marking' \in Node \cup {NoNode}, changes' \in 0 .. Changes, revivals' \in 0 .. Revivals
  PROVE  Acts(n, a, f, q)
<1>1. Handled(n, a, f, q)
  BY HandleOutcome
<1>2. TypeOK'
  <2>1. node' \in [Node -> NodeRec]
    BY <1>1 DEF Handled
  <2> QED BY <1>1, <2>1 DEF TypeOK, NodeRec, Handled
<1> QED BY <1>1, <1>2 DEF Acts

LEMMA SendQuestionStep ==
  ASSUME TypeOK, SendQuestion
  PROVE  /\ TypeOK' /\ Quiet /\ node' = node /\ current = NoItem
         /\ \E i \in Items :
              /\ i.kind # "marker"
              /\ \/ current' = NoItem
                 \/ /\ current' = i
                    /\ node[i.node].alive \/ (i.kind = "question" /\ i.stage \in {Probe, CacheLoad})
              /\ \/ first # << >> /\ i = Head(first) /\ first' = Tail(first) /\ query' = query
                 \/ first = << >> /\ query # << >> /\ i = Head(query) /\ query' = Tail(query)
                    /\ first' = first
<1>1. PICK i : i = Head(first \o query)
  OBVIOUS
<1>2. /\ marking = NoNode /\ current = NoItem /\ first \o query # << >> /\ i.kind # "marker"
      /\ current' = IF node[i.node].alive \/ (i.kind = "question" /\ i.stage \in {Probe, CacheLoad})
                    THEN i ELSE NoItem
      /\ IF first # << >> THEN first' = Tail(first) /\ query' = query
         ELSE query' = Tail(query) /\ first' = first
      /\ UNCHANGED << node, present, driverVars, marking, boundVars >>
  BY <1>1 DEF SendQuestion
<1>3. first \in Seq(Items) /\ query \in Seq(Items)
  BY StateTypes
<1>4. CASE first # << >>
  <2>1. i = Head(first) /\ i \in Items /\ Tail(first) \in Seq(Items)
    <3>1. Head(first \o query) = Head(first)
      BY <1>3, <1>4
    <3> QED BY <1>1, <1>3, <1>4, <3>1, TailList
  <2>2. TypeOK'
    BY <1>2, <1>4, <2>1 DEF TypeOK, driverVars, boundVars
  <2> QED BY <1>2, <1>4, <2>1, <2>2 DEF Quiet
<1>5. CASE first = << >>
  <2>1. query # << >> /\ i = Head(query) /\ i \in Items /\ Tail(query) \in Seq(Items)
    <3>1. first \o query = query
      BY <1>3, <1>5
    <3> QED BY <1>1, <1>2, <1>3, <3>1, TailList
  <2>2. TypeOK'
    BY <1>2, <1>5, <2>1 DEF TypeOK, driverVars, boundVars
  <2> QED BY <1>2, <1>5, <2>1, <2>2 DEF Quiet
<1> QED BY <1>4, <1>5

LEMMA TakeMarkerStep ==
  ASSUME TypeOK, TakeMarker
  PROVE  /\ Quiet /\ current = NoItem /\ current' = NoItem /\ first = << >> /\ query # << >>
         /\ \E n \in Node, i \in Items, r, a \in Rec :
              /\ i = Head(query) /\ IsMarker(i, n)
              /\ Kin(node[n], r) /\ Advanced(n, r, a)
              /\ \/ r = node[n] /\ (i.retry \/ i.stage # node[n].stage \/ i.stage = Complete)
                 \/ /\ ~i.retry /\ i.stage = node[n].stage /\ i.stage # Complete
                    /\ ~r.pending /\ r.stage > i.stage
              /\ Acts(n, a, first, Tail(query))
<1>1. /\ marking = NoNode /\ current = NoItem /\ first = << >> /\ query # << >>
      /\ Head(query).kind = "marker"
      /\ UNCHANGED << present, current, marking, boundVars >>
  BY DEF TakeMarker
<1>2. PICK i \in Items : i = Head(query) /\ i.kind = "marker"
  BY <1>1, StateTypes, TailList
<1>3. PICK n \in Node : n = i.node
  BY ItemFields
<1>4. PICK r : r = IF i.retry THEN node[n] ELSE QueryStageComplete(node[n], i.stage)
  OBVIOUS
<1>5. PICK a \in AdvanceQueries(n, r) : Handle(n, a, first, Tail(query))
  BY <1>2, <1>3, <1>4 DEF TakeMarker
<1>6. node[n] \in Rec /\ i.stage \in Stages
  BY StateTypes, ItemFields
<1>7. /\ Kin(node[n], r)
      /\ \/ r = node[n] /\ (i.retry \/ i.stage # node[n].stage \/ i.stage = Complete)
         \/ /\ ~i.retry /\ i.stage = node[n].stage /\ i.stage # Complete
            /\ ~r.pending /\ r.stage > i.stage
  BY <1>4, <1>6, CompleteStage, KinSelf
<1>8. r \in Rec
  BY <1>7 DEF Kin
<1>9. Advanced(n, r, a) /\ a \in Rec
  BY <1>5, <1>8, AdvanceOutcome
<1>10. Acts(n, a, first, Tail(query))
  <2>1. first \in Seq(Items) /\ Tail(query) \in Seq(Items)
    BY <1>1, StateTypes, TailList
  <2>2. PICK q \in Seq(Items) : q = Tail(query)
    BY <2>1
  <2> QED BY <1>1, <1>5, <1>9, <2>1, <2>2, StateTypes, TypeStep DEF boundVars
<1>11. IsMarker(i, n)
  BY <1>2, <1>3 DEF IsMarker
<1> QED BY <1>1, <1>2, <1>7, <1>8, <1>9, <1>10, <1>11 DEF Quiet

LEMMA LostStep ==
  ASSUME TypeOK, Lost
  PROVE  /\ TypeOK' /\ Quiet /\ node' = node /\ first' = first /\ query' = query
         /\ current # NoItem /\ current' = NoItem
BY DEF TypeOK, Lost, Quiet, driverVars, boundVars

\* What the answer to i tells of the node.
Known(i, r, k) ==
  /\ k \in Rec /\ SameLists(r, k) /\ k.stage = r.stage /\ k.pending = r.pending
  /\ r.info => k.info
  /\ k.alive = r.alive \/ (~k.alive /\ i.kind = "question" /\ i.stage = ProtocolInfo)
  /\ k.awake = r.awake \/ (~k.awake /\ i.kind = "sleep")

LEMMA AnsweredStep ==
  ASSUME TypeOK, NEW exists \in BOOLEAN, Answered(exists)
  PROVE  /\ Quiet /\ current # NoItem /\ current' = NoItem
         /\ \E n \in Node, k, a \in Rec :
              /\ n = current.node /\ Known(current, node[n], k)
              /\ IF AnsweredByController(current) THEN a = k ELSE HeardFrom(n, k, a)
              /\ Acts(n, a, first, query)
<1>1. /\ marking = NoNode /\ current # NoItem /\ current' = NoItem
      /\ UNCHANGED << present, marking, boundVars >>
  BY DEF Answered
<1>2. PICK n \in Node : n = current.node
  BY <1>1, StateTypes
<1>3. PICK r \in Rec : r = node[n]
  BY StateTypes
<1>4. PICK k : k = IF current.kind = "question" /\ current.stage = ProtocolInfo
                   THEN IF exists \/ r.info THEN [r EXCEPT !.info = TRUE] ELSE Die(r)
                   ELSE IF current.kind = "sleep" THEN [r EXCEPT !.awake = FALSE] ELSE r
  OBVIOUS
<1>5. Known(current, r, k)
  <2>1. CASE current.kind = "question" /\ current.stage = ProtocolInfo /\ (exists \/ r.info)
    <3>1. k = [r EXCEPT !.info = TRUE]
      BY <1>4, <2>1
    <3> QED BY <2>1, <3>1 DEF Known, Rec, SameLists
  <2>2. CASE current.kind = "question" /\ current.stage = ProtocolInfo /\ ~(exists \/ r.info)
    <3>1. k = Die(r)
      BY <1>4, <2>2
    <3> QED BY <2>2, <3>1, DieOutcome DEF Known, Vital
  <2>3. CASE ~(current.kind = "question" /\ current.stage = ProtocolInfo) /\ current.kind = "sleep"
    <3>1. k = [r EXCEPT !.awake = FALSE]
      BY <1>4, <2>3
    <3> QED BY <2>3, <3>1 DEF Known, Rec, SameLists
  <2>4. CASE ~(current.kind = "question" /\ current.stage = ProtocolInfo) /\ current.kind # "sleep"
    <3>1. k = r
      BY <1>4, <2>4
    <3> QED BY <3>1 DEF Known, SameLists
  <2> QED BY <2>1, <2>2, <2>3, <2>4
<1>6. PICK a \in IF AnsweredByController(current) THEN {k} ELSE Heard(n, k) :
        Handle(n, a, first, query)
  BY <1>2, <1>3, <1>4 DEF Answered
<1>7. k \in Rec
  BY <1>5 DEF Known
<1>8. a \in Rec /\ IF AnsweredByController(current) THEN a = k ELSE HeardFrom(n, k, a)
  BY <1>6, <1>7, HeardOutcome DEF HeardFrom
<1>9. Acts(n, a, first, query)
  BY <1>1, <1>6, <1>8, StateTypes, TypeStep DEF boundVars
<1> QED BY <1>1, <1>2, <1>3, <1>5, <1>7, <1>8, <1>9 DEF Quiet

LEMMA FailedAsleepStep ==
  ASSUME TypeOK, FailedAsleep
  PROVE  /\ Quiet /\ current # NoItem /\ current' = NoItem
         /\ \E n \in Node, m \in Rec :
              /\ n = current.node /\ Sleeps(n, node[n])
              /\ Moved(n, node[n], query, m) /\ Acts(n, m, NotOf(n, first), NotOf(n, query))
<1>1. /\ marking = NoNode /\ current # NoItem /\ current' = NoItem
      /\ UNCHANGED << present, marking, boundVars >>
  BY DEF FailedAsleep
<1>2. PICK n \in Node : n = current.node
  BY <1>1, StateTypes
<1>3. Sleeps(n, node[n]) /\ MoveMessages(n, node[n], query)
  BY <1>2 DEF FailedAsleep
<1>4. PICK r \in Rec : r = node[n]
  BY StateTypes
<1>5. query \in Seq(Items) /\ first \in Seq(Items)
  BY StateTypes
<1>6. PICK m \in Rec : Moved(n, r, query, m) /\ Handle(n, m, NotOf(n, first), NotOf(n, query))
  BY <1>1, <1>2, <1>3, <1>4, <1>5, MoveOutcome
<1>7. PICK f \in Seq(Items) : f = NotOf(n, first)
  BY <1>5, OfNode
<1>8. PICK q \in Seq(Items) : q = NotOf(n, query)
  BY <1>5, OfNode
<1>9. Acts(n, m, f, q)
  BY <1>1, <1>6, <1>7, <1>8, StateTypes, TypeStep DEF boundVars
<1> QED BY <1>1, <1>2, <1>3, <1>4, <1>6, <1>7, <1>8, <1>9 DEF Quiet

LEMMA FailedStep ==
  ASSUME TypeOK, Failed
  PROVE  /\ (marking = NoNode \/ Overlap) /\ marking' = marking /\ present' = present
         /\ current # NoItem /\ current' = NoItem /\ Transmitted(current)
         /\ \E n \in Node, j \in Rec :
              /\ n = current.node /\ Vital(node[n], j) /\ (j.alive => node[n].alive)
              /\ \/ Acts(n, j, first, query)
                 \/ \E a \in Rec, q \in Seq(Items) :
                      /\ current.stage \in {Probe, CacheLoad} /\ j.stage \in {Probe, CacheLoad}
                      /\ Kin(j, a) /\ ~a.pending /\ a.stage = j.stage
                      /\ Marked(query, n, q) /\ Acts(n, a, first, q)
<1>1. /\ marking = NoNode \/ Overlap
      /\ current # NoItem /\ current' = NoItem /\ Transmitted(current)
      /\ UNCHANGED << present, marking, boundVars >>
  BY DEF Failed
<1>2. PICK n \in Node : n = current.node
  BY <1>1, StateTypes
<1>3. PICK r \in Rec : r = node[n]
  BY StateTypes
<1>4. PICK c : c = [r EXCEPT !.errors = IF r.errors < DeadAfter THEN r.errors + 1 ELSE r.errors]
  OBVIOUS
<1>5. Vital(r, c) /\ c.alive = r.alive
  <2>1. (IF r.errors < DeadAfter THEN r.errors + 1 ELSE r.errors) \in 0 .. DeadAfter
    BY RecFields DEF DeadAfter
  <2> QED BY <1>4, <2>1 DEF Vital, Rec, SameLists
<1>6. PICK j : j = IF c.errors = DeadAfter THEN Die(c) ELSE c
  OBVIOUS
<1>7. c \in Rec
  BY <1>5 DEF Vital
<1>8. Vital(c, j) /\ (j.alive => c.alive)
  <2>1. CASE c.errors = DeadAfter
    BY <1>6, <1>7, <2>1, DieOutcome
  <2>2. CASE c.errors # DeadAfter
    <3>1. j = c
      BY <1>6, <2>2
    <3> QED BY <1>7, <3>1 DEF Vital, SameLists
  <2> QED BY <2>1, <2>2
<1>9. Vital(r, j) /\ (j.alive => r.alive) /\ j \in Rec
  BY <1>5, <1>8 DEF Vital, SameLists
<1>10. PICK a : a = QueryStageRetry(j, r.stage, ProbeAttempts)
  OBVIOUS
<1>11. IF current.stage \in {Probe, CacheLoad} /\ r.stage \in {Probe, CacheLoad}
       THEN Handle(n, a, first, MarkRetry(query, n, a.stage)) ELSE Handle(n, j, first, query)
  BY <1>2, <1>3, <1>4, <1>6, <1>10 DEF Failed
<1>12. first \in Seq(Items) /\ query \in Seq(Items)
  BY StateTypes
<1>13. CASE current.stage \in {Probe, CacheLoad} /\ r.stage \in {Probe, CacheLoad}
  <2>1. j.stage = r.stage
    BY <1>9 DEF Vital
  <2>2. Kin(j, a) /\ ~a.pending /\ a.stage = j.stage
    <3>1. PICK s \in {Probe, CacheLoad, NodeInfo} : s = r.stage
      BY <1>13
    <3>2. s # NodeInfo
      BY <1>13, <3>1, StagesOrdered
    <3> QED BY <1>9, <1>10, <2>1, <3>1, <3>2, RetryStage
  <2>3. a \in Rec
    BY <2>2 DEF Kin
  <2>4. PICK s \in Stages : s = a.stage
    BY <2>3, RecFields
  <2>5. PICK q : q = MarkRetry(query, n, s)
    OBVIOUS
  <2>6. Marked(query, n, q)
    BY <1>12, <2>5, RetryMarks
  <2>7. q \in Seq(Items)
    BY <2>6 DEF Marked
  <2>8. Acts(n, a, first, q)
    BY <1>1, <1>11, <1>12, <1>13, <2>3, <2>4, <2>5, <2>7, StateTypes, TypeStep DEF boundVars
  <2> QED BY <1>1, <1>2, <1>3, <1>9, <1>13, <2>1, <2>2, <2>3, <2>6, <2>7, <2>8
<1>14. CASE ~(current.stage \in {Probe, CacheLoad} /\ r.stage \in {Probe, CacheLoad})
  <2>1. Acts(n, j, first, query)
    BY <1>1, <1>9, <1>11, <1>12, <1>14, StateTypes, TypeStep DEF boundVars
  <2> QED BY <1>1, <1>2, <1>3, <1>9, <2>1
<1> QED BY <1>13, <1>14

LEMMA InfoFailedStep ==
  ASSUME TypeOK, InfoFailed, current' \in Items \cup {NoItem}, changes' \in 0 .. Changes
  PROVE  /\ Quiet /\ current # NoItem
         /\ \E n \in Node, r \in Rec, q \in Seq(Items) :
              /\ n = current.node /\ Kin(node[n], r)
              /\ Marked(query, n, q)
              /\ \/ node[n].stage # NodeInfo /\ r = node[n] /\ q = query
                 \/ node[n].stage = NodeInfo /\ ~r.pending /\ r.stage \in {NodeInfo, NodeInfo + 1}
              /\ \/ /\ Sleeps(n, r)
                    /\ \E m \in Rec : Moved(n, r, q, m) /\ Acts(n, m, NotOf(n, first), NotOf(n, q))
                 \/ ~Sleeps(n, r) /\ Acts(n, r, first, q)
<1>1. /\ marking = NoNode /\ current # NoItem
      /\ UNCHANGED << present, marking, revivals >>
  BY DEF InfoFailed
<1>2. PICK n \in Node : n = current.node
  BY <1>1, StateTypes
<1>3. PICK v \in Rec : v = node[n]
  BY StateTypes
<1>4. PICK r : r = QueryStageRetry(v, NodeInfo, NodeInfoAttempts)
  OBVIOUS
<1>5. /\ Kin(v, r)
      /\ v.stage # NodeInfo => r = v
      /\ v.stage = NodeInfo => ~r.pending /\ r.stage \in {NodeInfo, NodeInfo + 1}
  BY <1>4, RetryStage
<1>6. r \in Rec
  BY <1>5 DEF Kin
<1>7. first \in Seq(Items) /\ query \in Seq(Items)
  BY StateTypes
<1>8. PICK q : q = IF v.stage = NodeInfo THEN MarkRetry(query, n, r.stage) ELSE query
  OBVIOUS
<1>9. Marked(query, n, q) /\ q \in Seq(Items)
  <2>1. CASE v.stage = NodeInfo
    <3>1. PICK s \in Stages : s = r.stage
      BY <1>6, RecFields
    <3>2. q = MarkRetry(query, n, s)
      BY <1>8, <2>1, <3>1
    <3>3. Marked(query, n, q)
      BY <1>7, <3>2, RetryMarks
    <3> QED BY <3>3 DEF Marked
  <2>2. CASE v.stage # NodeInfo
    BY <1>7, <1>8, <2>2, SameItemEquivalence DEF Marked
  <2> QED BY <2>1, <2>2
<1>10. IF Sleeps(n, r) THEN MoveMessages(n, r, q) ELSE Handle(n, r, first, q)
  BY <1>2, <1>3, <1>4, <1>8 DEF InfoFailed
<1>11. \/ /\ Sleeps(n, r)
          /\ \E m \in Rec : Moved(n, r, q, m) /\ Acts(n, m, NotOf(n, first), NotOf(n, q))
       \/ ~Sleeps(n, r) /\ Acts(n, r, first, q)
  <2>1. CASE Sleeps(n, r)
    <3>1. PICK m \in Rec : Moved(n, r, q, m) /\ Handle(n, m, NotOf(n, first), NotOf(n, q))
      BY <1>1, <1>2, <1>6, <1>9, <1>10, <2>1, MoveOutcome
    <3>2. PICK f \in Seq(Items) : f = NotOf(n, first)
      BY <1>7, OfNode
    <3>3. PICK p \in Seq(Items) : p = NotOf(n, q)
      BY <1>9, OfNode
    <3>4. Acts(n, m, f, p)
      BY <1>1, <3>1, <3>2, <3>3, StateTypes, TypeStep
    <3> QED BY <2>1, <3>1, <3>2, <3>3, <3>4
  <2>2. CASE ~Sleeps(n, r)
    <3>1. Acts(n, r, first, q)
      BY <1>1, <1>6, <1>7, <1>9, <1>10, <2>2, StateTypes, TypeStep
    <3> QED BY <2>2, <3>1
  <2> QED BY <2>1, <2>2
<1>12. /\ n = current.node /\ Kin(node[n], r)
       /\ Marked(query, n, q)
       /\ \/ node[n].stage # NodeInfo /\ r = node[n] /\ q = query
          \/ node[n].stage = NodeInfo /\ ~r.pending /\ r.stage \in {NodeInfo, NodeInfo + 1}
  BY <1>2, <1>3, <1>5, <1>8, <1>9
<1> QED BY <1>1, <1>6, <1>9, <1>11, <1>12 DEF Quiet

LEMMA NodeInfoFailedStep ==
  ASSUME TypeOK, NodeInfoFailed
  PROVE  /\ Quiet /\ current # NoItem /\ current' = NoItem
         /\ \E n \in Node, r \in Rec, q \in Seq(Items) :
              /\ IsQuestion(current, n) /\ current.stage = NodeInfo /\ Kin(node[n], r)
              /\ Marked(query, n, q)
              /\ \/ node[n].stage # NodeInfo /\ r = node[n] /\ q = query
                 \/ node[n].stage = NodeInfo /\ ~r.pending /\ r.stage \in {NodeInfo, NodeInfo + 1}
              /\ \/ /\ Sleeps(n, r)
                    /\ \E m \in Rec : Moved(n, r, q, m) /\ Acts(n, m, NotOf(n, first), NotOf(n, q))
                 \/ ~Sleeps(n, r) /\ Acts(n, r, first, q)
<1>1. InfoFailed /\ InfoAsked /\ current' = NoItem /\ changes' \in 0 .. Changes
  BY StateTypes DEF NodeInfoFailed
<1>2. \A n \in Node : n = current.node => IsQuestion(current, n) /\ current.stage = NodeInfo
  BY <1>1 DEF InfoAsked, IsQuestion
<1> QED BY <1>1, <1>2, InfoFailedStep

LEMMA ChangeStep ==
  ASSUME TypeOK, Change
  PROVE  marking = NoNode /\ changes' \in 0 .. Changes /\ Changes # 0
BY StateTypes, NodeQueriesAssumption DEF Change

LEMMA NodeInfoFailedLateStep ==
  ASSUME TypeOK, NodeInfoFailedLate
  PROVE  /\ Quiet
         /\ \E n \in Node, r \in Rec, q \in Seq(Items) :
              /\ Kin(node[n], r) /\ Marked(query, n, q)
              /\ \/ r = node[n] /\ q = query
                 \/ node[n].stage = NodeInfo /\ ~r.pending
              /\ \/ \E m \in Rec : Moved(n, r, q, m) /\ Acts(n, m, NotOf(n, first), NotOf(n, q))
                 \/ Acts(n, r, first, q)
<1>1. InfoFailed /\ changes' \in 0 .. Changes
  BY ChangeStep DEF NodeInfoFailedLate
<1>2. current' \in Items \cup {NoItem}
  BY StateTypes DEF NodeInfoFailedLate
<1> QED BY <1>1, <1>2, InfoFailedStep

LEMMA ReportStep ==
  ASSUME TypeOK, NEW n \in Node, Report(n)
  PROVE  /\ Quiet /\ current' = current
         /\ \E a \in Rec : /\ ~node[n].alive /\ Revived(n, node[n], a)
                           /\ Acts(n, a, first, query)
<1>1. /\ marking = NoNode /\ ~node[n].alive /\ Unasked(n)
      /\ UNCHANGED << present, current, marking, changes >>
  BY DEF Report
<1>2. PICK r \in Rec : r = node[n]
  BY StateTypes
<1>3. PICK a \in Revive(n, r) : Handle(n, a, first, query)
  BY <1>2 DEF Report
<1>4. a \in Rec /\ Revived(n, r, a)
  BY <1>3, ReviveOutcome
<1>5. revivals' \in 0 .. Revivals
  BY <1>1, StateTypes, NodeQueriesAssumption DEF Unasked
<1>6. Acts(n, a, first, query)
  BY <1>1, <1>3, <1>4, <1>5, StateTypes, TypeStep
<1> QED BY <1>1, <1>2, <1>4, <1>6 DEF Quiet

LEMMA WakesUpStep ==
  ASSUME TypeOK, NEW n \in Node, WakesUp(n)
  PROVE  /\ Quiet /\ current' = current /\ Asleep(n, node[n])
         /\ \E a, b \in Rec : /\ HeardFrom(n, node[n], a) /\ Woken(n, a, b)
                              /\ Acts(n, b, first, query)
<1>1. /\ marking = NoNode /\ Asleep(n, node[n]) /\ Unasked(n)
      /\ UNCHANGED << present, current, marking, changes >>
  BY DEF WakesUp, Wakeable
<1>2. PICK r \in Rec : r = node[n]
  BY StateTypes
<1>3. PICK a \in Heard(n, r) : Handle(n, SendPending(n, a, TRUE), first, query)
  BY <1>2 DEF WakesUp
<1>4. a \in Rec /\ HeardFrom(n, r, a)
  BY <1>3, HeardOutcome DEF HeardFrom
<1>5. PICK b : b = SendPending(n, a, TRUE)
  OBVIOUS
<1>6. Woken(n, a, b) /\ b \in Rec
  BY <1>4, <1>5, PendingSent
<1>7. revivals' \in 0 .. Revivals
  BY <1>1, StateTypes, NodeQueriesAssumption DEF Unasked
<1>8. Acts(n, b, first, query)
  BY <1>1, <1>3, <1>5, <1>6, <1>7, StateTypes, TypeStep
<1> QED BY <1>1, <1>2, <1>4, <1>6, <1>8 DEF Quiet

LEMMA BackOutcome ==
  ASSUME NEW n \in Node, NEW r \in Rec, NEW s \in Stages, NEW a \in SetQueryStage(n, r, s)
  PROVE  \E c \in Rec : WentBack(r, c) /\ Advanced(n, c, a) /\ a \in Rec
<1>1. a \in AdvanceQueries(n, Back(r, s))
  BY DEF SetQueryStage
<1>2. PICK c : c = Back(r, s)
  OBVIOUS
<1>3. Kin(r, c) /\ (s < r.stage => ~c.pending) /\ (r.stage <= s => c = r)
  BY <1>2, BackToStage
<1>4. s < r.stage \/ r.stage <= s
  <2>1. r.stage \in 0 .. 18 /\ s \in 0 .. 18
    BY RecFields, StagesOrdered
  <2> QED BY <2>1
<1>5. c \in Rec /\ WentBack(r, c)
  BY <1>1, <1>3, <1>4 DEF Kin, WentBack
<1> QED BY <1>1, <1>2, <1>5, AdvanceOutcome

LEMMA WakesUpToBePolledStep ==
  ASSUME TypeOK, NEW n \in Node, WakesUpToBePolled(n)
  PROVE  /\ Quiet /\ current' = current /\ Changes # 0
         /\ \E a, w, c, b, d \in Rec :
              /\ HeardFrom(n, node[n], a) /\ Alike(a, w) /\ WentBack(w, c) /\ Advanced(n, c, b)
              /\ Woken(n, b, d) /\ Acts(n, d, first, query)
<1>1. /\ marking = NoNode /\ changes' \in 0 .. Changes /\ Changes # 0 /\ Unasked(n)
      /\ UNCHANGED << present, current, marking >>
  BY ChangeStep DEF WakesUpToBePolled
<1>2. PICK r \in Rec : r = node[n]
  BY StateTypes
<1>3. PICK a \in Heard(n, r) :
        \E b \in SetQueryStage(n, [a EXCEPT !.awake = TRUE], Dynamic) :
          Handle(n, SendPending(n, b, TRUE), first, query)
  BY <1>2 DEF WakesUpToBePolled
<1>4. a \in Rec /\ HeardFrom(n, r, a)
  BY <1>3, HeardOutcome DEF HeardFrom
<1>5. PICK w : w = [a EXCEPT !.awake = TRUE]
  OBVIOUS
<1>6. Alike(a, w) /\ w \in Rec
  BY <1>4, <1>5 DEF Alike, Rec, SameLists
<1>7. PICK s \in Stages : s = Dynamic
  BY StagesOrdered
<1>8. PICK b \in SetQueryStage(n, w, s) : Handle(n, SendPending(n, b, TRUE), first, query)
  BY <1>3, <1>5, <1>7
<1>9. PICK c \in Rec : WentBack(w, c) /\ Advanced(n, c, b) /\ b \in Rec
  BY <1>6, <1>8, BackOutcome
<1>10. PICK d : d = SendPending(n, b, TRUE)
  OBVIOUS
<1>11. Woken(n, b, d) /\ d \in Rec
  BY <1>9, <1>10, PendingSent
<1>12. revivals' \in 0 .. Revivals
  BY <1>1, StateTypes, NodeQueriesAssumption DEF Unasked
<1>13. Acts(n, d, first, query)
  BY <1>1, <1>8, <1>10, <1>11, <1>12, StateTypes, TypeStep
<1>14. /\ HeardFrom(n, node[n], a) /\ Alike(a, w) /\ WentBack(w, c) /\ Advanced(n, c, b)
       /\ Woken(n, b, d) /\ Acts(n, d, first, query)
  BY <1>2, <1>4, <1>6, <1>9, <1>11, <1>13
<1> QED BY <1>1, <1>4, <1>6, <1>9, <1>11, <1>14 DEF Quiet

LEMMA NodeInfoReceivedStep ==
  ASSUME TypeOK, NEW n \in Node, NEW notified \in BOOLEAN, NodeInfoReceived(n, notified)
  PROVE  /\ Quiet /\ current' = current /\ Changes # 0
         /\ \E a, c, b, d \in Rec :
              /\ HeardFrom(n, node[n], a)
              /\ b = a \/ (WentBack(a, c) /\ Advanced(n, c, b))
              /\ d = b \/ Woken(n, b, d)
              /\ Acts(n, d, first, query)
<1>1. /\ marking = NoNode /\ changes' \in 0 .. Changes /\ Changes # 0 /\ Unasked(n)
      /\ UNCHANGED << present, current, marking >>
  BY ChangeStep DEF NodeInfoReceived
<1>2. PICK r \in Rec : r = node[n]
  BY StateTypes
<1>3. PICK a \in Heard(n, r) :
        \E b \in {a} \cup SetQueryStage(n, a, ManufacturerSpecific2) \cup SetQueryStage(n, a, Dynamic) :
          Handle(n, IF Sleeps(n, b) THEN SendPending(n, b, notified) ELSE b, first, query)
  BY <1>2 DEF NodeInfoReceived
<1>4. a \in Rec /\ HeardFrom(n, r, a)
  BY <1>3, HeardOutcome DEF HeardFrom
<1>5. PICK b : /\ \/ b = a
                  \/ \E s \in Stages : b \in SetQueryStage(n, a, s)
               /\ Handle(n, IF Sleeps(n, b) THEN SendPending(n, b, notified) ELSE b, first, query)
  BY <1>3, StagesOrdered
<1>6. PICK c \in Rec : (b = a \/ (WentBack(a, c) /\ Advanced(n, c, b))) /\ b \in Rec
  BY <1>4, <1>5, BackOutcome
<1>7. PICK d : d = IF Sleeps(n, b) THEN SendPending(n, b, notified) ELSE b
  OBVIOUS
<1>8. (d = b \/ Woken(n, b, d)) /\ d \in Rec
  BY <1>6, <1>7, PendingSent
<1>9. revivals' \in 0 .. Revivals
  BY <1>1, StateTypes, NodeQueriesAssumption DEF Unasked
<1>10. Acts(n, d, first, query)
  BY <1>1, <1>5, <1>7, <1>8, <1>9, StateTypes, TypeStep
<1> QED BY <1>1, <1>2, <1>4, <1>6, <1>8, <1>10 DEF Quiet

LEMMA RequestStep ==
  ASSUME TypeOK, NEW n \in Node, NEW s \in Requested, Request(n, s)
  PROVE  /\ marking = NoNode /\ present' = present /\ n \in present /\ current' = current
         /\ \E r, a \in Rec :
              /\ WentBack(node[n], r) /\ Acts(n, a, first, query)
              /\ \/ (r.pending \/ ~r.alive) /\ a = r /\ marking' = NoNode
                 \/ /\ r.alive /\ ~r.pending /\ marking' = n
                    /\ \E t \in Stages \ {Complete} : r.stage <= t /\ Questioned(n, r, t, a)
                 \/ r.alive /\ ~r.pending /\ Finished(r, a) /\ marking' = NoNode
<1>1. PICK v \in Rec : v = node[n]
  BY StateTypes
<1>2. PICK r : r = Back(v, s)
  OBVIOUS
<1>3. /\ marking = NoNode /\ changes' \in 0 .. Changes /\ n \in present
      /\ UNCHANGED << present, current, revivals >>
  BY <1>1, ChangeStep DEF Request
<1>4. s \in Stages
  BY StagesOrdered DEF Requested, Associations, Configuration
<1>5. Kin(v, r) /\ (s < v.stage => ~r.pending) /\ (v.stage <= s => r = v)
  BY <1>2, <1>4, BackToStage
<1>6. s < v.stage \/ v.stage <= s
  <2>1. v.stage \in 0 .. 18 /\ s \in 0 .. 18
    BY <1>4, RecFields, StagesOrdered
  <2> QED BY <2>1
<1>7. r \in Rec /\ WentBack(v, r)
  BY <1>3, <1>5, <1>6 DEF Kin, WentBack
<1>8. PICK a \in Ask(n, r) : /\ Handle(n, a, first, query)
                             /\ marking' = IF a.pending /\ ~r.pending THEN n ELSE NoNode
  BY <1>1, <1>2 DEF Request
<1>9. \/ (r.pending \/ ~r.alive) /\ a = r
      \/ /\ r.alive /\ ~r.pending
         /\ \E t \in Stages \ {Complete} : r.stage <= t /\ Questioned(n, r, t, a)
      \/ r.alive /\ ~r.pending /\ Finished(r, a)
  BY <1>7, <1>8, AskOutcome
<1>10. a \in Rec
  BY <1>7, <1>9 DEF Questioned, Finished
<1>11. \/ (r.pending \/ ~r.alive) /\ a = r /\ marking' = NoNode
       \/ /\ r.alive /\ ~r.pending /\ marking' = n
          /\ \E t \in Stages \ {Complete} : r.stage <= t /\ Questioned(n, r, t, a)
       \/ r.alive /\ ~r.pending /\ Finished(r, a) /\ marking' = NoNode
  <2>1. CASE (r.pending \/ ~r.alive) /\ a = r
    BY <1>8, <2>1
  <2>2. CASE /\ r.alive /\ ~r.pending
             /\ \E t \in Stages \ {Complete} : r.stage <= t /\ Questioned(n, r, t, a)
    <3>1. a.pending
      BY <2>2 DEF Questioned
    <3> QED BY <1>8, <2>2, <3>1
  <2>3. CASE r.alive /\ ~r.pending /\ Finished(r, a)
    BY <1>8, <2>3 DEF Finished
  <2> QED BY <1>9, <2>1, <2>2, <2>3
<1>12. Acts(n, a, first, query)
  <2>1. marking' \in Node \cup {NoNode}
    BY <1>8
  <2> QED BY <1>3, <1>8, <1>10, <2>1, StateTypes, TypeStep
<1> QED BY <1>1, <1>3, <1>7, <1>10, <1>11, <1>12

LEMMA EndRequestStep ==
  ASSUME TypeOK, EndRequest
  PROVE  /\ marking' = NoNode /\ present' = present /\ current' = current
         /\ \E n \in Node, a \in Rec, i \in Items :
              /\ n = marking /\ i = Marker(n, node[n].stage)
              /\ \/ ~node[n].alive /\ a = node[n]
                 \/ /\ node[n].alive /\ SameStatus(node[n], a) /\ Put(n, node[n], i, a)
                    /\ a.stage = node[n].stage /\ a.pending = node[n].pending
              /\ Acts(n, a, first, query)
<1>1. marking # NoNode /\ marking' = NoNode /\ UNCHANGED << present, current, boundVars >>
  BY DEF EndRequest
<1>2. PICK n \in Node : n = marking
  BY <1>1, StateTypes
<1>3. PICK r \in Rec : r = node[n]
  BY StateTypes
<1>4. PICK a : a = AddMarker(n, r)
  OBVIOUS
<1>5. PICK i \in Items : i = Marker(n, r.stage)
  <2>1. r.stage \in Stages
    BY RecFields
  <2> QED BY <2>1, NewItems
<1>6. /\ a \in Rec
      /\ \/ ~r.alive /\ a = r
         \/ /\ r.alive /\ SameStatus(r, a) /\ Put(n, r, i, a)
            /\ a.stage = r.stage /\ a.pending = r.pending
  BY <1>4, <1>5, SendItem DEF AddMarker
<1>7. Handle(n, a, first, query)
  BY <1>2, <1>3, <1>4 DEF EndRequest
<1>8. Acts(n, a, first, query)
  BY <1>1, <1>6, <1>7, StateTypes, TypeStep DEF boundVars
<1> QED BY <1>1, <1>2, <1>3, <1>5, <1>6, <1>8

LEMMA IsFailedNodeStep ==
  ASSUME TypeOK, NEW n \in Node, NEW failed \in BOOLEAN, IsFailedNode(n, failed)
  PROVE  /\ Quiet /\ current' = current /\ Changes # 0
         /\ \E a \in Rec : /\ a = node[n] \/ (Vital(node[n], a) /\ ~a.alive) \/ Revived(n, node[n], a)
                           /\ Acts(n, a, first, query)
<1>1. /\ marking = NoNode /\ changes' \in 0 .. Changes /\ Changes # 0
      /\ UNCHANGED << present, current, marking, revivals >>
  BY ChangeStep DEF IsFailedNode
<1>2. PICK r \in Rec : r = node[n]
  BY StateTypes
<1>3. PICK a \in IF failed THEN {Die(r), r} ELSE Revive(n, r) : Handle(n, a, first, query)
  BY <1>2 DEF IsFailedNode
<1>4. a \in Rec /\ (a = r \/ (Vital(r, a) /\ ~a.alive) \/ Revived(n, r, a))
  BY <1>3, DieOutcome, ReviveOutcome DEF Vital
<1>5. Acts(n, a, first, query)
  BY <1>1, <1>3, <1>4, StateTypes, TypeStep
<1> QED BY <1>1, <1>2, <1>4, <1>5 DEF Quiet

LEMMA BlankNode ==
  /\ Blank \in Rec /\ Blank \in NodeRec
  /\ Blank.stage = None /\ ~Blank.pending /\ Blank.alive /\ ~Blank.check /\ Blank.awake
  /\ ~Blank.info
  /\ Blank.parked = << >> /\ Blank.early = << >> /\ Blank.late = << >>
<1>1. None \in Stages /\ 0 \in 0 .. ProbeAttempts - 1 /\ 0 \in 0 .. DeadAfter /\ << >> \in Seq(Items)
  BY StagesOrdered DEF ProbeAttempts, DeadAfter
<1> QED BY <1>1 DEF Blank, Rec, NodeRec

LEMMA RemoveNodeStep ==
  ASSUME TypeOK, NEW n \in Node, RemoveNode(n)
  PROVE  /\ marking = NoNode /\ marking' = NoNode /\ Changes # 0
         /\ present' = present \ {n} /\ current' = Purged(n)
         /\ Acts(n, Blank, NotOf(n, first), NotOf(n, query))
<1>1. /\ marking = NoNode /\ changes' \in 0 .. Changes /\ Changes # 0
      /\ present' = present \ {n} /\ current' = Purged(n)
      /\ Handle(n, Blank, NotOf(n, first), NotOf(n, query))
      /\ UNCHANGED << marking, revivals >>
  BY ChangeStep DEF RemoveNode
<1>2. current' \in Items \cup {NoItem} /\ present' \subseteq Node
  BY <1>1, StateTypes DEF Purged
<1>3. NotOf(n, first) \in Seq(Items) /\ NotOf(n, query) \in Seq(Items)
  BY StateTypes, OfNode
<1>4. Acts(n, Blank, NotOf(n, first), NotOf(n, query))
  BY <1>1, <1>2, <1>3, BlankNode, StateTypes, TypeStep
<1> QED BY <1>1, <1>4

LEMMA InitNodeStep ==
  ASSUME TypeOK, NEW n \in Node, InitNode(n)
  PROVE  /\ marking = NoNode /\ marking' = NoNode /\ Changes # 0
         /\ present' = present \cup {n} /\ current' = Purged(n)
         /\ \E a \in Rec : /\ Advanced(n, Blank, a)
                           /\ Acts(n, a, NotOf(n, first), NotOf(n, query))
<1>1. /\ marking = NoNode /\ changes' \in 0 .. Changes /\ Changes # 0
      /\ present' = present \cup {n} /\ current' = Purged(n)
      /\ UNCHANGED << marking, revivals >>
  BY ChangeStep DEF InitNode
<1>2. PICK a \in AdvanceQueries(n, Blank) : Handle(n, a, NotOf(n, first), NotOf(n, query))
  BY DEF InitNode
<1>3. current' \in Items \cup {NoItem} /\ present' \subseteq Node
  BY <1>1, StateTypes DEF Purged
<1>4. NotOf(n, first) \in Seq(Items) /\ NotOf(n, query) \in Seq(Items)
  BY StateTypes, OfNode
<1>5. Advanced(n, Blank, a) /\ a \in Rec
  BY <1>2, BlankNode, AdvanceOutcome
<1>6. Acts(n, a, NotOf(n, first), NotOf(n, query))
  BY <1>1, <1>2, <1>3, <1>4, <1>5, StateTypes, TypeStep
<1> QED BY <1>1, <1>5, <1>6

\* A node as the driver creates it.
Fresh(r) ==
  /\ r \in Rec /\ r.stage \in {None, CacheLoad} /\ ~r.pending /\ r.alive /\ r.awake /\ ~r.check
  /\ r.parked = << >> /\ r.early = << >> /\ r.late = << >>

\* The list s holds the lists of the nodes one behind another.
Collects(s, l) ==
  /\ s \in Seq(Items) /\ Range(s) = UNION { Range(l[n]) : n \in Node }
  /\ \A R : /\ \A n \in Node : Never(l[n], R)
            /\ \A m, n \in Node : m # n => \A x \in Range(l[m]), y \in Range(l[n]) : <<x, y>> \notin R
            => Never(s, R)

LEMMA CollectLists ==
  ASSUME NEW l \in [Node -> Seq(Items)]
  PROVE  Collects(Concat([k \in DOMAIN SetToSeq(Node) |-> l[SetToSeq(Node)[k]]]), l)
<1> DEFINE N == Cardinality(Node)
<1>1. PICK ids : ids = SetToSeq(Node)
  OBVIOUS
<1>2. /\ ids \in [1 .. N -> Node] /\ N \in Nat /\ Range(ids) = Node
      /\ \A j, k \in 1 .. N : j # k => ids[j] # ids[k]
  BY <1>1, NodesListed DEF IsInjective
<1>3. PICK ss : ss = [k \in DOMAIN ids |-> l[ids[k]]]
  OBVIOUS
<1> HIDE DEF N
<1>4. DOMAIN ids = 1 .. N /\ \A k \in 1 .. N : ids[k] \in Node
  BY <1>2
<1>5. ss \in [1 .. N -> Seq(Items)] /\ \A k \in 1 .. N : ss[k] = l[ids[k]]
  BY <1>3, <1>4
<1>6. ss \in Seq(Seq(Items)) /\ Len(ss) = N
  BY <1>2, <1>5
<1>7. /\ Concat(ss) \in Seq(Items)
      /\ Range(Concat(ss)) = UNION { Range(ss[k]) : k \in 1 .. N }
      /\ \A R : /\ \A k \in 1 .. N : Never(ss[k], R)
                /\ \A j, k \in 1 .. N : j < k =>
                     \A x \in Range(ss[j]), y \in Range(ss[k]) : <<x, y>> \notin R
                => Never(Concat(ss), R)
  BY <1>6, Concatenated
<1>8. \A n \in Node : \E k \in 1 .. N : ids[k] = n
  BY <1>2, <1>4 DEF Range
<1>9. Range(Concat(ss)) = UNION { Range(l[n]) : n \in Node }
  BY <1>4, <1>5, <1>7, <1>8
<1>10. ASSUME NEW R, \A n \in Node : Never(l[n], R),
              \A m, n \in Node : m # n => \A x \in Range(l[m]), y \in Range(l[n]) : <<x, y>> \notin R
       PROVE  Never(Concat(ss), R)
  <2>1. \A k \in 1 .. N : Never(ss[k], R)
    BY <1>4, <1>5, <1>10
  <2>2. ASSUME NEW j \in 1 .. N, NEW k \in 1 .. N, j < k, NEW x \in Range(ss[j]), NEW y \in Range(ss[k])
        PROVE  <<x, y>> \notin R
    <3>1. j # k
      BY <1>2, <2>2
    <3>2. ids[j] # ids[k] /\ ids[j] \in Node /\ ids[k] \in Node
      BY <1>2, <1>4, <3>1
    <3>3. x \in Range(l[ids[j]]) /\ y \in Range(l[ids[k]])
      BY <1>5, <2>2
    <3> QED BY <1>10, <3>2, <3>3
  <2> QED BY <1>7, <2>1, <2>2
<1>11. Concat(ss) = Concat([k \in DOMAIN SetToSeq(Node) |-> l[SetToSeq(Node)[k]]])
  BY <1>1, <1>3
<1> HIDE DEF Never
<1>12. Collects(Concat(ss), l)
  BY <1>7, <1>9, <1>10 DEF Collects
<1> QED BY <1>11, <1>12

LEMMA InitStep ==
  ASSUME Init
  PROVE  /\ TypeOK /\ marking = NoNode /\ current = NoItem
         /\ \E f \in [Node -> Rec] :
              /\ \A n \in Node : /\ Left(f[n], node[n])
                                 /\ \E r \in Rec : Fresh(r) /\ Advanced(n, r, f[n])
              /\ \E e \in [Node -> Seq(Items)] :
                   Collects(first, e) /\ \A n \in Node : e[n] = f[n].early
              /\ \E l \in [Node -> Seq(Items)] :
                   Collects(query, l) /\ \A n \in Node : l[n] = f[n].late
<1>1. PICK f \in [Node -> UNION { Started(n) : n \in Node }] :
       /\ \A n \in Node : f[n] \in Started(n)
       /\ node = [n \in Node |-> [f[n] EXCEPT !.early = << >>, !.late = << >>]]
       /\ first = Concat([k \in DOMAIN SetToSeq(Node) |-> f[SetToSeq(Node)[k]].early])
       /\ query = Concat([k \in DOMAIN SetToSeq(Node) |-> f[SetToSeq(Node)[k]].late])
  BY DEF Init
<1>2. /\ present = Node /\ current = NoItem /\ allQueried = FALSE /\ awakeQueried = FALSE
      /\ marking = NoNode /\ changes = 0 /\ revivals = 0
  BY DEF Init
<1>3. ASSUME NEW n \in Node
      PROVE  \E r \in Rec : Fresh(r) /\ Advanced(n, r, f[n]) /\ f[n] \in Rec
  <2>1. PICK c : c = [Blank EXCEPT !.stage = CacheLoad, !.info = TRUE]
    OBVIOUS
  <2>2. Blank \in Rec /\ Fresh(Blank)
    BY BlankNode DEF Fresh
  <2>3. c \in Rec /\ Fresh(c)
    <3>1. CacheLoad \in Stages
      BY StagesOrdered
    <3> QED BY <2>1, <3>1, BlankNode DEF Fresh, Rec
  <2>4. f[n] \in AdvanceQueries(n, c) \/ f[n] \in AdvanceQueries(n, Blank)
    BY <1>1, <2>1 DEF Started
  <2> QED BY <2>2, <2>3, <2>4, AdvanceOutcome
<1>4. f \in [Node -> Rec]
  <2>1. \A n \in Node : f[n] \in Rec
    BY <1>3
  <2> QED BY <1>1, <2>1
<1>5. ASSUME NEW n \in Node PROVE ~f[n].check
  <2>1. PICK r \in Rec : Fresh(r) /\ Advanced(n, r, f[n])
    BY <1>3
  <2>2. ~(r.stage > Neighbors)
    <3>1. r.stage = 0 \/ r.stage = 12
      BY <2>1, StagesOrdered DEF Fresh
    <3> QED BY <3>1, StagesOrdered
  <2>3. \E s \in Stages : AskedAt(n, r, s, f[n])
    BY <2>1, <2>2 DEF Advanced, Fresh, Finished
  <2> QED BY <2>1, <2>3 DEF AskedAt, Fresh
<1>6. ASSUME NEW n \in Node PROVE Left(f[n], node[n])
  <2>1. PICK a \in Rec : a = f[n]
    BY <1>4
  <2>2. node[n] = [a EXCEPT !.early = << >>, !.late = << >>]
    BY <1>1, <2>1
  <2>3. ~a.check
    BY <1>5, <2>1
  <2>4. Left(a, node[n])
    BY <2>2, <2>3 DEF Left, Rec, NodeRec
  <2> QED BY <2>1, <2>4
<1>7. PICK e : e = [n \in Node |-> f[n].early]
  OBVIOUS
<1>8. PICK l : l = [n \in Node |-> f[n].late]
  OBVIOUS
<1>9. \A n \in Node : f[n].early \in Seq(Items) /\ f[n].late \in Seq(Items)
  BY <1>4, RecFields
<1>10. /\ e \in [Node -> Seq(Items)] /\ \A n \in Node : e[n] = f[n].early
       /\ l \in [Node -> Seq(Items)] /\ \A n \in Node : l[n] = f[n].late
  BY <1>7, <1>8, <1>9
<1>11. \A k \in DOMAIN SetToSeq(Node) : SetToSeq(Node)[k] \in Node
  BY NodesListed
<1>12. first = Concat([k \in DOMAIN SetToSeq(Node) |-> e[SetToSeq(Node)[k]]])
  <2>1. [k \in DOMAIN SetToSeq(Node) |-> f[SetToSeq(Node)[k]].early] =
        [k \in DOMAIN SetToSeq(Node) |-> e[SetToSeq(Node)[k]]]
    BY <1>10, <1>11
  <2> QED BY <1>1, <2>1
<1>13. query = Concat([k \in DOMAIN SetToSeq(Node) |-> l[SetToSeq(Node)[k]]])
  <2>1. [k \in DOMAIN SetToSeq(Node) |-> f[SetToSeq(Node)[k]].late] =
        [k \in DOMAIN SetToSeq(Node) |-> l[SetToSeq(Node)[k]]]
    BY <1>10, <1>11
  <2> QED BY <1>1, <2>1
<1>14. Collects(first, e) /\ Collects(query, l)
  BY <1>10, <1>12, <1>13, CollectLists
<1>15. node \in [Node -> NodeRec]
  <2>1. \A n \in Node : node[n] \in NodeRec
    BY <1>6 DEF Left
  <2>2. node = [n \in Node |-> node[n]]
    BY <1>1
  <2> QED BY <2>1, <2>2
<1>16. TypeOK
  <2>1. first \in Seq(Items) /\ query \in Seq(Items)
    BY <1>14 DEF Collects
  <2>2. 0 \in 0 .. Changes /\ 0 \in 0 .. Revivals
    BY NodeQueriesAssumption
  <2>3. /\ present \subseteq Node /\ current \in Items \cup {NoItem}
        /\ marking \in Node \cup {NoNode} /\ changes \in 0 .. Changes /\ revivals \in 0 .. Revivals
        /\ allQueried \in BOOLEAN /\ awakeQueried \in BOOLEAN
    BY <1>2, <2>2
  <2> QED BY <1>15, <2>1, <2>3 DEF TypeOK, NodeRec
<1>17. \A n \in Node : /\ Left(f[n], node[n])
                       /\ \E r \in Rec : Fresh(r) /\ Advanced(n, r, f[n])
  BY <1>3, <1>6
<1> QED BY <1>2, <1>4, <1>10, <1>14, <1>16, <1>17

LEMMA TypeKept ==
  ASSUME TypeOK, [Next]_vars
  PROVE  TypeOK'
<1>1. CASE UNCHANGED vars
  BY <1>1 DEF vars, queueVars, driverVars, boundVars, TypeOK
<1>2. CASE Engine
  BY <1>2, SendQuestionStep, TakeMarkerStep DEF Engine, Acts
<1>3. CASE Outcome
  BY <1>3, AnsweredStep, LostStep, FailedAsleepStep, FailedStep, NodeInfoFailedStep DEF Outcome, Acts
<1>4. CASE EndRequest \/ NodeInfoFailedLate
  BY <1>4, EndRequestStep, NodeInfoFailedLateStep DEF Acts
<1>5. ASSUME NEW n \in Node,
             \/ Report(n) \/ WakesUp(n) \/ WakesUpToBePolled(n)
             \/ \E b \in BOOLEAN : NodeInfoReceived(n, b) \/ IsFailedNode(n, b)
             \/ \E s \in Requested : Request(n, s)
             \/ RemoveNode(n) \/ InitNode(n)
      PROVE  TypeOK'
  BY <1>5, ReportStep, WakesUpStep, WakesUpToBePolledStep, NodeInfoReceivedStep, IsFailedNodeStep,
     RequestStep, RemoveNodeStep, InitNodeStep DEF Acts
<1> QED BY <1>1, <1>2, <1>3, <1>4, <1>5 DEF Next

\* The fields of the nodes and the items of the queues are always of their types; the
\* node is left with nothing half sent.
THEOREM TypeCorrect == Spec => []TypeOK
<1>1. Init => TypeOK
  BY InitStep
<1>2. TypeOK /\ [Next]_vars => TypeOK'
  BY TypeKept
<1> QED BY <1>1, <1>2, PTL DEF Spec

-----------------------------------------------------------------------------
\* A marker of the node is on its way, in the items Q or parked, as long as the node is
\* alive and not complete, and, whether alive or not, as long as questions are pending;
\* then it is one of their stage, and no retry takes it away from the stage.
Followed(n, r, Q) ==
  /\ r.stage = Complete => ~r.pending
  /\ r.alive /\ r.stage # Complete => \E i \in Q \cup Range(r.parked) : IsMarker(i, n)
  /\ r.pending => \E i \in Q \cup Range(r.parked) :
                    IsMarker(i, n) /\ i.stage = r.stage /\ (i.retry => i \in Range(r.parked))

\* An application thread that is about to queue a marker has just sent the questions.
MarkerInv ==
  /\ TypeOK
  /\ marking # NoNode =>
       node[marking].alive /\ node[marking].pending /\ node[marking].stage # Complete
  /\ \A n \in present \ {marking} : Followed(n, node[n], Range(query))

LEMMA FollowedMore ==
  ASSUME NEW n, NEW r, NEW Q, NEW U, Q \subseteq U, Followed(n, r, Q)
  PROVE  Followed(n, r, U)
BY DEF Followed

LEMMA FollowedSame ==
  ASSUME NEW n, NEW r, NEW a, NEW Q, Followed(n, r, Q),
         a.stage = r.stage, a.pending = r.pending, a.alive => r.alive, a.parked = r.parked
  PROVE  Followed(n, a, Q)
BY DEF Followed

\* Once the marker is sent the node is followed.
LEMMA FollowedSent ==
  ASSUME NEW n \in Node, NEW r \in Rec, NEW a \in Rec, NEW Q, a.stage \in Stages \ {Complete},
         a.pending, Put(n, r, Marker(n, a.stage), a)
  PROVE  Followed(n, a, Q \cup Range(a.late))
<1>1. PICK i \in Items : i = Marker(n, a.stage) /\ IsMarker(i, n) /\ i.stage = a.stage /\ ~i.retry
  BY NewItems
<1>2. ~Early(i)
  BY <1>1 DEF Early, IsMarker
<1>3. r.parked \in Seq(Items) /\ r.late \in Seq(Items)
  BY RecFields
<1>4. i \in Range(a.parked) \/ i \in Range(a.late)
  <2>1. CASE Asleep(n, r)
    <3>1. a.parked = Park(r.parked, i)
      BY <1>1, <2>1 DEF Put
    <3>2. i \in Range(Park(r.parked, i))
      BY <1>3, ParkOne
    <3> QED BY <3>1, <3>2
  <2>2. CASE ~Asleep(n, r)
    <3>1. a.late = Append(r.late, i)
      BY <1>1, <1>2, <2>2 DEF Put
    <3>2. i \in Range(Append(r.late, i))
      BY <1>3, AppendItem
    <3> QED BY <3>1, <3>2
  <2> QED BY <2>1, <2>2
<1> QED BY <1>1, <1>4 DEF Followed

LEMMA FollowedAdvance ==
  ASSUME NEW n \in Node, NEW r \in Rec, NEW a \in Rec, NEW Q, Advanced(n, r, a),
         r.pending \/ ~r.alive => Followed(n, r, Q \cup Range(r.late))
  PROVE  Followed(n, a, Q \cup Range(a.late))
<1>1. CASE (r.pending \/ ~r.alive) /\ a = r
  BY <1>1
<1>2. CASE \E s \in Stages \ {Complete} : AskedAt(n, r, s, a)
  <2>1. PICK s \in Stages \ {Complete} : AskedAt(n, r, s, a)
    BY <1>2
  <2>2. PICK b : Questioned(n, r, s, b) /\ Put(n, b, Marker(n, s), a)
    BY <2>1 DEF AskedAt
  <2>3. b \in Rec /\ a.stage = s /\ a.pending
    BY <2>1, <2>2 DEF AskedAt, Questioned
  <2>4. Put(n, b, Marker(n, a.stage), a)
    BY <2>2, <2>3
  <2> QED BY <2>3, <2>4, FollowedSent
<1>3. CASE Finished(r, a)
  BY <1>3 DEF Finished, Followed
<1> QED BY <1>1, <1>2, <1>3 DEF Advanced

LEMMA FollowedRevive ==
  ASSUME NEW n \in Node, NEW r \in Rec, NEW a \in Rec, NEW Q, Revived(n, r, a),
         Followed(n, r, Q \cup Range(r.late))
  PROVE  Followed(n, a, Q \cup Range(a.late))
<1>1. PICK q \in Rec : /\ Vital(r, q) /\ q.alive
                       /\ IF r.stage = Complete THEN a = q ELSE Advanced(n, q, a)
  BY DEF Revived
<1>2. q.stage = r.stage /\ q.pending = r.pending /\ q.parked = r.parked /\ q.late = r.late
  BY <1>1 DEF Vital, SameLists
<1>3. CASE r.stage = Complete
  BY <1>1, <1>2, <1>3 DEF Followed
<1>4. CASE r.stage # Complete
  <2>1. q.pending => Followed(n, q, Q \cup Range(q.late))
    BY <1>2, <1>4 DEF Followed
  <2> QED BY <1>1, <1>4, <2>1, FollowedAdvance
<1> QED BY <1>3, <1>4

LEMMA FollowedHeard ==
  ASSUME NEW n \in Node, NEW r \in Rec, NEW a \in Rec, NEW Q, HeardFrom(n, r, a),
         Followed(n, r, Q \cup Range(r.late))
  PROVE  Followed(n, a, Q \cup Range(a.late))
BY FollowedRevive DEF HeardFrom

LEMMA FollowedBack ==
  ASSUME NEW n \in Node, NEW r \in Rec, NEW c \in Rec, NEW a \in Rec, NEW Q, WentBack(r, c),
         Advanced(n, c, a), Followed(n, r, Q \cup Range(r.late))
  PROVE  Followed(n, a, Q \cup Range(a.late))
<1>1. CASE c = r
  BY <1>1, FollowedAdvance
<1>2. CASE ~c.pending /\ c.alive
  BY <1>2, FollowedAdvance
<1>3. CASE ~c.pending /\ ~c.alive
  BY <1>3, FollowedAdvance DEF Followed
<1> QED BY <1>1, <1>2, <1>3, RecFields DEF WentBack

\* A marker that was parked is no longer to be retried when it goes to the Query queue.
LEMMA FollowedWoken ==
  ASSUME NEW n \in Node, NEW r \in Rec, NEW b \in Rec, NEW Q, Woken(n, r, b),
         Followed(n, r, Q \cup Range(r.late))
  PROVE  Followed(n, b, Q \cup Range(b.late))
<1>1. PICK ms \in Seq(Items) :
         /\ b.late = r.late \o ms
         /\ \A x \in Range(r.parked) : x.kind = "marker" => \E y \in Range(ms) : SameItem(x, y) /\ ~y.retry
  BY DEF Woken
<1>2. Range(b.late) = Range(r.late) \cup Range(ms)
  BY <1>1, RecFields, ConcatList
<1>3. /\ b.stage = r.stage /\ b.pending = r.pending /\ b.alive = r.alive
  BY DEF Woken
<1>4. ASSUME NEW i \in Q \cup Range(r.late) \cup Range(r.parked), IsMarker(i, n)
      PROVE  \E y \in Q \cup Range(b.late) :
               IsMarker(y, n) /\ y.stage = i.stage /\ (i \in Range(r.parked) => ~y.retry \/ y = i)
  <2>1. CASE i \in Q \cup Range(r.late) /\ i \notin Range(r.parked)
    BY <1>2, <1>4, <2>1
  <2>2. CASE i \in Range(r.parked)
    <3>1. PICK y \in Range(ms) : SameItem(i, y) /\ ~y.retry
      BY <1>1, <1>4, <2>2 DEF IsMarker
    <3>2. IsMarker(y, n) /\ y.stage = i.stage
      BY <1>4, <3>1 DEF IsMarker, SameItem
    <3> QED BY <1>2, <3>1, <3>2
  <2> QED BY <2>1, <2>2
<1>5. r.alive /\ r.stage # Complete => \E i \in Q \cup Range(b.late) : IsMarker(i, n)
  BY <1>4 DEF Followed
<1>6. ASSUME r.pending
      PROVE  \E i \in Q \cup Range(b.late) : IsMarker(i, n) /\ i.stage = r.stage /\ ~i.retry
  <2>1. PICK i \in Q \cup Range(r.late) \cup Range(r.parked) :
           IsMarker(i, n) /\ i.stage = r.stage /\ (i.retry => i \in Range(r.parked))
    BY <1>6 DEF Followed
  <2>2. CASE i \in Range(r.parked)
    <3>1. PICK y \in Range(ms) : SameItem(i, y) /\ ~y.retry
      BY <1>1, <2>1, <2>2 DEF IsMarker
    <3> QED BY <1>2, <2>1, <3>1 DEF IsMarker, SameItem
  <2>3. CASE i \notin Range(r.parked)
    BY <1>2, <2>1, <2>3
  <2> QED BY <2>2, <2>3
<1> QED BY <1>3, <1>5, <1>6 DEF Followed

LEMMA FollowedMarked ==
  ASSUME NEW n \in Node, NEW r, NEW a, NEW q \in Seq(Items), NEW m, Marked(q, n, m),
         Followed(n, r, Range(q)), ~a.pending, a.alive => r.alive, a.stage # Complete => r.stage # Complete,
         a.parked = r.parked
  PROVE  Followed(n, a, Range(m))
<1>1. \A x \in Range(q) : IsMarker(x, n) => \E y \in Range(m) : IsMarker(y, n)
  <2>1. \A x \in Range(q) : \E y \in Range(m) : SameItem(x, y)
    BY MarkedRange
  <2> QED BY <2>1 DEF IsMarker, SameItem
<1> QED BY <1>1 DEF Followed

\* All markers of the node are parked now, whatever became of the queue.
LEMMA FollowedMoved ==
  ASSUME NEW n \in Node, NEW r \in Rec, NEW m \in Rec, NEW q, NEW U, Moved(n, r, q, m),
         Followed(n, r, Range(q))
  PROVE  Followed(n, m, U)
<1>1. ASSUME NEW i \in Range(q) \cup Range(r.parked), IsMarker(i, n)
      PROVE  \E y \in Range(m.parked) : IsMarker(y, n) /\ y.stage = i.stage
  <2>1. i \in Range(r.parked) \cup MovedItems(n, q)
    BY <1>1 DEF MovedItems, IsMarker, Kept
  <2>2. PICK y \in Range(m.parked) : SameItem(i, y)
    BY <2>1 DEF Moved
  <2> QED BY <1>1, <2>2 DEF IsMarker, SameItem
<1>2. m.stage = r.stage /\ m.pending = r.pending /\ m.alive = r.alive
  BY DEF Moved
<1> QED BY <1>1, <1>2 DEF Followed

\* What a handler must show: the node it worked on is followed, and it took no marker of
\* another node from the queue.
LEMMA MarkerStep ==
  ASSUME MarkerInv, NEW n \in Node, NEW a \in Rec, NEW f, NEW q, Acts(n, a, f, q),
         marking = NoNode, marking' = NoNode, present' \subseteq present \cup {n},
         \A i \in Range(query) : i.node # n => \E j \in Range(q) : j = i,
         n \in present' => Followed(n, a, Range(q) \cup Range(a.late))
  PROVE  MarkerInv'
<1>1. /\ TypeOK' /\ Range(query') = Range(q) \cup Range(a.late)
      /\ Left(a, node'[n]) /\ \A m \in Node \ {n} : node'[m] = node[m]
  BY DEF Acts, Handled
<1>2. ASSUME NEW m \in present' \ {marking'} PROVE Followed(m, node'[m], Range(query'))
  <2>1. CASE m = n
    BY <1>1, <1>2, <2>1, FollowedSame DEF Left
  <2>2. CASE m # n
    <3>1. m \in present \ {marking} /\ m \in Node
      BY <1>2, <2>2, StateTypes, NodeQueriesAssumption DEF MarkerInv
    <3>2. Followed(m, node[m], Range(query)) /\ node'[m] = node[m]
      BY <1>1, <2>2, <3>1 DEF MarkerInv
    <3>3. \A i \in Range(query) : IsMarker(i, m) => i \in Range(query')
      BY <1>1, <2>2 DEF IsMarker
    <3> QED BY <3>2, <3>3 DEF Followed
  <2> QED BY <2>1, <2>2
<1> QED BY <1>1, <1>2 DEF MarkerInv

LEMMA MarkerInit ==
  ASSUME Init
  PROVE  MarkerInv
<1>1. PICK f \in [Node -> Rec] :
        /\ \A n \in Node : /\ Left(f[n], node[n])
                           /\ \E r \in Rec : Fresh(r) /\ Advanced(n, r, f[n])
        /\ \E l \in [Node -> Seq(Items)] :
             Collects(query, l) /\ \A n \in Node : l[n] = f[n].late
  BY InitStep
<1>2. ASSUME NEW n \in Node PROVE Followed(n, node[n], Range(query))
  <2>1. Range(f[n].late) \subseteq Range(query)
    BY <1>1 DEF Collects
  <2>2. PICK r \in Rec : Fresh(r) /\ Advanced(n, r, f[n])
    BY <1>1
  <2>3. PICK a \in Rec : a = f[n]
    OBVIOUS
  <2>4. Followed(n, a, {} \cup Range(a.late))
    BY <2>2, <2>3, FollowedAdvance DEF Fresh
  <2>5. Followed(n, a, Range(query))
    BY <2>1, <2>3, <2>4, FollowedMore
  <2> QED BY <1>1, <2>3, <2>5, FollowedSame DEF Left
<1> QED BY <1>2, InitStep, StateTypes DEF MarkerInv

LEMMA MarkerEngine ==
  ASSUME MarkerInv, Engine
  PROVE  MarkerInv'
<1>1. TypeOK
  BY DEF MarkerInv
<1>2. CASE SendQuestion
  <2>1. PICK i \in Items :
          /\ TypeOK' /\ Quiet /\ node' = node /\ i.kind # "marker"
          /\ \/ query' = query
             \/ query # << >> /\ i = Head(query) /\ query' = Tail(query)
    BY <1>1, <1>2, SendQuestionStep
  <2>2. query \in Seq(Items)
    BY <1>1, StateTypes
  <2>3. \A x \in Range(query) : x.kind = "marker" => x \in Range(query')
    <3>1. CASE query' = query
      BY <3>1
    <3>2. CASE query # << >> /\ i = Head(query) /\ query' = Tail(query)
      <4>1. Range(query) = {i} \cup Range(query')
        BY <2>2, <3>2, TailList
      <4> QED BY <2>1, <4>1
    <3> QED BY <2>1, <3>1, <3>2
  <2>4. \A n \in present' \ {marking'} : Followed(n, node'[n], Range(query'))
    BY <2>1, <2>3 DEF MarkerInv, Followed, Quiet, IsMarker
  <2> QED BY <2>1, <2>4 DEF MarkerInv, Quiet
<1>3. CASE TakeMarker
  <2>1. PICK n \in Node, i \in Items, r, a \in Rec :
          /\ i = Head(query) /\ IsMarker(i, n)
          /\ Kin(node[n], r) /\ Advanced(n, r, a)
          /\ \/ r = node[n] /\ (i.retry \/ i.stage # node[n].stage \/ i.stage = Complete)
             \/ ~r.pending
          /\ Acts(n, a, first, Tail(query))
    BY <1>1, <1>3, TakeMarkerStep
  <2>2. Quiet /\ query # << >> /\ query \in Seq(Items)
    BY <1>1, <1>3, TakeMarkerStep, StateTypes
  <2>3. Range(query) = {i} \cup Range(Tail(query))
    BY <2>1, <2>2, TailList
  <2>4. node[n].late = << >>
    BY <1>1, StateTypes
  <2>5. Range(r.late) = {}
    BY <2>1, <2>4 DEF Kin, SameLists, Range
  <2>6. ASSUME n \in present PROVE Followed(n, a, Range(Tail(query)) \cup Range(a.late))
    <3>1. Followed(n, node[n], Range(query))
      BY <2>2, <2>6, NodeQueriesAssumption DEF MarkerInv, Quiet
    <3>2. CASE r = node[n] /\ (i.retry \/ i.stage # node[n].stage \/ i.stage = Complete)
      <4>1. r.pending =>
              \E j \in Range(Tail(query)) \cup Range(r.parked) :
                IsMarker(j, n) /\ j.stage = r.stage /\ (j.retry => j \in Range(r.parked))
        BY <2>3, <3>1, <3>2 DEF Followed
      <4>2. r.stage = Complete => ~r.pending
        BY <3>1, <3>2 DEF Followed
      <4>3. r.pending \/ ~r.alive => Followed(n, r, Range(Tail(query)))
        BY <4>1, <4>2 DEF Followed
      <4> QED BY <2>1, <2>5, <4>3, FollowedAdvance
    <3>3. CASE ~r.pending
      <4>1. ~r.alive => Followed(n, r, Range(Tail(query)))
        BY <3>3 DEF Followed
      <4> QED BY <2>1, <2>5, <3>3, <4>1, FollowedAdvance
    <3> QED BY <2>1, <3>2, <3>3
  <2>7. \A x \in Range(query) : x.node # n => x \in Range(Tail(query))
    BY <2>1, <2>3 DEF IsMarker
  <2> QED BY <2>1, <2>2, <2>6, <2>7, MarkerStep DEF Quiet
<1> QED BY <1>2, <1>3 DEF Engine

LEMMA MarkerInfoFailed ==
  ASSUME MarkerInv, NodeInfoFailed \/ NodeInfoFailedLate
  PROVE  MarkerInv'
<1>1. TypeOK /\ query \in Seq(Items)
  BY StateTypes DEF MarkerInv
<1>2. \A n \in present \ {marking} : Followed(n, node[n], Range(query))
  BY DEF MarkerInv
<1>3. Quiet
  BY <1>1, NodeInfoFailedStep, NodeInfoFailedLateStep
<1>4. PICK n \in Node, r \in Rec, q \in Seq(Items) :
        /\ Kin(node[n], r) /\ Marked(query, n, q)
        /\ \/ r = node[n] /\ q = query
           \/ node[n].stage = NodeInfo /\ ~r.pending
        /\ \/ \E m \in Rec : Moved(n, r, q, m) /\ Acts(n, m, NotOf(n, first), NotOf(n, q))
           \/ Acts(n, r, first, q)
  BY <1>1, NodeInfoFailedStep, NodeInfoFailedLateStep
<1>5. r.parked = node[n].parked /\ r.alive = node[n].alive
  BY <1>4 DEF Kin, SameLists, SameStatus
<1>6. ASSUME n \in present PROVE Followed(n, r, Range(q))
  <2>1. Followed(n, node[n], Range(query))
    BY <1>2, <1>3, <1>6, <1>1, StateTypes, NodeQueriesAssumption DEF Quiet
  <2>2. CASE r = node[n] /\ q = query
    BY <2>1, <2>2
  <2>3. CASE node[n].stage = NodeInfo /\ ~r.pending
    <3>1. node[n].stage # Complete
      BY <2>3, StagesOrdered
    <3> QED BY <1>1, <1>4, <1>5, <2>1, <2>3, <3>1, FollowedMarked
  <2> QED BY <1>4, <2>2, <2>3
<1>7. \A i \in Range(query) : i.node # n => i \in Range(q)
  BY <1>1, <1>4, MarkedRange DEF IsMarker
<1>8. CASE Acts(n, r, first, q)
  <2>1. n \in present => Followed(n, r, Range(q) \cup Range(r.late))
    BY <1>6, FollowedMore
  <2> QED BY <1>3, <1>7, <1>8, <2>1, MarkerStep DEF Quiet
<1>9. CASE \E m \in Rec : Moved(n, r, q, m) /\ Acts(n, m, NotOf(n, first), NotOf(n, q))
  <2>1. PICK m \in Rec : Moved(n, r, q, m) /\ Acts(n, m, NotOf(n, first), NotOf(n, q))
    BY <1>9
  <2>2. \A i \in Range(query) : i.node # n => i \in Range(NotOf(n, q))
    BY <1>4, <1>7, OfNode
  <2>3. n \in present => Followed(n, m, Range(NotOf(n, q)) \cup Range(m.late))
    BY <1>6, <2>1, FollowedMoved
  <2> QED BY <1>3, <2>1, <2>2, <2>3, MarkerStep DEF Quiet
<1> QED BY <1>4, <1>8, <1>9

LEMMA MarkerOutcome ==
  ASSUME MarkerInv, ~Overlap, Outcome
  PROVE  MarkerInv'
<1>1. TypeOK /\ query \in Seq(Items)
  BY StateTypes DEF MarkerInv
<1>2. \A n \in present : marking = NoNode => Followed(n, node[n], Range(query))
  BY NodeQueriesAssumption, <1>1, StateTypes DEF MarkerInv
<1>3. \A n \in Node : node[n] \in Rec /\ Range(node[n].late) = {}
  BY <1>1, StateTypes DEF Range
<1>4. CASE \E e \in BOOLEAN : Answered(e)
  <2>1. PICK e \in BOOLEAN : Answered(e)
    BY <1>4
  <2>2. Quiet
    BY <1>1, <2>1, AnsweredStep
  <2>3. PICK n \in Node, k, a \in Rec :
          /\ Known(current, node[n], k) /\ (a = k \/ HeardFrom(n, k, a))
          /\ Acts(n, a, first, query)
    BY <1>1, <2>1, AnsweredStep
  <2>4. ASSUME n \in present PROVE Followed(n, a, Range(query) \cup Range(a.late))
    <3>1. Followed(n, node[n], Range(query))
      BY <1>2, <2>2, <2>4 DEF Quiet
    <3>2. k.stage = node[n].stage /\ k.pending = node[n].pending /\ (k.alive => node[n].alive)
          /\ k.parked = node[n].parked /\ k.late = node[n].late
      BY <2>3 DEF Known, SameLists
    <3>3. Followed(n, k, Range(query))
      BY <3>1, <3>2, FollowedSame
    <3>4. Followed(n, k, Range(query) \cup Range(k.late))
      BY <3>3, FollowedMore
    <3> QED BY <2>3, <3>4, FollowedHeard
  <2> QED BY <2>2, <2>3, <2>4, MarkerStep DEF Quiet
<1>5. CASE Lost
  BY <1>1, <1>5, LostStep DEF MarkerInv, Quiet
<1>6. CASE FailedAsleep
  <2>1. PICK n \in Node, m \in Rec :
          Moved(n, node[n], query, m) /\ Acts(n, m, NotOf(n, first), NotOf(n, query))
    BY <1>1, <1>6, FailedAsleepStep
  <2>2. Quiet
    BY <1>1, <1>6, FailedAsleepStep
  <2>3. \A i \in Range(query) : i.node # n => i \in Range(NotOf(n, query))
    BY <1>1, OfNode
  <2>4. n \in present => Followed(n, m, Range(NotOf(n, query)) \cup Range(m.late))
    BY <1>2, <1>3, <2>1, <2>2, FollowedMoved DEF Quiet
  <2> QED BY <2>1, <2>2, <2>3, <2>4, MarkerStep DEF Quiet
<1>7. CASE Failed
  <2>1. PICK n \in Node, j \in Rec :
          /\ Vital(node[n], j) /\ (j.alive => node[n].alive)
          /\ \/ Acts(n, j, first, query)
             \/ \E a \in Rec, q \in Seq(Items) :
                  /\ Kin(j, a) /\ ~a.pending /\ a.stage = j.stage
                  /\ Marked(query, n, q) /\ Acts(n, a, first, q)
    BY <1>1, <1>7, FailedStep
  <2>2. marking = NoNode /\ marking' = NoNode /\ present' = present
    BY <1>1, <1>7, FailedStep
  <2>3. /\ j.stage = node[n].stage /\ j.pending = node[n].pending /\ j.parked = node[n].parked
    BY <2>1 DEF Vital, SameLists
  <2>4. CASE Acts(n, j, first, query)
    <3>1. n \in present => Followed(n, j, Range(query))
      BY <1>2, <2>1, <2>2, <2>3, FollowedSame
    <3>2. n \in present => Followed(n, j, Range(query) \cup Range(j.late))
      BY <3>1, FollowedMore
    <3> QED BY <2>2, <2>4, <3>2, MarkerStep
  <2>5. CASE \E a \in Rec, q \in Seq(Items) :
               /\ Kin(j, a) /\ ~a.pending /\ a.stage = j.stage
               /\ Marked(query, n, q) /\ Acts(n, a, first, q)
    <3>1. PICK a \in Rec, q \in Seq(Items) :
            /\ Kin(j, a) /\ ~a.pending /\ a.stage = j.stage
            /\ Marked(query, n, q) /\ Acts(n, a, first, q)
      BY <2>5
    <3>2. a.parked = j.parked /\ a.alive = j.alive
      BY <3>1 DEF Kin, SameLists, SameStatus
    <3>3. n \in present => Followed(n, a, Range(q))
      BY <1>1, <1>2, <2>1, <2>2, <2>3, <3>1, <3>2, FollowedMarked
    <3>4. n \in present => Followed(n, a, Range(q) \cup Range(a.late))
      BY <3>3, FollowedMore
    <3>5. \A i \in Range(query) : i.node # n => i \in Range(q)
      BY <1>1, <3>1, MarkedRange DEF IsMarker
    <3> QED BY <2>2, <3>1, <3>4, <3>5, MarkerStep
  <2> QED BY <2>1, <2>4, <2>5
<1>8. CASE NodeInfoFailed
  BY <1>8, MarkerInfoFailed
<1> QED BY <1>4, <1>5, <1>6, <1>7, <1>8 DEF Outcome

LEMMA MarkerEndRequest ==
  ASSUME MarkerInv, EndRequest
  PROVE  MarkerInv'
<1>1. TypeOK /\ marking # NoNode
  BY DEF MarkerInv, EndRequest
<1>2. PICK n \in Node, a \in Rec :
        /\ n = marking
        /\ \/ ~node[n].alive
           \/ /\ Put(n, node[n], Marker(n, node[n].stage), a)
              /\ a.stage = node[n].stage /\ a.pending = node[n].pending
        /\ Acts(n, a, first, query)
  BY <1>1, EndRequestStep
<1>3. marking' = NoNode /\ present' = present
  BY <1>1, EndRequestStep
<1>4. node[n].alive /\ node[n].pending /\ node[n].stage # Complete /\ node[n] \in Rec
  BY <1>1, <1>2, StateTypes DEF MarkerInv
<1>5. Followed(n, a, Range(query) \cup Range(a.late))
  <2>1. a.stage \in Stages \ {Complete} /\ a.pending /\ Put(n, node[n], Marker(n, a.stage), a)
    BY <1>2, <1>4, RecFields
  <2> QED BY <1>4, <2>1, FollowedSent
<1>6. /\ TypeOK' /\ Range(query') = Range(query) \cup Range(a.late)
      /\ Left(a, node'[n]) /\ \A m \in Node \ {n} : node'[m] = node[m]
  BY <1>2 DEF Acts, Handled
<1>7. ASSUME NEW m \in present PROVE Followed(m, node'[m], Range(query'))
  <2>1. CASE m = n
    BY <1>5, <1>6, <2>1, FollowedSame DEF Left
  <2>2. CASE m # n
    <3>1. m \in Node /\ Followed(m, node[m], Range(query))
      BY <1>1, <1>2, <2>2, StateTypes DEF MarkerInv
    <3> QED BY <1>6, <2>2, <3>1, FollowedMore
  <2> QED BY <2>1, <2>2
<1> QED BY <1>3, <1>6, <1>7 DEF MarkerInv

LEMMA MarkerRequest ==
  ASSUME MarkerInv, NEW n \in Node, NEW s \in Requested, Request(n, s)
  PROVE  MarkerInv'
<1>1. TypeOK
  BY DEF MarkerInv
<1>2. marking = NoNode /\ present' = present /\ n \in present
  BY <1>1, RequestStep
<1>3. PICK r, a \in Rec :
        /\ WentBack(node[n], r) /\ Acts(n, a, first, query)
        /\ \/ (r.pending \/ ~r.alive) /\ a = r /\ marking' = NoNode
           \/ /\ r.alive /\ ~r.pending /\ marking' = n
              /\ \E t \in Stages \ {Complete} : r.stage <= t /\ Questioned(n, r, t, a)
           \/ r.alive /\ ~r.pending /\ Finished(r, a) /\ marking' = NoNode
  BY <1>1, RequestStep
<1>4. /\ TypeOK' /\ Range(query') = Range(query) \cup Range(a.late)
      /\ Left(a, node'[n]) /\ \A m \in Node \ {n} : node'[m] = node[m]
  BY <1>3 DEF Acts, Handled
<1>5. Followed(n, node[n], Range(query)) /\ node[n] \in Rec
  BY <1>1, <1>2, StateTypes, NodeQueriesAssumption DEF MarkerInv
<1>6. ASSUME NEW m \in present, m # n PROVE Followed(m, node'[m], Range(query'))
  <2>1. m \in Node /\ Followed(m, node[m], Range(query))
    BY <1>1, <1>2, <1>6, StateTypes, NodeQueriesAssumption DEF MarkerInv
  <2> QED BY <1>4, <1>6, <2>1, FollowedMore
<1>7. CASE (r.pending \/ ~r.alive) /\ a = r /\ marking' = NoNode
  <2>1. Followed(n, r, Range(query))
    <3>1. r.alive = node[n].alive
      BY <1>3 DEF WentBack, Kin, SameStatus
    <3> QED BY <1>3, <1>5, <1>7, <3>1 DEF WentBack, Followed
  <2>2. Followed(n, node'[n], Range(query'))
    <3>1. Followed(n, a, Range(query'))
      BY <1>4, <1>7, <2>1, FollowedMore
    <3> QED BY <1>4, <3>1, FollowedSame DEF Left
  <2> QED BY <1>2, <1>4, <1>6, <1>7, <2>2 DEF MarkerInv
<1>8. CASE /\ r.alive /\ marking' = n
           /\ \E t \in Stages \ {Complete} : r.stage <= t /\ Questioned(n, r, t, a)
  <2>1. a.alive /\ a.pending /\ a.stage # Complete
    BY <1>8 DEF Questioned, SameStatus
  <2>2. node'[n].alive /\ node'[n].pending /\ node'[n].stage # Complete
    BY <1>4, <2>1 DEF Left
  <2> QED BY <1>2, <1>4, <1>6, <1>8, <2>2 DEF MarkerInv
<1>9. CASE Finished(r, a) /\ marking' = NoNode
  <2>1. Followed(n, node'[n], Range(query'))
    BY <1>4, <1>9 DEF Finished, Left, Followed
  <2> QED BY <1>2, <1>4, <1>6, <1>9, <2>1 DEF MarkerInv
<1> QED BY <1>3, <1>7, <1>8, <1>9

LEMMA MarkerEvents ==
  ASSUME MarkerInv, NEW n \in Node,
         \/ Report(n) \/ WakesUp(n) \/ WakesUpToBePolled(n)
         \/ \E b \in BOOLEAN : NodeInfoReceived(n, b) \/ IsFailedNode(n, b)
         \/ RemoveNode(n) \/ InitNode(n)
  PROVE  MarkerInv'
<1>1. TypeOK
  BY DEF MarkerInv
<1>2. node[n] \in Rec /\ Range(node[n].late) = {}
  BY <1>1, StateTypes DEF Range
<1>3. n \in present /\ marking = NoNode => Followed(n, node[n], Range(query) \cup Range(node[n].late))
  BY <1>2, NodeQueriesAssumption, FollowedMore DEF MarkerInv
<1>4. CASE Report(n)
  <2>1. PICK a \in Rec : Revived(n, node[n], a) /\ Acts(n, a, first, query)
    BY <1>1, <1>4, ReportStep
  <2>2. Quiet
    BY <1>1, <1>4, ReportStep
  <2>3. n \in present => Followed(n, a, Range(query) \cup Range(a.late))
    BY <1>2, <1>3, <2>1, <2>2, FollowedRevive DEF Quiet
  <2> QED BY <2>1, <2>2, <2>3, MarkerStep DEF Quiet
<1>5. CASE WakesUp(n)
  <2>1. PICK a, b \in Rec : HeardFrom(n, node[n], a) /\ Woken(n, a, b) /\ Acts(n, b, first, query)
    BY <1>1, <1>5, WakesUpStep
  <2>2. Quiet
    BY <1>1, <1>5, WakesUpStep
  <2>3. n \in present => Followed(n, a, Range(query) \cup Range(a.late))
    BY <1>2, <1>3, <2>1, <2>2, FollowedHeard DEF Quiet
  <2>4. n \in present => Followed(n, b, Range(query) \cup Range(b.late))
    BY <2>1, <2>3, FollowedWoken
  <2> QED BY <2>1, <2>2, <2>4, MarkerStep DEF Quiet
<1>6. CASE WakesUpToBePolled(n)
  <2>1. PICK a, w, c, b, d \in Rec :
          /\ HeardFrom(n, node[n], a) /\ Alike(a, w) /\ WentBack(w, c) /\ Advanced(n, c, b)
          /\ Woken(n, b, d) /\ Acts(n, d, first, query)
    BY <1>1, <1>6, WakesUpToBePolledStep
  <2>2. Quiet
    BY <1>1, <1>6, WakesUpToBePolledStep
  <2>3. n \in present => Followed(n, a, Range(query) \cup Range(a.late))
    BY <1>2, <1>3, <2>1, <2>2, FollowedHeard DEF Quiet
  <2>4. n \in present => Followed(n, w, Range(query) \cup Range(w.late))
    BY <2>1, <2>3, FollowedSame DEF Alike, SameLists
  <2>5. n \in present => Followed(n, b, Range(query) \cup Range(b.late))
    BY <2>1, <2>4, FollowedBack
  <2>6. n \in present => Followed(n, d, Range(query) \cup Range(d.late))
    BY <2>1, <2>5, FollowedWoken
  <2> QED BY <2>1, <2>2, <2>6, MarkerStep DEF Quiet
<1>7. ASSUME NEW notified \in BOOLEAN, NodeInfoReceived(n, notified) PROVE MarkerInv'
  <2>1. PICK a, c, b, d \in Rec :
          /\ HeardFrom(n, node[n], a)
          /\ b = a \/ (WentBack(a, c) /\ Advanced(n, c, b))
          /\ d = b \/ Woken(n, b, d)
          /\ Acts(n, d, first, query)
    BY <1>1, <1>7, NodeInfoReceivedStep
  <2>2. Quiet
    BY <1>1, <1>7, NodeInfoReceivedStep
  <2>3. n \in present => Followed(n, a, Range(query) \cup Range(a.late))
    BY <1>2, <1>3, <2>1, <2>2, FollowedHeard DEF Quiet
  <2>4. n \in present => Followed(n, b, Range(query) \cup Range(b.late))
    BY <2>1, <2>3, FollowedBack
  <2>5. n \in present => Followed(n, d, Range(query) \cup Range(d.late))
    BY <2>1, <2>4, FollowedWoken
  <2> QED BY <2>1, <2>2, <2>5, MarkerStep DEF Quiet
<1>8. ASSUME NEW failed \in BOOLEAN, IsFailedNode(n, failed) PROVE MarkerInv'
  <2>1. PICK a \in Rec : /\ a = node[n] \/ (Vital(node[n], a) /\ ~a.alive) \/ Revived(n, node[n], a)
                         /\ Acts(n, a, first, query)
    BY <1>1, <1>8, IsFailedNodeStep
  <2>2. Quiet
    BY <1>1, <1>8, IsFailedNodeStep
  <2>3. n \in present => Followed(n, a, Range(query) \cup Range(a.late))
    <3>0. CASE a = node[n]
      BY <1>3, <2>2, <3>0 DEF Quiet
    <3>1. CASE Vital(node[n], a) /\ ~a.alive
      BY <1>3, <2>2, <3>1, FollowedSame DEF Quiet, Vital, SameLists
    <3>2. CASE Revived(n, node[n], a)
      BY <1>2, <1>3, <2>2, <3>2, FollowedRevive DEF Quiet
    <3> QED BY <2>1, <3>0, <3>1, <3>2
  <2> QED BY <2>1, <2>2, <2>3, MarkerStep DEF Quiet
<1>9. \A i \in Range(query) : i.node # n => i \in Range(NotOf(n, query))
  BY <1>1, StateTypes, OfNode
<1>10. CASE RemoveNode(n)
  <2>1. /\ marking = NoNode /\ marking' = NoNode /\ present' = present \ {n}
        /\ Acts(n, Blank, NotOf(n, first), NotOf(n, query)) /\ Blank \in Rec
    BY <1>1, <1>10, RemoveNodeStep, BlankNode
  <2> QED BY <1>9, <2>1, MarkerStep
<1>11. CASE InitNode(n)
  <2>1. PICK a \in Rec : Advanced(n, Blank, a) /\ Acts(n, a, NotOf(n, first), NotOf(n, query))
    BY <1>1, <1>11, InitNodeStep
  <2>2. marking = NoNode /\ marking' = NoNode /\ present' = present \cup {n}
    BY <1>1, <1>11, InitNodeStep
  <2>3. Followed(n, a, Range(NotOf(n, query)) \cup Range(a.late))
    BY <2>1, BlankNode, FollowedAdvance
  <2> QED BY <1>9, <2>1, <2>2, <2>3, MarkerStep
<1> QED BY <1>4, <1>5, <1>6, <1>7, <1>8, <1>10, <1>11

\* No interview stalls: a node that is alive and not complete always has a marker in the
\* Query queue or parked, and one of its own stage while questions are pending, in any
\* network and however nodes die, sleep, leave and are sent back.  It is stated for an
\* application that is not in AdvanceQueries while a failure of the node is handled, as
\* the questions are left without a marker otherwise.
THEOREM MarkerFollowsCorrect ==
  ASSUME ~Overlap
  PROVE  Spec => []MarkerFollows
<1>1. Init => MarkerInv
  BY MarkerInit
<1>2. MarkerInv /\ [Next]_vars => MarkerInv'
  <2>1. SUFFICES ASSUME MarkerInv, [Next]_vars PROVE MarkerInv'
    OBVIOUS
  <2>2. CASE UNCHANGED vars
    BY <2>1, <2>2 DEF vars, queueVars, driverVars, boundVars, MarkerInv, TypeOK, Followed
  <2>3. CASE Next
    BY <2>1, <2>3, MarkerEngine, MarkerOutcome, MarkerEndRequest, MarkerRequest, MarkerInfoFailed, MarkerEvents DEF Next
  <2> QED BY <2>1, <2>2, <2>3
<1>3. MarkerInv => MarkerFollows
  BY DEF MarkerInv, MarkerFollows, Followed, IsMarker
<1> QED BY <1>1, <1>2, <1>3, PTL DEF Spec

-----------------------------------------------------------------------------
\* The questions of a node, its markers and its sleep, when no change disturbs its
\* interview.  F and Q are the items of the queues, C is the current message, if any;
\* where questions and markers are parked is part of the node's record r.

\* A stage whose questions go to the Query queue.
Late(s) == s \notin {Probe, WakeUp, SecurityReport, CacheLoad, Neighbors, Complete}

Rests(n, r, F, Q, C) ==
  /\ r.stage = Complete => ~r.pending
  /\ ~r.awake => Sleeps(n, r)
  /\ \A i \in F \cup C : i.kind = "sleep" /\ i.node = n => r.stage = Complete /\ Sleeps(n, r)
  /\ r.awake => r.parked = << >>
  /\ \A i \in Range(r.parked) : i.node = n /\ i.kind # "sleep"
  /\ Distinct(r.parked)
  /\ ~r.awake /\ r.stage # Complete => \A i \in F \cup Q \cup C : i.node # n
  /\ ~r.awake /\ ~r.pending /\ r.stage # Complete => r.alive
  /\ \A i \in F \cup C : i.node = n => i.kind # "marker"
  /\ \A i \in Q : i.node = n => i.kind # "sleep" /\ ~Early(i)

Questions(n, r, F, Q, C) ==
  /\ \A i \in F \cup Q \cup C \cup Range(r.parked) : IsQuestion(i, n) =>
       \/ r.pending /\ i.stage = r.stage
       \/ ~r.pending /\ r.alive /\ r.stage # Complete /\ i.stage = NodeInfo /\ i \notin Q
  /\ \A i \in F, j \in Q : ~(IsQuestion(i, n) /\ IsQuestion(j, n))
  /\ \A i \in C, j \in F \cup Q : ~(IsQuestion(i, n) /\ IsQuestion(j, n))
  /\ \A i \in C : IsQuestion(i, n) /\ i.stage \notin {Probe, CacheLoad} => r.alive

Markers(n, r, F, Q, C) ==
  /\ \A j \in Q \cup Range(r.parked) : IsMarker(j, n) => j.stage <= r.stage
  /\ r.pending /\ Late(r.stage) =>
       \A i \in C \cup F \cup Range(r.parked), j \in Q \cup Range(r.parked) :
         IsQuestion(i, n) /\ IsMarker(j, n) => j.stage = r.stage
  /\ r.alive /\ ~r.pending /\ Late(r.stage) =>
       \A i, j \in Q \cup Range(r.parked) :
         IsMarker(i, n) /\ i.stage = r.stage /\ IsMarker(j, n) => j.stage = r.stage
  /\ ~r.alive /\ ~r.pending /\ Late(r.stage) => \A i \in Q : IsMarker(i, n) => i.stage # r.stage

\* A question is not repeated, nor does it come before a marker of another stage or, in
\* the Query queue, behind the marker of its stage, of which there is one.
Clash(n, s, x, y) ==
  \/ IsQuestion(x, n) /\ IsQuestion(y, n)
  \/ IsQuestion(x, n) /\ IsMarker(y, n) /\ y.stage # s
  \/ /\ Late(s) /\ IsMarker(x, n) /\ x.stage = s
     /\ IsQuestion(y, n) \/ (IsMarker(y, n) /\ y.stage = s)

Clashes(n, s) == { p \in Items \X Items : Clash(n, s, p[1], p[2]) }

Asked(n, r, f, q, C) ==
  /\ Rests(n, r, Range(f), Range(q), C)
  /\ Questions(n, r, Range(f), Range(q), C)
  /\ Markers(n, r, Range(f), Range(q), C)
  /\ Never(f, Clashes(n, r.stage)) /\ Never(q, Clashes(n, r.stage))

Cur == {current} \ {NoItem}

AskedInv ==
  /\ TypeOK /\ marking = NoNode
  /\ \A n \in Node : Asked(n, node[n], first, query, Cur)

LEMMA ClashPair ==
  ASSUME NEW n, NEW s, NEW x \in Items, NEW y \in Items
  PROVE  <<x, y>> \in Clashes(n, s) <=> Clash(n, s, x, y)
BY DEF Clashes

LEMMA ClashStages ==
  ASSUME NEW n, NEW s, NEW t, NEW x, NEW y, Clash(n, t, x, y), ~Clash(n, s, x, y)
  PROVE  \/ IsQuestion(x, n) /\ IsMarker(y, n) /\ y.stage = s
         \/ Late(t) /\ IsMarker(x, n) /\ x.stage = t
BY DEF Clash

\* No clash is new if the items of q that could clash are none.
LEMMA NeverWeaker ==
  ASSUME NEW q \in Seq(Items), NEW n, NEW s, NEW t, Never(q, Clashes(n, s)),
         \A x, y \in Range(q) : Clash(n, t, x, y) => Clash(n, s, x, y)
  PROVE  Never(q, Clashes(n, t))
<1>1. ASSUME NEW k \in DOMAIN q, NEW l \in DOMAIN q, k < l
      PROVE  <<q[k], q[l]>> \notin Clashes(n, t)
  <2>1. q[k] \in Items /\ q[l] \in Items /\ q[k] \in Range(q) /\ q[l] \in Range(q)
    BY DEF Range
  <2>2. ~Clash(n, s, q[k], q[l])
    BY <1>1, <2>1, ClashPair DEF Never
  <2> QED BY <1>1, <2>1, <2>2, ClashPair
<1> QED BY <1>1 DEF Never

LEMMA NeverOther ==
  ASSUME NEW q \in Seq(Items), NEW n, NEW s, \A x \in Range(q) : x.node # n
  PROVE  Never(q, Clashes(n, s))
<1>1. ASSUME NEW k \in DOMAIN q, NEW l \in DOMAIN q, k < l
      PROVE  <<q[k], q[l]>> \notin Clashes(n, s)
  <2>1. q[k] \in Items /\ q[l] \in Items /\ q[k].node # n
    BY DEF Range
  <2>2. ~Clash(n, s, q[k], q[l])
    BY <2>1 DEF Clash, IsQuestion, IsMarker
  <2> QED BY <2>1, <2>2, ClashPair
<1> QED BY <1>1 DEF Never

\* Behind one another are lists of which one has nothing of the node.
LEMMA NeverBehind ==
  ASSUME NEW p \in Seq(Items), NEW q \in Seq(Items), NEW n, NEW s,
         Never(p, Clashes(n, s)), Never(q, Clashes(n, s)),
         \A x \in Range(p), y \in Range(q) : ~Clash(n, s, x, y)
  PROVE  Never(p \o q, Clashes(n, s))
<1>1. Range(p) \subseteq Items /\ Range(q) \subseteq Items
  BY DEF Range
<1>2. \A x \in Range(p), y \in Range(q) : <<x, y>> \notin Clashes(n, s)
  BY <1>1, ClashPair
<1> QED BY <1>2, NeverConcat

\* A list in which some markers of m are marked for retry.
LEMMA NeverMarked ==
  ASSUME NEW q \in Seq(Items), NEW n, NEW m, NEW p, Marked(q, m, p), NEW s, Never(q, Clashes(n, s))
  PROVE  Never(p, Clashes(n, s))
<1>1. p \in Seq(Items) /\ DOMAIN p = DOMAIN q /\ \A k \in DOMAIN q : SameItem(q[k], p[k])
  BY DEF Marked
<1>2. ASSUME NEW k \in DOMAIN p, NEW l \in DOMAIN p, k < l
      PROVE  <<p[k], p[l]>> \notin Clashes(n, s)
  <2>1. p[k] \in Items /\ p[l] \in Items /\ q[k] \in Items /\ q[l] \in Items
    BY <1>1
  <2>2. SameItem(q[k], p[k]) /\ SameItem(q[l], p[l])
    BY <1>1
  <2>3. ~Clash(n, s, q[k], q[l])
    BY <1>1, <1>2, <2>1, ClashPair DEF Never
  <2>4. ~Clash(n, s, p[k], p[l])
    BY <2>2, <2>3 DEF Clash, SameItem, IsQuestion, IsMarker
  <2> QED BY <2>1, <2>4, ClashPair
<1> QED BY <1>2 DEF Never

\* What is asked of a list in place of another: nothing new of the node n.
Fewer(n, s, p, q) ==
  /\ \A i \in Range(p) : i.node = n => i \in Range(q)
  /\ Never(p, Clashes(n, s))

LEMMA AskedFewer ==
  ASSUME NEW n, NEW r, NEW f, NEW q, NEW C, Asked(n, r, f, q, C), NEW f1, NEW q1, NEW C1,
         Fewer(n, r.stage, f1, f), Fewer(n, r.stage, q1, q), \A i \in C1 : i.node = n => i \in C
  PROVE  Asked(n, r, f1, q1, C1)
<1> DEFINE F == Range(f)
           Q == Range(q)
           F1 == Range(f1)
           Q1 == Range(q1)
           P == Range(r.parked)
<1>1. /\ \A i \in F1 : i.node = n => i \in F
      /\ \A i \in Q1 : i.node = n => i \in Q
      /\ \A i \in C1 : i.node = n => i \in C
      /\ Never(f1, Clashes(n, r.stage)) /\ Never(q1, Clashes(n, r.stage))
  BY DEF Fewer
<1>2. Rests(n, r, F, Q, C) /\ Questions(n, r, F, Q, C) /\ Markers(n, r, F, Q, C)
  BY DEF Asked
<1> HIDE DEF F, Q, F1, Q1
<1>3. Rests(n, r, F1, Q1, C1)
  BY <1>1, <1>2 DEF Rests
<1>4. Questions(n, r, F1, Q1, C1)
  <2>1. \A i : IsQuestion(i, n) => i.node = n
    BY DEF IsQuestion
  <2>2. \A i \in F1 \cup Q1 \cup C1 \cup P : IsQuestion(i, n) => i \in F \cup Q \cup C \cup P
    BY <1>1, <2>1
  <2>3. \A i \in Q1 : IsQuestion(i, n) => i \in Q
    BY <1>1, <2>1
  <2>4. \A i \in F1 \cup Q1 \cup C1 \cup P : IsQuestion(i, n) =>
          \/ r.pending /\ i.stage = r.stage
          \/ ~r.pending /\ r.alive /\ r.stage # Complete /\ i.stage = NodeInfo /\ i \notin Q1
    <3>1. \A i \in F1 \cup Q1 \cup C1 \cup P : IsQuestion(i, n) =>
            \/ r.pending /\ i.stage = r.stage
            \/ ~r.pending /\ r.alive /\ r.stage # Complete /\ i.stage = NodeInfo /\ i \notin Q
      BY <1>2, <2>2 DEF Questions
    <3> QED BY <2>3, <3>1
  <2> QED BY <1>1, <1>2, <2>1, <2>4 DEF Questions
<1>5. Markers(n, r, F1, Q1, C1)
  <2>1. \A i : (IsQuestion(i, n) => i.node = n) /\ (IsMarker(i, n) => i.node = n)
    BY DEF IsQuestion, IsMarker
  <2>2. \A i \in C1 \cup F1 \cup P : IsQuestion(i, n) => i \in C \cup F \cup P
    BY <1>1, <2>1
  <2>3. \A i \in Q1 \cup P : IsMarker(i, n) => i \in Q \cup P
    BY <1>1, <2>1
  <2>4. \A i \in Q1 : IsMarker(i, n) => i \in Q
    BY <1>1, <2>1
  <2> QED BY <1>2, <2>2, <2>3, <2>4 DEF Markers
<1> QED BY <1>1, <1>3, <1>4, <1>5 DEF Asked, F1, Q1

\* The node lives or dies, or more is known of it.
LEMMA AskedVital ==
  ASSUME NEW n, NEW r, NEW f, NEW q, NEW C, Asked(n, r, f, q, C), NEW a,
         a.stage = r.stage, a.pending = r.pending, a.awake = r.awake, a.parked = r.parked,
         r.info => a.info, a.alive \in BOOLEAN, r.alive \in BOOLEAN,
         a.alive = r.alive \/ r.pending \/ r.stage = Complete, a.alive \/ C = {} \/ a.alive = r.alive
  PROVE  Asked(n, a, f, q, C)
<1>1. Rests(n, a, Range(f), Range(q), C)
  BY DEF Asked, Rests, Sleeps
<1>2. Questions(n, a, Range(f), Range(q), C)
  BY DEF Asked, Questions, Rests
<1>3. Markers(n, a, Range(f), Range(q), C)
  BY DEF Asked, Markers, Late
<1> QED BY <1>1, <1>2, <1>3 DEF Asked

LEMMA AskedLeft ==
  ASSUME NEW n, NEW r, NEW f, NEW q, NEW C, Asked(n, r, f, q, C), NEW a, Left(r, a)
  PROVE  Asked(n, a, f, q, C)
BY DEF Left, Asked, Rests, Questions, Markers, Sleeps

LEMMA NeverNone ==
  ASSUME NEW q \in Seq(Items), NEW n, NEW s, \A x, y \in Range(q) : ~Clash(n, s, x, y)
  PROVE  Never(q, Clashes(n, s))
<1>1. ASSUME NEW k \in DOMAIN q, NEW l \in DOMAIN q, k < l
      PROVE  <<q[k], q[l]>> \notin Clashes(n, s)
  <2>1. q[k] \in Items /\ q[l] \in Items /\ q[k] \in Range(q) /\ q[l] \in Range(q)
    BY DEF Range
  <2> QED BY <2>1, ClashPair
<1> QED BY <1>1 DEF Never

LEMMA ShortLists ==
  ASSUME NEW x \in Items, NEW y \in Items
  PROVE  /\ << >> \in Seq(Items) /\ Range(<< >>) = {} /\ \A R : Never(<< >>, R)
         /\ << x >> \in Seq(Items) /\ Range(<< x >>) = {x} /\ \A R : Never(<< x >>, R)
         /\ << x, y >> \in Seq(Items) /\ Range(<< x, y >>) = {x, y}
         /\ Append(<< >>, x) = << x >> /\ Append(<< x >>, y) = << x, y >>
<1>1. << >> \in Seq(Items) /\ << x >> \in Seq(Items) /\ << x, y >> \in Seq(Items)
  OBVIOUS
<1>5. Append(<< >>, x) = << x >>
  OBVIOUS
<1>6. Append(<< x >>, y) = << x, y >>
  <2>1. PICK p \in Seq(Items) : p = << x >>
    BY <1>1
  <2>2. Len(p) = 1 /\ p[1] = x
    BY <2>1
  <2>3. PICK q \in Seq(Items) : q = << x, y >>
    BY <1>1
  <2>4. Len(q) = 2 /\ q[1] = x /\ q[2] = y
    BY <2>3
  <2>5. Append(p, y) \in Seq(Items)
    OBVIOUS
  <2>6. PICK r \in Seq(Items) : r = Append(p, y)
    BY <2>5
  <2>7. Len(r) = Len(p) + 1 /\ (\A i \in 1 .. Len(p) : r[i] = p[i]) /\ r[Len(p) + 1] = y
    BY <2>6, AppendProperties
  <2>8. 1 \in 1 .. Len(p) /\ 1 + 1 = 2 /\ \A i \in 1 .. 2 : i = 1 \/ i = 2
    BY <2>2
  <2>9. Len(r) = 2 /\ r[1] = x /\ r[2] = y
    BY <2>2, <2>7, <2>8
  <2>10. r = q
    BY <2>4, <2>8, <2>9, SeqEqual
  <2> QED BY <2>1, <2>3, <2>6, <2>10
<1>2. Range(<< >>) = {} /\ \A R : Never(<< >>, R)
  BY DEF Range, Never
<1>3. Range(<< x >>) = {x} /\ \A R : Never(<< x >>, R)
  <2>1. DOMAIN << x >> = {1} /\ << x >>[1] = x
    OBVIOUS
  <2> QED BY <2>1 DEF Range, Never
<1>4. Range(<< x, y >>) = {x, y}
  <2>1. DOMAIN << x, y >> = {1, 2} /\ << x, y >>[1] = x /\ << x, y >>[2] = y
    OBVIOUS
  <2> QED BY <2>1 DEF Range
<1> QED BY <1>1, <1>2, <1>3, <1>4, <1>5, <1>6

LEMMA NeverPair ==
  ASSUME NEW x \in Items, NEW y \in Items, NEW n, NEW s, ~Clash(n, s, x, y)
  PROVE  Never(<< x, y >>, Clashes(n, s))
<1>1. DOMAIN << x, y >> = {1, 2} /\ << x, y >>[1] = x /\ << x, y >>[2] = y
  OBVIOUS
<1>2. <<x, y>> \notin Clashes(n, s)
  BY ClashPair
<1> QED BY <1>1, <1>2 DEF Never

\* The node is neither asked nor waiting for a marker of the stage it is to be asked in.
Clear(n, r, F, Q, C) ==
  /\ \A i \in F \cup C : i.node # n
  /\ \A i \in Q : i.node = n =>
       i.kind = "marker" /\ i.stage <= r.stage /\ (Late(r.stage) => i.stage # r.stage)

\* What lists a node that was just asked has sent: the questions, and the marker.
LEMMA AskedLists ==
  ASSUME NEW n \in Node, NEW r \in Rec, NEW a \in Rec, NEW s \in Stages, AskedAt(n, r, s, a), r.awake,
         r.parked = << >>, r.early = << >>, r.late = << >>
  PROVE  LET i == Question(n, s)
             j == Marker(n, s)
         IN  /\ a.parked = << >>
             /\ \/ s \in {Probe, WakeUp, SecurityReport, CacheLoad, Neighbors}
                   /\ a.early = << i >> /\ a.late = << j >>
                \/ s \notin {Probe, WakeUp, SecurityReport, CacheLoad, Neighbors}
                   /\ a.early = << >> /\ a.late = << i, j >>
<1>1. PICK b : Questioned(n, r, s, b) /\ Put(n, b, Marker(n, s), a)
  BY DEF AskedAt
<1>2. PICK i \in Items : i = Question(n, s) /\ i.kind = "question" /\ i.stage = s
  BY NewItems DEF IsQuestion
<1>3. PICK j \in Items : j = Marker(n, s) /\ j.kind = "marker"
  BY NewItems DEF IsMarker
<1>4. ~Asleep(n, r) /\ ~Asleep(n, b)
  BY <1>1 DEF Questioned, SameStatus, Asleep
<1>5. ~Early(j) /\ (Early(i) <=> s \in {Probe, WakeUp, SecurityReport, CacheLoad, Neighbors})
  BY <1>2, <1>3 DEF Early
<1>6. /\ b.parked = << >>
      /\ IF Early(i) THEN b.early = << i >> /\ b.late = << >>
         ELSE b.early = << >> /\ b.late = << i >>
  <2>1. Put(n, r, i, b)
    BY <1>1, <1>2 DEF Questioned
  <2>2. /\ b.parked = r.parked
        /\ IF Early(i) THEN b.early = Append(r.early, i) /\ b.late = r.late
           ELSE b.early = r.early /\ b.late = Append(r.late, i)
    BY <1>4, <2>1 DEF Put
  <2>3. Append(<< >>, i) = << i >>
    BY ShortLists
  <2> QED BY <2>2, <2>3
<1>7. a.parked = << >> /\ a.early = b.early /\ a.late = Append(b.late, j)
  BY <1>1, <1>3, <1>4, <1>5, <1>6 DEF Put
<1>8. Append(<< >>, j) = << j >> /\ Append(<< i >>, j) = << i, j >>
  BY ShortLists
<1> QED BY <1>2, <1>3, <1>5, <1>6, <1>7, <1>8

LEMMA AskedAdvance ==
  ASSUME NEW n \in Node, NEW r \in Rec, NEW a \in Rec, Advanced(n, r, a), r.alive, ~r.pending, r.awake,
         r.parked = << >>, r.early = << >>, r.late = << >>,
         NEW f \in Seq(Items), NEW q \in Seq(Items), NEW C \in SUBSET Items,
         Clear(n, r, Range(f), Range(q), C)
  PROVE  Asked(n, a, f \o a.early, q \o a.late, C)
<1> DEFINE F == Range(f)
           Q == Range(q)
<1>1. /\ \A i \in F \cup C : i.node # n
      /\ \A i \in Q : i.node = n =>
           i.kind = "marker" /\ i.stage <= r.stage /\ (Late(r.stage) => i.stage # r.stage)
      /\ F \subseteq Items /\ Q \subseteq Items
  BY DEF Clear, Range
<1>2. CASE Finished(r, a)
  <2>1. /\ a.stage = Complete /\ ~a.pending /\ a.parked = << >> /\ a.awake
        /\ a.early = << >> /\ a.late = << >>
    BY <1>2 DEF Finished, SameLists, SameStatus
  <2>2. f \o a.early = f /\ q \o a.late = q
    BY <2>1
  <2>3. Range(a.parked) = {} /\ Distinct(a.parked)
    BY <2>1 DEF Range, Distinct
  <2>4. ~Late(Complete)
    BY DEF Late
  <2>5. Never(f, Clashes(n, a.stage))
    BY <1>1, NeverOther
  <2>6. Never(q, Clashes(n, a.stage))
    <3>1. \A x, y \in Q : ~Clash(n, a.stage, x, y)
      BY <1>1, <2>1, <2>4 DEF Clash, IsQuestion, IsMarker
    <3> QED BY <3>1, NeverNone
  <2>7. Rests(n, a, F, Q, C)
    BY <1>1, <2>1, <2>3 DEF Rests, Early
  <2>8. Questions(n, a, F, Q, C)
    BY <1>1, <2>3 DEF Questions, IsQuestion
  <2>9. Markers(n, a, F, Q, C)
    <3>1. \A j \in Q : j.stage <= Complete
      <4>1. TAKE j \in Q
      <4>2. PICK t \in 0 .. 18 : t = j.stage
        BY <1>1, ItemFields, StagesOrdered
      <4>3. t <= 18 /\ Complete = 18
        BY DEF Complete
      <4> QED BY <4>2, <4>3
    <3> QED BY <2>1, <2>3, <2>4, <3>1 DEF Markers
  <2> QED BY <2>2, <2>5, <2>6, <2>7, <2>8, <2>9 DEF Asked
<1>3. ASSUME NEW s \in Stages \ {Complete}, r.stage <= s, AskedAt(n, r, s, a)
      PROVE  Asked(n, a, f \o a.early, q \o a.late, C)
  <2>1. a.stage = s /\ a.pending /\ a.awake /\ a.alive
    BY <1>3 DEF AskedAt, SameStatus
  <2>2. PICK i \in Items : i = Question(n, s) /\ IsQuestion(i, n) /\ i.stage = s
    BY NewItems
  <2>3. PICK j \in Items : j = Marker(n, s) /\ IsMarker(j, n) /\ j.stage = s
    BY NewItems
  <2>4. /\ a.parked = << >>
        /\ \/ s \in {Probe, WakeUp, SecurityReport, CacheLoad, Neighbors}
              /\ a.early = << i >> /\ a.late = << j >>
           \/ s \notin {Probe, WakeUp, SecurityReport, CacheLoad, Neighbors}
              /\ a.early = << >> /\ a.late = << i, j >>
    BY <1>3, <2>2, <2>3, AskedLists
  <2>5. Range(a.parked) = {} /\ Distinct(a.parked)
    BY <2>4 DEF Range, Distinct
  <2>6. \A x \in Q : x.node = n => x.kind = "marker" /\ x.stage <= s /\ (Late(s) => x.stage # s)
    <3>1. TAKE x \in Q
    <3>2. x.stage \in 0 .. 18 /\ r.stage \in 0 .. 18 /\ s \in 0 .. 18
      BY <1>1, ItemFields, RecFields, StagesOrdered
    <3>3. x.node = n => x.kind = "marker" /\ x.stage <= r.stage /\ (Late(r.stage) => x.stage # r.stage)
      BY <1>1
    <3>4. x.stage <= r.stage /\ x.stage = s => r.stage = s
      BY <1>3, <3>2
    <3>5. x.stage <= r.stage => x.stage <= s
      <4>1. PICK k \in 0 .. 18 : k = x.stage
        BY <3>2
      <4>2. PICK l \in 0 .. 18 : l = r.stage
        BY <3>2
      <4>3. s \in 0 .. 18 /\ l <= s
        BY <1>3, <3>2, <4>2
      <4>4. k <= l => k <= s
        BY <4>3
      <4> QED BY <4>1, <4>2, <4>4
    <3> QED BY <3>3, <3>4, <3>5
  <2>7. Never(f, Clashes(n, s))
    BY <1>1, NeverOther
  <2>8. Never(q, Clashes(n, s))
    <3>1. \A x, y \in Q : ~Clash(n, s, x, y)
      BY <2>6 DEF Clash, IsQuestion, IsMarker
    <3> QED BY <3>1, NeverNone
  <2>9. \A x \in F : \A y : ~Clash(n, s, x, y)
    BY <1>1 DEF Clash, IsQuestion, IsMarker
  <2>10. \A x \in Q : \A y : ~Clash(n, s, x, y)
    BY <2>6 DEF Clash, IsQuestion, IsMarker
  <2>11. j.kind = "marker" /\ j.node = n /\ i.kind = "question" /\ i.node = n
    BY <2>2, <2>3 DEF IsMarker, IsQuestion
  <2>12. ~Early(j) /\ (Early(i) <=> s \in {Probe, WakeUp, SecurityReport, CacheLoad, Neighbors})
    BY <2>2, <2>11 DEF Early
  <2>13. CASE s \in {Probe, WakeUp, SecurityReport, CacheLoad, Neighbors}
              /\ a.early = << i >> /\ a.late = << j >>
    <3>1. /\ << i >> \in Seq(Items) /\ Range(<< i >>) = {i} /\ Never(<< i >>, Clashes(n, s))
          /\ << j >> \in Seq(Items) /\ Range(<< j >>) = {j} /\ Never(<< j >>, Clashes(n, s))
      BY ShortLists
    <3>2. PICK g \in Seq(Items) : g = f \o << i >> /\ Range(g) = F \cup {i} /\ Never(g, Clashes(n, s))
      <4>1. PICK e \in Seq(Items) : e = << i >>
        BY <3>1
      <4>2. f \o e \in Seq(Items) /\ Range(f \o e) = F \cup Range(e)
        BY ConcatList
      <4>3. Never(f \o e, Clashes(n, s))
        BY <2>7, <2>9, <3>1, <4>1, NeverBehind
      <4> QED BY <3>1, <4>1, <4>2, <4>3
    <3>3. PICK h \in Seq(Items) : h = q \o << j >> /\ Range(h) = Q \cup {j} /\ Never(h, Clashes(n, s))
      <4>1. PICK e \in Seq(Items) : e = << j >>
        BY <3>1
      <4>2. q \o e \in Seq(Items) /\ Range(q \o e) = Q \cup Range(e)
        BY ConcatList
      <4>3. Never(q \o e, Clashes(n, s))
        BY <2>8, <2>10, <3>1, <4>1, NeverBehind
      <4> QED BY <3>1, <4>1, <4>2, <4>3
    <3>4. ~Late(s)
      BY <2>13 DEF Late
    <3> HIDE DEF F, Q
    <3>5. Rests(n, a, F \cup {i}, Q \cup {j}, C)
      BY <1>1, <1>3, <2>1, <2>4, <2>5, <2>6, <2>11, <2>12 DEF Rests, Early
    <3>6. Questions(n, a, F \cup {i}, Q \cup {j}, C)
      BY <1>1, <2>1, <2>2, <2>5, <2>6, <2>11 DEF Questions, IsQuestion
    <3>7. Markers(n, a, F \cup {i}, Q \cup {j}, C)
      <4>1. s <= s
        BY StagesOrdered
      <4> QED BY <2>1, <2>3, <2>5, <2>6, <3>4, <4>1 DEF Markers, IsMarker
    <3> QED BY <2>1, <2>13, <3>2, <3>3, <3>5, <3>6, <3>7 DEF Asked
  <2>14. CASE s \notin {Probe, WakeUp, SecurityReport, CacheLoad, Neighbors}
              /\ a.early = << >> /\ a.late = << i, j >>
    <3>1. << i, j >> \in Seq(Items) /\ Range(<< i, j >>) = {i, j}
      BY ShortLists
    <3>2. Never(<< i, j >>, Clashes(n, s))
      <4>1. ~Clash(n, s, i, j)
        BY <2>3, <2>11 DEF Clash, IsMarker, IsQuestion
      <4> QED BY <4>1, NeverPair
    <3>3. PICK h \in Seq(Items) : h = q \o << i, j >> /\ Range(h) = Q \cup {i, j} /\ Never(h, Clashes(n, s))
      <4>1. PICK e \in Seq(Items) : e = << i, j >>
        BY <3>1
      <4>2. q \o e \in Seq(Items) /\ Range(q \o e) = Q \cup Range(e)
        BY ConcatList
      <4>3. Never(q \o e, Clashes(n, s))
        BY <2>8, <2>10, <3>2, <4>1, NeverBehind
      <4> QED BY <3>1, <4>1, <4>2, <4>3
    <3>4. f \o << >> = f
      OBVIOUS
    <3> HIDE DEF F, Q
    <3>5. Rests(n, a, F, Q \cup {i, j}, C)
      BY <1>1, <1>3, <2>1, <2>4, <2>5, <2>6, <2>11, <2>12, <2>14 DEF Rests, Early
    <3>6. Questions(n, a, F, Q \cup {i, j}, C)
      BY <1>1, <2>1, <2>2, <2>5, <2>6, <2>11 DEF Questions, IsQuestion
    <3>7. Markers(n, a, F, Q \cup {i, j}, C)
      <4>1. s <= s
        BY StagesOrdered
      <4>2. \A x \in Q \cup {i, j} : IsMarker(x, n) => x.stage <= s
        BY <2>3, <2>6, <2>11, <4>1 DEF IsMarker
      <4>3. \A x \in C \cup F : ~IsQuestion(x, n)
        BY <1>1 DEF IsQuestion
      <4> QED BY <2>1, <2>5, <4>2, <4>3 DEF Markers
    <3> QED BY <2>1, <2>7, <2>14, <3>3, <3>4, <3>5, <3>6, <3>7 DEF Asked, F, Q
  <2> QED BY <2>4, <2>13, <2>14
<1> QED BY <1>2, <1>3 DEF Advanced

\* What is taken out of a list q, or marked in it, when the node n is worked on.
Without(n, p, q) ==
  \/ p = q \/ (q # << >> /\ p = Tail(q)) \/ p = NotOf(n, q)
  \/ Marked(q, n, p)
  \/ \E w \in Seq(Items) : Marked(q, n, w) /\ p = NotOf(n, w)

LEMMA FewerLists ==
  ASSUME NEW q \in Seq(Items), NEW n \in Node, NEW p \in Seq(Items), Without(n, p, q), NEW m, m # n,
         NEW s, Never(q, Clashes(m, s))
  PROVE  Fewer(m, s, p, q)
<1>1. CASE p = q
  BY <1>1 DEF Fewer
<1>2. CASE q # << >> /\ p = Tail(q)
  <2>1. Range(p) \subseteq Range(q) /\ Never(p, Clashes(m, s))
    BY <1>2, TailList, NeverTail
  <2> QED BY <2>1 DEF Fewer
<1>3. CASE p = NotOf(n, q)
  BY <1>3, OfNode DEF Fewer
<1>4. CASE Marked(q, n, p)
  <2>1. Never(p, Clashes(m, s))
    BY <1>4, NeverMarked
  <2>2. \A y \in Range(p) : y.node = m => y \in Range(q)
    <3>1. \A y \in Range(p) : ~IsMarker(y, n) => y \in Range(q)
      BY <1>4, MarkedRange
    <3> QED BY <3>1 DEF IsMarker
  <2> QED BY <2>1, <2>2 DEF Fewer
<1>5. ASSUME NEW w \in Seq(Items), Marked(q, n, w), p = NotOf(n, w)
      PROVE  Fewer(m, s, p, q)
  <2>1. Never(w, Clashes(m, s))
    BY <1>5, NeverMarked
  <2>2. Never(p, Clashes(m, s)) /\ Range(p) \subseteq Range(w)
    BY <1>5, <2>1, OfNode
  <2>3. \A y \in Range(w) : ~IsMarker(y, n) => y \in Range(q)
    BY <1>5, MarkedRange
  <2> QED BY <2>2, <2>3 DEF Fewer, IsMarker
<1> QED BY <1>1, <1>2, <1>3, <1>4, <1>5 DEF Without

\* A handler sends items of the node it works on only.
Owns(n, r) == \A i \in Range(r.early) \cup Range(r.late) : i.node = n

LEMMA PutOwns ==
  ASSUME NEW n \in Node, NEW r \in Rec, NEW a \in Rec, NEW i \in Items, i.node = n, Owns(n, r),
         Put(n, r, i, a)
  PROVE  Owns(n, a)
<1>1. PICK e \in Seq(Items) : e = r.early
  BY RecFields
<1>2. PICK l \in Seq(Items) : l = r.late
  BY RecFields
<1>3. /\ Range(Append(e, i)) = Range(e) \cup {i}
      /\ Range(Append(l, i)) = Range(l) \cup {i}
  BY AppendItem
<1>4. /\ a.early = e \/ a.early = Append(e, i)
      /\ a.late = l \/ a.late = Append(l, i)
  BY <1>1, <1>2 DEF Put
<1>5. Range(a.early) \subseteq Range(e) \cup {i} /\ Range(a.late) \subseteq Range(l) \cup {i}
  BY <1>3, <1>4
<1> QED BY <1>1, <1>2, <1>5 DEF Owns

LEMMA AdvancedOwns ==
  ASSUME NEW n \in Node, NEW r \in Rec, NEW a \in Rec, Owns(n, r), Advanced(n, r, a)
  PROVE  Owns(n, a)
<1>1. CASE a = r
  BY <1>1
<1>2. CASE Finished(r, a)
  BY <1>2 DEF Finished, SameLists, Owns
<1>3. ASSUME NEW s \in Stages, AskedAt(n, r, s, a)
      PROVE  Owns(n, a)
  <2>1. PICK b : Questioned(n, r, s, b) /\ Put(n, b, Marker(n, s), a)
    BY <1>3 DEF AskedAt
  <2>2. PICK i \in Items : i = Question(n, s) /\ i.node = n
    BY NewItems DEF IsQuestion
  <2>3. PICK j \in Items : j = Marker(n, s) /\ j.node = n
    BY NewItems DEF IsMarker
  <2>4. b \in Rec /\ Put(n, r, i, b)
    BY <2>1, <2>2 DEF Questioned
  <2>5. Owns(n, b)
    BY <2>2, <2>4, PutOwns
  <2> QED BY <2>1, <2>3, <2>4, <2>5, PutOwns
<1> QED BY <1>1, <1>2, <1>3 DEF Advanced

LEMMA NothingOwned ==
  ASSUME NEW n, NEW r, r.early = << >>, r.late = << >>
  PROVE  Owns(n, r)
<1>1. Range(<< >>) = {}
  BY DEF Range
<1> QED BY <1>1 DEF Owns

\* A node that has nothing to wait for.
LEMMA AskedClear ==
  ASSUME NEW n \in Node, NEW r \in Rec, ~r.pending, r.awake, r.parked = << >>,
         NEW f \in Seq(Items), NEW q \in Seq(Items), NEW C \in SUBSET Items,
         Clear(n, r, Range(f), Range(q), C)
  PROVE  Asked(n, r, f, q, C)
<1> DEFINE F == Range(f)
           Q == Range(q)
<1>1. /\ \A i \in F \cup C : i.node # n
      /\ \A i \in Q : i.node = n =>
           i.kind = "marker" /\ i.stage <= r.stage /\ (Late(r.stage) => i.stage # r.stage)
  BY DEF Clear
<1>2. Range(r.parked) = {} /\ Distinct(r.parked)
  BY DEF Range, Distinct
<1>3. Never(f, Clashes(n, r.stage))
  BY <1>1, NeverOther
<1>4. Never(q, Clashes(n, r.stage))
  <2>1. \A x, y \in Q : ~Clash(n, r.stage, x, y)
    BY <1>1 DEF Clash, IsQuestion, IsMarker
  <2> QED BY <2>1, NeverNone
<1> HIDE DEF F, Q
<1>5. Rests(n, r, F, Q, C)
  BY <1>1, <1>2 DEF Rests, Early
<1>6. Questions(n, r, F, Q, C)
  BY <1>1, <1>2 DEF Questions, IsQuestion
<1>7. Markers(n, r, F, Q, C)
  BY <1>1, <1>2 DEF Markers, IsMarker
<1> QED BY <1>3, <1>4, <1>5, <1>6, <1>7 DEF Asked, F, Q

LEMMA AskedOnward ==
  ASSUME NEW n \in Node, NEW r \in Rec, NEW a \in Rec, Advanced(n, r, a), ~r.pending, r.awake,
         r.parked = << >>, r.early = << >>, r.late = << >>,
         NEW f \in Seq(Items), NEW q \in Seq(Items), NEW C \in SUBSET Items,
         Clear(n, r, Range(f), Range(q), C)
  PROVE  Asked(n, a, f \o a.early, q \o a.late, C)
<1>1. CASE r.alive
  BY <1>1, AskedAdvance
<1>2. CASE ~r.alive
  <2>1. a = r
    BY <1>2 DEF Advanced
  <2>2. f \o << >> = f /\ q \o << >> = q
    OBVIOUS
  <2> QED BY <2>1, <2>2, AskedClear
<1> QED BY <1>1, <1>2

\* A node that is complete, or cannot be asked now.
LEMMA AskedStill ==
  ASSUME NEW n \in Node, NEW r \in Rec, NEW a \in Rec, Advanced(n, r, a),
         r.pending \/ ~r.alive \/ r.stage = Complete, r.early = << >>, r.late = << >>,
         NEW f \in Seq(Items), NEW q \in Seq(Items), NEW C, Asked(n, r, f, q, C)
  PROVE  Asked(n, a, f \o a.early, q \o a.late, C)
<1>1. f \o << >> = f /\ q \o << >> = q
  OBVIOUS
<1>2. CASE a = r
  BY <1>1, <1>2
<1>3. CASE r.alive /\ ~r.pending /\ r.stage = Complete /\ Finished(r, a)
  <2>1. /\ a.early = << >> /\ a.late = << >> /\ a.parked = r.parked /\ a.stage = Complete
        /\ ~a.pending /\ a.awake = r.awake /\ a.info = r.info /\ a.alive = r.alive /\ a \in Rec
    BY <1>3 DEF Finished, SameLists, SameStatus
  <2>2. Asked(n, a, f, q, C)
    <3>1. r.alive \in BOOLEAN /\ a.alive \in BOOLEAN
      BY <2>1, RecFields
    <3>2. a.stage = r.stage /\ a.pending = r.pending
      BY <1>3, <2>1, RecFields
    <3> QED BY <2>1, <3>1, <3>2, AskedVital
  <2> QED BY <1>1, <2>1, <2>2
<1>4. ASSUME NEW s \in Stages \ {Complete}, r.stage <= s, r.stage = Complete PROVE FALSE
  BY <1>4, StagesOrdered
<1> QED BY <1>2, <1>3, <1>4 DEF Advanced

\* The node is heard of: if it was dead it is alive now, and asked if it can be.
LEMMA AskedRevived ==
  ASSUME NEW n \in Node, NEW r \in Rec, NEW a \in Rec, Revived(n, r, a), ~r.alive,
         r.early = << >>, r.late = << >>,
         NEW f \in Seq(Items), NEW q \in Seq(Items), NEW C \in SUBSET Items, Asked(n, r, f, q, C)
  PROVE  /\ Asked(n, a, f \o a.early, q \o a.late, C)
         /\ Owns(n, a)
         /\ r.pending => a.stage = r.stage
         /\ ~r.awake => /\ a.stage = r.stage /\ a.pending = r.pending /\ a.awake = r.awake
                        /\ a.info = r.info /\ a.parked = r.parked
                        /\ a.early = << >> /\ a.late = << >>
<1>1. PICK b \in Rec : /\ Vital(r, b) /\ b.alive /\ b.check = r.check
                       /\ IF r.stage = Complete THEN a = b ELSE Advanced(n, b, a)
  BY DEF Revived
<1>2. /\ b.stage = r.stage /\ b.pending = r.pending /\ b.info = r.info /\ b.awake = r.awake
      /\ b.parked = r.parked /\ b.early = << >> /\ b.late = << >>
  BY <1>1 DEF Vital, SameLists
<1>3. f \o << >> = f /\ q \o << >> = q
  OBVIOUS
<1>4. Owns(n, b)
  BY <1>2, NothingOwned
<1>5. Owns(n, a)
  BY <1>1, <1>4, AdvancedOwns
<1>6. CASE r.pending \/ r.stage = Complete
  <2>1. Asked(n, b, f, q, C)
    <3>1. r.alive \in BOOLEAN /\ b.alive \in BOOLEAN
      BY RecFields
    <3> QED BY <1>1, <1>2, <1>6, <3>1, AskedVital
  <2>2. Advanced(n, b, a) /\ r.stage # Complete => a = b
    BY <1>2, <1>6 DEF Advanced
  <2>3. a = b
    BY <1>1, <2>2
  <2> QED BY <1>2, <1>3, <1>5, <2>1, <2>3
<1>7. CASE ~r.pending /\ r.stage # Complete
  <2>1. /\ Rests(n, r, Range(f), Range(q), C) /\ Questions(n, r, Range(f), Range(q), C)
        /\ Markers(n, r, Range(f), Range(q), C)
    BY DEF Asked
  <2>2. r.awake /\ r.parked = << >>
    BY <1>7, <2>1 DEF Rests
  <2>3. \A i \in Range(f) \cup Range(q) \cup C : ~IsQuestion(i, n)
    BY <1>7, <2>1 DEF Questions
  <2>4. Range(f) \subseteq Items /\ Range(q) \subseteq Items
    BY DEF Range
  <2>5. \A i \in Range(f) \cup C : i.node # n
    BY <1>7, <2>1, <2>3, <2>4, ItemFields DEF Rests, IsQuestion
  <2>6. \A i \in Range(q) : i.node = n => IsMarker(i, n)
    BY <2>1, <2>3, <2>4, ItemFields DEF Rests, IsQuestion, IsMarker
  <2>7. \A i \in Range(q) : i.node = n =>
          i.kind = "marker" /\ i.stage <= r.stage /\ (Late(r.stage) => i.stage # r.stage)
    BY <1>7, <2>1, <2>6 DEF Markers, IsMarker
  <2>8. Clear(n, b, Range(f), Range(q), C)
    BY <1>2, <2>5, <2>7 DEF Clear
  <2>9. Asked(n, a, f \o a.early, q \o a.late, C)
    BY <1>1, <1>2, <1>7, <2>2, <2>8, AskedOnward
  <2> QED BY <1>5, <1>7, <2>2, <2>9
<1> QED BY <1>6, <1>7

LEMMA AskedHeard ==
  ASSUME NEW n \in Node, NEW r \in Rec, NEW a \in Rec, HeardFrom(n, r, a), r.early = << >>, r.late = << >>,
         NEW f \in Seq(Items), NEW q \in Seq(Items), NEW C \in SUBSET Items, Asked(n, r, f, q, C)
  PROVE  /\ Asked(n, a, f \o a.early, q \o a.late, C)
         /\ Owns(n, a)
         /\ r.pending => a.stage = r.stage
         /\ ~r.awake => /\ a.stage = r.stage /\ a.pending = r.pending /\ a.awake = r.awake
                        /\ a.info = r.info /\ a.parked = r.parked
                        /\ a.early = << >> /\ a.late = << >>
<1>1. CASE a = r
  <2>1. f \o << >> = f /\ q \o << >> = q
    OBVIOUS
  <2> QED BY <1>1, <2>1, NothingOwned
<1>2. CASE ~r.alive /\ Revived(n, r, a)
  BY <1>2, AskedRevived
<1> QED BY <1>1, <1>2 DEF HeardFrom

\* Nothing is left to be sent of a stage that a node leaves.
NothingLeft ==
  \A n \in Node : node[n].pending /\ node'[n].stage > node[n].stage =>
    Question(n, node[n].stage) \notin Range(first) \cup Range(query) \cup Range(node[n].parked)

LEMMA CurrentItem ==
  ASSUME TypeOK
  PROVE  /\ Cur \in SUBSET Items
         /\ current = NoItem => Cur = {}
         /\ current # NoItem => Cur = {current} /\ current \in Items
BY NodeQueriesAssumption DEF TypeOK, Cur

LEMMA StageKept ==
  ASSUME TypeOK, NEW n \in Node, NEW a \in Rec, NEW f, NEW q, Acts(n, a, f, q),
         node[n].pending => a.stage = node[n].stage
  PROVE  NothingLeft
<1>1. SUFFICES ASSUME NEW m \in Node, node[m].pending, node'[m].stage > node[m].stage
               PROVE  FALSE
  BY DEF NothingLeft
<1>2. node'[m].stage = node[m].stage
  BY <1>1 DEF Acts, Handled, Left
<1>3. node[m].stage \in 0 .. 18
  BY StateTypes, RecFields, StagesOrdered
<1> QED BY <1>1, <1>2, <1>3

LEMMA AskedStep ==
  ASSUME AskedInv, NEW n \in Node, NEW a \in Rec, NEW f \in Seq(Items), NEW q \in Seq(Items),
         Acts(n, a, f, q), marking' = NoNode, Without(n, f, first), Without(n, q, query),
         Cur' \subseteq Cur, Owns(n, a), Asked(n, a, f \o a.early, q \o a.late, Cur')
  PROVE  AskedInv'
<1>1. /\ first \in Seq(Items) /\ query \in Seq(Items) /\ TypeOK
      /\ \A m \in Node : Asked(m, node[m], first, query, Cur)
  BY StateTypes DEF AskedInv
<1>2. /\ TypeOK' /\ first' = f \o a.early /\ query' = q \o a.late
      /\ Left(a, node'[n]) /\ \A m \in Node \ {n} : node'[m] = node[m]
  BY DEF Acts, Handled
<1>3. PICK e \in Seq(Items) : e = a.early
  BY RecFields
<1>4. PICK l \in Seq(Items) : l = a.late
  BY RecFields
<1>5. \A i \in Range(e) \cup Range(l) : i.node = n
  BY <1>3, <1>4 DEF Owns
<1>6. Asked(n, node'[n], first', query', Cur')
  BY <1>2, AskedLeft
<1>7. ASSUME NEW m \in Node, m # n
      PROVE  Asked(m, node'[m], first', query', Cur')
  <2>1. PICK s : s = node[m].stage
    OBVIOUS
  <2>2. Asked(m, node[m], first, query, Cur)
    BY <1>1
  <2>3. Never(first, Clashes(m, s)) /\ Never(query, Clashes(m, s))
    BY <2>1, <2>2 DEF Asked
  <2>4. Fewer(m, s, f, first) /\ Fewer(m, s, q, query)
    BY <1>1, <1>7, <2>3, FewerLists
  <2>5. Fewer(m, s, f \o e, first)
    <3>1. Never(f, Clashes(m, s)) /\ \A i \in Range(f) : i.node = m => i \in Range(first)
      BY <2>4 DEF Fewer
    <3>2. Never(e, Clashes(m, s))
      BY <1>5, <1>7, NeverOther
    <3>3. \A x \in Range(f), y \in Range(e) : ~Clash(m, s, x, y)
      BY <1>5, <1>7 DEF Clash, IsQuestion, IsMarker
    <3>4. Never(f \o e, Clashes(m, s))
      BY <3>1, <3>2, <3>3, NeverBehind
    <3>5. Range(f \o e) = Range(f) \cup Range(e)
      BY ConcatList
    <3> QED BY <1>5, <1>7, <3>1, <3>4, <3>5 DEF Fewer
  <2>6. Fewer(m, s, q \o l, query)
    <3>1. Never(q, Clashes(m, s)) /\ \A i \in Range(q) : i.node = m => i \in Range(query)
      BY <2>4 DEF Fewer
    <3>2. Never(l, Clashes(m, s))
      BY <1>5, <1>7, NeverOther
    <3>3. \A x \in Range(q), y \in Range(l) : ~Clash(m, s, x, y)
      BY <1>5, <1>7 DEF Clash, IsQuestion, IsMarker
    <3>4. Never(q \o l, Clashes(m, s))
      BY <3>1, <3>2, <3>3, NeverBehind
    <3>5. Range(q \o l) = Range(q) \cup Range(l)
      BY ConcatList
    <3> QED BY <1>5, <1>7, <3>1, <3>4, <3>5 DEF Fewer
  <2>7. Asked(m, node[m], f \o e, q \o l, Cur')
    BY <2>1, <2>2, <2>5, <2>6, AskedFewer
  <2> QED BY <1>2, <1>3, <1>4, <1>7, <2>7
<1>8. \A m \in Node : Asked(m, node'[m], first', query', Cur')
  BY <1>6, <1>7
<1> QED BY <1>2, <1>8 DEF AskedInv

\* What becomes the current message was in the queues.
LEMMA AskedTaken ==
  ASSUME NEW n \in Node, NEW r \in Rec, NEW f \in Seq(Items), NEW q \in Seq(Items),
         Asked(n, r, f, q, {}), NEW i \in Items, i.kind # "marker",
         NEW f1, NEW q1,
         \/ f # << >> /\ i = Head(f) /\ f1 = Tail(f) /\ q1 = q
         \/ f = << >> /\ q # << >> /\ i = Head(q) /\ f1 = f /\ q1 = Tail(q),
         i.node = n => r.alive \/ (i.kind = "question" /\ i.stage \in {Probe, CacheLoad})
  PROVE  Asked(n, r, f1, q1, {i})
<1> DEFINE F == Range(f)
           Q == Range(q)
           F1 == Range(f1)
           Q1 == Range(q1)
           P == Range(r.parked)
<1>1. /\ Rests(n, r, F, Q, {}) /\ Questions(n, r, F, Q, {}) /\ Markers(n, r, F, Q, {})
      /\ Never(f, Clashes(n, r.stage)) /\ Never(q, Clashes(n, r.stage))
  BY DEF Asked
<1>2. Never(f1, Clashes(n, r.stage)) /\ Never(q1, Clashes(n, r.stage))
  BY <1>1, NeverTail
<1>3. F1 \subseteq F /\ Q1 \subseteq Q /\ i \in F \cup Q /\ F \subseteq Items /\ Q \subseteq Items
  <2>1. f # << >> => Head(f) \in F /\ Range(Tail(f)) \subseteq F
    BY TailList
  <2>2. q # << >> => Head(q) \in Q /\ Range(Tail(q)) \subseteq Q
    BY TailList
  <2>3. F \subseteq Items /\ Q \subseteq Items
    BY DEF Range
  <2> QED BY <2>1, <2>2, <2>3
<1>4. F1 \subseteq Items /\ Q1 \subseteq Items
  BY <1>3
<1>5. (i \in F /\ \A y \in F1 : ~Clash(n, r.stage, i, y)) \/ (F = {} /\ F1 = {} /\ \A y \in Q1 : ~Clash(n, r.stage, i, y))
  <2>1. CASE f # << >> /\ i = Head(f) /\ f1 = Tail(f)
    <3>1. \A y \in F1 : <<i, y>> \notin Clashes(n, r.stage)
      BY <1>1, <2>1, NeverTail
    <3>2. i \in F
      BY <2>1, TailList
    <3> QED BY <1>4, <3>1, <3>2, ClashPair
  <2>2. CASE f = << >> /\ q # << >> /\ i = Head(q) /\ f1 = f /\ q1 = Tail(q)
    <3>1. \A y \in Q1 : <<i, y>> \notin Clashes(n, r.stage)
      BY <1>1, <2>2, NeverTail
    <3>2. F = {} /\ F1 = {}
      BY <2>2 DEF Range
    <3> QED BY <1>4, <3>1, <3>2, ClashPair
  <2> QED BY <2>1, <2>2
<1> HIDE DEF F, Q, F1, Q1, P
<1>6. Rests(n, r, F1, Q1, {i})
  <2>1. \A x \in Q : x.node = n => x.kind # "sleep" /\ ~Early(x)
    BY <1>1 DEF Rests
  <2>2. \A x \in F : x.kind = "sleep" /\ x.node = n => r.stage = Complete /\ Sleeps(n, r)
    BY <1>1 DEF Rests
  <2>3. \A x \in F1 \cup {i} : x.kind = "sleep" /\ x.node = n => r.stage = Complete /\ Sleeps(n, r)
    BY <1>3, <2>1, <2>2
  <2>4. ~r.awake /\ r.stage # Complete => \A x \in F1 \cup Q1 \cup {i} : x.node # n
    BY <1>1, <1>3 DEF Rests
  <2>5. \A x \in F1 \cup {i} : x.node = n => x.kind # "marker"
    BY <1>1, <1>3 DEF Rests
  <2> QED BY <1>1, <1>3, <2>1, <2>3, <2>4, <2>5 DEF Rests
<1>7. Questions(n, r, F1, Q1, {i})
  <2>1. \A x \in F \cup Q \cup P : IsQuestion(x, n) =>
          \/ r.pending /\ x.stage = r.stage
          \/ ~r.pending /\ r.alive /\ r.stage # Complete /\ x.stage = NodeInfo /\ x \notin Q
    BY <1>1 DEF Questions, P
  <2>2. \A x \in F1 \cup Q1 \cup {i} \cup P : IsQuestion(x, n) =>
          \/ r.pending /\ x.stage = r.stage
          \/ ~r.pending /\ r.alive /\ r.stage # Complete /\ x.stage = NodeInfo /\ x \notin Q1
    BY <1>3, <2>1
  <2>3. \A x \in F1, y \in Q1 : ~(IsQuestion(x, n) /\ IsQuestion(y, n))
    BY <1>1, <1>3 DEF Questions
  <2>4. \A y \in F1 \cup Q1 : ~(IsQuestion(i, n) /\ IsQuestion(y, n))
    <3>1. CASE i \in F /\ \A y \in F1 : ~Clash(n, r.stage, i, y)
      <4>1. \A y \in Q : ~(IsQuestion(i, n) /\ IsQuestion(y, n))
        BY <1>1, <3>1 DEF Questions
      <4> QED BY <1>3, <3>1, <4>1 DEF Clash
    <3>2. CASE F = {} /\ F1 = {} /\ \A y \in Q1 : ~Clash(n, r.stage, i, y)
      BY <3>2 DEF Clash
    <3> QED BY <1>5, <3>1, <3>2
  <2>5. IsQuestion(i, n) /\ i.stage \notin {Probe, CacheLoad} => r.alive
    BY DEF IsQuestion
  <2> QED BY <2>2, <2>3, <2>4, <2>5 DEF Questions, P
<1>8. Markers(n, r, F1, Q1, {i})
  <2>1. \A j \in Q1 \cup P : IsMarker(j, n) => j.stage <= r.stage
    BY <1>1, <1>3 DEF Markers, P
  <2>2. ASSUME r.pending, Late(r.stage), NEW x \in {i} \cup F1 \cup P, NEW j \in Q1 \cup P,
               IsQuestion(x, n), IsMarker(j, n)
        PROVE  j.stage = r.stage
    <3>1. CASE x \in F \cup P
      BY <1>1, <1>3, <2>2, <3>1 DEF Markers, P
    <3>2. CASE x = i /\ x \notin F
      <4>1. \A y \in Q1 : ~Clash(n, r.stage, i, y)
        BY <1>5, <3>2
      <4>2. CASE j \in Q1
        BY <2>2, <3>2, <4>1, <4>2 DEF Clash
      <4>3. CASE j \in P
        <5>1. r.parked = << >>
          BY <1>1, <1>3, <2>2, <3>2 DEF Rests, Late, IsQuestion
        <5> QED BY <4>3, <5>1 DEF P, Range
      <4> QED BY <2>2, <4>2, <4>3
    <3> QED BY <1>3, <2>2, <3>1, <3>2
  <2>3. r.alive /\ ~r.pending /\ Late(r.stage) =>
          \A x, j \in Q1 \cup P :
            IsMarker(x, n) /\ x.stage = r.stage /\ IsMarker(j, n) => j.stage = r.stage
    BY <1>1, <1>3 DEF Markers, P
  <2>4. ~r.alive /\ ~r.pending /\ Late(r.stage) => \A x \in Q1 : IsMarker(x, n) => x.stage # r.stage
    BY <1>1, <1>3 DEF Markers
  <2> QED BY <2>1, <2>2, <2>3, <2>4 DEF Markers, P
<1> QED BY <1>2, <1>6, <1>7, <1>8 DEF Asked, F1, Q1

LEMMA AskedSendQuestion ==
  ASSUME AskedInv, SendQuestion
  PROVE  AskedInv' /\ NothingLeft
<1>1. TypeOK
  BY DEF AskedInv
<1>2. /\ TypeOK' /\ marking' = NoNode /\ node' = node /\ current = NoItem
      /\ \E i \in Items :
              /\ i.kind # "marker"
              /\ \/ current' = NoItem
                 \/ /\ current' = i
                    /\ node[i.node].alive \/ (i.kind = "question" /\ i.stage \in {Probe, CacheLoad})
              /\ \/ first # << >> /\ i = Head(first) /\ first' = Tail(first) /\ query' = query
                 \/ first = << >> /\ query # << >> /\ i = Head(query) /\ query' = Tail(query)
                    /\ first' = first
  BY <1>1, SendQuestionStep DEF Quiet
<1>3. PICK i \in Items :
              /\ i.kind # "marker"
              /\ \/ current' = NoItem
                 \/ /\ current' = i
                    /\ node[i.node].alive \/ (i.kind = "question" /\ i.stage \in {Probe, CacheLoad})
              /\ \/ first # << >> /\ i = Head(first) /\ first' = Tail(first) /\ query' = query
                 \/ first = << >> /\ query # << >> /\ i = Head(query) /\ query' = Tail(query)
                    /\ first' = first
  BY <1>2
<1>4. /\ first \in Seq(Items) /\ query \in Seq(Items) /\ Cur = {}
      /\ first' \in Seq(Items) /\ query' \in Seq(Items)
      /\ current' = NoItem => Cur' = {}
      /\ current' = i => Cur' = {i}
  <2>1. first' \in Seq(Items) /\ query' \in Seq(Items)
    BY <1>2 DEF TypeOK
  <2>2. i # NoItem
    BY NodeQueriesAssumption
  <2> QED BY <1>1, <1>2, <2>1, <2>2, StateTypes DEF Cur
<1>5. ASSUME NEW m \in Node
      PROVE  Asked(m, node'[m], first', query', Cur')
  <2>1. PICK r \in Rec : r = node[m]
    BY <1>1, StateTypes
  <2>2. Asked(m, r, first, query, {}) /\ node'[m] = r
    BY <1>2, <1>4, <2>1 DEF AskedInv
  <2>3. CASE current' = i /\ (i.node = m => r.alive \/ (i.kind = "question" /\ i.stage \in {Probe, CacheLoad}))
    <3>1. Asked(m, r, first', query', {i})
      BY <1>3, <1>4, <2>2, <2>3, AskedTaken
    <3> QED BY <1>4, <2>2, <2>3, <3>1
  <2>4. CASE current' = NoItem
    <3>1. /\ Never(first', Clashes(m, r.stage)) /\ Never(query', Clashes(m, r.stage))
          /\ Range(first') \subseteq Range(first) /\ Range(query') \subseteq Range(query)
      <4>1. Never(first, Clashes(m, r.stage)) /\ Never(query, Clashes(m, r.stage))
        BY <2>2 DEF Asked
      <4>2. first # << >> =>
              Range(Tail(first)) \subseteq Range(first) /\ Never(Tail(first), Clashes(m, r.stage))
        BY <1>4, <4>1, NeverTail, TailList
      <4>3. query # << >> =>
              Range(Tail(query)) \subseteq Range(query) /\ Never(Tail(query), Clashes(m, r.stage))
        BY <1>4, <4>1, NeverTail, TailList
      <4> QED BY <1>3, <4>1, <4>2, <4>3
    <3>2. Asked(m, r, first', query', {})
      BY <2>2, <3>1, AskedFewer DEF Fewer
    <3> QED BY <1>4, <2>2, <2>4, <3>2
  <2> QED BY <1>3, <2>1, <2>3, <2>4
<1>6. AskedInv'
  BY <1>2, <1>5 DEF AskedInv
<1>7. NothingLeft
  <2>1. \A n \in Node : ~(node'[n].stage > node[n].stage)
    <3>1. TAKE n \in Node
    <3>2. node[n].stage \in 0 .. 18 /\ node'[n] = node[n]
      BY <1>1, <1>2, StateTypes, RecFields, StagesOrdered
    <3> QED BY <3>2
  <2> QED BY <2>1 DEF NothingLeft
<1> QED BY <1>6, <1>7

LEMMA AskedTakeMarker ==
  ASSUME AskedInv, TakeMarker
  PROVE  AskedInv' /\ NothingLeft
<1>1. /\ TypeOK /\ first \in Seq(Items) /\ query \in Seq(Items)
      /\ marking' = NoNode /\ current = NoItem /\ current' = NoItem /\ first = << >> /\ query # << >>
  BY TakeMarkerStep, StateTypes DEF AskedInv, Quiet
<1>2. PICK n \in Node, i \in Items, r \in Rec, a \in Rec :
        /\ i = Head(query) /\ IsMarker(i, n)
        /\ Kin(node[n], r) /\ Advanced(n, r, a)
        /\ \/ r = node[n] /\ (i.retry \/ i.stage # node[n].stage \/ i.stage = Complete)
           \/ /\ ~i.retry /\ i.stage = node[n].stage /\ i.stage # Complete
              /\ ~r.pending /\ r.stage > i.stage
        /\ Acts(n, a, first, Tail(query))
  BY <1>1, TakeMarkerStep
<1>3. PICK b \in Rec : b = node[n] /\ b.early = << >> /\ b.late = << >>
  BY <1>1, StateTypes
<1>4. PICK q \in Seq(Items) : q = Tail(query)
  BY <1>1, TailList
<1>5. Cur = {} /\ Cur' = {} /\ {} \in SUBSET Items /\ Range(first) = {}
  BY <1>1 DEF Cur, Range
<1>6. Asked(n, b, first, query, {})
  BY <1>3, <1>5 DEF AskedInv
<1>7. /\ Rests(n, b, {}, Range(query), {}) /\ Questions(n, b, {}, Range(query), {})
      /\ Markers(n, b, {}, Range(query), {}) /\ Never(query, Clashes(n, b.stage))
  BY <1>5, <1>6 DEF Asked
<1>8. /\ i \in Range(query) /\ Range(q) \subseteq Range(query) /\ Range(q) \subseteq Items
      /\ Range(query) = {i} \cup Range(q)
      /\ Never(q, Clashes(n, b.stage)) /\ \A y \in Range(q) : ~Clash(n, b.stage, i, y)
  <2>1. \A y \in Range(q) : <<i, y>> \notin Clashes(n, b.stage)
    BY <1>1, <1>2, <1>4, <1>7, NeverTail
  <2>2. Range(q) \subseteq Items
    BY DEF Range
  <2>3. \A y \in Range(q) : ~Clash(n, b.stage, i, y)
    BY <2>1, <2>2, ClashPair
  <2>4. Never(q, Clashes(n, b.stage))
    BY <1>1, <1>4, <1>7, NeverTail
  <2>5. i \in Range(query) /\ Range(query) = {i} \cup Range(q)
    BY <1>1, <1>2, <1>4, TailList
  <2> QED BY <2>2, <2>3, <2>4, <2>5
<1>9. Asked(n, b, first, q, {})
  <2>1. Fewer(n, b.stage, q, query)
    BY <1>8 DEF Fewer
  <2>2. Fewer(n, b.stage, first, first)
    BY <1>6 DEF Fewer, Asked
  <2> QED BY <1>6, <2>1, <2>2, AskedFewer
<1>10. b.stage # Complete => b.awake /\ b.parked = << >>
  <2>1. i.node = n
    BY <1>2 DEF IsMarker
  <2> QED BY <1>7, <1>8, <2>1 DEF Rests
<1>11. /\ r.info = b.info /\ r.alive = b.alive /\ r.awake = b.awake /\ r.parked = b.parked
       /\ r.early = << >> /\ r.late = << >>
  BY <1>2, <1>3 DEF Kin, SameStatus, SameLists
<1>12. /\ \A x \in Range(q) : x.node = n => x.kind # "sleep" /\ ~Early(x)
       /\ \A x \in Range(q) : IsMarker(x, n) => x.stage <= b.stage
       /\ \A x \in Range(q) : IsQuestion(x, n) => b.pending /\ x.stage = b.stage
  <2>1. \A x \in Range(q) : x.node = n => x.kind # "sleep" /\ ~Early(x)
    BY <1>7, <1>8 DEF Rests
  <2>2. \A x \in Range(q) : IsMarker(x, n) => x.stage <= b.stage
    BY <1>7, <1>8 DEF Markers
  <2>3. \A x \in Range(q) : IsQuestion(x, n) => b.pending /\ x.stage = b.stage
    BY <1>7, <1>8 DEF Questions
  <2> QED BY <2>1, <2>2, <2>3
<1>13. Owns(n, a)
  <2>1. Owns(n, r)
    BY <1>11, NothingOwned
  <2> QED BY <1>2, <2>1, AdvancedOwns
<1>14. CASE r = b /\ (i.retry \/ i.stage # b.stage \/ i.stage = Complete)
  <2>1. Asked(n, a, first \o a.early, q \o a.late, {})
    <3>1. CASE b.pending \/ ~b.alive \/ b.stage = Complete
      BY <1>1, <1>2, <1>9, <1>11, <1>14, <3>1, AskedStill
    <3>2. CASE b.alive /\ ~b.pending /\ b.stage # Complete
      <4>1. ASSUME NEW x \in Range(q), x.node = n
            PROVE  x.kind = "marker" /\ x.stage <= b.stage /\ (Late(b.stage) => x.stage # b.stage)
        <5>1. x \in Items /\ x \in Range(query)
          BY <1>8
        <5>2. IsMarker(x, n)
          BY <1>12, <3>2, <4>1, <5>1, ItemFields DEF IsMarker, IsQuestion
        <5>3. ASSUME Late(b.stage), x.stage = b.stage PROVE FALSE
          <6>1. i.stage = b.stage
            BY <1>2, <1>7, <1>8, <3>2, <5>1, <5>2, <5>3 DEF Markers
          <6> QED BY <1>2, <1>8, <5>2, <5>3, <6>1 DEF Clash
        <5> QED BY <1>12, <5>2, <5>3 DEF IsMarker
      <4>2. Clear(n, b, Range(first), Range(q), {})
        BY <1>5, <4>1 DEF Clear
      <4> QED BY <1>1, <1>2, <1>3, <1>5, <1>10, <1>14, <3>2, <4>2, AskedOnward
    <3> QED BY <3>1, <3>2
  <2>2. b.pending => a.stage = b.stage
    BY <1>2, <1>14 DEF Advanced
  <2>3. AskedInv'
    <3>1. Without(n, first, first) /\ Without(n, q, query)
      BY <1>1, <1>4 DEF Without
    <3> QED BY <1>1, <1>2, <1>4, <1>5, <1>13, <2>1, <3>1, AskedStep
  <2>4. NothingLeft
    BY <1>1, <1>2, <1>3, <2>2, StageKept
  <2> QED BY <2>3, <2>4
<1>15. CASE ~i.retry /\ i.stage = b.stage /\ i.stage # Complete /\ ~r.pending /\ r.stage > i.stage
  <2>1. r.awake /\ r.parked = << >> /\ b.parked = << >>
    BY <1>10, <1>11, <1>15
  <2>2. \A x \in Range(q) : ~IsQuestion(x, n)
    <3>1. SUFFICES ASSUME NEW x \in Range(q), IsQuestion(x, n) PROVE FALSE
      OBVIOUS
    <3>2. x.stage = b.stage /\ ~Early(x)
      BY <1>12, <3>1 DEF IsQuestion
    <3>3. Late(b.stage)
      BY <1>15, <3>1, <3>2 DEF Early, IsQuestion, Late
    <3> QED BY <1>2, <1>8, <1>15, <3>1, <3>3 DEF Clash
  <2>3. ASSUME NEW x \in Range(q), x.node = n
        PROVE  x.kind = "marker" /\ x.stage <= r.stage /\ (Late(r.stage) => x.stage # r.stage)
    <3>1. x \in Items
      BY <1>8
    <3>2. IsMarker(x, n)
      BY <1>12, <2>2, <2>3, <3>1, ItemFields DEF IsMarker, IsQuestion
    <3>3. PICK k \in 0 .. 18 : k = x.stage
      BY <3>1, ItemFields, StagesOrdered
    <3>4. PICK l \in 0 .. 18 : l = b.stage
      BY RecFields, StagesOrdered
    <3>5. PICK s \in 0 .. 18 : s = r.stage
      BY RecFields, StagesOrdered
    <3>6. k <= l /\ s > l
      BY <1>12, <1>15, <3>2, <3>3, <3>4, <3>5
    <3>7. k <= s /\ k # s
      BY <3>6
    <3> QED BY <3>2, <3>3, <3>5, <3>7 DEF IsMarker
  <2>4. Clear(n, r, Range(first), Range(q), {})
    BY <1>5, <2>3 DEF Clear
  <2>5. Asked(n, a, first \o a.early, q \o a.late, {})
    BY <1>1, <1>2, <1>5, <1>11, <1>15, <2>1, <2>4, AskedOnward
  <2>6. AskedInv'
    <3>1. Without(n, first, first) /\ Without(n, q, query)
      BY <1>1, <1>4 DEF Without
    <3> QED BY <1>1, <1>2, <1>4, <1>5, <1>13, <2>5, <3>1, AskedStep
  <2>7. NothingLeft
    <3>1. SUFFICES ASSUME NEW m \in Node, node[m].pending, node'[m].stage > node[m].stage
                   PROVE  Question(m, node[m].stage) \notin
                            Range(first) \cup Range(query) \cup Range(node[m].parked)
      BY DEF NothingLeft
    <3>2. CASE m # n
      <4>1. node'[m] = node[m] /\ node[m].stage \in 0 .. 18
        BY <1>1, <1>2, <3>2, StateTypes, RecFields, StagesOrdered DEF Acts, Handled
      <4> QED BY <3>1, <4>1
    <3>3. CASE m = n
      <4>1. IsQuestion(Question(n, b.stage), n)
        BY RecFields, NewItems
      <4>2. ~IsQuestion(i, n)
        BY <1>2 DEF IsMarker, IsQuestion
      <4>3. Range(b.parked) = {}
        BY <2>1 DEF Range
      <4> QED BY <1>3, <1>5, <1>8, <2>2, <3>3, <4>1, <4>2, <4>3
    <3> QED BY <3>2, <3>3
  <2> QED BY <2>6, <2>7
<1> QED BY <1>2, <1>3, <1>14, <1>15

LEMMA AskedLost ==
  ASSUME AskedInv, Lost
  PROVE  AskedInv' /\ NothingLeft
<1>1. /\ TypeOK /\ TypeOK' /\ marking' = NoNode /\ node' = node /\ first' = first /\ query' = query
      /\ Cur' = {} /\ \A n \in Node : Asked(n, node[n], first, query, Cur)
  BY LostStep DEF AskedInv, Quiet, Cur
<1>2. ASSUME NEW n \in Node
      PROVE  Asked(n, node'[n], first', query', Cur')
  <2>1. Asked(n, node[n], first, query, Cur)
    BY <1>1
  <2>2. Fewer(n, node[n].stage, first, first) /\ Fewer(n, node[n].stage, query, query)
    BY <2>1 DEF Fewer, Asked
  <2>3. Asked(n, node[n], first, query, {})
    BY <2>1, <2>2, AskedFewer
  <2> QED BY <1>1, <2>3
<1>3. ASSUME NEW n \in Node
      PROVE  ~(node'[n].stage > node[n].stage)
  <2>1. node[n].stage \in 0 .. 18
    BY <1>1, StateTypes, RecFields, StagesOrdered
  <2> QED BY <1>1, <2>1
<1> QED BY <1>1, <1>2, <1>3 DEF AskedInv, NothingLeft

\* The current message is a question or sends the node to sleep.
LEMMA AskedCurrent ==
  ASSUME AskedInv, current # NoItem
  PROVE  \E n \in Node, r \in Rec :
           /\ n = current.node /\ r = node[n] /\ r.early = << >> /\ r.late = << >>
           /\ current \in Items /\ Cur = {current}
           /\ first \in Seq(Items) /\ query \in Seq(Items) /\ TypeOK
           /\ Asked(n, r, first, query, {current}) /\ Asked(n, r, first, query, {})
           /\ \/ current.kind = "sleep" /\ r.stage = Complete /\ ~r.pending /\ Sleeps(n, r)
              \/ /\ IsQuestion(current, n)
                 /\ \/ r.pending /\ current.stage = r.stage /\ r.stage # Complete
                    \/ ~r.pending /\ r.alive /\ r.stage # Complete /\ current.stage = NodeInfo
                 /\ current.stage \notin {Probe, CacheLoad} => r.alive
                 /\ \A i \in Range(first) \cup Range(query) : ~IsQuestion(i, n)
                 /\ r.awake /\ r.parked = << >>
<1>1. /\ TypeOK /\ current \in Items /\ Cur = {current} /\ current.node \in Node
      /\ first \in Seq(Items) /\ query \in Seq(Items)
  BY CurrentItem, StateTypes, ItemFields DEF AskedInv
<1>2. PICK n \in Node : n = current.node
  BY <1>1
<1>3. PICK r \in Rec : r = node[n] /\ r.early = << >> /\ r.late = << >>
  BY <1>1, StateTypes
<1>4. Asked(n, r, first, query, {current})
  BY <1>1, <1>2, <1>3 DEF AskedInv
<1>5. Asked(n, r, first, query, {})
  <2>1. Fewer(n, r.stage, first, first) /\ Fewer(n, r.stage, query, query)
    BY <1>4 DEF Fewer, Asked
  <2> QED BY <1>4, <2>1, AskedFewer
<1>6. /\ Rests(n, r, Range(first), Range(query), {current})
      /\ Questions(n, r, Range(first), Range(query), {current})
  BY <1>4 DEF Asked
<1>7. current.kind \in {"question", "sleep"}
  BY <1>1, <1>2, <1>6, ItemFields DEF Rests
<1>8. CASE current.kind = "sleep"
  <2>1. r.stage = Complete /\ ~r.pending /\ Sleeps(n, r)
    BY <1>2, <1>6, <1>8, RecFields DEF Rests
  <2> QED BY <1>1, <1>2, <1>3, <1>4, <1>5, <1>8, <2>1
<1>9. CASE current.kind = "question"
  <2>1. IsQuestion(current, n)
    BY <1>2, <1>9 DEF IsQuestion
  <2>2. \/ r.pending /\ current.stage = r.stage /\ r.stage # Complete
        \/ ~r.pending /\ r.alive /\ r.stage # Complete /\ current.stage = NodeInfo
    BY <1>6, <2>1 DEF Questions, Rests
  <2>3. /\ current.stage \notin {Probe, CacheLoad} => r.alive
        /\ \A i \in Range(first) \cup Range(query) : ~IsQuestion(i, n)
    BY <1>6, <2>1 DEF Questions
  <2>4. r.awake /\ r.parked = << >>
    BY <1>2, <1>6, <2>2 DEF Rests
  <2> QED BY <1>1, <1>2, <1>3, <1>4, <1>5, <2>1, <2>2, <2>3, <2>4
<1> QED BY <1>7, <1>8, <1>9

LEMMA AskedAnswered ==
  ASSUME AskedInv, NEW exists \in BOOLEAN, Answered(exists)
  PROVE  AskedInv' /\ NothingLeft
<1>1. marking' = NoNode /\ current # NoItem /\ current' = NoItem /\ Cur' = {} /\ TypeOK
  BY AnsweredStep DEF AskedInv, Quiet, Cur
<1>2. PICK n \in Node, r \in Rec :
           /\ n = current.node /\ r = node[n] /\ r.early = << >> /\ r.late = << >>
           /\ current \in Items /\ Cur = {current}
           /\ first \in Seq(Items) /\ query \in Seq(Items) /\ TypeOK
           /\ Asked(n, r, first, query, {current}) /\ Asked(n, r, first, query, {})
           /\ \/ current.kind = "sleep" /\ r.stage = Complete /\ ~r.pending /\ Sleeps(n, r)
              \/ /\ IsQuestion(current, n)
                 /\ \/ r.pending /\ current.stage = r.stage /\ r.stage # Complete
                    \/ ~r.pending /\ r.alive /\ r.stage # Complete /\ current.stage = NodeInfo
                 /\ current.stage \notin {Probe, CacheLoad} => r.alive
                 /\ \A i \in Range(first) \cup Range(query) : ~IsQuestion(i, n)
                 /\ r.awake /\ r.parked = << >>
  BY <1>1, AskedCurrent
<1>3. PICK k \in Rec, a \in Rec :
        /\ Known(current, r, k) /\ Acts(n, a, first, query)
        /\ IF AnsweredByController(current) THEN a = k ELSE HeardFrom(n, k, a)
  <2>1. \E m \in Node, k, a \in Rec :
              /\ m = current.node /\ Known(current, node[m], k)
              /\ IF AnsweredByController(current) THEN a = k ELSE HeardFrom(m, k, a)
              /\ Acts(m, a, first, query)
    BY <1>1, AnsweredStep
  <2> QED BY <1>2, <2>1
<1>4. /\ k.parked = r.parked /\ k.early = << >> /\ k.late = << >>
      /\ k.stage = r.stage /\ k.pending = r.pending /\ (r.info => k.info)
      /\ k.alive = r.alive \/ (~k.alive /\ current.kind = "question" /\ current.stage = ProtocolInfo)
      /\ k.awake = r.awake \/ (~k.awake /\ current.kind = "sleep")
  BY <1>2, <1>3 DEF Known, SameLists
<1>5. Asked(n, k, first, query, {})
  <2>1. CASE current.kind = "sleep" /\ r.stage = Complete /\ ~r.pending /\ Sleeps(n, r)
    <3>1. /\ k.stage = Complete /\ ~k.pending /\ k.alive = r.alive /\ Sleeps(n, k)
      BY <1>2, <1>4, <2>1 DEF Sleeps
    <3>2. Rests(n, k, Range(first), Range(query), {})
      BY <1>2, <1>4, <2>1, <3>1 DEF Asked, Rests
    <3>3. Questions(n, k, Range(first), Range(query), {})
      BY <1>2, <1>4, <3>1 DEF Asked, Questions
    <3>4. Markers(n, k, Range(first), Range(query), {})
      BY <1>2, <1>4, <3>1 DEF Asked, Markers, Late
    <3> QED BY <1>2, <1>4, <3>2, <3>3, <3>4 DEF Asked
  <2>2. CASE IsQuestion(current, n)
    <3>1. k.awake = r.awake
      BY <1>4, <2>2 DEF IsQuestion
    <3>2. k.alive = r.alive \/ r.pending
      <4>1. ProtocolInfo # NodeInfo
        BY StagesOrdered
      <4> QED BY <1>2, <1>4, <2>2, <4>1 DEF IsQuestion
    <3>3. k.alive \in BOOLEAN /\ r.alive \in BOOLEAN
      BY RecFields
    <3> QED BY <1>2, <1>4, <3>1, <3>2, <3>3, AskedVital
  <2> QED BY <1>2, <2>1, <2>2
<1>6. /\ Asked(n, a, first \o a.early, query \o a.late, {}) /\ Owns(n, a)
      /\ k.pending => a.stage = k.stage
  <2>1. CASE a = k
    <3>1. first \o << >> = first /\ query \o << >> = query
      BY <1>2
    <3> QED BY <1>4, <1>5, <2>1, <3>1, NothingOwned
  <2>2. CASE HeardFrom(n, k, a)
    <3>1. {} \in SUBSET Items
      OBVIOUS
    <3> QED BY <1>2, <1>4, <1>5, <2>2, <3>1, AskedHeard
  <2> QED BY <1>3, <2>1, <2>2
<1>7. AskedInv'
  <2>1. Without(n, first, first) /\ Without(n, query, query)
    BY DEF Without
  <2> QED BY <1>1, <1>2, <1>3, <1>6, <2>1, AskedStep
<1>8. NothingLeft
  BY <1>2, <1>3, <1>4, <1>6, StageKept
<1> QED BY <1>7, <1>8

LEMMA AskedFailed ==
  ASSUME AskedInv, Failed
  PROVE  AskedInv' /\ NothingLeft
<1>1. /\ marking' = NoNode /\ current # NoItem /\ current' = NoItem /\ Cur' = {} /\ TypeOK
      /\ Transmitted(current)
  BY FailedStep DEF AskedInv, Cur
<1>2. PICK n \in Node, r \in Rec :
           /\ n = current.node /\ r = node[n] /\ r.early = << >> /\ r.late = << >>
           /\ current \in Items /\ Cur = {current}
           /\ first \in Seq(Items) /\ query \in Seq(Items) /\ TypeOK
           /\ Asked(n, r, first, query, {current}) /\ Asked(n, r, first, query, {})
           /\ \/ current.kind = "sleep" /\ r.stage = Complete /\ ~r.pending /\ Sleeps(n, r)
              \/ /\ IsQuestion(current, n)
                 /\ \/ r.pending /\ current.stage = r.stage /\ r.stage # Complete
                    \/ ~r.pending /\ r.alive /\ r.stage # Complete /\ current.stage = NodeInfo
                 /\ current.stage \notin {Probe, CacheLoad} => r.alive
                 /\ \A i \in Range(first) \cup Range(query) : ~IsQuestion(i, n)
                 /\ r.awake /\ r.parked = << >>
  BY <1>1, AskedCurrent
<1>3. PICK j \in Rec :
        /\ Vital(r, j)
        /\ \/ Acts(n, j, first, query)
           \/ \E a \in Rec, q \in Seq(Items) :
                /\ current.stage \in {Probe, CacheLoad} /\ j.stage \in {Probe, CacheLoad}
                /\ Kin(j, a) /\ ~a.pending /\ a.stage = j.stage
                /\ Marked(query, n, q) /\ Acts(n, a, first, q)
  <2>1. \E m \in Node, j \in Rec :
          /\ m = current.node /\ Vital(node[m], j)
          /\ \/ Acts(m, j, first, query)
             \/ \E a \in Rec, q \in Seq(Items) :
                  /\ current.stage \in {Probe, CacheLoad} /\ j.stage \in {Probe, CacheLoad}
                  /\ Kin(j, a) /\ ~a.pending /\ a.stage = j.stage
                  /\ Marked(query, m, q) /\ Acts(m, a, first, q)
    BY <1>1, FailedStep
  <2> QED BY <1>2, <2>1
<1>4. /\ j.stage = r.stage /\ j.pending = r.pending /\ j.info = r.info /\ j.awake = r.awake
      /\ j.parked = r.parked /\ j.early = << >> /\ j.late = << >>
  BY <1>2, <1>3 DEF Vital, SameLists
<1>5. r.pending \/ r.stage = Complete
  BY <1>1, <1>2 DEF Transmitted, IsQuestion
<1>6. CASE Acts(n, j, first, query)
  <2>1. r.alive \in BOOLEAN /\ j.alive \in BOOLEAN
    BY RecFields
  <2>2. Asked(n, j, first, query, {})
    BY <1>2, <1>4, <1>5, <2>1, AskedVital
  <2>3. first \o << >> = first /\ query \o << >> = query
    BY <1>2
  <2>4. Without(n, first, first) /\ Without(n, query, query)
    BY DEF Without
  <2>5. AskedInv'
    <3>1. Asked(n, j, first \o j.early, query \o j.late, Cur') /\ Cur' \subseteq Cur /\ Owns(n, j)
      BY <1>1, <1>4, <2>2, <2>3, NothingOwned
    <3> QED BY <1>1, <1>2, <1>6, <2>4, <3>1, AskedStep
  <2>6. NothingLeft
    BY <1>2, <1>4, <1>6, StageKept
  <2> QED BY <2>5, <2>6
<1>7. ASSUME NEW a \in Rec, NEW q \in Seq(Items),
             current.stage \in {Probe, CacheLoad}, j.stage \in {Probe, CacheLoad},
             Kin(j, a), ~a.pending, a.stage = j.stage, Marked(query, n, q), Acts(n, a, first, q)
      PROVE  AskedInv' /\ NothingLeft
  <2>1. /\ r.stage # Complete /\ ~Late(a.stage) /\ IsQuestion(current, n) /\ r.awake /\ r.parked = << >>
        /\ \A i \in Range(first) \cup Range(query) : ~IsQuestion(i, n)
    BY <1>2, <1>4, <1>7, StagesOrdered DEF Late
  <2>2. a.awake /\ a.parked = << >> /\ a.early = << >> /\ a.late = << >> /\ a.stage = r.stage
    BY <1>4, <1>7, <2>1 DEF Kin, SameStatus, SameLists
  <2>3. /\ Rests(n, r, Range(first), Range(query), {}) /\ Markers(n, r, Range(first), Range(query), {})
        /\ Range(first) \subseteq Items /\ Range(query) \subseteq Items /\ Range(q) \subseteq Items
    BY <1>2 DEF Asked, Range
  <2>4. \A i \in Range(first) \cup {} : i.node # n
    BY <2>1, <2>3, ItemFields DEF Rests, IsQuestion
  <2>5. ASSUME NEW y \in Range(q), y.node = n
        PROVE  y.kind = "marker" /\ y.stage <= a.stage
    <3>1. PICK x \in Range(query) : SameItem(x, y)
      BY <1>2, <1>7, MarkedRange
    <3>2. x.kind = y.kind /\ x.node = n /\ x.stage = y.stage /\ x \in Items
      BY <2>3, <2>5, <3>1 DEF SameItem
    <3>3. IsMarker(x, n)
      BY <2>1, <2>3, <3>2, ItemFields DEF Rests, IsQuestion, IsMarker
    <3>4. x.stage <= r.stage
      BY <2>3, <3>3 DEF Markers
    <3> QED BY <2>2, <3>2, <3>3, <3>4 DEF IsMarker
  <2>6. Clear(n, a, Range(first), Range(q), {})
    BY <2>1, <2>4, <2>5 DEF Clear
  <2>7. Asked(n, a, first, q, {})
    <3>1. {} \in SUBSET Items
      OBVIOUS
    <3> QED BY <1>2, <1>7, <2>2, <2>6, <3>1, AskedClear
  <2>8. first \o << >> = first /\ q \o << >> = q
    BY <1>2
  <2>9. Without(n, first, first) /\ Without(n, q, query)
    BY <1>7 DEF Without
  <2>10. AskedInv'
    <3>1. Asked(n, a, first \o a.early, q \o a.late, Cur') /\ Cur' \subseteq Cur /\ Owns(n, a)
      BY <1>1, <2>2, <2>7, <2>8, NothingOwned
    <3> QED BY <1>1, <1>2, <1>7, <2>9, <3>1, AskedStep
  <2>11. NothingLeft
    BY <1>2, <1>7, <2>2, StageKept
  <2> QED BY <2>10, <2>11
<1> QED BY <1>3, <1>6, <1>7

\* All items of the node are parked.
LEMMA AskedMoved ==
  ASSUME NEW n \in Node, NEW r \in Rec, NEW m \in Rec, NEW q \in Seq(Items),
         first \in Seq(Items), current \in Items, current.node = n, Sleeps(n, r),
         Asked(n, r, first, q, {current}), Moved(n, r, q, m)
  PROVE  Asked(n, m, NotOf(n, first), NotOf(n, q), {})
<1> DEFINE F == Range(first)
           Q == Range(q)
           P == Range(r.parked)
           M == Range(m.parked)
           F1 == Range(NotOf(n, first))
           Q1 == Range(NotOf(n, q))
<1>1. /\ Rests(n, r, F, Q, {current}) /\ Questions(n, r, F, Q, {current})
      /\ Markers(n, r, F, Q, {current})
  BY DEF Asked
<1>2. /\ NotOf(n, first) \in Seq(Items) /\ NotOf(n, q) \in Seq(Items)
      /\ \A i \in F1 \cup Q1 : i.node # n
  BY OfNode
<1>3. /\ Never(NotOf(n, first), Clashes(n, m.stage)) /\ Never(NotOf(n, q), Clashes(n, m.stage))
  BY <1>2, NeverOther
<1>4. /\ m.stage = r.stage /\ m.pending = r.pending /\ m.info = r.info /\ m.alive = r.alive /\ ~m.awake
      /\ Distinct(r.parked) => Distinct(m.parked)
  BY DEF Moved
<1>5. \A i \in M : i \in P \/ (i \in {current} \cup F \cup Q /\ i.node = n /\ Kept(i))
  BY DEF Moved, MovedItems
<1>6. F \subseteq Items /\ Q \subseteq Items
  BY DEF Range
<1> HIDE DEF F, Q, P, M, F1, Q1
<1>7. \A i \in M : i.node = n /\ i.kind # "sleep"
  BY <1>1, <1>5 DEF Rests, P, Kept
<1>8. \A i \in M : IsMarker(i, n) => i \in Q \cup P
  BY <1>1, <1>5 DEF Rests, IsMarker
<1>9. r.pending => IsQuestion(current, n) /\ r.stage # Complete /\ \A i \in Q : ~IsQuestion(i, n)
  <2>1. r.pending => r.stage # Complete
    BY <1>1 DEF Rests
  <2>2. r.pending => current.kind = "question"
    BY <1>1, <2>1, ItemFields DEF Rests
  <2>3. r.pending => IsQuestion(current, n)
    BY <2>2 DEF IsQuestion
  <2> QED BY <1>1, <2>1, <2>3 DEF Questions
<1>10. Rests(n, m, F1, Q1, {})
  <2>1. ~m.pending /\ m.stage # Complete => m.alive
    <3>1. SUFFICES ASSUME ~r.pending, r.stage # Complete PROVE r.alive
      BY <1>4
    <3>2. IsQuestion(current, n)
      BY <1>1, <3>1, ItemFields DEF Rests, IsQuestion
    <3> QED BY <1>1, <3>1, <3>2 DEF Questions
  <2>2. Sleeps(n, m) /\ Distinct(m.parked)
    BY <1>1, <1>4 DEF Rests, Sleeps
  <2>3. m.stage = Complete => ~m.pending
    BY <1>1, <1>4 DEF Rests
  <2> QED BY <1>2, <1>4, <1>7, <2>1, <2>2, <2>3 DEF Rests, M
<1>11. Questions(n, m, F1, Q1, {})
  <2>1. \A i \in M : IsQuestion(i, n) => i \in {current} \cup F \cup Q \cup P
    BY <1>5
  <2>2. \A i \in M : IsQuestion(i, n) =>
          \/ m.pending /\ i.stage = m.stage
          \/ ~m.pending /\ m.alive /\ m.stage # Complete /\ i.stage = NodeInfo /\ i \notin Q1
    <3>1. \A i \in M : i \notin Q1
      BY <1>2, <1>7
    <3> QED BY <1>1, <1>4, <2>1, <3>1 DEF Questions, P
  <2>3. \A i \in F1 \cup Q1 \cup {} : ~IsQuestion(i, n)
    BY <1>2 DEF IsQuestion
  <2> QED BY <2>2, <2>3 DEF Questions, M
<1>12. Markers(n, m, F1, Q1, {})
  <2>1. \A j \in Q1 : ~IsMarker(j, n)
    BY <1>2 DEF IsMarker
  <2>2. \A j \in M : IsMarker(j, n) => j.stage <= m.stage
    BY <1>1, <1>4, <1>8 DEF Markers, P
  <2>3. ASSUME m.pending, Late(m.stage), NEW x \in {} \cup F1 \cup M, NEW j \in Q1 \cup M,
               IsQuestion(x, n), IsMarker(j, n)
        PROVE  j.stage = m.stage
    <3>1. j \in Q \cup P
      BY <1>8, <2>1, <2>3
    <3>2. x \in M
      BY <1>2, <2>3 DEF IsQuestion
    <3>3. x \in {current} \cup F \cup P
      BY <1>4, <1>5, <1>9, <2>3, <3>2
    <3> QED BY <1>1, <1>4, <2>3, <3>1, <3>3 DEF Markers, P
  <2>4. m.alive /\ ~m.pending /\ Late(m.stage) =>
          \A x, j \in Q1 \cup M :
            IsMarker(x, n) /\ x.stage = m.stage /\ IsMarker(j, n) => j.stage = m.stage
    BY <1>1, <1>4, <1>8, <2>1 DEF Markers, P
  <2> QED BY <2>1, <2>2, <2>3, <2>4 DEF Markers, M
<1> QED BY <1>3, <1>10, <1>11, <1>12 DEF Asked, F1, Q1

LEMMA AskedFailedAsleep ==
  ASSUME AskedInv, FailedAsleep
  PROVE  AskedInv' /\ NothingLeft
<1>1. marking' = NoNode /\ current # NoItem /\ current' = NoItem /\ Cur' = {} /\ TypeOK
  BY FailedAsleepStep DEF AskedInv, Quiet, Cur
<1>2. PICK n \in Node, r \in Rec :
           /\ n = current.node /\ r = node[n] /\ r.early = << >> /\ r.late = << >>
           /\ current \in Items /\ first \in Seq(Items) /\ query \in Seq(Items)
           /\ Asked(n, r, first, query, {current})
  BY <1>1, AskedCurrent
<1>3. PICK m \in Rec : /\ Sleeps(n, r) /\ Moved(n, r, query, m)
                       /\ Acts(n, m, NotOf(n, first), NotOf(n, query))
  BY <1>1, <1>2, FailedAsleepStep
<1>4. Asked(n, m, NotOf(n, first), NotOf(n, query), {})
  BY <1>2, <1>3, AskedMoved
<1>5. NotOf(n, first) \in Seq(Items) /\ NotOf(n, query) \in Seq(Items)
  BY <1>2, OfNode
<1>6. m.early = << >> /\ m.late = << >> /\ m.stage = r.stage
  BY <1>2, <1>3 DEF Moved
<1>7. NotOf(n, first) \o << >> = NotOf(n, first) /\ NotOf(n, query) \o << >> = NotOf(n, query)
  <2> DEFINE f == NotOf(n, first)
             q == NotOf(n, query)
  <2> HIDE DEF f, q
  <2>1. f \o << >> = f /\ q \o << >> = q
    BY <1>5 DEF f, q
  <2> QED BY <2>1 DEF f, q
<1>8. AskedInv'
  <2>1. Without(n, NotOf(n, first), first) /\ Without(n, NotOf(n, query), query)
    BY DEF Without
  <2>2. Asked(n, m, NotOf(n, first) \o m.early, NotOf(n, query) \o m.late, Cur')
    BY <1>1, <1>4, <1>6, <1>7
  <2>3. Cur' \subseteq Cur /\ Owns(n, m)
    BY <1>1, <1>6, NothingOwned
  <2> QED BY <1>1, <1>3, <1>5, <2>1, <2>2, <2>3, AskedStep
<1>9. NothingLeft
  BY <1>1, <1>2, <1>3, <1>6, StageKept
<1> QED BY <1>8, <1>9

\* The request for the node info failed, and is to be repeated or given up.
LEMMA AskedNodeInfo ==
  ASSUME NEW n \in Node, NEW r \in Rec, NEW a \in Rec, NEW q \in Seq(Items),
         first \in Seq(Items), query \in Seq(Items),
         IsQuestion(current, n), current.stage = NodeInfo, r.stage = NodeInfo, r.alive, r.awake,
         r.parked = << >>, \A i \in Range(first) \cup Range(query) : ~IsQuestion(i, n),
         Asked(n, r, first, query, {current}),
         Kin(r, a), ~a.pending, a.stage \in {NodeInfo, NodeInfo + 1}, Marked(query, n, q)
  PROVE  Asked(n, a, first, q, {current})
<1> DEFINE F == Range(first)
           Q == Range(query)
           Q1 == Range(q)
<1>1. /\ Rests(n, r, F, Q, {current}) /\ Questions(n, r, F, Q, {current})
      /\ Markers(n, r, F, Q, {current}) /\ Never(query, Clashes(n, r.stage))
      /\ F \subseteq Items /\ Q \subseteq Items /\ Q1 \subseteq Items
  BY DEF Asked, Range
<1>2. /\ a.info = r.info /\ a.alive = r.alive /\ a.awake = r.awake /\ a.parked = << >>
  BY DEF Kin, SameStatus, SameLists
<1>3. Range(a.parked) = {} /\ Range(r.parked) = {} /\ Distinct(a.parked)
  BY <1>2 DEF Range, Distinct
<1>4. a.stage \in {5, 6} /\ r.stage = 5 /\ Complete = 18 /\ NodeInfo = 5
  BY StagesOrdered
<1>5. Late(5)
  BY StagesOrdered DEF Late
<1>6. \A i \in F : i.node # n
  <2>1. r.stage # Complete
    BY <1>4
  <2> QED BY <1>1, <2>1, ItemFields DEF Rests, IsQuestion
<1>7. \A y \in Q1 : y.node = n =>
        \E x \in Q : IsMarker(x, n) /\ IsMarker(y, n) /\ x.stage = y.stage
  <2>1. SUFFICES ASSUME NEW y \in Q1, y.node = n
                 PROVE  \E x \in Q : IsMarker(x, n) /\ IsMarker(y, n) /\ x.stage = y.stage
    OBVIOUS
  <2>2. PICK x \in Q : SameItem(x, y)
    BY <2>1, MarkedRange
  <2>3. x.kind = y.kind /\ x.node = n /\ x.stage = y.stage /\ x \in Items
    BY <1>1, <2>1, <2>2 DEF SameItem
  <2>4. IsMarker(x, n)
    BY <1>1, <2>3, ItemFields DEF Rests, IsQuestion, IsMarker
  <2> QED BY <2>1, <2>3, <2>4 DEF IsMarker
<1>8. ASSUME NEW y \in Q1, IsMarker(y, n)
      PROVE  y.stage \in 0 .. 5 /\ y.stage <= a.stage /\ y.stage # 6
  <2>1. PICK x \in Q : IsMarker(x, n) /\ x.stage = y.stage
    BY <1>7, <1>8 DEF IsMarker
  <2>2. PICK k \in 0 .. 18 : k = x.stage
    BY <1>1, ItemFields, StagesOrdered
  <2>3. k <= 5
    BY <1>1, <1>4, <2>1, <2>2 DEF Markers
  <2>4. k \in 0 .. 5 /\ k # 6 /\ k <= 5 /\ k <= 6
    BY <2>3
  <2> QED BY <1>4, <2>1, <2>2, <2>4
<1>9. ASSUME a.stage = 5, NEW y \in Q1, IsMarker(y, n), NEW z \in Q1, IsMarker(z, n), z.stage = 5
      PROVE  y.stage = 5
  <2>1. PICK x \in Q : IsMarker(x, n) /\ x.stage = y.stage
    BY <1>7, <1>9 DEF IsMarker
  <2>2. PICK w \in Q : IsMarker(w, n) /\ w.stage = z.stage
    BY <1>7, <1>9 DEF IsMarker
  <2>3. CASE r.pending
    BY <1>1, <1>4, <1>5, <2>1, <2>3 DEF Markers
  <2>4. CASE ~r.pending
    BY <1>1, <1>4, <1>5, <1>9, <2>1, <2>2, <2>4 DEF Markers
  <2> QED BY <2>3, <2>4
<1>10. Never(first, Clashes(n, a.stage))
  BY <1>6, NeverOther
<1>11. Never(q, Clashes(n, a.stage))
  <2>1. CASE a.stage = 5
    BY <1>1, <1>4, <2>1, NeverMarked
  <2>2. CASE a.stage = 6
    <3>1. \A x, y \in Q1 : ~Clash(n, a.stage, x, y)
      <4>1. \A x \in Q1 : ~IsQuestion(x, n)
        BY <1>7 DEF IsQuestion, IsMarker
      <4>2. \A x \in Q1 : IsMarker(x, n) => x.stage # a.stage
        BY <1>8, <2>2
      <4> QED BY <4>1, <4>2 DEF Clash
    <3> QED BY <3>1, NeverNone
  <2> QED BY <1>4, <2>1, <2>2
<1> HIDE DEF F, Q, Q1
<1>12. Rests(n, a, F, Q1, {current})
  <2>1. a.stage # Complete /\ a.awake /\ a.alive
    BY <1>2, <1>4
  <2>2. current.kind = "question"
    BY DEF IsQuestion
  <2>3. \A i \in Q1 : i.node = n => i.kind = "marker"
    BY <1>7 DEF IsMarker
  <2> QED BY <1>2, <1>3, <1>6, <2>1, <2>2, <2>3 DEF Rests, Early
<1>13. Questions(n, a, F, Q1, {current})
  <2>1. \A i \in F \cup Q1 \cup Range(a.parked) : ~IsQuestion(i, n)
    BY <1>3, <1>6, <1>7 DEF IsQuestion, IsMarker
  <2>2. a.stage # Complete /\ a.alive
    BY <1>2, <1>4
  <2> QED BY <2>1, <2>2 DEF Questions
<1>14. Markers(n, a, F, Q1, {current})
  <2>1. \A j \in Q1 : IsMarker(j, n) => j.stage <= a.stage
    BY <1>8
  <2>2. ASSUME NEW y \in Q1, NEW z \in Q1, IsMarker(z, n), z.stage = a.stage, IsMarker(y, n)
        PROVE  y.stage = a.stage
    <3>1. a.stage = 5
      BY <1>4, <1>8, <2>2
    <3> QED BY <1>9, <2>2, <3>1
  <2> QED BY <1>2, <1>3, <2>1, <2>2 DEF Markers
<1> QED BY <1>10, <1>11, <1>12, <1>13, <1>14 DEF Asked, F, Q1

LEMMA AskedNodeInfoFailed ==
  ASSUME AskedInv, NodeInfoFailed
  PROVE  AskedInv' /\ NothingLeft
<1>1. marking' = NoNode /\ current # NoItem /\ current' = NoItem /\ Cur' = {} /\ TypeOK
  BY NodeInfoFailedStep DEF AskedInv, Quiet, Cur
<1>2. PICK n \in Node, r \in Rec :
           /\ n = current.node /\ r = node[n] /\ r.early = << >> /\ r.late = << >>
           /\ current \in Items /\ Cur = {current}
           /\ first \in Seq(Items) /\ query \in Seq(Items) /\ TypeOK
           /\ Asked(n, r, first, query, {current}) /\ Asked(n, r, first, query, {})
           /\ \/ current.kind = "sleep" /\ r.stage = Complete /\ ~r.pending /\ Sleeps(n, r)
              \/ /\ IsQuestion(current, n)
                 /\ \/ r.pending /\ current.stage = r.stage /\ r.stage # Complete
                    \/ ~r.pending /\ r.alive /\ r.stage # Complete /\ current.stage = NodeInfo
                 /\ current.stage \notin {Probe, CacheLoad} => r.alive
                 /\ \A i \in Range(first) \cup Range(query) : ~IsQuestion(i, n)
                 /\ r.awake /\ r.parked = << >>
  BY <1>1, AskedCurrent
<1>3. PICK a \in Rec, q \in Seq(Items) :
        /\ IsQuestion(current, n) /\ current.stage = NodeInfo /\ Kin(r, a)
        /\ Marked(query, n, q)
        /\ \/ r.stage # NodeInfo /\ a = r /\ q = query
           \/ r.stage = NodeInfo /\ ~a.pending /\ a.stage \in {NodeInfo, NodeInfo + 1}
        /\ \/ /\ Sleeps(n, a)
              /\ \E m \in Rec : Moved(n, a, q, m) /\ Acts(n, m, NotOf(n, first), NotOf(n, q))
           \/ ~Sleeps(n, a) /\ Acts(n, a, first, q)
  <2>1. PICK m \in Node, a \in Rec, q \in Seq(Items) :
        /\ IsQuestion(current, m) /\ current.stage = NodeInfo /\ Kin(node[m], a)
        /\ Marked(query, m, q)
        /\ \/ node[m].stage # NodeInfo /\ a = node[m] /\ q = query
           \/ node[m].stage = NodeInfo /\ ~a.pending /\ a.stage \in {NodeInfo, NodeInfo + 1}
        /\ \/ /\ Sleeps(m, a)
              /\ \E b \in Rec : Moved(m, a, q, b) /\ Acts(m, b, NotOf(m, first), NotOf(m, q))
           \/ ~Sleeps(m, a) /\ Acts(m, a, first, q)
    BY <1>1, NodeInfoFailedStep
  <2>2. m = n
    BY <1>2, <2>1 DEF IsQuestion
  <2> QED BY <1>2, <2>1, <2>2
<1>4. /\ r.alive /\ r.awake /\ r.parked = << >>
      /\ \A i \in Range(first) \cup Range(query) : ~IsQuestion(i, n)
  BY <1>2, <1>3, StagesOrdered DEF IsQuestion
<1>5. Asked(n, a, first, q, {current})
  <2>1. CASE r.stage # NodeInfo /\ a = r /\ q = query
    BY <1>2, <2>1
  <2>2. CASE r.stage = NodeInfo /\ ~a.pending /\ a.stage \in {NodeInfo, NodeInfo + 1}
    BY <1>2, <1>3, <1>4, <2>2, AskedNodeInfo
  <2> QED BY <1>3, <2>1, <2>2
<1>6. a.early = << >> /\ a.late = << >>
  BY <1>2, <1>3 DEF Kin, SameLists
<1>7. NothingLeft \/ ~\E f, p \in Seq(Items), b \in Rec : Acts(n, b, f, p)
  <2>1. SUFFICES ASSUME NEW f \in Seq(Items), NEW p \in Seq(Items), NEW b \in Rec, Acts(n, b, f, p)
                 PROVE  NothingLeft
    OBVIOUS
  <2>2. SUFFICES ASSUME NEW m \in Node, node[m].pending, node'[m].stage > node[m].stage
                 PROVE  Question(m, node[m].stage) \notin
                          Range(first) \cup Range(query) \cup Range(node[m].parked)
    BY DEF NothingLeft
  <2>3. CASE m # n
    <3>1. node'[m] = node[m] /\ node[m].stage \in 0 .. 18
      BY <1>1, <2>1, <2>3, StateTypes, RecFields, StagesOrdered DEF Acts, Handled
    <3> QED BY <2>2, <3>1
  <2>4. CASE m = n
    <3>1. IsQuestion(Question(n, r.stage), n)
      BY RecFields, NewItems
    <3>2. Range(r.parked) = {}
      BY <1>4 DEF Range
    <3> QED BY <1>2, <1>4, <2>4, <3>1, <3>2
  <2> QED BY <2>3, <2>4
<1>8. CASE ~Sleeps(n, a) /\ Acts(n, a, first, q)
  <2>1. Asked(n, a, first, q, {})
    <3>1. Fewer(n, a.stage, first, first) /\ Fewer(n, a.stage, q, q)
      BY <1>5 DEF Fewer, Asked
    <3> QED BY <1>5, <3>1, AskedFewer
  <2>2. first \o << >> = first /\ q \o << >> = q
    BY <1>2
  <2>3. Without(n, first, first) /\ Without(n, q, query)
    BY <1>3 DEF Without
  <2>4. Asked(n, a, first \o a.early, q \o a.late, Cur') /\ Cur' \subseteq Cur /\ Owns(n, a)
    BY <1>1, <1>6, <2>1, <2>2, NothingOwned
  <2>5. AskedInv'
    BY <1>1, <1>2, <1>8, <2>3, <2>4, AskedStep
  <2> QED BY <1>2, <1>7, <1>8, <2>5
<1>9. ASSUME NEW m \in Rec, Sleeps(n, a), Moved(n, a, q, m), Acts(n, m, NotOf(n, first), NotOf(n, q))
      PROVE  AskedInv' /\ NothingLeft
  <2>1. Asked(n, m, NotOf(n, first), NotOf(n, q), {})
    BY <1>2, <1>5, <1>9, AskedMoved
  <2>2. /\ NotOf(n, first) \in Seq(Items) /\ NotOf(n, q) \in Seq(Items)
    BY <1>2, OfNode
  <2>3. m.early = << >> /\ m.late = << >>
    BY <1>6, <1>9 DEF Moved
  <2>4. PICK f \in Seq(Items) : f = NotOf(n, first)
    BY <2>2
  <2>5. PICK p \in Seq(Items) : p = NotOf(n, q)
    BY <2>2
  <2>6. f \o << >> = f /\ p \o << >> = p
    OBVIOUS
  <2>7. Asked(n, m, f \o m.early, p \o m.late, Cur') /\ Cur' \subseteq Cur /\ Owns(n, m)
    BY <1>1, <2>1, <2>3, <2>4, <2>5, <2>6, NothingOwned
  <2>8. Without(n, f, first) /\ Without(n, p, query) => AskedInv'
    BY <1>1, <1>9, <2>4, <2>5, <2>7, AskedStep
  <2>9. Without(n, f, first)
    BY <2>4 DEF Without
  <2>10. Without(n, p, query)
    BY <1>3, <2>5 DEF Without
  <2> QED BY <1>7, <1>9, <2>2, <2>8, <2>9, <2>10
<1> QED BY <1>3, <1>8, <1>9

\* Lists of items, no two of which are the same, clash only where they differ.
LEMMA NeverDistinct ==
  ASSUME NEW q \in Seq(Items), Distinct(q), NEW n, NEW s,
         \A x, y \in Range(q) : Clash(n, s, x, y) => SameItem(x, y)
  PROVE  Never(q, Clashes(n, s))
<1>1. ASSUME NEW k \in DOMAIN q, NEW l \in DOMAIN q, k < l
      PROVE  <<q[k], q[l]>> \notin Clashes(n, s)
  <2>1. q[k] \in Items /\ q[l] \in Items /\ q[k] \in Range(q) /\ q[l] \in Range(q)
    BY DEF Range
  <2>2. k # l
    <3>1. k \in Nat /\ l \in Nat
      OBVIOUS
    <3> QED BY <1>1, <3>1
  <2>3. ~SameItem(q[k], q[l])
    BY <2>2 DEF Distinct
  <2> QED BY <2>1, <2>3, ClashPair
<1> QED BY <1>1 DEF Never

\* The node wakes up, and what was parked is queued.
LEMMA AskedWoken ==
  ASSUME NEW n \in Node, NEW r \in Rec, NEW b \in Rec, Woken(n, r, b), ~r.awake,
         r.early = << >>, r.late = << >>,
         NEW f \in Seq(Items), NEW q \in Seq(Items), NEW C \in SUBSET Items, Asked(n, r, f, q, C)
  PROVE  Asked(n, b, f \o b.early, q \o b.late, C) /\ Owns(n, b)
<1> DEFINE F == Range(f)
           Q == Range(q)
           P == Range(r.parked)
<1>1. /\ b.stage = r.stage /\ b.pending = r.pending /\ b.info = r.info
      /\ b.alive = r.alive /\ b.awake /\ b.parked = << >>
  BY DEF Woken
<1>2. PICK qs, z, ms \in Seq(Items) :
       /\ b.early = (r.early \o qs) \o z
       /\ b.late = r.late \o ms
       /\ Range(qs) = { i \in Range(r.parked) : i.kind = "question" }
       /\ z = << >> \/ (r.stage = Complete /\ z = << GoToSleep(n) >>)
       /\ \A x \in Range(r.parked) : x.kind = "marker" =>
            \E y \in Range(ms) : SameItem(x, y) /\ ~y.retry
       /\ \A y \in Range(ms) : y.kind = "marker" /\ \E x \in Range(r.parked) : SameItem(x, y)
       /\ Distinct(r.parked) => Distinct(qs) /\ Distinct(ms)
  BY DEF Woken
<1>3. PICK e \in Seq(Items) : e = qs \o z /\ Range(e) = Range(qs) \cup Range(z)
  BY ConcatList
<1>4. b.early = e /\ b.late = ms
  <2>1. << >> \o qs = qs /\ << >> \o ms = ms
    OBVIOUS
  <2> QED BY <1>2, <1>3, <2>1
<1>5. /\ Rests(n, r, F, Q, C) /\ Questions(n, r, F, Q, C) /\ Markers(n, r, F, Q, C)
      /\ Never(f, Clashes(n, r.stage)) /\ Never(q, Clashes(n, r.stage))
      /\ F \subseteq Items /\ Q \subseteq Items
  BY DEF Asked, Range
<1>6. /\ \A x \in P : x.node = n /\ x.kind # "sleep"
      /\ Sleeps(n, r) /\ Distinct(qs) /\ Distinct(ms)
  BY <1>2, <1>5 DEF Rests
<1>7. \A x \in Range(qs) : IsQuestion(x, n) /\ x \in P
  BY <1>2, <1>6 DEF IsQuestion
<1>8. \A y \in Range(ms) : IsMarker(y, n) /\ \E x \in P : SameItem(x, y) /\ IsMarker(x, n) /\ x.stage = y.stage
  BY <1>2, <1>6 DEF IsMarker, SameItem
<1>9. \A y \in Range(z) : r.stage = Complete /\ y.kind = "sleep" /\ y.node = n
  <2>1. CASE z = << >>
    BY <2>1 DEF Range
  <2>2. CASE r.stage = Complete /\ z = << GoToSleep(n) >>
    <3>1. PICK i \in Items : i = GoToSleep(n) /\ i.kind = "sleep" /\ i.node = n
      <4>1. PICK s \in Stages : s = None
        BY StagesOrdered
      <4> QED BY NewItems
    <3>2. Range(<< i >>) = {i}
      BY ShortLists
    <3> QED BY <2>2, <3>1, <3>2
  <2> QED BY <1>2, <2>1, <2>2
<1>10. \A y \in Range(e) : IsQuestion(y, n) \/ (r.stage = Complete /\ y.kind = "sleep" /\ y.node = n)
  BY <1>3, <1>7, <1>9
<1>11. Owns(n, b)
  BY <1>4, <1>8, <1>10 DEF Owns, IsQuestion, IsMarker
<1>12. PICK g \in Seq(Items) : g = f \o e /\ Range(g) = F \cup Range(e)
  BY ConcatList
<1>13. PICK h \in Seq(Items) : h = q \o ms /\ Range(h) = Q \cup Range(ms)
  BY ConcatList
<1>14. \A x \in F \cup Q \cup C \cup P : IsQuestion(x, n) =>
         \/ r.pending /\ x.stage = r.stage
         \/ ~r.pending /\ r.alive /\ r.stage # Complete /\ x.stage = NodeInfo /\ x \notin Q
  BY <1>5 DEF Questions
<1>15. Range(b.parked) = {} /\ Distinct(b.parked)
  BY <1>1 DEF Range, Distinct
<1> HIDE DEF F, Q, P
<1>16. CASE r.stage = Complete
  <2>1. ~r.pending /\ ~Late(r.stage)
    BY <1>5, <1>16 DEF Rests, Late
  <2>2. \A x \in F \cup Q \cup C \cup P : ~IsQuestion(x, n)
    BY <1>14, <1>16, <2>1
  <2>3. \A x \in Range(e) : x.kind = "sleep" /\ x.node = n
    BY <1>3, <1>7, <1>9, <2>2
  <2>4. \A x \in Range(g) \cup Range(h) \cup C : ~IsQuestion(x, n)
    BY <1>8, <1>12, <1>13, <2>2, <2>3 DEF IsQuestion, IsMarker
  <2>5. Never(g, Clashes(n, b.stage)) /\ Never(h, Clashes(n, b.stage))
    <3>1. /\ \A x, y \in Range(g) : ~Clash(n, b.stage, x, y)
          /\ \A x, y \in Range(h) : ~Clash(n, b.stage, x, y)
      BY <1>1, <2>1, <2>4 DEF Clash
    <3> QED BY <3>1, NeverNone
  <2>6. Rests(n, b, Range(g), Range(h), C)
    <3>1. Sleeps(n, b) /\ b.stage = Complete /\ ~b.pending
      BY <1>1, <1>6, <1>16, <2>1 DEF Sleeps
    <3>2. \A i \in Range(g) \cup C : i.node = n => i.kind # "marker"
      BY <1>5, <1>12, <2>3 DEF Rests
    <3>3. \A i \in Range(h) : i.node = n => i.kind # "sleep" /\ ~Early(i)
      BY <1>5, <1>8, <1>13 DEF Rests, Early, IsMarker
    <3> QED BY <1>1, <1>15, <3>1, <3>2, <3>3 DEF Rests
  <2>7. Questions(n, b, Range(g), Range(h), C)
    BY <1>15, <2>4 DEF Questions
  <2>8. Markers(n, b, Range(g), Range(h), C)
    <3>1. \A j \in Range(h) : IsMarker(j, n) => j.stage <= b.stage
      BY <1>1, <1>5, <1>8, <1>13 DEF Markers, P
    <3> QED BY <1>1, <1>15, <2>1, <3>1 DEF Markers
  <2> QED BY <1>4, <1>11, <1>12, <1>13, <2>5, <2>6, <2>7, <2>8 DEF Asked
<1>17. CASE r.stage # Complete
  <2>1. /\ \A x \in F \cup Q \cup C : x.node # n
        /\ ~r.pending => r.alive
    BY <1>5, <1>17 DEF Rests
  <2>2. \A x \in Range(e) : IsQuestion(x, n) /\ x \in P
    BY <1>3, <1>7, <1>9, <1>17
  <2>3. \A x \in Range(e) : /\ r.pending => x.stage = r.stage
                            /\ ~r.pending => x.stage = NodeInfo
    BY <1>14, <2>2
  <2>4. Never(g, Clashes(n, b.stage))
    <3>1. Never(f, Clashes(n, b.stage))
      BY <1>1, <1>5
    <3>2. Never(e, Clashes(n, b.stage))
      <4>1. \A x, y \in Range(e) : SameItem(x, y)
        BY <2>2, <2>3 DEF SameItem, IsQuestion
      <4>2. Distinct(e)
        <5>1. z = << >>
          BY <1>2, <1>17
        <5>2. qs \o << >> = qs
          OBVIOUS
        <5> QED BY <1>3, <1>6, <5>1, <5>2
      <4> QED BY <4>1, <4>2, NeverDistinct
    <3>3. \A x \in F, y \in Range(e) : ~Clash(n, b.stage, x, y)
      BY <2>1 DEF Clash, IsQuestion, IsMarker
    <3> QED BY <1>12, <3>1, <3>2, <3>3, NeverBehind DEF F
  <2>5. Never(h, Clashes(n, b.stage))
    <3>1. Never(q, Clashes(n, b.stage))
      BY <1>1, <1>5
    <3>2. Never(ms, Clashes(n, b.stage))
      <4>1. \A x, y \in Range(ms) : Clash(n, b.stage, x, y) => SameItem(x, y)
        BY <1>8 DEF Clash, SameItem, IsQuestion, IsMarker
      <4> QED BY <1>6, <4>1, NeverDistinct
    <3>3. \A x \in Q, y \in Range(ms) : ~Clash(n, b.stage, x, y)
      BY <2>1 DEF Clash, IsQuestion, IsMarker
    <3> QED BY <1>13, <3>1, <3>2, <3>3, NeverBehind DEF Q
  <2>6. Rests(n, b, Range(g), Range(h), C)
    <3>1. \A i \in Range(g) \cup C : i.node = n => i.kind = "question"
      BY <1>12, <2>1, <2>2 DEF IsQuestion
    <3>2. \A i \in Range(h) : i.node = n => i.kind # "sleep" /\ ~Early(i)
      BY <1>8, <1>13, <2>1 DEF Early, IsMarker
    <3> QED BY <1>1, <1>15, <1>17, <3>1, <3>2 DEF Rests
  <2>7. \A i \in Range(h) : ~IsQuestion(i, n)
    BY <1>8, <1>13, <2>1 DEF IsQuestion, IsMarker
  <2>8. \A i \in C : ~IsQuestion(i, n)
    BY <2>1 DEF IsQuestion
  <2>9. Questions(n, b, Range(g), Range(h), C)
    <3>1. \A i \in Range(g) : IsQuestion(i, n) => i \in Range(e)
      BY <1>12, <2>1 DEF IsQuestion
    <3>2. \A i \in Range(g) \cup Range(h) \cup C \cup Range(b.parked) : IsQuestion(i, n) =>
            \/ b.pending /\ i.stage = b.stage
            \/ ~b.pending /\ b.alive /\ b.stage # Complete /\ i.stage = NodeInfo /\ i \notin Range(h)
      BY <1>1, <1>15, <1>17, <2>1, <2>3, <2>7, <2>8, <3>1
    <3> QED BY <2>7, <2>8, <3>2 DEF Questions
  <2>10. Markers(n, b, Range(g), Range(h), C)
    <3>1. \A j \in Range(h) : IsMarker(j, n) => \E x \in P : IsMarker(x, n) /\ x.stage = j.stage
      BY <1>8, <1>13, <2>1 DEF IsMarker
    <3>2. \A x \in P : IsMarker(x, n) => x.stage <= r.stage
      BY <1>5 DEF Markers, P
    <3>3. \A j \in Range(h) : IsMarker(j, n) => j.stage <= b.stage
      BY <1>1, <3>1, <3>2
    <3>4. ASSUME b.pending, Late(b.stage), NEW x \in C \cup Range(g), NEW j \in Range(h),
                 IsQuestion(x, n), IsMarker(j, n)
          PROVE  j.stage = b.stage
      <4>1. x \in P
        BY <1>12, <2>1, <2>2, <3>4 DEF IsQuestion
      <4>2. PICK y \in P : IsMarker(y, n) /\ y.stage = j.stage
        BY <3>1, <3>4
      <4> QED BY <1>1, <1>5, <3>4, <4>1, <4>2 DEF Markers, P
    <3>5. ASSUME b.alive, ~b.pending, Late(b.stage), NEW x \in Range(h), NEW j \in Range(h),
                 IsMarker(x, n), x.stage = b.stage, IsMarker(j, n)
          PROVE  j.stage = b.stage
      <4>1. PICK y \in P : IsMarker(y, n) /\ y.stage = j.stage
        BY <3>1, <3>5
      <4>2. PICK w \in P : IsMarker(w, n) /\ w.stage = x.stage
        BY <3>1, <3>5
      <4> QED BY <1>1, <1>5, <3>5, <4>1, <4>2 DEF Markers, P
    <3>6. ~b.alive => b.pending
      BY <1>1, <2>1
    <3> QED BY <1>15, <3>3, <3>4, <3>5, <3>6 DEF Markers
  <2> QED BY <1>4, <1>11, <1>12, <1>13, <2>4, <2>5, <2>6, <2>9, <2>10 DEF Asked
<1> QED BY <1>16, <1>17

LEMMA AskedReport ==
  ASSUME AskedInv, NEW n \in Node, Report(n)
  PROVE  AskedInv' /\ NothingLeft
<1>1. /\ TypeOK /\ marking' = NoNode /\ current' = current /\ Cur' = Cur /\ Cur \in SUBSET Items
      /\ first \in Seq(Items) /\ query \in Seq(Items)
  BY ReportStep, CurrentItem, StateTypes DEF AskedInv, Quiet, Cur
<1>2. PICK r \in Rec : r = node[n] /\ r.early = << >> /\ r.late = << >>
  BY <1>1, StateTypes
<1>3. PICK a \in Rec : ~r.alive /\ Revived(n, r, a) /\ Acts(n, a, first, query)
  BY <1>1, <1>2, ReportStep
<1>4. Asked(n, r, first, query, Cur)
  BY <1>2 DEF AskedInv
<1>5. /\ Asked(n, a, first \o a.early, query \o a.late, Cur) /\ Owns(n, a)
      /\ r.pending => a.stage = r.stage
  BY <1>1, <1>2, <1>3, <1>4, AskedRevived
<1>6. Without(n, first, first) /\ Without(n, query, query)
  BY DEF Without
<1>7. AskedInv'
  BY <1>1, <1>3, <1>5, <1>6, AskedStep
<1>8. NothingLeft
  BY <1>1, <1>2, <1>3, <1>5, StageKept
<1> QED BY <1>7, <1>8

LEMMA AskedWakesUp ==
  ASSUME AskedInv, NEW n \in Node, WakesUp(n)
  PROVE  AskedInv' /\ NothingLeft
<1>1. /\ TypeOK /\ marking' = NoNode /\ current' = current /\ Cur' = Cur /\ Cur \in SUBSET Items
      /\ first \in Seq(Items) /\ query \in Seq(Items)
  BY WakesUpStep, CurrentItem, StateTypes DEF AskedInv, Quiet, Cur
<1>2. PICK r \in Rec : r = node[n] /\ r.early = << >> /\ r.late = << >>
  BY <1>1, StateTypes
<1>3. PICK a \in Rec, b \in Rec :
        /\ Asleep(n, r) /\ HeardFrom(n, r, a) /\ Woken(n, a, b) /\ Acts(n, b, first, query)
  BY <1>1, <1>2, WakesUpStep
<1>4. Asked(n, r, first, query, Cur) /\ ~r.awake
  BY <1>2, <1>3 DEF AskedInv, Asleep
<1>5. /\ Asked(n, a, first \o a.early, query \o a.late, Cur)
      /\ a.stage = r.stage /\ ~a.awake /\ a.early = << >> /\ a.late = << >>
  BY <1>1, <1>2, <1>3, <1>4, AskedHeard
<1>6. first \o << >> = first /\ query \o << >> = query
  BY <1>1
<1>7. Asked(n, a, first, query, Cur)
  BY <1>5, <1>6
<1>8. Asked(n, b, first \o b.early, query \o b.late, Cur) /\ Owns(n, b)
  BY <1>1, <1>3, <1>5, <1>7, AskedWoken
<1>9. b.stage = r.stage
  BY <1>3, <1>5 DEF Woken
<1>10. Without(n, first, first) /\ Without(n, query, query)
  BY DEF Without
<1>11. AskedInv'
  BY <1>1, <1>3, <1>8, <1>10, AskedStep
<1>12. NothingLeft
  BY <1>1, <1>2, <1>3, <1>9, StageKept
<1> QED BY <1>11, <1>12

LEMMA AskedInit ==
  ASSUME Init
  PROVE  AskedInv
<1>1. TypeOK /\ marking = NoNode /\ Cur = {}
  BY InitStep DEF Cur
<1>2. PICK g \in [Node -> Rec] :
        /\ \A n \in Node : /\ Left(g[n], node[n])
                           /\ \E r \in Rec : Fresh(r) /\ Advanced(n, r, g[n])
        /\ \E e \in [Node -> Seq(Items)] : Collects(first, e) /\ \A n \in Node : e[n] = g[n].early
        /\ \E l \in [Node -> Seq(Items)] : Collects(query, l) /\ \A n \in Node : l[n] = g[n].late
  BY InitStep
<1>3. PICK e \in [Node -> Seq(Items)] : Collects(first, e) /\ \A n \in Node : e[n] = g[n].early
  BY <1>2
<1>4. PICK l \in [Node -> Seq(Items)] : Collects(query, l) /\ \A n \in Node : l[n] = g[n].late
  BY <1>2
<1>5. << >> \in Seq(Items) /\ Range(<< >>) = {} /\ {} \in SUBSET Items
  BY DEF Range
<1>6. ASSUME NEW n \in Node
      PROVE  Asked(n, g[n], e[n], l[n], {}) /\ Owns(n, g[n])
  <2>1. PICK r \in Rec : Fresh(r) /\ Advanced(n, r, g[n])
    BY <1>2
  <2>2. ~r.pending /\ r.awake /\ r.parked = << >> /\ r.early = << >> /\ r.late = << >>
    BY <2>1 DEF Fresh
  <2>3. Clear(n, r, Range(<< >>), Range(<< >>), {})
    BY <1>5 DEF Clear
  <2>4. PICK a \in Rec : a = g[n]
    BY <1>2
  <2>5. Asked(n, a, << >> \o a.early, << >> \o a.late, {})
    BY <1>5, <2>1, <2>2, <2>3, <2>4, AskedOnward
  <2>6. PICK c \in Seq(Items) : c = e[n]
    BY <1>3
  <2>7. PICK d \in Seq(Items) : d = l[n]
    BY <1>4
  <2>8. << >> \o c = c /\ << >> \o d = d
    OBVIOUS
  <2>9. a.early = c /\ a.late = d
    BY <1>3, <1>4, <2>4, <2>6, <2>7
  <2>10. Owns(n, a)
    BY <2>1, <2>2, <2>4, NothingOwned, AdvancedOwns
  <2> QED BY <2>4, <2>5, <2>6, <2>7, <2>8, <2>9, <2>10
<1>7. \A m \in Node : \A i \in Range(e[m]) \cup Range(l[m]) : i.node = m
  BY <1>3, <1>4, <1>6 DEF Owns
<1>8. ASSUME NEW n \in Node, NEW s, NEW h \in [Node -> Seq(Items)], NEW t,
             Collects(t, h), Never(h[n], Clashes(n, s)),
             \A m \in Node : \A i \in Range(h[m]) : i.node = m
      PROVE  Fewer(n, s, t, h[n])
  <2>1. \A m \in Node : Never(h[m], Clashes(n, s))
    <3>1. TAKE m \in Node
    <3>2. CASE m = n
      BY <1>8, <3>2
    <3>3. CASE m # n
      <4>1. PICK c \in Seq(Items) : c = h[m]
        BY <1>8
      <4>2. \A x \in Range(c) : x.node # n
        BY <1>8, <3>3, <4>1
      <4> QED BY <4>1, <4>2, NeverOther
    <3> QED BY <3>2, <3>3
  <2>2. ASSUME NEW m \in Node, NEW k \in Node, m # k, NEW x \in Range(h[m]), NEW y \in Range(h[k])
        PROVE  <<x, y>> \notin Clashes(n, s)
    <3>1. x \in Items /\ y \in Items
      <4>1. h[m] \in Seq(Items) /\ h[k] \in Seq(Items)
        BY <1>8
      <4> QED BY <2>2, <4>1 DEF Range
    <3>2. x.node = m /\ y.node = k
      BY <1>8, <2>2
    <3>3. ~Clash(n, s, x, y)
      BY <2>2, <3>2 DEF Clash, IsQuestion, IsMarker
    <3> QED BY <3>1, <3>3, ClashPair
  <2>3. Never(t, Clashes(n, s))
    BY <1>8, <2>1, <2>2 DEF Collects
  <2>4. \A i \in Range(t) : i.node = n => i \in Range(h[n])
    BY <1>8 DEF Collects
  <2> QED BY <2>3, <2>4 DEF Fewer
<1>9. ASSUME NEW n \in Node
      PROVE  Asked(n, node[n], first, query, Cur)
  <2>1. PICK a \in Rec : a = g[n]
    BY <1>2
  <2>2. Asked(n, a, e[n], l[n], {})
    BY <1>6, <2>1
  <2>3. Never(e[n], Clashes(n, a.stage)) /\ Never(l[n], Clashes(n, a.stage))
    BY <2>2 DEF Asked
  <2>4. Fewer(n, a.stage, first, e[n]) /\ Fewer(n, a.stage, query, l[n])
    BY <1>3, <1>4, <1>7, <1>8, <2>3
  <2>5. Asked(n, a, first, query, {})
    BY <2>2, <2>4, AskedFewer
  <2> QED BY <1>1, <1>2, <2>1, <2>5, AskedLeft
<1> QED BY <1>1, <1>9 DEF AskedInv

\* Nothing but the interview itself goes on when there are no changes.
LEMMA AskedNext ==
  ASSUME AskedInv, Next, Changes = 0
  PROVE  AskedInv' /\ NothingLeft
<1>1. TypeOK /\ marking = NoNode
  BY DEF AskedInv
<1>2. ~Change
  BY <1>1, ChangeStep
<1>3. CASE Engine
  BY <1>3, AskedSendQuestion, AskedTakeMarker DEF Engine
<1>4. CASE Outcome
  BY <1>4, AskedAnswered, AskedLost, AskedFailedAsleep, AskedFailed, AskedNodeInfoFailed DEF Outcome
<1>5. ~EndRequest /\ ~NodeInfoFailedLate
  BY <1>1, <1>2 DEF EndRequest, NodeInfoFailedLate
<1>6. ASSUME NEW n \in Node
      PROVE  /\ ~WakesUpToBePolled(n) /\ ~RemoveNode(n) /\ ~InitNode(n)
             /\ \A b \in BOOLEAN : ~NodeInfoReceived(n, b) /\ ~IsFailedNode(n, b)
             /\ \A s \in Requested : ~Request(n, s)
  BY <1>2 DEF WakesUpToBePolled, RemoveNode, InitNode, NodeInfoReceived, IsFailedNode, Request
<1>7. ASSUME NEW n \in Node, Report(n) \/ WakesUp(n)
      PROVE  AskedInv' /\ NothingLeft
  BY <1>7, AskedReport, AskedWakesUp
<1> QED BY <1>3, <1>4, <1>5, <1>6, <1>7 DEF Next

\* A node that no change disturbs goes on from a stage only when all questions of the
\* stage have been sent (QueryStageComplete and QueryStageRetry of Node.cpp), whatever
\* was lost, parked and sent again, and whether it died or slept meanwhile.
THEOREM AskedBeforeLeftCorrect ==
  ASSUME Changes = 0
  PROVE  Spec => AskedBeforeLeft
<1>1. Init => AskedInv
  BY AskedInit
<1>2. AskedInv /\ [Next]_vars => AskedInv'
  <2>1. SUFFICES ASSUME AskedInv, [Next]_vars PROVE AskedInv'
    OBVIOUS
  <2>2. CASE UNCHANGED vars
    <3>1. node' = node /\ first' = first /\ query' = query /\ Cur' = Cur /\ marking' = marking /\ TypeOK'
      BY <2>1, <2>2 DEF vars, queueVars, driverVars, boundVars, AskedInv, TypeOK, Cur
    <3> QED BY <2>1, <3>1 DEF AskedInv
  <2>3. CASE Next
    BY <2>1, <2>3, AskedNext
  <2> QED BY <2>1, <2>2, <2>3
<1>3. AskedInv /\ [Next]_vars =>
        [\A n \in Node :
           node[n].pending /\ node'[n].stage > node[n].stage =>
             Question(n, node[n].stage) \notin Range(first) \cup Range(query) \cup Range(node[n].parked)]_vars
  BY AskedNext DEF NothingLeft
<1> QED BY <1>1, <1>2, <1>3, PTL DEF Spec, AskedBeforeLeft
=============================================================================
