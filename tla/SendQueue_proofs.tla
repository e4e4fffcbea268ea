-------------------------- MODULE SendQueue_proofs --------------------------
(***************************************************************************)
(* What Keep returns, for every list and every set.                        *)
(***************************************************************************)
EXTENDS SendQueue, TLAPS, WellFoundedInduction

Less == {p \in Nat \X Nat : p[1] < p[2]}

\* The natural numbers are well founded.
LEMMA LessWellFounded == IsWellFoundedOn(Less, Nat)
BY NatLessThanWellFounded DEF OpToRel, Less

\* Induction over the naturals for a set instead of a predicate.
LEMMA SetInduction ==
  ASSUME NEW P, P \subseteq Nat, 0 \in P, \A n \in P : n + 1 \in P
  PROVE  \A n \in Nat : n \in P
<1>1. ASSUME NEW n \in Nat, n \notin P PROVE FALSE
  <2> DEFINE Missing == Nat \ P
  <2>1. Missing # {} /\ Missing \subseteq Nat
    BY <1>1
  <2>2. PICK x \in Missing : \A y \in Missing : ~ (<<y, x>> \in Less)
    <3> HIDE DEF Missing
    <3> QED BY <2>1, LessWellFounded, WFMin
  <2>3. x # 0 /\ x - 1 \in Nat /\ x = (x - 1) + 1
    BY <2>2
  <2>4. x - 1 \notin P
    BY <2>2, <2>3
  <2>5. <<x - 1, x>> \in Nat \X Nat /\ <<x - 1, x>>[1] = x - 1 /\ <<x - 1, x>>[2] = x
    BY <2>3
  <2>6. <<x - 1, x>> \in Less
    BY <2>3, <2>5 DEF Less
  <2> QED BY <2>2, <2>3, <2>4, <2>6
<1> QED BY <1>1

Step(q, S, f, i) ==
  IF i = 0 THEN << >> ELSE IF q[i] \in S THEN Append(f[i - 1], q[i]) ELSE f[i - 1]

\* f is the function kept of Keep(q, S), as far as k.
Partial(q, S, T, f, k) ==
  f \in [0 .. k -> Seq(T)] /\ \A i \in 0 .. k : f[i] = Step(q, S, f, i)

Reached(q, S, T, k) == k <= Len(q) => \E f : Partial(q, S, T, f, k)

LEMMA PartialExists ==
  ASSUME NEW q, NEW S, NEW U, Len(q) \in Nat,
         \A i \in 1 .. Len(q) : q[i] \in S => q[i] \in U
  PROVE  \E f : Partial(q, S, U, f, Len(q))
<1> DEFINE P == { k \in Nat : Reached(q, S, U, k) }
<1>1. Reached(q, S, U, 0)
  <2>1. Partial(q, S, U, [i \in 0 .. 0 |-> << >>], 0)
    BY DEF Partial, Step
  <2> QED BY <2>1 DEF Reached
<1>2. ASSUME NEW k \in Nat, Reached(q, S, U, k) PROVE Reached(q, S, U, k + 1)
  <2>1. SUFFICES ASSUME k + 1 <= Len(q) PROVE \E f : Partial(q, S, U, f, k + 1)
    BY DEF Reached
  <2>2. PICK g : Partial(q, S, U, g, k)
    BY <1>2, <2>1 DEF Reached
  <2> DEFINE h == [i \in 0 .. k + 1 |-> IF i = k + 1 THEN Step(q, S, g, k + 1) ELSE g[i]]
  <2>3. g[k] \in Seq(U) /\ k + 1 \in 1 .. Len(q) /\ (k + 1) - 1 = k
    BY <2>1, <2>2 DEF Partial
  <2>4. Step(q, S, g, k + 1) \in Seq(U)
    <3>1. CASE q[k + 1] \in S
      BY <2>3, <3>1 DEF Step
    <3>2. CASE q[k + 1] \notin S
      BY <2>3, <3>2 DEF Step
    <3> QED BY <3>1, <3>2
  <2>5. h \in [0 .. k + 1 -> Seq(U)]
    BY <2>2, <2>4 DEF Partial
  <2>6. ASSUME NEW i \in 0 .. k + 1 PROVE h[i] = Step(q, S, h, i)
    <3>1. i # 0 => i - 1 \in 0 .. k /\ i - 1 \in 0 .. k + 1 /\ h[i - 1] = g[i - 1]
      OBVIOUS
    <3>2. h[i] = Step(q, S, g, i)
      BY <2>2 DEF Partial
    <3> QED BY <3>1, <3>2 DEF Step
  <2>7. Partial(q, S, U, h, k + 1)
    BY <2>5, <2>6 DEF Partial
  <2> QED BY <2>7
<1>3. \A k \in Nat : k \in P
  <2>1. P \subseteq Nat /\ 0 \in P
    BY <1>1
  <2>2. ASSUME NEW k \in P PROVE k + 1 \in P
    <3>1. k \in Nat /\ Reached(q, S, U, k)
      OBVIOUS
    <3>2. k + 1 \in Nat /\ Reached(q, S, U, k + 1)
      <4> HIDE DEF P
      <4> QED BY <3>1, <1>2
    <3> QED BY <3>2
  <2> HIDE DEF P
  <2> QED BY <2>1, <2>2, SetInduction
<1>4. Reached(q, S, U, Len(q))
  BY <1>3
<1> QED BY <1>4 DEF Reached

\* The function that Keep defines, one step at a time.
LEMMA KeepUnfolds ==
  ASSUME NEW T, NEW q \in Seq(T), NEW S
  PROVE  \E f : f[0] = << >> /\ Keep(q, S) = f[Len(q)]
                /\ \A i \in 1 .. Len(q) : f[i] = Step(q, S, f, i)
<1> DEFINE kept == CHOOSE f : f = [i \in 0 .. Len(q) |-> Step(q, S, f, i)]
<1>1. Len(q) \in Nat /\ \A i \in 1 .. Len(q) : q[i] \in S => q[i] \in T \cap S
  OBVIOUS
<1>2. PICK g : Partial(q, S, T \cap S, g, Len(q))
  BY <1>1, PartialExists
<1>3. g = [i \in 0 .. Len(q) |-> Step(q, S, g, i)]
  BY <1>2 DEF Partial
<1>4. kept = [i \in 0 .. Len(q) |-> Step(q, S, kept, i)]
  BY <1>3
<1>5. Keep(q, S) = kept[Len(q)]
  BY DEF Keep, Step, kept
<1> HIDE DEF kept
<1>6. \A i \in 0 .. Len(q) : kept[i] = Step(q, S, kept, i)
  BY <1>4
<1>7. 0 \in 0 .. Len(q) /\ \A i \in 1 .. Len(q) : i \in 0 .. Len(q)
  BY <1>1
<1>8. kept[0] = << >>
  BY <1>6, <1>7 DEF Step
<1> QED BY <1>5, <1>6, <1>7, <1>8

\* A list with one more item.
LEMMA AppendItem ==
  ASSUME NEW T, NEW s \in Seq(T), NEW x \in T
  PROVE  /\ Append(s, x) \in Seq(T)
         /\ Range(Append(s, x)) = Range(s) \cup {x}
         /\ IsInjective(s) /\ x \notin Range(s) => IsInjective(Append(s, x))
<1>1. /\ Append(s, x) \in Seq(T) /\ Len(s) \in Nat
      /\ DOMAIN Append(s, x) = 1 .. Len(s) + 1 /\ DOMAIN s = 1 .. Len(s)
      /\ Append(s, x)[Len(s) + 1] = x
      /\ \A i \in 1 .. Len(s) : Append(s, x)[i] = s[i]
  OBVIOUS
<1> DEFINE a == Append(s, x)
<1> HIDE DEF a
<1>2. Range(a) = Range(s) \cup {x}
  <2>1. \A i \in 1 .. Len(s) + 1 : i \in 1 .. Len(s) \/ i = Len(s) + 1
    BY <1>1
  <2>2. Len(s) + 1 \in 1 .. Len(s) + 1 /\ \A i \in 1 .. Len(s) : i \in 1 .. Len(s) + 1
    BY <1>1
  <2> QED BY <1>1, <2>1, <2>2 DEF Range, a
<1>3. ASSUME IsInjective(s), x \notin Range(s), NEW i \in DOMAIN a, NEW j \in DOMAIN a, a[i] = a[j]
      PROVE  i = j
  BY <1>1, <1>3 DEF Range, IsInjective, a
<1>4. IsInjective(s) /\ x \notin Range(s) => IsInjective(a)
  BY <1>3 DEF IsInjective
<1> QED BY <1>1, <1>2, <1>4 DEF a

\* Keep returns a list of exactly the messages of q that are in S, each as often as
\* it was in q.
LEMMA KeepList ==
  ASSUME NEW T, NEW q \in Seq(T), NEW S
  PROVE  /\ Keep(q, S) \in Seq(T \cap S)
         /\ Range(Keep(q, S)) = Range(q) \cap S
         /\ IsInjective(q) => IsInjective(Keep(q, S))
<1>1. PICK f : f[0] = << >> /\ Keep(q, S) = f[Len(q)]
               /\ \A i \in 1 .. Len(q) : f[i] = Step(q, S, f, i)
  BY KeepUnfolds
<1> DEFINE First(k) == { q[i] : i \in 1 .. k }
           Good(k) == /\ f[k] \in Seq(T \cap S)
                      /\ Range(f[k]) = First(k) \cap S
                      /\ IsInjective(q) => IsInjective(f[k])
           P == { k \in Nat : k <= Len(q) => Good(k) }
<1>2. Len(q) \in Nat /\ DOMAIN q = 1 .. Len(q) /\ \A i \in 1 .. Len(q) : q[i] \in T
  OBVIOUS
<1>3. Good(0)
  <2>1. << >> \in Seq(T \cap S) /\ DOMAIN << >> = {} /\ 1 .. 0 = {}
    OBVIOUS
  <2> QED BY <1>1, <2>1 DEF Range, IsInjective
<1>4. ASSUME NEW k \in Nat, k + 1 <= Len(q), Good(k) PROVE Good(k + 1)
  <2>1. k + 1 \in 1 .. Len(q) /\ (k + 1) - 1 = k /\ k + 1 # 0 /\ q[k + 1] \in T
    BY <1>2, <1>4
  <2>2. First(k + 1) = First(k) \cup {q[k + 1]}
    <3>1. \A i : i \in 1 .. k + 1 <=> i \in 1 .. k \/ i = k + 1
      OBVIOUS
    <3> QED BY <3>1
  <2>3. f[k + 1] = IF q[k + 1] \in S THEN Append(f[k], q[k + 1]) ELSE f[k]
    BY <1>1, <2>1 DEF Step
  <2>4. IsInjective(q) => q[k + 1] \notin First(k)
    <3>1. \A i \in 1 .. k : i \in 1 .. Len(q) /\ i # k + 1
      BY <1>2, <1>4
    <3> QED BY <1>2, <2>1, <3>1 DEF IsInjective
  <2> HIDE DEF First
  <2>5. CASE q[k + 1] \in S
    <3>1. q[k + 1] \in T \cap S
      BY <2>1, <2>5
    <3>2. /\ Append(f[k], q[k + 1]) \in Seq(T \cap S)
          /\ Range(Append(f[k], q[k + 1])) = Range(f[k]) \cup {q[k + 1]}
          /\ IsInjective(f[k]) /\ q[k + 1] \notin Range(f[k]) => IsInjective(Append(f[k], q[k + 1]))
      BY <1>4, <3>1, AppendItem
    <3> QED BY <1>4, <2>2, <2>3, <2>4, <2>5, <3>2
  <2>6. CASE q[k + 1] \notin S
    BY <1>4, <2>2, <2>3, <2>6
  <2> QED BY <2>5, <2>6
<1>5. \A k \in Nat : k \in P
  <2> HIDE DEF Good
  <2>1. P \subseteq Nat /\ 0 \in P
    BY <1>3
  <2>2. ASSUME NEW k \in P PROVE k + 1 \in P
    BY <1>2, <1>4
  <2> HIDE DEF P
  <2> QED BY <2>1, <2>2, SetInduction
<1>6. Good(Len(q))
  <2> HIDE DEF Good
  <2> QED BY <1>2, <1>5
<1>7. First(Len(q)) = Range(q)
  BY <1>2 DEF Range
<1> QED BY <1>1, <1>6, <1>7

\* The front of a list stays in front when it is not erased.
LEMMA HeadKept ==
  ASSUME NEW T, NEW q \in Seq(T), q # << >>, NEW S, Head(q) \in S
  PROVE  Keep(q, S) # << >> /\ Head(Keep(q, S)) = Head(q)
<1>1. PICK f : f[0] = << >> /\ Keep(q, S) = f[Len(q)]
               /\ \A i \in 1 .. Len(q) : f[i] = Step(q, S, f, i)
  BY KeepUnfolds
<1>2. /\ Len(q) \in Nat /\ Len(q) > 0 /\ q[1] = Head(q) /\ q[1] \in T \cap S
      /\ \A i \in 1 .. Len(q) : q[i] \in T
  OBVIOUS
<1> DEFINE Good(k) == f[k] \in Seq(T \cap S) /\ Len(f[k]) > 0 /\ f[k][1] = q[1]
           P == { k \in Nat : k + 1 <= Len(q) => Good(k + 1) }
<1>3. 0 \in P
  <2>1. PICK i \in 1 .. Len(q) : i = 1
    BY <1>2
  <2>2. f[i] = IF q[i] \in S THEN Append(f[i - 1], q[i]) ELSE f[i - 1]
    <3>1. i # 0
      BY <2>1
    <3>2. f[i] = Step(q, S, f, i)
      BY <1>1
    <3> QED BY <3>1, <3>2 DEF Step
  <2>3. i - 1 = 0 /\ q[i] \in S
    BY <1>2, <2>1
  <2>4. PICK x \in T \cap S : x = q[1]
    BY <1>2
  <2>5. f[1] = Append(<< >>, x)
    BY <1>1, <2>1, <2>2, <2>3, <2>4
  <2>6. << >> \in Seq(T \cap S)
    OBVIOUS
  <2>7. /\ Append(<< >>, x) \in Seq(T \cap S) /\ Len(Append(<< >>, x)) = 1
        /\ Append(<< >>, x)[1] = x
    BY <2>6
  <2>8. Good(1)
    BY <2>4, <2>5, <2>7
  <2> QED BY <2>8
<1>4. ASSUME NEW k \in P PROVE k + 1 \in P
  <2> SUFFICES ASSUME (k + 1) + 1 <= Len(q) PROVE Good((k + 1) + 1)
    OBVIOUS
  <2>1. k \in Nat /\ Good(k + 1)
    BY <1>2
  <2>2. PICK i \in 1 .. Len(q) : i = (k + 1) + 1
    BY <1>2, <2>1
  <2>3. f[i] = IF q[i] \in S THEN Append(f[k + 1], q[i]) ELSE f[k + 1]
    <3>1. i - 1 = k + 1
      BY <2>1, <2>2
    <3> QED BY <1>1, <3>1 DEF Step
  <2>4. PICK s \in Seq(T \cap S) : s = f[k + 1]
    BY <2>1
  <2>5. Len(s) > 0 /\ s[1] = q[1]
    BY <2>1, <2>4
  <2>6. CASE q[i] \in S
    <3>1. PICK x \in T \cap S : x = q[i]
      BY <1>2, <2>6
    <3>2. Append(s, x) \in Seq(T \cap S) /\ Len(Append(s, x)) > 0 /\ Append(s, x)[1] = q[1]
      BY <2>5
    <3> QED BY <2>2, <2>3, <2>4, <2>6, <3>1, <3>2
  <2>7. CASE q[i] \notin S
    BY <2>1, <2>2, <2>3, <2>7
  <2> QED BY <2>6, <2>7
<1>5. P = Nat
  <2> HIDE DEF P
  <2>1. P \subseteq Nat
    BY DEF P
  <2> QED BY <1>3, <1>4, <2>1, SetInduction
<1>6. Good(Len(q))
  <2>1. PICK k \in Nat : k + 1 = Len(q)
    <3>1. Len(q) - 1 \in Nat /\ (Len(q) - 1) + 1 = Len(q)
      BY <1>2
    <3> QED BY <3>1
  <2>2. Good(k + 1)
    <3>1. k \in P
      BY <1>5
    <3> QED BY <1>2, <2>1, <3>1
  <2> HIDE DEF Good
  <2> QED BY <2>1, <2>2
<1>7. PICK s \in Seq(T \cap S) : s = f[Len(q)]
  BY <1>6
<1>8. Len(s) > 0 /\ s[1] = q[1]
  BY <1>6, <1>7
<1> QED BY <1>1, <1>2, <1>7, <1>8

\* Keep returns a list of the messages of q that are in S.
LEMMA KeepType ==
  ASSUME NEW T, NEW q \in Seq(T), NEW S
  PROVE  Keep(q, S) \in Seq(T \cap S)
BY KeepList

\* Two lists one behind the other.
LEMMA ConcatList ==
  ASSUME NEW T, NEW p \in Seq(T), NEW q \in Seq(T)
  PROVE  /\ p \o q \in Seq(T)
         /\ Range(p \o q) = Range(p) \cup Range(q)
         /\ IsInjective(p) /\ IsInjective(q) /\ Range(p) \cap Range(q) = {} => IsInjective(p \o q)
<1>1. /\ p \o q \in Seq(T) /\ Len(p) \in Nat /\ Len(q) \in Nat
      /\ DOMAIN (p \o q) = 1 .. Len(p) + Len(q) /\ DOMAIN p = 1 .. Len(p) /\ DOMAIN q = 1 .. Len(q)
      /\ \A i \in 1 .. Len(p) + Len(q) : (p \o q)[i] = IF i <= Len(p) THEN p[i] ELSE q[i - Len(p)]
  OBVIOUS
<1> DEFINE c == p \o q
<1> HIDE DEF c
<1>2. \A i \in DOMAIN c : \/ i \in DOMAIN p /\ c[i] = p[i]
                          \/ i > Len(p) /\ i - Len(p) \in DOMAIN q /\ c[i] = q[i - Len(p)]
  BY <1>1 DEF c
<1>3. Range(c) = Range(p) \cup Range(q)
  <2>1. \A i \in DOMAIN p : i \in DOMAIN c /\ c[i] = p[i]
    BY <1>1 DEF c
  <2>2. \A i \in DOMAIN q : i + Len(p) \in DOMAIN c /\ c[i + Len(p)] = q[i]
    BY <1>1 DEF c
  <2> QED BY <1>2, <2>1, <2>2 DEF Range
<1>4. ASSUME IsInjective(p), IsInjective(q), Range(p) \cap Range(q) = {},
             NEW i \in DOMAIN c, NEW j \in DOMAIN c, c[i] = c[j]
      PROVE  i = j
  <2>1. CASE i \in DOMAIN p /\ c[i] = p[i] /\ j \in DOMAIN p /\ c[j] = p[j]
    BY <1>4, <2>1 DEF IsInjective
  <2>2. CASE /\ i > Len(p) /\ i - Len(p) \in DOMAIN q /\ c[i] = q[i - Len(p)]
             /\ j > Len(p) /\ j - Len(p) \in DOMAIN q /\ c[j] = q[j - Len(p)]
    <3>1. i - Len(p) = j - Len(p)
      BY <1>4, <2>2 DEF IsInjective
    <3> QED BY <1>1, <3>1 DEF c
  <2>3. \A k \in DOMAIN c : \/ k \in DOMAIN p /\ c[k] = p[k] /\ c[k] \in Range(p)
                            \/ /\ k > Len(p) /\ k - Len(p) \in DOMAIN q
                               /\ c[k] = q[k - Len(p)] /\ c[k] \in Range(q)
    BY <1>2 DEF Range
  <2> QED BY <1>4, <2>1, <2>2, <2>3
<1>5. IsInjective(p) /\ IsInjective(q) /\ Range(p) \cap Range(q) = {} => IsInjective(c)
  BY <1>4 DEF IsInjective
<1> QED BY <1>1, <1>3, <1>5 DEF c

\* A list without its front.
LEMMA TailList ==
  ASSUME NEW T, NEW q \in Seq(T), q # << >>
  PROVE  /\ Head(q) \in T /\ Tail(q) \in Seq(T)
         /\ Range(q) = {Head(q)} \cup Range(Tail(q))
         /\ IsInjective(q) => IsInjective(Tail(q)) /\ Head(q) \notin Range(Tail(q))
<1>1. /\ Len(q) \in Nat /\ Len(q) > 0 /\ DOMAIN q = 1 .. Len(q)
      /\ Head(q) = q[1] /\ Head(q) \in T /\ Tail(q) \in Seq(T)
      /\ DOMAIN Tail(q) = 1 .. Len(q) - 1
      /\ \A i \in 1 .. Len(q) - 1 : Tail(q)[i] = q[i + 1]
  OBVIOUS
<1> DEFINE t == Tail(q)
<1> HIDE DEF t
<1>2. \A i \in DOMAIN t : i + 1 \in DOMAIN q /\ i + 1 # 1 /\ t[i] = q[i + 1]
  BY <1>1 DEF t
<1>3. \A i \in DOMAIN q : i = 1 \/ (i - 1 \in DOMAIN t /\ t[i - 1] = q[i])
  BY <1>1 DEF t
<1>4. 1 \in DOMAIN q
  BY <1>1
<1>5. Range(q) = {Head(q)} \cup Range(t)
  BY <1>1, <1>2, <1>3, <1>4 DEF Range
<1>6. IsInjective(q) => Head(q) \notin Range(t)
  BY <1>1, <1>2, <1>4 DEF Range, IsInjective
<1>7. ASSUME IsInjective(q), NEW i \in DOMAIN t, NEW j \in DOMAIN t, t[i] = t[j] PROVE i = j
  <2>1. i + 1 = j + 1
    BY <1>2, <1>7 DEF IsInjective
  <2> QED BY <1>1, <2>1 DEF t
<1>8. IsInjective(q) => IsInjective(t)
  BY <1>7 DEF IsInjective
<1> QED BY <1>1, <1>5, <1>6, <1>8 DEF t

\* Of equal messages one is the newest.
LEMMA NewestOne ==
  ASSUME NEW T, NEW q \in Seq(T), NEW content, NEW x \in Newest(q, content),
         NEW y \in Newest(q, content), content[x] = content[y]
  PROVE  x = y
<1>1. PICK i \in DOMAIN q : x = q[i] /\ \A k \in DOMAIN q : k > i => content[q[k]] # content[q[i]]
  BY DEF Newest
<1>2. PICK j \in DOMAIN q : y = q[j] /\ \A k \in DOMAIN q : k > j => content[q[k]] # content[q[j]]
  BY DEF Newest
<1>3. ~(i > j) /\ ~(j > i)
  BY <1>1, <1>2
<1>4. i \in Nat /\ j \in Nat
  OBVIOUS
<1>5. i = j
  BY <1>3, <1>4
<1> QED BY <1>1, <1>2, <1>5

\* Every message has an equal one that is the newest.
LEMMA NewestCovers ==
  ASSUME NEW T, NEW q \in Seq(T), NEW content, NEW x \in Range(q)
  PROVE  \E y \in Newest(q, content) : content[y] = content[x]
<1> DEFINE Covered(i) == \E y \in Newest(q, content) : content[y] = content[q[i]]
           P == { d \in Nat : \A i \in DOMAIN q : Len(q) - i <= d => Covered(i) }
<1>1. Len(q) \in Nat /\ DOMAIN q = 1 .. Len(q)
  OBVIOUS
<1>2. ASSUME NEW i \in DOMAIN q, \A k \in DOMAIN q : k > i => Covered(k) PROVE Covered(i)
  <2>1. CASE \E k \in DOMAIN q : k > i /\ content[q[k]] = content[q[i]]
    <3>1. PICK k \in DOMAIN q : k > i /\ content[q[k]] = content[q[i]]
      BY <2>1
    <3>2. Covered(k)
      BY <1>2, <3>1
    <3> QED BY <3>1, <3>2
  <2>2. CASE \A k \in DOMAIN q : k > i => content[q[k]] # content[q[i]]
    <3>1. q[i] \in Newest(q, content)
      BY <2>2 DEF Newest
    <3> QED BY <3>1
  <2> QED BY <2>1, <2>2
<1> HIDE DEF Covered
<1>3. 0 \in P
  <2>1. ASSUME NEW i \in DOMAIN q, Len(q) - i <= 0 PROVE \A k \in DOMAIN q : ~(k > i)
    BY <1>1, <2>1
  <2> QED BY <1>2, <2>1
<1>4. ASSUME NEW d \in P PROVE d + 1 \in P
  <2>1. ASSUME NEW i \in DOMAIN q, Len(q) - i <= d + 1 PROVE Covered(i)
    <3>1. ASSUME NEW k \in DOMAIN q, k > i PROVE Covered(k)
      <4>1. Len(q) - k <= d
        BY <1>1, <2>1, <3>1
      <4> QED BY <1>4, <4>1
    <3> QED BY <1>2, <3>1
  <2>2. d + 1 \in Nat
    BY <1>4
  <2> QED BY <2>1, <2>2
<1>5. P \subseteq Nat
  OBVIOUS
<1> HIDE DEF P
<1>6. \A d \in Nat : d \in P
  BY <1>3, <1>4, <1>5, SetInduction
<1>7. PICK i \in DOMAIN q : x = q[i]
  BY DEF Range
<1>8. Covered(i)
  <2>1. Len(q) \in P /\ Len(q) - i <= Len(q)
    BY <1>1, <1>6
  <2> QED BY <2>1 DEF P
<1> QED BY <1>7, <1>8 DEF Covered
=============================================================================
