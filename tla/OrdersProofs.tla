------------------------------ MODULE OrdersProofs ------------------------------
(***************************************************************************)
(* What the operators of Orders return: that there is an ascending order   *)
(* of every finite set of numbers, and what follows for filters, sorts and *)
(* the removal of duplicates.                                              *)
(***************************************************************************)
EXTENDS Orders, Functions, TLAPS, FiniteSetTheorems, FunctionTheorems, SequenceTheorems

(***************************************************************************)
(* The elements of a finite set that is totally ordered can be enumerated  *)
(* in their order: the place of each is how many are at or below it.       *)
(***************************************************************************)
IsOrder(atOrBelow, D) ==
    /\ atOrBelow \in [D -> SUBSET D]
    /\ \A x, y \in D : x \in atOrBelow[y] \/ y \in atOrBelow[x]
    /\ \A x, y \in D : x \in atOrBelow[y] /\ y \in atOrBelow[x] => x = y
    /\ \A x, y, z \in D : x \in atOrBelow[y] /\ y \in atOrBelow[z] => x \in atOrBelow[z]

Enumerates(e, D, atOrBelow) ==
    /\ e \in [1..Cardinality(D) -> D]
    /\ \A i, j \in 1..Cardinality(D) : i < j => e[i] \in atOrBelow[e[j]] /\ e[i] # e[j]

LEMMA Enumerated ==
    ASSUME NEW D, IsFiniteSet(D), NEW atOrBelow, IsOrder(atOrBelow, D)
    PROVE  \E e : Enumerates(e, D, atOrBelow)
<1>0. /\ atOrBelow \in [D -> SUBSET D]
      /\ \A x, y \in D : x \in atOrBelow[y] \/ y \in atOrBelow[x]
      /\ \A x, y \in D : x \in atOrBelow[y] /\ y \in atOrBelow[x] => x = y
      /\ \A x, y, z \in D : x \in atOrBelow[y] /\ y \in atOrBelow[z] => x \in atOrBelow[z]
    BY DEF IsOrder
<1> DEFINE n == Cardinality(D)
           place == [x \in D |-> Cardinality(atOrBelow[x])]
<1>1. n \in Nat
    BY FS_CardinalityType
<1>2. \A x \in D : IsFiniteSet(atOrBelow[x]) /\ place[x] \in Nat /\ place[x] <= n
    BY <1>0, FS_Subset, FS_CardinalityType
<1>3. \A x \in D : place[x] # 0
  <2>1. \A x \in D : x \in atOrBelow[x]
      BY <1>0
  <2> QED BY <1>2, <2>1, FS_EmptySet
<1>4. place \in [D -> 1..n]
    BY <1>1, <1>2, <1>3
<1>5. \A x, y \in D : x \in atOrBelow[y] /\ x # y => place[x] < place[y]
  <2> SUFFICES ASSUME NEW x \in D, NEW y \in D, x \in atOrBelow[y], x # y
               PROVE  place[x] < place[y]
      OBVIOUS
  <2>1. atOrBelow[x] \subseteq atOrBelow[y] /\ atOrBelow[x] # atOrBelow[y]
      BY <1>0
  <2>2. place[x] <= place[y] /\ place[x] # place[y]
      BY <1>2, <2>1, FS_Subset
  <2> QED BY <1>2, <2>2
<1>6. \A x, y \in D : place[x] = place[y] => x = y
  <2> SUFFICES ASSUME NEW x \in D, NEW y \in D, place[x] = place[y], x # y
               PROVE  FALSE
      OBVIOUS
  <2>1. place[x] < place[y] \/ place[y] < place[x]
      BY <1>0, <1>5
  <2> QED BY <1>2, <2>1
<1>7. place \in Injection(D, 1..n)
    BY <1>4, <1>6, Fun_IsInj
<1>8. place \in Surjection(D, 1..n)
    BY <1>1, <1>7, FS_Interval, FS_Injection
<1>9. \A i \in 1..n : \E x \in D : place[x] = i
    BY <1>8 DEF Surjection
<1>10. PICK e \in [1..n -> D] : \A i \in 1..n : place[e[i]] = i
  <2> DEFINE e == [i \in 1..n |-> CHOOSE x \in D : place[x] = i]
  <2>1. \A i \in 1..n : e[i] \in D /\ place[e[i]] = i
      BY <1>9
  <2> QED BY <2>1
<1>11. ASSUME NEW i \in 1..n, NEW j \in 1..n, i < j
       PROVE  e[i] \in atOrBelow[e[j]] /\ e[i] # e[j]
  <2>1. place[e[i]] = i /\ place[e[j]] = j /\ e[i] \in D /\ e[j] \in D
      BY <1>10
  <2>2. e[i] # e[j]
      BY <1>11, <2>1
  <2>3. ~(e[j] \in atOrBelow[e[i]])
      BY <1>5, <1>11, <2>1, <2>2
  <2> QED BY <1>0, <2>1, <2>2, <2>3
<1> QED BY <1>10, <1>11 DEF Enumerates

LEMMA IntervalFinite ==
    ASSUME NEW n \in Nat
    PROVE  IsFiniteSet(1..n) /\ Cardinality(1..n) = n
<1>1. Cardinality(1..n) = IF 1 > n THEN 0 ELSE n - 1 + 1
    BY FS_Interval
<1> QED BY <1>1, FS_Interval

(***************************************************************************)
(* Ascending is the ascending enumeration, and the k-th element has k at   *)
(* or below it.                                                            *)
(***************************************************************************)
IsAscending(f, S) ==
    /\ f \in [1..Cardinality(S) -> S]
    /\ \A i, j \in 1..Cardinality(S) : i < j => f[i] < f[j]

LEMMA AscendingExists ==
    ASSUME NEW S \in SUBSET Nat, IsFiniteSet(S)
    PROVE  IsAscending(Ascending(S), S)
<1>1. \E f \in [1..Cardinality(S) -> S] :
          \A i, j \in 1..Cardinality(S) : i < j => f[i] < f[j]
  <2> DEFINE atOrBelow == [x \in S |-> {y \in S : y <= x}]
  <2>1. /\ \A x, y \in S : x \in atOrBelow[y] <=> x <= y
        /\ atOrBelow \in [S -> SUBSET S]
      OBVIOUS
  <2> HIDE DEF atOrBelow
  <2>2. \E e \in [1..Cardinality(S) -> S] :
            \A i, j \in 1..Cardinality(S) :
                i < j => e[i] \in atOrBelow[e[j]] /\ e[i] # e[j]
    <3>1. \A x, y \in S : x \in atOrBelow[y] \/ y \in atOrBelow[x]
        BY <2>1
    <3>2. \A x, y \in S : x \in atOrBelow[y] /\ y \in atOrBelow[x] => x = y
        BY <2>1
    <3>3. \A x, y, z \in S : x \in atOrBelow[y] /\ y \in atOrBelow[z] => x \in atOrBelow[z]
        BY <2>1
    <3>4. IsOrder(atOrBelow, S)
        BY <2>1, <3>1, <3>2, <3>3, Zenon DEF IsOrder
    <3>5. \E e : Enumerates(e, S, atOrBelow)
        BY <3>4, Enumerated
    <3> QED BY <3>5, Zenon DEF Enumerates
  <2>3. PICK e \in [1..Cardinality(S) -> S] :
            \A i, j \in 1..Cardinality(S) :
                i < j => e[i] \in atOrBelow[e[j]] /\ e[i] # e[j]
      BY <2>2
  <2>4. ASSUME NEW i \in 1..Cardinality(S), NEW j \in 1..Cardinality(S), i < j
        PROVE  e[i] < e[j]
    <3>1. e[i] \in S /\ e[j] \in S /\ e[i] \in atOrBelow[e[j]] /\ e[i] # e[j]
        BY <2>3, <2>4
    <3>2. e[i] <= e[j]
        BY <2>1, <3>1
    <3>3. e[i] \in Nat /\ e[j] \in Nat
        BY <3>1
    <3> QED BY <3>1, <3>2, <3>3
  <2> QED BY <2>4
<1> QED BY <1>1, Zenon DEF Ascending, IsAscending

LEMMA AscendingOnto ==
    ASSUME NEW S \in SUBSET Nat, IsFiniteSet(S), NEW f, IsAscending(f, S)
    PROVE  /\ Cardinality(S) \in Nat
           /\ \A i, j \in 1..Cardinality(S) : f[i] = f[j] => i = j
           /\ \A x \in S : \E k \in 1..Cardinality(S) : f[k] = x
<1> DEFINE n == Cardinality(S)
<1>1. n \in Nat
    BY FS_CardinalityType
<1>2. \A i, j \in 1..n : f[i] = f[j] => i = j
  <2> SUFFICES ASSUME NEW i \in 1..n, NEW j \in 1..n, f[i] = f[j], i # j
               PROVE  FALSE
      OBVIOUS
  <2>1. f[i] < f[j] \/ f[j] < f[i]
      BY <1>1 DEF IsAscending
  <2>2. f[i] \in Nat /\ f[j] \in Nat
      BY DEF IsAscending
  <2> QED BY <2>1, <2>2
<1>3. f \in Injection(1..n, S)
    BY <1>2, Fun_IsInj DEF IsAscending
<1>4. f \in Surjection(1..n, S)
    BY <1>1, <1>3, FS_Interval, FS_Injection
<1> QED BY <1>1, <1>2, <1>4 DEF Surjection

LEMMA AscendingRank ==
    ASSUME NEW S \in SUBSET Nat, IsFiniteSet(S), NEW f, IsAscending(f, S),
           NEW k \in 1..Cardinality(S)
    PROVE  Rank(f[k], S) = k
<1> DEFINE n == Cardinality(S)
           low == {y \in S : y <= f[k]}
           g == [i \in 1..k |-> f[i]]
<1>1. n \in Nat /\ k \in Nat
    BY FS_CardinalityType
<1>2. \A i \in 1..n : f[i] \in S /\ f[i] \in Nat
    BY DEF IsAscending
<1>3. \A i \in 1..n : f[i] <= f[k] <=> i <= k
    BY <1>1, <1>2 DEF IsAscending
<1>4. g \in [1..k -> low]
    BY <1>1, <1>2, <1>3
<1>5. \A i, j \in 1..k : g[i] = g[j] => i = j
    BY <1>1, AscendingOnto
<1>6. \A x \in low : \E i \in 1..k : g[i] = x
    BY <1>1, <1>3, AscendingOnto
<1>7. g \in Bijection(1..k, low)
    BY <1>4, <1>5, <1>6 DEF Bijection, Injection, Surjection, IsInjective
<1>8. Cardinality(low) = k
    BY <1>1, <1>7, FS_CountingElements DEF ExistsBijection
<1> QED BY <1>8 DEF Rank

(***************************************************************************)
(* A filter keeps entries in order.                                        *)
(***************************************************************************)
Picks(p, q, s, P) ==
    /\ Cardinality(P) \in Nat
    /\ p \in [1..Cardinality(P) -> P]
    /\ Len(q) = Cardinality(P)
    /\ DOMAIN q = 1..Cardinality(P)
    /\ \A i, j \in 1..Cardinality(P) : i < j => p[i] < p[j]
    /\ \A i, j \in 1..Cardinality(P) : p[i] = p[j] => i = j
    /\ \A i \in 1..Cardinality(P) : q[i] = s[p[i]]
    /\ \A x \in P : \E k \in 1..Cardinality(P) : p[k] = x

LEMMA PickedInOrder ==
    ASSUME NEW T, NEW s \in Seq(T), NEW P \in SUBSET (DOMAIN s)
    PROVE  Picked(s, P) \in Seq(T) /\ \E p : Picks(p, Picked(s, P), s, P)
<1> DEFINE n == Cardinality(P)
           p == Ascending(P)
<1>1. P \in SUBSET Nat /\ IsFiniteSet(P)
  <2>1. DOMAIN s = 1..Len(s) /\ Len(s) \in Nat
      OBVIOUS
  <2>2. IsFiniteSet(1..Len(s))
      BY <2>1, FS_Interval
  <2>3. IsFiniteSet(P)
      BY <2>1, <2>2, FS_Subset
  <2> QED BY <2>1, <2>3
<1>2. IsAscending(p, P)
    BY <1>1, AscendingExists
<1>3. /\ n \in Nat
      /\ \A i, j \in 1..n : p[i] = p[j] => i = j
      /\ \A x \in P : \E k \in 1..n : p[k] = x
    BY <1>1, <1>2, AscendingOnto
<1>4. p \in [1..n -> P] /\ \A i, j \in 1..n : i < j => p[i] < p[j]
    BY <1>2 DEF IsAscending
<1>5. Picked(s, P) = [k \in 1..n |-> s[p[k]]]
    BY DEF Picked
<1> HIDE DEF p
<1>6. Picked(s, P) \in [1..n -> T] /\ \A i \in 1..n : Picked(s, P)[i] = s[p[i]]
    BY <1>4, <1>5
<1>7. Picked(s, P) \in Seq(T) /\ Len(Picked(s, P)) = n /\ DOMAIN Picked(s, P) = 1..n
    BY <1>3, <1>6, SeqDef, LenProperties
<1> QED BY <1>3, <1>4, <1>6, <1>7, Zenon DEF Picks

(***************************************************************************)
(* A sort permutes the entries into an ascending order.                    *)
(***************************************************************************)
LEMMA SortedInOrder ==
    ASSUME NEW s \in Seq(Nat)
    PROVE  /\ Sorted(s) \in Seq(Nat)
           /\ Len(Sorted(s)) = Len(s)
           /\ \A i, j \in DOMAIN s : i < j => Sorted(s)[i] <= Sorted(s)[j]
           /\ \A i \in DOMAIN s : \E j \in DOMAIN s : Sorted(s)[i] = s[j]
<1> DEFINE D == DOMAIN s
           n == Len(s)
<1>1. n \in Nat /\ D = 1..n /\ \A i \in D : s[i] \in Nat
    OBVIOUS
<1>2. IsFiniteSet(D) /\ Cardinality(D) = n
    BY <1>1, IntervalFinite
<1> DEFINE atOrBelow == [x \in D |-> {y \in D : Comes(s, y, x) \/ y = x}]
<1>3. /\ \A x, y \in D : x \in atOrBelow[y] <=> s[x] < s[y] \/ (s[x] = s[y] /\ x <= y)
      /\ atOrBelow \in [D -> SUBSET D]
    BY <1>1 DEF Comes
<1> HIDE DEF atOrBelow
<1>4. \E e \in [1..Cardinality(D) -> D] :
          \A i, j \in 1..Cardinality(D) : i < j => e[i] \in atOrBelow[e[j]] /\ e[i] # e[j]
  <2>1. \A x, y \in D : x \in atOrBelow[y] \/ y \in atOrBelow[x]
      BY <1>1, <1>3
  <2>2. \A x, y \in D : x \in atOrBelow[y] /\ y \in atOrBelow[x] => x = y
      BY <1>1, <1>3
  <2>3. \A x, y, z \in D : x \in atOrBelow[y] /\ y \in atOrBelow[z] => x \in atOrBelow[z]
    <3> SUFFICES ASSUME NEW x \in D, NEW y \in D, NEW z \in D,
                        x \in atOrBelow[y], y \in atOrBelow[z]
                 PROVE  x \in atOrBelow[z]
        OBVIOUS
    <3>1. x \in Nat /\ y \in Nat /\ z \in Nat /\ s[x] \in Nat /\ s[y] \in Nat /\ s[z] \in Nat
        BY <1>1
    <3>2. /\ s[x] < s[y] \/ (s[x] = s[y] /\ x <= y)
          /\ s[y] < s[z] \/ (s[y] = s[z] /\ y <= z)
        BY <1>3
    <3>3. s[x] < s[z] \/ (s[x] = s[z] /\ x <= z)
        BY <3>1, <3>2
    <3> QED BY <1>3, <3>3
  <2>4. atOrBelow \in [D -> SUBSET D]
      BY <1>3
  <2>5. IsOrder(atOrBelow, D)
      BY <2>1, <2>2, <2>3, <2>4, Zenon DEF IsOrder
  <2>6. \E e : Enumerates(e, D, atOrBelow)
      BY <1>2, <2>5, Enumerated
  <2> QED BY <2>6, Zenon DEF Enumerates
<1>5. \E p \in [DOMAIN s -> DOMAIN s] :
          \A i, j \in DOMAIN s : i < j => Comes(s, p[i], p[j])
  <2>1. PICK e \in [1..Cardinality(D) -> D] :
            \A i, j \in 1..Cardinality(D) : i < j => e[i] \in atOrBelow[e[j]] /\ e[i] # e[j]
      BY <1>4
  <2>2. e \in [D -> D] /\ \A i, j \in D : i < j => e[i] \in atOrBelow[e[j]] /\ e[i] # e[j]
      BY <1>1, <1>2, <2>1
  <2>3. ASSUME NEW i \in D, NEW j \in D, i < j PROVE Comes(s, e[i], e[j])
    <3>1. e[i] \in D /\ e[j] \in D /\ e[i] \in atOrBelow[e[j]] /\ e[i] # e[j]
        BY <2>2, <2>3
    <3>2. s[e[i]] < s[e[j]] \/ (s[e[i]] = s[e[j]] /\ e[i] <= e[j])
        BY <1>3, <3>1
    <3> QED BY <1>1, <3>1, <3>2 DEF Comes
  <2> QED BY <2>2, <2>3
<1>6. PICK p \in [D -> D] :
          /\ \A i, j \in D : i < j => Comes(s, p[i], p[j])
          /\ Sorted(s) = [k \in D |-> s[p[k]]]
  <2> DEFINE q == CHOOSE p \in [DOMAIN s -> DOMAIN s] :
                     \A i, j \in DOMAIN s : i < j => Comes(s, p[i], p[j])
  <2>1. q \in [D -> D] /\ \A i, j \in D : i < j => Comes(s, q[i], q[j])
      BY <1>5, Zenon
  <2>2. Sorted(s) = [k \in D |-> s[q[k]]]
      BY Zenon DEF Sorted
  <2> HIDE DEF q
  <2> QED BY <2>1, <2>2
<1>7. Sorted(s) \in [1..n -> Nat] /\ \A k \in D : p[k] \in D /\ Sorted(s)[k] = s[p[k]]
    BY <1>1, <1>6
<1>8. Sorted(s) \in Seq(Nat) /\ Len(Sorted(s)) = n
    BY <1>1, <1>7, SeqDef, LenProperties
<1>9. ASSUME NEW i \in D, NEW j \in D, i < j PROVE Sorted(s)[i] <= Sorted(s)[j]
  <2>1. Comes(s, p[i], p[j])
      BY <1>6, <1>9
  <2>2. s[p[i]] \in Nat /\ s[p[j]] \in Nat
      BY <1>1, <1>7
  <2>3. s[p[i]] <= s[p[j]]
      BY <2>1, <2>2 DEF Comes
  <2> QED BY <1>7, <2>3
<1> QED BY <1>7, <1>8, <1>9

(***************************************************************************)
(* dedup leaves no duplicates in what is sorted.                           *)
(***************************************************************************)
LEMMA DedupInOrder ==
    ASSUME NEW t \in Seq(Nat), \A i, j \in DOMAIN t : i < j => t[i] <= t[j]
    PROVE  /\ Dedup(t) \in Seq(Nat)
           /\ IsInjective(Dedup(t))
           /\ Len(Dedup(t)) <= Len(t)
           /\ \A i \in DOMAIN Dedup(t) : \E j \in DOMAIN t : Dedup(t)[i] = t[j]
<1> DEFINE P == {i \in DOMAIN t : i = 1 \/ t[i] # t[i - 1]}
           d == Dedup(t)
           m == Cardinality(P)
<1>1. DOMAIN t = 1..Len(t) /\ Len(t) \in Nat /\ \A i \in DOMAIN t : t[i] \in Nat
    OBVIOUS
<1>2. d = Picked(t, P)
    BY Zenon DEF Dedup
<1>3. \A i \in P : i \in 1..Len(t) /\ (i = 1 \/ t[i] # t[i - 1])
    BY <1>1
<1>4. P \in SUBSET (DOMAIN t)
    OBVIOUS
<1>5. m <= Len(t)
    BY <1>1, <1>4, IntervalFinite, FS_Subset
<1> HIDE DEF P, d
<1>6. PICK p \in [1..m -> P] :
              /\ m \in Nat
              /\ d \in Seq(Nat)
              /\ Len(d) = m
              /\ DOMAIN d = 1..m
              /\ \A i, j \in 1..m : i < j => p[i] < p[j]
              /\ \A i \in 1..m : d[i] = t[p[i]]
  <2>1. d \in Seq(Nat) /\ \E p : Picks(p, d, t, P)
      BY <1>2, <1>4, PickedInOrder
  <2> QED BY <2>1 DEF Picks
<1> HIDE DEF m
<1>7. ASSUME NEW i \in P, NEW j \in P, i < j
      PROVE  t[i] < t[j]
  <2>1. i \in DOMAIN t /\ j \in DOMAIN t
      BY <1>4
  <2>2. j - 1 \in DOMAIN t /\ i <= j - 1 /\ j # 1 /\ j - 1 < j
      BY <1>1, <1>7, <2>1
  <2>3. t[i] \in Nat /\ t[j] \in Nat /\ t[j - 1] \in Nat
      BY <1>1, <2>1, <2>2
  <2>4. t[j] # t[j - 1]
      BY <1>3, <2>2
  <2>5. t[j - 1] <= t[j]
      BY <2>1, <2>2
  <2>6. t[i] <= t[j - 1]
    <3>1. CASE i = j - 1
        BY <2>3, <3>1
    <3>2. CASE i # j - 1
      <4>1. i < j - 1
          BY <1>1, <2>1, <2>2, <3>2
      <4> QED BY <2>1, <2>2, <4>1
    <3> QED BY <3>1, <3>2
  <2> QED BY <2>3, <2>4, <2>5, <2>6
<1>8. IsInjective(d)
  <2>1. ASSUME NEW i \in 1..m, NEW j \in 1..m, i < j PROVE d[i] # d[j]
    <3>1. p[i] \in P /\ p[j] \in P /\ p[i] < p[j] /\ d[i] = t[p[i]] /\ d[j] = t[p[j]]
        BY <1>6, <2>1
    <3>2. t[p[i]] < t[p[j]]
        BY <1>7, <3>1
    <3>3. t[p[i]] \in Nat /\ t[p[j]] \in Nat
        BY <1>1, <1>4, <3>1
    <3> QED BY <3>1, <3>2, <3>3
  <2>2. ASSUME NEW i \in 1..m, NEW j \in 1..m, d[i] = d[j] PROVE i = j
    <3>1. ~(i < j) /\ ~(j < i)
        BY <2>1, <2>2
    <3> QED BY <1>6, <3>1
  <2> QED BY <1>6, <2>2 DEF IsInjective
<1>9. ASSUME NEW i \in DOMAIN d PROVE \E j \in DOMAIN t : d[i] = t[j]
  <2>1. i \in 1..m
      BY <1>6
  <2>2. d[i] = t[p[i]] /\ p[i] \in DOMAIN t
      BY <1>4, <1>6, <2>1
  <2> QED BY <2>2
<1>10. Len(d) <= Len(t)
    BY <1>5, <1>6 DEF m
<1> QED BY <1>6, <1>8, <1>9, <1>10 DEF d

LEMMA DedupOfSorted ==
    ASSUME NEW s \in Seq(Nat)
    PROVE  /\ Dedup(Sorted(s)) \in Seq(Nat)
           /\ IsInjective(Dedup(Sorted(s)))
           /\ Len(Dedup(Sorted(s))) <= Len(s)
           /\ \A i \in DOMAIN Dedup(Sorted(s)) : \E j \in DOMAIN s : Dedup(Sorted(s))[i] = s[j]
<1> DEFINE t == Sorted(s)
           d == Dedup(t)
<1>1. /\ t \in Seq(Nat)
      /\ Len(t) = Len(s)
      /\ \A i, j \in DOMAIN s : i < j => t[i] <= t[j]
      /\ \A i \in DOMAIN s : \E j \in DOMAIN s : t[i] = s[j]
    BY SortedInOrder
<1> HIDE DEF t
<1>2. DOMAIN t = DOMAIN s
    BY <1>1
<1>3. /\ d \in Seq(Nat)
      /\ IsInjective(d)
      /\ Len(d) <= Len(t)
      /\ \A i \in DOMAIN d : \E j \in DOMAIN t : d[i] = t[j]
    BY <1>1, <1>2, DedupInOrder
<1> HIDE DEF d
<1>4. \A i \in DOMAIN d : \E j \in DOMAIN s : d[i] = s[j]
    BY <1>1, <1>2, <1>3
<1> QED BY <1>1, <1>3, <1>4 DEF t, d

================================================================================
