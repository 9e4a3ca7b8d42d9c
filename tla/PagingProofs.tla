------------------------------ MODULE PagingProofs ------------------------------
(***************************************************************************)
(* A listing taken page by page lists nothing twice and leaves out no more *)
(* than disappeared meanwhile, for every store and every size of a page.   *)
(* MainLoopProofs uses the lemmas for the loop the listing is part of.     *)
(***************************************************************************)
EXTENDS Paging, OrdersProofs

(***************************************************************************)
(* The pages of a list                                                     *)
(***************************************************************************)
LEMMA BehindGrows ==
    ASSUME NEW p \in Nat \ {0}
    PROVE  /\ Behind(p) \in Nat
           /\ Behind(p + 1) = Behind(p) + PerPage
           /\ p - 1 <= Behind(p)
<1>1. PerPage \in Nat /\ PerPage >= 1
    BY PagingAssumption
<1>2. PICK q \in Nat : p = q + 1
  <2> WITNESS p - 1 \in Nat
  <2> QED OBVIOUS
<1>3. Behind(p) = q * PerPage /\ Behind(p + 1) = (q + 1) * PerPage
    BY <1>2 DEF Behind
<1>4. q * PerPage \in Nat /\ (q + 1) * PerPage = q * PerPage + PerPage
    BY <1>1
<1>5. q <= q * PerPage
  <2>1. PICK r \in Nat : PerPage = r + 1
    <3>1. PerPage - 1 \in Nat /\ PerPage = (PerPage - 1) + 1
        BY <1>1
    <3> QED BY <3>1
  <2>2. q * PerPage = q * r + q /\ q * r \in Nat
      BY <2>1
  <2> QED BY <2>2
<1> QED BY <1>2, <1>3, <1>4, <1>5

(* Each element has a rank of its own.                                     *)
LEMMA Ranks ==
    ASSUME NEW S \in SUBSET Nat, IsFiniteSet(S)
    PROVE  /\ Cardinality(S) \in Nat
           /\ \A x \in S : Rank(x, S) \in 1..Cardinality(S)
           /\ \A x, y \in S : Rank(x, S) = Rank(y, S) => x = y
           /\ \A k \in 1..Cardinality(S) : \E x \in S : Rank(x, S) = k
<1> DEFINE f == Ascending(S)
           n == Cardinality(S)
<1>1. IsAscending(f, S)
    BY AscendingExists
<1> HIDE DEF f
<1>2. /\ n \in Nat
      /\ \A i, j \in 1..n : f[i] = f[j] => i = j
      /\ \A x \in S : \E k \in 1..n : f[k] = x
    BY <1>1, AscendingOnto
<1>3. \A k \in 1..n : f[k] \in S /\ Rank(f[k], S) = k
    BY <1>1, AscendingRank DEF IsAscending
<1> HIDE DEF n
<1>4. \A x \in S : \E k \in 1..n : f[k] = x /\ Rank(x, S) = k
    BY <1>2, <1>3
<1> QED BY <1>2, <1>3, <1>4 DEF n

(* A slice of the ranks.                                                   *)
LEMMA Slice ==
    ASSUME NEW S \in SUBSET Nat, IsFiniteSet(S), NEW lo \in Nat, NEW width \in Nat, NEW slice,
           slice = {x \in S : lo < Rank(x, S) /\ Rank(x, S) <= lo + width}
    PROVE  /\ IsFiniteSet(slice)
           /\ Cardinality(slice) \in Nat
           /\ Cardinality(slice) <= width
           /\ Cardinality(slice) < width => \A x \in S : Rank(x, S) <= lo + width
<1> DEFINE n == Cardinality(S)
           place == [x \in S |-> Rank(x, S)]
<1>1. /\ n \in Nat
      /\ \A x \in S : place[x] \in 1..n
      /\ \A x, y \in S : place[x] = place[y] => x = y
      /\ \A k \in 1..n : \E x \in S : place[x] = k
      /\ \A x \in S : Rank(x, S) = place[x]
    BY Ranks
<1>2. slice = {x \in S : lo < place[x] /\ place[x] <= lo + width}
    OBVIOUS
<1> HIDE DEF n, place
<1>3. IsFiniteSet(1..width) /\ Cardinality(1..width) = width
    BY IntervalFinite
<1>4. IsFiniteSet(slice) /\ Cardinality(slice) <= width
  <2> DEFINE g == [x \in slice |-> place[x] - lo]
  <2>1. g \in [slice -> 1..width]
    <3> SUFFICES ASSUME NEW x \in slice PROVE place[x] - lo \in 1..width
        OBVIOUS
    <3>1. place[x] \in Nat /\ lo < place[x] /\ place[x] <= lo + width
        BY <1>1, <1>2
    <3> QED BY <3>1
  <2>2. \A x, y \in slice : g[x] = g[y] => x = y
      BY <1>1, <1>2
  <2> HIDE DEF g
  <2>3. g \in Injection(slice, 1..width)
      BY <2>1, <2>2, Fun_IsInj
  <2> QED BY <1>3, <2>3, FS_Injection
<1>5. Cardinality(slice) \in Nat
    BY <1>4, FS_CardinalityType
<1>6. ASSUME NEW x \in S, lo + width < place[x]
      PROVE  width <= Cardinality(slice)
  <2>1. \A i \in 1..width : lo + i \in 1..n
      BY <1>1, <1>6
  <2> DEFINE h == [i \in 1..width |-> CHOOSE y \in S : place[y] = lo + i]
  <2>2. \A i \in 1..width : h[i] \in S /\ place[h[i]] = lo + i
      BY <1>1, <2>1
  <2>3. \A i \in 1..width : h[i] \in slice
      BY <1>2, <2>2
  <2>4. h \in [1..width -> slice]
      BY <2>3
  <2> HIDE DEF h
  <2>5. \A i, j \in 1..width : h[i] = h[j] => i = j
      BY <2>2
  <2>6. h \in Injection(1..width, slice)
      BY <2>4, <2>5, Fun_IsInj
  <2> QED BY <1>3, <1>4, <2>6, FS_Injection
<1>7. Cardinality(slice) < width => \A x \in S : place[x] <= lo + width
    BY <1>1, <1>5, <1>6
<1> QED BY <1>1, <1>4, <1>5, <1>7

(***************************************************************************)
(* Sequences without repetitions                                           *)
(***************************************************************************)
LEMMA Widened ==
    ASSUME NEW A, NEW B, A \subseteq B, NEW q \in Seq(A)
    PROVE  q \in Seq(B)
<1>1. Len(q) \in Nat /\ q \in [1..Len(q) -> B]
    OBVIOUS
<1> QED BY <1>1, SeqDef

LEMMA Bounded ==
    ASSUME NEW T, NEW n \in Nat, NEW q \in Seq(T), Len(q) <= n
    PROVE  q \in BoundedSeq(T, n)
<1>1. Len(q) \in 0..n /\ q \in [1..Len(q) -> T]
    OBVIOUS
<1> QED BY <1>1 DEF BoundedSeq, SeqOf

LEMMA Unbounded ==
    ASSUME NEW T, NEW n \in Nat, NEW q \in BoundedSeq(T, n)
    PROVE  q \in Seq(T) /\ Len(q) <= n /\ DOMAIN q = 1..Len(q)
<1>1. PICK m \in 0..n : q \in [1..m -> T]
    BY DEF BoundedSeq, SeqOf
<1>2. m \in Nat
    OBVIOUS
<1>3. q \in Seq(T) /\ Len(q) = m
    BY <1>1, <1>2, SeqDef, LenProperties
<1> QED BY <1>1, <1>3

LEMMA FitsIn ==
    ASSUME NEW T, IsFiniteSet(T), NEW q \in Seq(T), IsInjective(q)
    PROVE  /\ Len(q) <= Cardinality(T)
           /\ q \in BoundedSeq(T, Cardinality(T))
<1>1. Len(q) \in Nat /\ DOMAIN q = 1..Len(q) /\ q \in [1..Len(q) -> T]
    OBVIOUS
<1>2. q \in Injection(1..Len(q), T)
    BY <1>1, Fun_IsInj DEF IsInjective
<1>3. Cardinality(1..Len(q)) = Len(q)
    BY <1>1, IntervalFinite
<1>4. Len(q) <= Cardinality(T)
    BY <1>2, <1>3, FS_Injection
<1> QED BY <1>4, Bounded, FS_CardinalityType

LEMMA Concat ==
    ASSUME NEW T, NEW a \in Seq(T), NEW b \in Seq(T)
    PROVE  /\ a \o b \in Seq(T)
           /\ Len(a \o b) = Len(a) + Len(b)
           /\ ToSet(a \o b) = ToSet(a) \cup ToSet(b)
           /\ IsInjective(a) /\ IsInjective(b) /\ ToSet(a) \cap ToSet(b) = {} => IsInjective(a \o b)
<1> DEFINE c == a \o b
<1>1. /\ Len(a) \in Nat /\ DOMAIN a = 1..Len(a)
      /\ Len(b) \in Nat /\ DOMAIN b = 1..Len(b)
    OBVIOUS
<1>2. /\ c \in Seq(T) /\ Len(c) = Len(a) + Len(b) /\ DOMAIN c = 1..(Len(a) + Len(b))
      /\ \A i \in DOMAIN c : c[i] = IF i <= Len(a) THEN a[i] ELSE b[i - Len(a)]
    BY <1>1
<1> HIDE DEF c
<1>3. \A i \in DOMAIN a : i \in DOMAIN c /\ c[i] = a[i]
    BY <1>1, <1>2
<1>4. \A i \in DOMAIN b : i + Len(a) \in DOMAIN c /\ c[i + Len(a)] = b[i]
    BY <1>1, <1>2
<1>5. \A i \in DOMAIN c : \/ i \in DOMAIN a /\ c[i] = a[i]
                          \/ i - Len(a) \in DOMAIN b /\ c[i] = b[i - Len(a)]
    BY <1>1, <1>2
<1>6. ToSet(c) = ToSet(a) \cup ToSet(b)
    BY <1>3, <1>4, <1>5 DEF ToSet
<1>7. ASSUME IsInjective(a), IsInjective(b), ToSet(a) \cap ToSet(b) = {},
             NEW i \in DOMAIN c, NEW j \in DOMAIN c, c[i] = c[j]
      PROVE  i = j
  <2>1. CASE i \in DOMAIN a /\ c[i] = a[i] /\ j \in DOMAIN a /\ c[j] = a[j]
      BY <1>7, <2>1 DEF IsInjective
  <2>2. CASE /\ i - Len(a) \in DOMAIN b /\ c[i] = b[i - Len(a)]
             /\ j - Len(a) \in DOMAIN b /\ c[j] = b[j - Len(a)]
    <3>1. i - Len(a) = j - Len(a)
        BY <1>7, <2>2 DEF IsInjective
    <3> QED BY <1>1, <1>2, <3>1
  <2>3. CASE i \in DOMAIN a /\ c[i] = a[i] /\ j - Len(a) \in DOMAIN b /\ c[j] = b[j - Len(a)]
      BY <1>7, <2>3 DEF ToSet
  <2>4. CASE j \in DOMAIN a /\ c[j] = a[j] /\ i - Len(a) \in DOMAIN b /\ c[i] = b[i - Len(a)]
      BY <1>7, <2>4 DEF ToSet
  <2> QED BY <1>5, <2>1, <2>2, <2>3, <2>4
<1> QED BY <1>2, <1>6, <1>7 DEF c, IsInjective

(***************************************************************************)
(* What a page holds                                                       *)
(***************************************************************************)
LEMMA PageExact ==
    ASSUME NEW S \in SUBSET Nat, IsFiniteSet(S), NEW p \in Nat \ {0}
    PROVE  /\ PageOf(S, p) \in Seq(S)
           /\ IsInjective(PageOf(S, p))
           /\ Len(PageOf(S, p)) \in Nat
           /\ Len(PageOf(S, p)) <= PerPage
           /\ ToSet(PageOf(S, p)) = {x \in S : Behind(p) < Rank(x, S) /\ Rank(x, S) <= Behind(p + 1)}
           /\ IsLast(PageOf(S, p)) => \A x \in S : Rank(x, S) <= Behind(p + 1)
<1> DEFINE slice == {x \in S : Behind(p) < Rank(x, S) /\ Rank(x, S) <= Behind(p + 1)}
           answer == PageOf(S, p)
           n == Cardinality(slice)
<1>1. Behind(p) \in Nat /\ Behind(p + 1) = Behind(p) + PerPage /\ PerPage \in Nat
    BY BehindGrows, PagingAssumption
<1>2. /\ IsFiniteSet(slice) /\ n \in Nat /\ n <= PerPage
      /\ n < PerPage => \A x \in S : Rank(x, S) <= Behind(p + 1)
    BY <1>1, Slice
<1>3. slice \in SUBSET S /\ slice \in SUBSET Nat
    OBVIOUS
<1>4. answer = Ascending(slice)
    BY DEF PageOf
<1> HIDE DEF slice, answer
<1>5. IsAscending(answer, slice)
    BY <1>2, <1>3, <1>4, AscendingExists
<1>6. /\ \A i, j \in 1..n : answer[i] = answer[j] => i = j
      /\ \A x \in slice : \E k \in 1..n : answer[k] = x
    BY <1>2, <1>3, <1>5, AscendingOnto
<1>7. answer \in [1..n -> slice]
    BY <1>5 DEF IsAscending
<1>8. answer \in Seq(S) /\ Len(answer) = n /\ DOMAIN answer = 1..n
  <2>1. answer \in [1..n -> S]
      BY <1>3, <1>7
  <2> HIDE DEF n
  <2> QED BY <1>2, <2>1, SeqDef, LenProperties
<1> HIDE DEF n
<1>9. IsInjective(answer)
    BY <1>6, <1>8 DEF IsInjective
<1>10. ToSet(answer) = slice
    BY <1>6, <1>7, <1>8 DEF ToSet
<1>11. IsLast(answer) => \A x \in S : Rank(x, S) <= Behind(p + 1)
    BY <1>2, <1>8 DEF IsLast
<1> QED BY <1>2, <1>8, <1>9, <1>10, <1>11 DEF answer, slice

(* What joins a store behind all the rest moves nothing.                   *)
LEMMA RankKept ==
    ASSUME NEW S \in SUBSET Nat, NEW s \in Nat, \A t \in S : t < s, NEW x \in S
    PROVE  Rank(x, S \cup {s}) = Rank(x, S)
<1>1. {y \in S \cup {s} : y <= x} = {y \in S : y <= x}
    OBVIOUS
<1> QED BY <1>1 DEF Rank

(* What leaves it moves the others by one place at most.                   *)
LEMMA RankFalls ==
    ASSUME NEW S \in SUBSET Nat, IsFiniteSet(S), NEW s, NEW x \in S
    PROVE  /\ Rank(x, S) \in Nat /\ Rank(x, S \ {s}) \in Nat
           /\ Rank(x, S \ {s}) <= Rank(x, S)
           /\ Rank(x, S) <= Rank(x, S \ {s}) + 1
<1> DEFINE low == {y \in S : y <= x}
<1>1. IsFiniteSet(low)
    BY FS_Subset
<1>2. {y \in S \ {s} : y <= x} = low \ {s}
    OBVIOUS
<1> HIDE DEF low
<1>3. Cardinality(low) \in Nat /\ Cardinality(low \ {s}) \in Nat
    BY <1>1, FS_RemoveElement, FS_CardinalityType
<1>4. Cardinality(low \ {s}) = IF s \in low THEN Cardinality(low) - 1 ELSE Cardinality(low)
    BY <1>1, FS_RemoveElement
<1>5. Rank(x, S) = Cardinality(low) /\ Rank(x, S \ {s}) = Cardinality(low \ {s})
    BY <1>2 DEF Rank, low
<1> QED BY <1>3, <1>4, <1>5

--------------------------------------------------------------------------------
(***************************************************************************)
(* The steps of a listing                                                  *)
(***************************************************************************)
PagingNext ==
    \/ StartListing \/ FetchPage \/ EndListing
    \/ \E s \in Id : Appear(s) \/ Disappear(s)

LEMMA PagingFacts ==
    ASSUME PagingInv
    PROVE  /\ store \in SUBSET Nat /\ IsFiniteSet(store)
           /\ ever \in SUBSET Id /\ IsFiniteSet(ever)
           /\ IsFiniteSet(atStart \cap store) /\ IsFiniteSet(Overlooked)
           /\ IsFiniteSet(ever \ store)
           /\ Cardinality(Overlooked) \in Nat /\ Cardinality(ever \ store) \in Nat
           /\ Cardinality(Id) \in Nat
           /\ got \in Seq(Id) /\ Len(got) \in Nat /\ page \in Nat
<1>1. store \in SUBSET Id /\ ever \in SUBSET Id /\ page \in Nat
    BY DEF PagingInv, PagingTypeOK
<1>2. IsFiniteSet(store) /\ IsFiniteSet(ever)
    BY <1>1, PagingAssumption, FS_Subset
<1>3. Overlooked \in SUBSET store /\ (ever \ store) \in SUBSET ever /\ (atStart \cap store) \in SUBSET store
    BY DEF Overlooked
<1>4. IsFiniteSet(atStart \cap store) /\ IsFiniteSet(Overlooked) /\ IsFiniteSet(ever \ store)
    BY <1>2, <1>3, FS_Subset
<1>5. got \in Seq(Id) /\ Len(got) \in Nat
    BY PagingAssumption, FS_CardinalityType, Unbounded DEF PagingInv, PagingTypeOK
<1> QED BY <1>1, <1>2, <1>4, <1>5, PagingAssumption, FS_CardinalityType

LEMMA PagingStarts ==
    ASSUME NEW s \in SUBSET Id
    PROVE  /\ <<>> \in BoundedSeq(Id, Cardinality(Id))
           /\ IsInjective(<<>>)
           /\ ToSet(<<>>) = {}
           /\ Len(<<>>) = 0
           /\ Behind(1) = 0
           /\ \A x \in s : Rank(x, s) # 0
           /\ 1 \in 0..(Cardinality(Id) + 1) /\ 0 \in 0..(Cardinality(Id) + 1)
           /\ Cardinality({}) = 0 /\ Cardinality(s \ s) = 0
<1>1. Cardinality(Id) \in Nat
    BY PagingAssumption, FS_CardinalityType
<1>2. <<>> \in Seq(Id) /\ Len(<<>>) = 0 /\ DOMAIN <<>> = {}
    OBVIOUS
<1>3. /\ <<>> \in BoundedSeq(Id, Cardinality(Id))
      /\ IsInjective(<<>>)
      /\ ToSet(<<>>) = {}
  <2> DEFINE none == <<>>
  <2>1. none \in Seq(Id) /\ Len(none) = 0 /\ DOMAIN none = {}
      BY <1>2
  <2> HIDE DEF none
  <2>2. none \in BoundedSeq(Id, Cardinality(Id))
    <3>1. Len(none) <= Cardinality(Id)
        BY <1>1, <2>1
    <3> QED BY <1>1, <2>1, <3>1, Bounded
  <2>3. IsInjective(none)
      BY <2>1 DEF IsInjective
  <2>4. ToSet(none) = {}
      BY <2>1 DEF ToSet
  <2> QED BY <2>2, <2>3, <2>4 DEF none
<1>4. s \in SUBSET Nat /\ IsFiniteSet(s)
    BY PagingAssumption, FS_Subset
<1>5. \A x \in s : Rank(x, s) # 0
    BY <1>4, Ranks
<1>6. Behind(1) = 0
    BY PagingAssumption DEF Behind
<1>7. Cardinality({}) = 0 /\ s \ s = {}
    BY FS_EmptySet
<1>8. 1 \in 0..(Cardinality(Id) + 1) /\ 0 \in 0..(Cardinality(Id) + 1)
    BY <1>1
<1> QED BY <1>2, <1>3, <1>5, <1>6, <1>7, <1>8, Zenon

LEMMA PagingInitially == PagingInit => PagingInv
<1> SUFFICES ASSUME PagingInit PROVE PagingInv
    OBVIOUS
<1> USE DEF PagingInit
<1>1. PagingTypeOK
    BY PagingStarts DEF PagingTypeOK
<1>2. HistoryIsExact /\ NoneTwice
    BY PagingStarts DEF HistoryIsExact, NoneTwice
<1>3. PagesWereFull /\ FewOverlooked
    BY DEF PagesWereFull, FewOverlooked
<1>4. (atStart \cap store) \ ToSet(got) = {} /\ ever \ store = {}
    OBVIOUS
<1>5. MissesBounded
    BY <1>4, PagingStarts DEF MissesBounded
<1> QED BY <1>1, <1>2, <1>3, <1>5 DEF PagingInv

LEMMA EndListingKeeps == EndListing => PagingInv'
<1> SUFFICES ASSUME EndListing PROVE PagingInv'
    OBVIOUS
<1> USE DEF EndListing
<1>1. PagingTypeOK'
    BY PagingStarts DEF PagingTypeOK
<1>2. HistoryIsExact' /\ NoneTwice'
    BY PagingStarts DEF HistoryIsExact, NoneTwice
<1>3. PagesWereFull' /\ FewOverlooked'
    BY DEF PagesWereFull, FewOverlooked
<1>4. ((atStart \cap store) \ ToSet(got))' = {} /\ (ever \ store)' = {}
    OBVIOUS
<1>5. MissesBounded'
    BY <1>4, PagingStarts DEF MissesBounded
<1> QED BY <1>1, <1>2, <1>3, <1>5 DEF PagingInv

LEMMA StartListingKeeps == StartListing => PagingInv'
<1> SUFFICES ASSUME StartListing PROVE PagingInv'
    OBVIOUS
<1> USE DEF StartListing
<1>0. store' \in SUBSET Id
    OBVIOUS
<1>1. PagingTypeOK'
    BY PagingStarts DEF PagingTypeOK
<1>2. HistoryIsExact' /\ NoneTwice'
    BY PagingStarts DEF HistoryIsExact, NoneTwice
<1>3. PagesWereFull'
    BY <1>0, PagingStarts DEF PagesWereFull
<1>4. Overlooked' = {}
  <2>1. \A x \in store' : Rank(x, store') \in Nat /\ Rank(x, store') # 0
    <3>1. store' \in SUBSET Nat /\ IsFiniteSet(store')
        BY <1>0, PagingAssumption, FS_Subset
    <3> QED BY <3>1, Ranks
  <2>2. ASSUME NEW x \in Overlooked' PROVE FALSE
    <3>1. x \in store' /\ Rank(x, store') <= Behind(1)
        BY <2>2 DEF Overlooked
    <3> QED BY <2>1, <3>1, PagingStarts
  <2> QED BY <2>2
<1>5. Cardinality(Overlooked') = 0 /\ Cardinality((ever \ store)') = 0
    BY <1>0, <1>4, PagingStarts
<1>6. FewOverlooked'
    BY <1>5 DEF FewOverlooked
<1>7. MissesBounded'
    BY DEF MissesBounded
<1> QED BY <1>1, <1>2, <1>3, <1>6, <1>7 DEF PagingInv

LEMMA FetchPageKeeps == PagingInv /\ FetchPage => PagingInv'
<1> SUFFICES ASSUME PagingInv, FetchPage PROVE PagingInv'
    OBVIOUS
<1> DEFINE answer == PageOf(store, page)
<1>1. /\ page > 0 /\ page \in Nat \ {0} /\ page' = (IF IsLast(answer) THEN 0 ELSE page + 1)
      /\ got' = got \o answer
      /\ store' = store /\ atStart' = atStart /\ ever' = ever
    BY PagingFacts DEF FetchPage, NextPage
<1>2. /\ store \in SUBSET Nat /\ IsFiniteSet(store) /\ store \subseteq ever /\ atStart \subseteq ever
      /\ ever \in SUBSET Id /\ ToSet(got) \subseteq ever /\ store \in SUBSET Id /\ atStart \in SUBSET Id
      /\ got \in Seq(Id) /\ Len(got) \in Nat /\ Cardinality(Id) \in Nat /\ IsFiniteSet(Id)
    BY PagingFacts, PagingAssumption DEF PagingInv, PagingTypeOK, HistoryIsExact
<1>3. /\ answer \in Seq(store) /\ IsInjective(answer) /\ Len(answer) \in Nat /\ Len(answer) <= PerPage
      /\ ToSet(answer) = {x \in store : Behind(page) < Rank(x, store) /\ Rank(x, store) <= Behind(page + 1)}
      /\ IsLast(answer) => \A x \in store : Rank(x, store) <= Behind(page + 1)
    BY <1>1, <1>2, PageExact
<1> HIDE DEF answer
<1>4. answer \in Seq(Id)
    BY <1>2, <1>3, Widened
<1>5. \A x \in store : Rank(x, store) \in Nat
    BY <1>2, Ranks
<1>6. /\ Behind(page) \in Nat /\ Behind(page + 1) = Behind(page) + PerPage
      /\ page <= Behind(page + 1) /\ PerPage \in Nat
  <2>1. Behind(page) \in Nat /\ Behind(page + 1) = Behind(page) + PerPage
      BY <1>1, BehindGrows
  <2> DEFINE next == page + 1
  <2>2. next \in Nat \ {0} /\ next - 1 = page
      BY <1>1
  <2> HIDE DEF next
  <2>3. page <= Behind(next)
      BY <2>2, BehindGrows
  <2> QED BY <2>1, <2>3, PagingAssumption DEF next
<1>7. Len(got) = Behind(page) /\ \A x \in ToSet(got) \cap store : Rank(x, store) <= Behind(page)
    BY <1>1 DEF PagingInv, PagesWereFull
<1>8. ToSet(got) \cap ToSet(answer) = {}
  <2>1. ASSUME NEW x \in ToSet(got) \cap ToSet(answer) PROVE FALSE
    <3>1. x \in ToSet(got) \cap store /\ Behind(page) < Rank(x, store) /\ Rank(x, store) \in Nat
        BY <1>3, <1>5, <2>1
    <3> QED BY <1>6, <1>7, <3>1
  <2> QED BY <2>1
<1>9. /\ got' \in Seq(Id) /\ Len(got') = Len(got) + Len(answer)
      /\ ToSet(got') = ToSet(got) \cup ToSet(answer)
      /\ IsInjective(got')
    BY <1>1, <1>2, <1>3, <1>4, <1>8, Concat DEF PagingInv, NoneTwice
<1>10. HistoryIsExact' /\ NoneTwice'
    BY <1>1, <1>2, <1>3, <1>9 DEF HistoryIsExact, NoneTwice
<1>11. ASSUME ~IsLast(answer)
       PROVE  page' = page + 1 /\ Len(got') = Behind(page')
    BY <1>1, <1>3, <1>6, <1>7, <1>9, <1>11 DEF IsLast
<1>12. PagingTypeOK'
  <2>1. got' \in BoundedSeq(Id, Cardinality(Id)) /\ Len(got') <= Cardinality(Id)
      BY <1>2, <1>9, FitsIn
  <2>2. page' \in 0..(Cardinality(Id) + 1)
    <3>1. CASE IsLast(answer)
        BY <1>1, <1>2, <3>1
    <3>2. CASE ~IsLast(answer)
      <4>1. page' = page + 1 /\ page <= Len(got')
          BY <1>6, <1>11, <3>2
      <4>2. Len(got') \in Nat
          BY <1>9
      <4> QED BY <1>1, <1>2, <2>1, <4>1, <4>2
    <3> QED BY <3>1, <3>2
  <2> QED BY <1>1, <1>2, <2>1, <2>2 DEF PagingTypeOK
<1>13. PagesWereFull'
  <2> SUFFICES ASSUME page' > 0, NEW x \in ToSet(got') \cap store'
               PROVE  Len(got') = Behind(page') /\ Rank(x, store') <= Behind(page')
    <3>1. page' > 0 => page' = page + 1 /\ Len(got') = Behind(page')
        BY <1>1, <1>11
    <3> QED BY <3>1 DEF PagesWereFull
  <2>1. page' = page + 1 /\ Len(got') = Behind(page')
      BY <1>1, <1>11
  <2>2. x \in store /\ store' = store /\ Rank(x, store) \in Nat
      BY <1>1, <1>5
  <2>3. CASE x \in ToSet(got)
      BY <1>6, <1>7, <2>1, <2>2, <2>3
  <2>4. CASE x \in ToSet(answer)
      BY <1>3, <2>1, <2>2, <2>4
  <2> QED BY <1>9, <2>1, <2>3, <2>4
<1>14. /\ Cardinality(ever \ store) \in Nat
       /\ IsFiniteSet(Overlooked) /\ Cardinality(Overlooked) \in Nat
       /\ Cardinality(Overlooked) <= Cardinality(ever \ store)
    BY <1>1, PagingFacts DEF PagingInv, FewOverlooked
<1>15. FewOverlooked'
  <2> SUFFICES ASSUME page' > 0 PROVE Cardinality(Overlooked') <= Cardinality(ever' \ store')
      BY DEF FewOverlooked
  <2>1. page' = page + 1
      BY <1>1
  <2>2. ASSUME NEW x \in Overlooked' PROVE x \in Overlooked
    <3>1. /\ x \in atStart \cap store /\ Rank(x, store) <= Behind(page + 1)
          /\ x \notin ToSet(got) /\ x \notin ToSet(answer)
        BY <1>1, <1>9, <2>1, <2>2 DEF Overlooked
    <3>2. Rank(x, store) \in Nat /\ ~(Behind(page) < Rank(x, store))
        BY <1>3, <1>5, <3>1
    <3>3. Rank(x, store) <= Behind(page)
        BY <1>6, <3>2
    <3> QED BY <3>1, <3>3 DEF Overlooked
  <2>3. Cardinality(Overlooked') \in Nat /\ Cardinality(Overlooked') <= Cardinality(Overlooked)
      BY <1>14, <2>2, FS_Subset, FS_CardinalityType
  <2> QED BY <1>1, <1>14, <2>3
<1>16. MissesBounded'
  <2> DEFINE missed == (atStart \cap store) \ ToSet(got')
  <2> SUFFICES ASSUME page' = 0 PROVE Cardinality(missed) <= Cardinality(ever \ store)
      BY <1>1 DEF MissesBounded
  <2>1. \A x \in store : Rank(x, store) <= Behind(page + 1)
      BY <1>1, <1>3
  <2>2. ASSUME NEW x \in missed PROVE x \in Overlooked
    <3>1. /\ x \in atStart \cap store /\ Rank(x, store) <= Behind(page + 1)
          /\ x \notin ToSet(got) /\ x \notin ToSet(answer)
        BY <1>9, <2>1, <2>2
    <3>2. Rank(x, store) \in Nat /\ ~(Behind(page) < Rank(x, store))
        BY <1>3, <1>5, <3>1
    <3>3. Rank(x, store) <= Behind(page)
        BY <1>6, <3>2
    <3> QED BY <3>1, <3>3 DEF Overlooked
  <2> HIDE DEF missed
  <2>3. Cardinality(missed) \in Nat /\ Cardinality(missed) <= Cardinality(Overlooked)
      BY <1>14, <2>2, FS_Subset, FS_CardinalityType
  <2> QED BY <1>14, <2>3
<1> QED BY <1>10, <1>12, <1>13, <1>15, <1>16 DEF PagingInv

LEMMA AppearKeeps ==
    ASSUME PagingInv, NEW s \in Id, Appear(s)
    PROVE  PagingInv'
<1>1. /\ page > 0 /\ s \notin ever /\ s \notin store /\ \A t \in store : t < s
      /\ store' = store \cup {s} /\ ever' = ever \cup {s}
      /\ page' = page /\ got' = got /\ atStart' = atStart
    BY DEF Appear, PagingInv, HistoryIsExact
<1>2. /\ store \in SUBSET Nat /\ s \in Nat /\ store \subseteq ever /\ atStart \subseteq ever
      /\ ToSet(got) \subseteq ever
    BY PagingFacts, PagingAssumption DEF PagingInv, HistoryIsExact
<1>3. \A x \in store : Rank(x, store') = Rank(x, store)
    BY <1>1, <1>2, RankKept
<1>4. PagingTypeOK' /\ NoneTwice' /\ MissesBounded'
    BY <1>1 DEF PagingInv, PagingTypeOK, NoneTwice, MissesBounded
<1>5. HistoryIsExact'
    BY <1>1, <1>2 DEF HistoryIsExact
<1>6. PagesWereFull'
  <2>1. ToSet(got') \cap store' = ToSet(got) \cap store
      BY <1>1, <1>2
  <2> QED BY <1>1, <1>3, <2>1 DEF PagingInv, PagesWereFull
<1>7. Overlooked' = Overlooked
  <2>1. (atStart \cap store)' = atStart \cap store
      BY <1>1, <1>2
  <2> QED BY <1>1, <1>3, <2>1 DEF Overlooked
<1>8. (ever \ store)' = ever \ store
    BY <1>1
<1>9. FewOverlooked'
    BY <1>1, <1>7, <1>8 DEF PagingInv, FewOverlooked
<1> QED BY <1>4, <1>5, <1>6, <1>9 DEF PagingInv

LEMMA DisappearKeeps ==
    ASSUME PagingInv, NEW s \in Id, Disappear(s)
    PROVE  PagingInv'
<1>1. /\ page > 0 /\ s \in store /\ store' = store \ {s}
      /\ ever' = ever /\ page' = page /\ got' = got /\ atStart' = atStart
    BY DEF Disappear
<1>2. /\ store \in SUBSET Nat /\ IsFiniteSet(store) /\ store \subseteq ever /\ atStart \subseteq ever
      /\ ToSet(got) \subseteq ever /\ store \in SUBSET Id /\ page \in Nat \ {0}
    BY <1>1, PagingFacts DEF PagingInv, HistoryIsExact, PagingTypeOK
<1>3. \A x \in store : /\ Rank(x, store) \in Nat /\ Rank(x, store') \in Nat
                       /\ Rank(x, store') <= Rank(x, store)
                       /\ Rank(x, store) <= Rank(x, store') + 1
    BY <1>1, <1>2, RankFalls
<1>4. Behind(page) \in Nat
    BY <1>2, BehindGrows
<1>5. PagingTypeOK' /\ NoneTwice' /\ MissesBounded'
    BY <1>1, <1>2 DEF PagingInv, PagingTypeOK, NoneTwice, MissesBounded
<1>6. HistoryIsExact'
    BY <1>1, <1>2 DEF HistoryIsExact
<1>7. PagesWereFull'
  <2>1. Len(got) = Behind(page) /\ \A x \in ToSet(got) \cap store : Rank(x, store) <= Behind(page)
      BY <1>1 DEF PagingInv, PagesWereFull
  <2>2. ASSUME NEW x \in ToSet(got) \cap store' PROVE Rank(x, store') <= Behind(page)
    <3>1. x \in store /\ Rank(x, store) <= Behind(page)
        BY <1>1, <2>1, <2>2
    <3> QED BY <1>3, <1>4, <3>1
  <2> QED BY <1>1, <2>1, <2>2 DEF PagesWereFull
<1>8. /\ IsFiniteSet(Overlooked) /\ Cardinality(Overlooked) \in Nat
      /\ IsFiniteSet(ever \ store) /\ Cardinality(ever \ store) \in Nat
      /\ Cardinality(Overlooked) <= Cardinality(ever \ store)
    BY <1>1, PagingFacts DEF PagingInv, FewOverlooked
<1>9. Cardinality((ever \ store)') = Cardinality(ever \ store) + 1
  <2>1. (ever \ store)' = (ever \ store) \cup {s}
      BY <1>1, <1>2
  <2> QED BY <1>1, <1>8, <2>1, FS_AddElement
<1>10. \E z : Overlooked' \subseteq Overlooked \cup {z}
  <2>1. \A x \in Overlooked' \ Overlooked : x \in store /\ Rank(x, store) = Behind(page) + 1
    <3> SUFFICES ASSUME NEW x \in Overlooked' \ Overlooked
                 PROVE  x \in store /\ Rank(x, store) = Behind(page) + 1
        OBVIOUS
    <3>1. /\ x \in atStart \cap store /\ x \notin ToSet(got)
          /\ Rank(x, store') <= Behind(page) /\ ~(Rank(x, store) <= Behind(page))
        BY <1>1 DEF Overlooked
    <3> QED BY <1>3, <1>4, <3>1
  <2>2. \A x, y \in Overlooked' \ Overlooked : x = y
    <3>1. \A x, y \in store : Rank(x, store) = Rank(y, store) => x = y
        BY <1>2, Ranks
    <3> QED BY <2>1, <3>1
  <2>3. CASE Overlooked' \ Overlooked = {}
      BY <2>3
  <2>4. CASE Overlooked' \ Overlooked # {}
    <3>1. PICK z \in Overlooked' \ Overlooked : TRUE
        BY <2>4
    <3>2. Overlooked' \subseteq Overlooked \cup {z}
        BY <2>2, <3>1
    <3> QED BY <3>2
  <2> QED BY <2>3, <2>4
<1>11. Cardinality(Overlooked') \in Nat /\ Cardinality(Overlooked') <= Cardinality(Overlooked) + 1
  <2>1. PICK z : Overlooked' \subseteq Overlooked \cup {z}
      BY <1>10
  <2>2. /\ IsFiniteSet(Overlooked \cup {z})
        /\ Cardinality(Overlooked \cup {z}) \in Nat
        /\ Cardinality(Overlooked \cup {z}) <= Cardinality(Overlooked) + 1
    <3> DEFINE wider == Overlooked \cup {z}
    <3>1. /\ IsFiniteSet(wider)
          /\ Cardinality(wider) = IF z \in Overlooked THEN Cardinality(Overlooked)
                                                    ELSE Cardinality(Overlooked) + 1
        BY <1>8, FS_AddElement
    <3> HIDE DEF wider
    <3>2. Cardinality(wider) \in Nat /\ Cardinality(wider) <= Cardinality(Overlooked) + 1
        BY <1>8, <3>1
    <3> QED BY <3>1, <3>2 DEF wider
  <2>3. Cardinality(Overlooked') \in Nat /\ Cardinality(Overlooked') <= Cardinality(Overlooked \cup {z})
      BY <2>1, <2>2, FS_Subset, FS_CardinalityType
  <2> QED BY <1>8, <2>2, <2>3
<1>12. FewOverlooked'
    BY <1>8, <1>9, <1>11 DEF FewOverlooked
<1> QED BY <1>5, <1>6, <1>7, <1>12 DEF PagingInv

LEMMA PagingStep == PagingInv /\ [PagingNext]_pagingVars => PagingInv'
<1> SUFFICES ASSUME PagingInv, [PagingNext]_pagingVars PROVE PagingInv'
    OBVIOUS
<1>1. CASE UNCHANGED pagingVars
    BY <1>1 DEF pagingVars, PagingInv, PagingTypeOK, HistoryIsExact, NoneTwice, PagesWereFull,
                FewOverlooked, Overlooked, MissesBounded
<1> QED BY <1>1, StartListingKeeps, FetchPageKeeps, EndListingKeeps, AppearKeeps, DisappearKeeps
        DEF PagingNext

================================================================================
