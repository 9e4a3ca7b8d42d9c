----------------------------- MODULE MainLoopProofs -----------------------------
(***************************************************************************)
(* The loop of main, for every number of servers and every size of a page: *)
(* the listing under way is as PagingProofs has it, the positions of a     *)
(* pass stay valid, no server has two entries, and each pass visits every  *)
(* server it chose once (the refinement of Visits).                        *)
(***************************************************************************)
EXTENDS MainLoop, PagingProofs

Node == [id : Id, state : States]

(***************************************************************************)
(* Positions and vectors                                                   *)
(***************************************************************************)
LEMMA Extremes ==
    ASSUME NEW S \in SUBSET Nat, IsFiniteSet(S), S # {}
    PROVE  /\ Max(S) \in S /\ \A x \in S : x <= Max(S)
           /\ Min(S) \in S /\ \A x \in S : Min(S) <= x
<1> DEFINE f == Ascending(S)
           n == Cardinality(S)
<1>1. IsAscending(f, S)
    BY AscendingExists
<1> HIDE DEF f
<1>2. n \in Nat /\ \A x \in S : \E k \in 1..n : f[k] = x
    BY <1>1, AscendingOnto
<1>3. \A k \in 1..n : f[k] \in S /\ f[k] \in Nat
    BY <1>1 DEF IsAscending
<1>4. \A i, j \in 1..n : i < j => f[i] < f[j]
    BY <1>1 DEF IsAscending
<1> HIDE DEF n
<1>5. 1 \in 1..n /\ n \in 1..n
  <2>1. PICK x \in S : TRUE
      OBVIOUS
  <2>2. PICK k \in 1..n : f[k] = x
      BY <1>2, <2>1
  <2> QED BY <1>2, <2>2
<1>6. ASSUME NEW y \in S PROVE f[1] <= y /\ y <= f[n]
  <2>1. PICK k \in 1..n : f[k] = y
      BY <1>2
  <2>2. f[1] \in Nat /\ f[k] \in Nat /\ f[n] \in Nat
      BY <1>3, <1>5
  <2>3. k = n \/ k < n
      BY <1>2
  <2>4. k = 1 \/ 1 < k
      BY <1>2
  <2>5. f[k] <= f[n]
      BY <1>4, <1>5, <2>2, <2>3
  <2>6. f[1] <= f[k]
      BY <1>4, <1>5, <2>2, <2>4
  <2> QED BY <2>1, <2>5, <2>6
<1>7. \E x \in S : \A y \in S : x >= y
  <2>1. f[n] \in S /\ \A y \in S : f[n] >= y
      BY <1>3, <1>5, <1>6
  <2> QED BY <2>1
<1>8. \E x \in S : \A y \in S : x =< y
  <2>1. f[1] \in S /\ \A y \in S : f[1] =< y
      BY <1>3, <1>5, <1>6
  <2> QED BY <2>1
<1>9. Max(S) \in S /\ \A y \in S : Max(S) >= y
    BY <1>7, Zenon DEF Max
<1>10. Min(S) \in S /\ \A y \in S : Min(S) =< y
    BY <1>8, Zenon DEF Min
<1> QED BY <1>9, <1>10

(* Some of the positions of a sequence.                                    *)
LEMMA SomePositions ==
    ASSUME NEW T, NEW s \in Seq(T), NEW P \in SUBSET (DOMAIN s)
    PROVE  P \in SUBSET Nat /\ IsFiniteSet(P)
<1>1. DOMAIN s = 1..Len(s) /\ Len(s) \in Nat
    OBVIOUS
<1>2. IsFiniteSet(1..Len(s))
    BY <1>1, IntervalFinite
<1> QED BY <1>1, <1>2, FS_Subset

LEMMA Removed ==
    ASSUME NEW T, NEW s \in Seq(T), NEW i \in DOMAIN s
    PROVE  /\ RemoveAt(s, i) \in Seq(T)
           /\ Len(RemoveAt(s, i)) = Len(s) - 1
           /\ \A j \in 1..(Len(s) - 1) : RemoveAt(s, i)[j] = IF j < i THEN s[j] ELSE s[j + 1]
<1> DEFINE n == Len(s)
           a == SubSeq(s, 1, i - 1)
           b == SubSeq(s, i + 1, n)
           c == a \o b
<1>1. n \in Nat /\ i \in 1..n /\ i \in Nat /\ DOMAIN s = 1..n
    OBVIOUS
<1>2. /\ a \in Seq(T) /\ Len(a) = i - 1
      /\ \A j \in 1..(i - 1) : a[j] = s[j]
  <2>1. 1 \in 1..(n + 1) /\ i - 1 \in 0..n /\ i - 1 \in Nat
      BY <1>1
  <2> QED BY <1>1, <2>1, SubSeqProperties
<1>3. /\ b \in Seq(T) /\ Len(b) = n - i
      /\ \A j \in 1..(n - i) : b[j] = s[i + j]
  <2>1. i + 1 \in 1..(n + 1) /\ n \in i..n
      BY <1>1
  <2> QED BY <1>1, <2>1, SubSeqProperties
<1>4. RemoveAt(s, i) = c
    BY DEF RemoveAt
<1> HIDE DEF a, b
<1>5. /\ c \in Seq(T) /\ Len(c) = Len(a) + Len(b)
      /\ \A j \in 1..(Len(a) + Len(b)) : c[j] = IF j <= Len(a) THEN a[j] ELSE b[j - Len(a)]
    BY <1>2, <1>3, ConcatProperties
<1> HIDE DEF c, n
<1>6. Len(c) = n - 1
    BY <1>1, <1>2, <1>3, <1>5
<1>7. ASSUME NEW j \in 1..(n - 1)
      PROVE  c[j] = IF j < i THEN s[j] ELSE s[j + 1]
  <2>1. /\ j \in Nat /\ j \in 1..(Len(a) + Len(b))
        /\ c[j] = IF j <= i - 1 THEN a[j] ELSE b[j - (i - 1)]
      BY <1>1, <1>2, <1>3, <1>5
  <2>2. CASE j < i
    <3>1. j \in 1..(i - 1)
        BY <1>1, <2>1, <2>2
    <3> QED BY <1>2, <2>1, <2>2, <3>1
  <2>3. CASE ~(j < i)
    <3>1. j - (i - 1) \in 1..(n - i) /\ i + (j - (i - 1)) = j + 1 /\ ~(j <= i - 1)
        BY <1>1, <2>1, <2>3
    <3>2. c[j] = b[j - (i - 1)]
        BY <2>1, <3>1
    <3> QED BY <1>3, <2>3, <3>1, <3>2
  <2> QED BY <2>2, <2>3
<1> QED BY <1>4, <1>5, <1>6, <1>7 DEF n

(***************************************************************************)
(* Entries of different servers                                            *)
(***************************************************************************)
DistinctIds(q) == \A i, j \in DOMAIN q : q[i].id = q[j].id => i = j

LEMMA OfNodes ==
    ASSUME NEW q \in Seq(Node)
    PROVE  /\ Len(q) \in Nat /\ DOMAIN q = 1..Len(q)
           /\ \A i \in DOMAIN q : q[i] \in Node /\ q[i].id \in Id /\ q[i].state \in States
           /\ Ids(q) \in SUBSET Id
<1>1. Len(q) \in Nat /\ DOMAIN q = 1..Len(q) /\ \A i \in DOMAIN q : q[i] \in Node
    OBVIOUS
<1>2. \A i \in DOMAIN q : q[i].id \in Id /\ q[i].state \in States
    BY <1>1 DEF Node
<1> QED BY <1>1, <1>2 DEF Ids

LEMMA FewEnough ==
    ASSUME NEW q \in Seq(Node), DistinctIds(q)
    PROVE  Cardinality(Id) \in Nat /\ Len(q) <= Cardinality(Id) /\ q \in BoundedSeq(Node, Cardinality(Id))
<1> DEFINE f == [i \in 1..Len(q) |-> q[i].id]
<1>1. Len(q) \in Nat /\ DOMAIN q = 1..Len(q) /\ \A i \in DOMAIN q : q[i].id \in Id
    BY OfNodes
<1>2. f \in [1..Len(q) -> Id] /\ \A i, j \in 1..Len(q) : f[i] = f[j] => i = j
    BY <1>1 DEF DistinctIds
<1> HIDE DEF f
<1>3. f \in Injection(1..Len(q), Id)
    BY <1>2, Fun_IsInj
<1>4. Cardinality(1..Len(q)) = Len(q)
    BY <1>1, IntervalFinite
<1>5. Len(q) <= Cardinality(Id)
    BY <1>3, <1>4, PagingAssumption, FS_Injection
<1>6. Cardinality(Id) \in Nat
    BY PagingAssumption, FS_CardinalityType
<1> QED BY <1>5, <1>6, Bounded

LEMMA PickedDistinct ==
    ASSUME NEW q \in Seq(Node), DistinctIds(q), NEW P \in SUBSET (DOMAIN q)
    PROVE  /\ Picked(q, P) \in Seq(Node)
           /\ DistinctIds(Picked(q, P))
           /\ \A x \in Ids(Picked(q, P)) : \E i \in P : x = q[i].id
<1> DEFINE r == Picked(q, P)
           n == Cardinality(P)
<1>1. r \in Seq(Node) /\ \E p : Picks(p, r, q, P)
    BY PickedInOrder
<1> HIDE DEF r
<1>2. PICK p : Picks(p, r, q, P)
    BY <1>1
<1>3. /\ DOMAIN r = 1..n
      /\ \A i \in 1..n : p[i] \in P /\ r[i] = q[p[i]]
      /\ \A i, j \in 1..n : p[i] = p[j] => i = j
    BY <1>2 DEF Picks
<1> HIDE DEF n
<1>4. DistinctIds(r)
    BY <1>3 DEF DistinctIds
<1>5. \A x \in Ids(r) : \E i \in P : x = q[i].id
    BY <1>3 DEF Ids
<1> QED BY <1>1, <1>4, <1>5 DEF r

LEMMA PickedOnce ==
    ASSUME NEW q \in Seq(Id), IsInjective(q), NEW P \in SUBSET (DOMAIN q)
    PROVE  /\ Picked(q, P) \in Seq(Id)
           /\ IsInjective(Picked(q, P))
           /\ \A k \in DOMAIN Picked(q, P) : \E i \in P : Picked(q, P)[k] = q[i]
<1> DEFINE r == Picked(q, P)
           n == Cardinality(P)
<1>1. r \in Seq(Id) /\ \E p : Picks(p, r, q, P)
    BY PickedInOrder
<1> HIDE DEF r
<1>2. PICK p : Picks(p, r, q, P)
    BY <1>1
<1>3. /\ DOMAIN r = 1..n
      /\ \A i \in 1..n : p[i] \in P /\ r[i] = q[p[i]]
      /\ \A i, j \in 1..n : p[i] = p[j] => i = j
    BY <1>2 DEF Picks
<1> HIDE DEF n
<1>4. IsInjective(r)
    BY <1>3 DEF IsInjective
<1>5. \A k \in DOMAIN r : \E i \in P : r[k] = q[i]
    BY <1>3
<1> QED BY <1>1, <1>4, <1>5 DEF r

LEMMA ConcatDistinct ==
    ASSUME NEW a \in Seq(Node), NEW b \in Seq(Node), DistinctIds(a), DistinctIds(b),
           Ids(a) \cap Ids(b) = {}
    PROVE  /\ a \o b \in Seq(Node)
           /\ DistinctIds(a \o b)
<1> DEFINE c == a \o b
<1>1. /\ Len(a) \in Nat /\ DOMAIN a = 1..Len(a)
      /\ Len(b) \in Nat /\ DOMAIN b = 1..Len(b)
    BY OfNodes
<1>2. /\ c \in Seq(Node) /\ Len(c) = Len(a) + Len(b)
      /\ \A i \in 1..(Len(a) + Len(b)) : c[i] = IF i <= Len(a) THEN a[i] ELSE b[i - Len(a)]
    BY ConcatProperties
<1> HIDE DEF c
<1>3. DOMAIN c = 1..(Len(a) + Len(b))
    BY <1>2
<1>4. \A i \in DOMAIN c : \/ i \in DOMAIN a /\ c[i] = a[i]
                          \/ i - Len(a) \in DOMAIN b /\ c[i] = b[i - Len(a)]
    BY <1>1, <1>2, <1>3
<1>5. ASSUME NEW i \in DOMAIN c, NEW j \in DOMAIN c, c[i].id = c[j].id
      PROVE  i = j
  <2>1. CASE i \in DOMAIN a /\ c[i] = a[i] /\ j \in DOMAIN a /\ c[j] = a[j]
      BY <1>5, <2>1 DEF DistinctIds
  <2>2. CASE /\ i - Len(a) \in DOMAIN b /\ c[i] = b[i - Len(a)]
             /\ j - Len(a) \in DOMAIN b /\ c[j] = b[j - Len(a)]
    <3>1. i - Len(a) = j - Len(a)
        BY <1>5, <2>2 DEF DistinctIds
    <3> QED BY <1>1, <1>3, <3>1
  <2>3. CASE i \in DOMAIN a /\ c[i] = a[i] /\ j - Len(a) \in DOMAIN b /\ c[j] = b[j - Len(a)]
      BY <1>5, <2>3 DEF Ids
  <2>4. CASE j \in DOMAIN a /\ c[j] = a[j] /\ i - Len(a) \in DOMAIN b /\ c[i] = b[i - Len(a)]
      BY <1>5, <2>4 DEF Ids
  <2> QED BY <1>4, <2>1, <2>2, <2>3, <2>4
<1> QED BY <1>2, <1>5 DEF c, DistinctIds

LEMMA RemovedDistinct ==
    ASSUME NEW q \in Seq(Node), DistinctIds(q), NEW i \in DOMAIN q
    PROVE  /\ RemoveAt(q, i) \in Seq(Node)
           /\ DistinctIds(RemoveAt(q, i))
           /\ Ids(RemoveAt(q, i)) = Ids(q) \ {q[i].id}
<1> DEFINE r == RemoveAt(q, i)
           n == Len(q)
<1>1. /\ r \in Seq(Node) /\ Len(r) = n - 1
      /\ \A j \in 1..(n - 1) : r[j] = IF j < i THEN q[j] ELSE q[j + 1]
    BY Removed
<1> HIDE DEF r
<1>2. n \in Nat /\ DOMAIN q = 1..n /\ i \in 1..n /\ DOMAIN r = 1..(n - 1)
    BY <1>1, OfNodes
<1> HIDE DEF n
<1> DEFINE from(j) == IF j < i THEN j ELSE j + 1
<1>3. \A j \in DOMAIN r : from(j) \in DOMAIN q /\ from(j) # i /\ r[j] = q[from(j)]
    BY <1>1, <1>2
<1>4. \A j, k \in DOMAIN r : from(j) = from(k) => j = k
    BY <1>2
<1>5. \A k \in DOMAIN q \ {i} : \E j \in DOMAIN r : from(j) = k
  <2> SUFFICES ASSUME NEW k \in DOMAIN q \ {i} PROVE \E j \in DOMAIN r : from(j) = k
      OBVIOUS
  <2>1. CASE k < i
    <3>1. k \in DOMAIN r /\ from(k) = k
        BY <1>2, <2>1
    <3> QED BY <3>1
  <2>2. CASE ~(k < i)
    <3>1. k - 1 \in DOMAIN r /\ from(k - 1) = k
        BY <1>2, <2>2
    <3> QED BY <3>1
  <2> QED BY <2>1, <2>2
<1> HIDE DEF from
<1>6. DistinctIds(r)
    BY <1>3, <1>4 DEF DistinctIds
<1>7. ASSUME NEW x \in Ids(r) PROVE x \in Ids(q) \ {q[i].id}
    BY <1>3, <1>7 DEF Ids, DistinctIds
<1>8. ASSUME NEW x \in Ids(q) \ {q[i].id} PROVE x \in Ids(r)
  <2>1. PICK k \in DOMAIN q \ {i} : x = q[k].id
      BY <1>8 DEF Ids
  <2>2. PICK j \in DOMAIN r : from(j) = k
      BY <1>5
  <2> QED BY <1>3, <2>1, <2>2 DEF Ids
<1> QED BY <1>1, <1>6, <1>7, <1>8 DEF r

--------------------------------------------------------------------------------
(***************************************************************************)
(* Reconciliation                                                          *)
(***************************************************************************)
Tracking == nodes \in Seq(Node) /\ DistinctIds(nodes)

LEMMA StatesPreserved ==
    ASSUME Tracking, NEW s, NEW state \in States
    PROVE  Preserved(s, state) \in States
<1> DEFINE torn == {i \in Positions(InTeardown) : nodes[i].id = s}
<1>1. torn \in SUBSET (DOMAIN nodes)
    BY DEF Positions
<1>2. Preserved(s, state) = IF torn = {} THEN state ELSE nodes[Min(torn)].state
    BY DEF Preserved
<1> HIDE DEF torn
<1>3. torn # {} => Min(torn) \in DOMAIN nodes
    BY <1>1, SomePositions, Extremes DEF Tracking
<1> QED BY <1>2, <1>3, OfNodes DEF Tracking

LEMMA ListedDistinct ==
    ASSUME Tracking, NEW listed \in Seq(Id), IsInjective(listed),
           NEW found \in [ToSet(listed) -> (States \ {"Removing"}) \cup {"stuck"}]
    PROVE  Listed(listed, found) \in Seq(Node) /\ DistinctIds(Listed(listed, found))
<1> DEFINE P == {i \in DOMAIN listed : found[listed[i]] # "stuck"}
           kept == Picked(listed, P)
           entries == [k \in DOMAIN kept |-> Entry(kept[k], Preserved(kept[k], found[kept[k]]))]
<1>1. Listed(listed, found) = entries
    BY DEF Listed
<1>2. \A i \in P : found[listed[i]] \in States
  <2> SUFFICES ASSUME NEW i \in P PROVE found[listed[i]] \in States
      OBVIOUS
  <2>1. listed[i] \in ToSet(listed)
      BY DEF ToSet
  <2> QED BY <2>1
<1>3. P \in SUBSET (DOMAIN listed)
    OBVIOUS
<1> HIDE DEF P
<1>4. /\ kept \in Seq(Id) /\ IsInjective(kept)
      /\ \A k \in DOMAIN kept : \E i \in P : kept[k] = listed[i]
    BY <1>3, PickedOnce
<1> HIDE DEF kept
<1>5. Len(kept) \in Nat /\ DOMAIN kept = 1..Len(kept) /\ \A k \in DOMAIN kept : kept[k] \in Id
    BY <1>4
<1>6. ASSUME NEW k \in DOMAIN kept
      PROVE  entries[k] \in Node /\ entries[k].id = kept[k]
  <2>1. found[kept[k]] \in States
      BY <1>2, <1>4
  <2>2. Preserved(kept[k], found[kept[k]]) \in States
      BY <2>1, StatesPreserved
  <2>3. kept[k] \in Id
      BY <1>5
  <2> QED BY <2>2, <2>3 DEF Entry, Node
<1>7. DOMAIN entries = DOMAIN kept
    OBVIOUS
<1>8. entries \in [1..Len(kept) -> Node]
    BY <1>5, <1>6
<1> HIDE DEF entries
<1>9. entries \in Seq(Node)
    BY <1>5, <1>8, SeqDef
<1>10. DistinctIds(entries)
    BY <1>4, <1>6, <1>7 DEF DistinctIds, IsInjective
<1> QED BY <1>1, <1>9, <1>10

LEMMA CarriedDistinct ==
    ASSUME Tracking, NEW entries \in Seq(Node), DistinctIds(entries), NEW late
    PROVE  Carried(entries, late) \in Seq(Node) /\ DistinctIds(Carried(entries, late))
<1> DEFINE untracked == {i \in Staying(late) : nodes[i].id \notin Ids(entries)}
           P == {i \in untracked : \A j \in untracked : j < i => nodes[j].id # nodes[i].id}
           more == Picked(nodes, P)
<1>1. Carried(entries, late) = entries \o more
    BY DEF Carried
<1>2. P \in SUBSET (DOMAIN nodes)
    BY DEF Staying, Positions
<1>3. \A i \in P : nodes[i].id \notin Ids(entries)
    OBVIOUS
<1> HIDE DEF P
<1>4. /\ more \in Seq(Node) /\ DistinctIds(more)
      /\ \A x \in Ids(more) : \E i \in P : x = nodes[i].id
    BY <1>2, PickedDistinct DEF Tracking
<1> HIDE DEF more
<1>5. Ids(entries) \cap Ids(more) = {}
    BY <1>3, <1>4
<1> QED BY <1>1, <1>4, <1>5, ConcatDistinct

LEMMA ActionsOfServers ==
    ASSUME Tracking, NEW listed \in Seq(Id), IsInjective(listed), NEW found, NEW entries, NEW late
    PROVE  Actions(listed, found, entries, late) \in Seq(Id)
<1> DEFINE P == {i \in Positions({"Provisioning"}) : nodes[i].id \in late \ Ids(entries)}
           Q == {i \in DOMAIN listed : found[listed[i]] = "stuck"}
           ghosts == Picked(nodes, P)
           stuck == Picked(listed, Q)
           ids == [i \in DOMAIN ghosts |-> ghosts[i].id]
<1>1. Actions(listed, found, entries, late) = stuck \o ids
    BY DEF Actions
<1>2. P \in SUBSET (DOMAIN nodes) /\ Q \in SUBSET (DOMAIN listed)
    BY DEF Positions
<1> HIDE DEF P, Q
<1>3. ghosts \in Seq(Node) /\ stuck \in Seq(Id)
    BY <1>2, PickedDistinct, PickedOnce DEF Tracking
<1> HIDE DEF ghosts, stuck
<1>4. Len(ghosts) \in Nat /\ ids \in [1..Len(ghosts) -> Id]
    BY <1>3, OfNodes
<1> HIDE DEF ids
<1>5. ids \in Seq(Id)
    BY <1>4, SeqDef
<1> QED BY <1>1, <1>3, <1>5, ConcatProperties

(* all_actions, sorted and without repetitions.                            *)
LEMMA InOrderOnce ==
    ASSUME NEW actions \in Seq(Id)
    PROVE  InOrder(actions) \in Seq(Id) /\ IsInjective(InOrder(actions))
<1> DEFINE q == InOrder(actions)
<1>1. actions \in Seq(Nat)
    BY PagingAssumption, Widened
<1>2. /\ q \in Seq(Nat) /\ IsInjective(q)
      /\ \A i \in DOMAIN q : \E j \in DOMAIN actions : q[i] = actions[j]
    BY <1>1, DedupOfSorted DEF InOrder
<1> HIDE DEF q
<1>3. Len(q) \in Nat /\ DOMAIN q = 1..Len(q)
    BY <1>2
<1>4. \A j \in DOMAIN actions : actions[j] \in Id
    OBVIOUS
<1>5. q \in [1..Len(q) -> Id]
  <2>1. \A i \in DOMAIN q : q[i] \in Id
      BY <1>2, <1>4
  <2>2. q \in [1..Len(q) -> Nat]
      BY <1>2
  <2> QED BY <1>3, <2>1, <2>2
<1>6. q \in Seq(Id)
    BY <1>3, <1>5, SeqDef
<1> QED BY <1>2, <1>6 DEF q

--------------------------------------------------------------------------------
(***************************************************************************)
(* The passes.  PassInv without its bounds, which follow from the rest.    *)
(***************************************************************************)
Walk ==
    /\ Tracking
    /\ queue \in Seq(Id) /\ IsInjective(queue)
    /\ pass # "stuck" => queue = <<>>
    /\ pass \in {"none", "stuck", "candidates", "advance"}
    /\ todo \in SUBSET (DOMAIN nodes)
    /\ visited \in SUBSET Id
    /\ pass \in {"none", "stuck"} => todo = {}
    /\ pass = "none" => visited = {}
    /\ visited \cap Left = {}

LEMMA WalkIsInv == Walk <=> PassInv
<1>0. Cardinality(Id) \in Nat /\ IsFiniteSet(Id)
    BY PagingAssumption, FS_CardinalityType
<1>1. ASSUME Walk PROVE PassInv
  <2>1. nodes \in BoundedSeq(Node, Cardinality(Id)) /\ DOMAIN nodes \in SUBSET (1..Cardinality(Id))
    <3>1. nodes \in BoundedSeq(Node, Cardinality(Id)) /\ Len(nodes) <= Cardinality(Id)
        BY <1>1, FewEnough DEF Walk, Tracking
    <3>2. DOMAIN nodes = 1..Len(nodes) /\ Len(nodes) \in Nat
        BY <1>1, OfNodes DEF Walk, Tracking
    <3> QED BY <1>0, <3>1, <3>2
  <2>2. queue \in BoundedSeq(Id, 2 * Cardinality(Id))
    <3>1. queue \in Seq(Id) /\ Len(queue) <= Cardinality(Id) /\ Len(queue) \in Nat
        BY <1>0, <1>1, FitsIn DEF Walk
    <3>2. Len(queue) <= 2 * Cardinality(Id) /\ 2 * Cardinality(Id) \in Nat
        BY <1>0, <3>1
    <3> QED BY <3>1, <3>2, Bounded
  <2>3. PassTypeOK
      BY <1>1, <2>1, <2>2 DEF Walk, PassTypeOK, Node
  <2>4. OneEntryEach /\ IndicesStayValid
      BY <1>1 DEF Walk, Tracking, DistinctIds, OneEntryEach, IndicesStayValid
  <2>5. QueueIsExact /\ PassIsExact
      BY <1>1 DEF Walk, QueueIsExact, PassIsExact
  <2> QED BY <2>3, <2>4, <2>5 DEF PassInv
<1>2. ASSUME PassInv PROVE Walk
  <2>1. nodes \in BoundedSeq(Node, Cardinality(Id)) /\ queue \in BoundedSeq(Id, 2 * Cardinality(Id))
      BY <1>2 DEF PassInv, PassTypeOK, Node
  <2>2. nodes \in Seq(Node)
      BY <1>0, <2>1, Unbounded
  <2>3. queue \in Seq(Id)
    <3>1. 2 * Cardinality(Id) \in Nat
        BY <1>0
    <3> QED BY <2>1, <3>1, Unbounded
  <2>4. Tracking
      BY <1>2, <2>2 DEF PassInv, OneEntryEach, Tracking, DistinctIds
  <2> QED BY <1>2, <2>3, <2>4
          DEF PassInv, PassTypeOK, IndicesStayValid, QueueIsExact, PassIsExact, Walk
<1> QED BY <1>1, <1>2

OfServers == Left \in SUBSET Id /\ Ids(nodes) \in SUBSET Id

LEMMA LeftOfServers == Walk => OfServers
<1> SUFFICES ASSUME Walk PROVE OfServers
    OBVIOUS
<1>1. ToSet(queue) \in SUBSET Id
    BY DEF Walk, ToSet
<1>2. (\A i \in DOMAIN nodes : nodes[i].id \in Id) /\ Ids(nodes) \in SUBSET Id
    BY OfNodes DEF Walk, Tracking
<1> QED BY <1>1, <1>2 DEF Left, OfServers

LEMMA LeftOfServersNext == Walk' => OfServers'
BY LeftOfServers, PTL

LEMMA Reconciles ==
    Walk /\ got \in Seq(Id) /\ IsInjective(got) /\ Reconcile(got) => Walk' /\ Visitor!Begin
<1> SUFFICES ASSUME Walk, got \in Seq(Id), IsInjective(got), Reconcile(got)
             PROVE  Walk' /\ Visitor!Begin
    OBVIOUS
<1>1. /\ pass = "none" /\ pass' = "stuck" /\ todo' = todo /\ visited' = visited
      /\ todo = {} /\ visited = {} /\ queue = <<>> /\ Tracking
    BY DEF Reconcile, Walk
<1>2. PICK found \in [ToSet(got) -> (States \ {"Removing"}) \cup {"stuck"}],
           ghosts \in SUBSET Unlisted(nodes, got) :
       \E late \in {{s \in ToSet(got) : found[s] = "stuck"} \cup ghosts},
          entries \in {Listed(got, found)} :
       \E tracked \in {Carried(entries, late)} :
          /\ \E vanished \in SUBSET Unlisted(tracked, got) :
                nodes' = Picked(tracked, {i \in DOMAIN tracked : tracked[i].id \notin vanished})
          /\ queue' = InOrder(Actions(got, found, entries, late))
    BY DEF Reconcile
<1> DEFINE entries == Listed(got, found)
           late == {s \in ToSet(got) : found[s] = "stuck"} \cup ghosts
           tracked == Carried(entries, late)
           actions == Actions(got, found, entries, late)
<1>3. /\ \E vanished \in SUBSET Unlisted(tracked, got) :
            nodes' = Picked(tracked, {i \in DOMAIN tracked : tracked[i].id \notin vanished})
      /\ queue' = InOrder(actions)
    BY <1>2
<1>4. entries \in Seq(Node) /\ DistinctIds(entries)
    BY <1>1, ListedDistinct
<1> HIDE DEF entries, late
<1>5. tracked \in Seq(Node) /\ DistinctIds(tracked)
    BY <1>1, <1>4, CarriedDistinct
<1>6. actions \in Seq(Id)
    BY <1>1, ActionsOfServers
<1> HIDE DEF tracked, actions
<1>7. \E P \in SUBSET (DOMAIN tracked) : nodes' = Picked(tracked, P)
    BY <1>3
<1>8. Tracking'
    BY <1>5, <1>7, PickedDistinct DEF Tracking
<1>9. queue' \in Seq(Id) /\ IsInjective(queue')
    BY <1>3, <1>6, InOrderOnce
<1>10. Walk'
    BY <1>1, <1>8, <1>9 DEF Walk
<1>11. Left = {}
    BY <1>1, PagingStarts DEF Left
<1> QED BY <1>1, <1>10, <1>11, LeftOfServersNext DEF OfServers, Visitor!Begin

LEMMA HeadVisited ==
    ASSUME NEW q \in Seq(Id), IsInjective(q), q # <<>>
    PROVE  /\ Head(q) \in Id /\ Head(q) \in ToSet(q)
           /\ Tail(q) \in Seq(Id) /\ IsInjective(Tail(q))
           /\ ToSet(Tail(q)) = ToSet(q) \ {Head(q)}
<1>1. /\ Len(q) \in Nat /\ Len(q) > 0 /\ DOMAIN q = 1..Len(q) /\ Head(q) = q[1]
      /\ \A i \in DOMAIN q : q[i] \in Id
    OBVIOUS
<1> DEFINE r == Tail(q)
<1>2. /\ r \in Seq(Id) /\ DOMAIN r = 1..(Len(q) - 1)
      /\ \A i \in 1..(Len(q) - 1) : r[i] = q[i + 1]
    BY <1>1
<1> HIDE DEF r
<1>3. \A i \in DOMAIN r : i + 1 \in DOMAIN q /\ i + 1 # 1 /\ r[i] = q[i + 1]
    BY <1>1, <1>2
<1>4. \A i \in DOMAIN q \ {1} : i - 1 \in DOMAIN r /\ r[i - 1] = q[i]
    BY <1>1, <1>2
<1>5. \A i, j \in DOMAIN q : q[i] = q[j] => i = j
    BY DEF IsInjective
<1>6. \A i, j \in DOMAIN r : r[i] = r[j] => i = j
  <2> SUFFICES ASSUME NEW i \in DOMAIN r, NEW j \in DOMAIN r, r[i] = r[j] PROVE i = j
      OBVIOUS
  <2>1. i + 1 = j + 1
      BY <1>3, <1>5
  <2> QED BY <1>2, <2>1
<1>7. ToSet(r) = ToSet(q) \ {Head(q)}
  <2>1. ASSUME NEW x \in ToSet(r) PROVE x \in ToSet(q) \ {Head(q)}
    <3>1. PICK i \in DOMAIN r : x = r[i]
        BY <2>1 DEF ToSet
    <3>2. i + 1 \in DOMAIN q /\ x = q[i + 1] /\ i + 1 # 1 /\ 1 \in DOMAIN q
        BY <1>1, <1>3, <3>1
    <3>3. x # q[1]
        BY <1>5, <3>2
    <3> QED BY <1>1, <3>2, <3>3 DEF ToSet
  <2>2. ASSUME NEW x \in ToSet(q) \ {Head(q)} PROVE x \in ToSet(r)
    <3>1. PICK i \in DOMAIN q : x = q[i] /\ i # 1
        BY <1>1, <2>2 DEF ToSet
    <3> QED BY <1>4, <3>1 DEF ToSet
  <2> QED BY <2>1, <2>2
<1>8. Head(q) \in Id /\ Head(q) \in ToSet(q)
    BY <1>1 DEF ToSet
<1> QED BY <1>2, <1>6, <1>7, <1>8 DEF r, IsInjective

LEMMA DeletesStuck == Walk /\ DeleteStuck => Walk' /\ \E s \in Id : Visitor!Visit(s)
<1> SUFFICES ASSUME Walk, DeleteStuck PROVE Walk' /\ \E s \in Id : Visitor!Visit(s)
    OBVIOUS
<1> DEFINE s == Head(queue)
           entries == {i \in DOMAIN nodes : nodes[i].id = s}
<1>1. /\ pass = "stuck" /\ queue # <<>> /\ queue' = Tail(queue) /\ visited' = visited \cup {s}
      /\ pass' = pass /\ todo' = todo /\ todo = {}
      /\ \/ nodes' = IF entries = {} THEN nodes ELSE RemoveAt(nodes, Min(entries))
         \/ nodes' = nodes
    BY DEF DeleteStuck, Walk
<1>2. /\ s \in Id /\ s \in ToSet(queue)
      /\ queue' \in Seq(Id) /\ IsInjective(queue')
      /\ ToSet(queue') = ToSet(queue) \ {s}
    BY <1>1, HeadVisited DEF Walk
<1>3. Left = ToSet(queue) /\ Left' = ToSet(queue')
    BY <1>1 DEF Left
<1>4. nodes \in Seq(Node) /\ DistinctIds(nodes) /\ visited \cap Left = {} /\ visited \in SUBSET Id
    BY DEF Walk, Tracking
<1>5. /\ nodes' \in Seq(Node) /\ DistinctIds(nodes')
      /\ Ids(nodes') \in {Ids(nodes), Ids(nodes) \ {s}}
  <2>1. CASE nodes' = nodes
      BY <1>4, <2>1
  <2>2. CASE entries # {} /\ nodes' = RemoveAt(nodes, Min(entries))
    <3>1. entries \in SUBSET (DOMAIN nodes)
        OBVIOUS
    <3>2. Min(entries) \in entries
        BY <1>4, <2>2, <3>1, SomePositions, Extremes
    <3>3. Min(entries) \in DOMAIN nodes /\ nodes[Min(entries)].id = s
        BY <3>2
    <3> QED BY <1>4, <2>2, <3>3, RemovedDistinct
  <2> QED BY <1>1, <2>1, <2>2
<1>6. Walk'
    BY <1>1, <1>2, <1>3, <1>4, <1>5 DEF Walk, Tracking
<1>7. Visitor!Visit(s)
    BY <1>1, <1>2, <1>3, <1>4, <1>5 DEF Visitor!Visit
<1> QED BY <1>2, <1>6, <1>7

LEMMA Creates == \A s \in Id : Walk /\ Create(s) => Walk' /\ Visitor!Begin
<1> SUFFICES ASSUME NEW s \in Id, Walk, Create(s) PROVE Walk' /\ Visitor!Begin
    OBVIOUS
<1> DEFINE new == Entry(s, "Provisioning")
<1>1. /\ pass = "stuck" /\ pass' = pass /\ queue = <<>> /\ queue' = queue /\ todo = {} /\ todo' = todo
      /\ s \notin Ids(nodes) /\ nodes' = Append(nodes, new) /\ visited' = {}
      /\ nodes \in Seq(Node) /\ DistinctIds(nodes)
    BY DEF Create, Walk, Tracking
<1>2. new \in Node /\ new.id = s
    BY DEF Entry, Node, States
<1> HIDE DEF new
<1>3. nodes' \in Seq(Node) /\ DistinctIds(nodes')
  <2>1. /\ Len(nodes) \in Nat /\ DOMAIN nodes = 1..Len(nodes)
        /\ \A i \in DOMAIN nodes : nodes[i].id # s
      BY <1>1, OfNodes DEF Ids
  <2>2. /\ nodes' \in Seq(Node) /\ DOMAIN nodes' = 1..(Len(nodes) + 1)
        /\ \A i \in 1..Len(nodes) : nodes'[i] = nodes[i]
        /\ nodes'[Len(nodes) + 1] = new
      BY <1>1, <1>2, <2>1
  <2>3. \A i \in DOMAIN nodes' : i \in DOMAIN nodes \/ i = Len(nodes) + 1
      BY <2>1, <2>2
  <2>4. ASSUME NEW i \in DOMAIN nodes', NEW j \in DOMAIN nodes', nodes'[i].id = nodes'[j].id
        PROVE  i = j
    <3>1. CASE i \in DOMAIN nodes /\ j \in DOMAIN nodes
        BY <1>1, <2>1, <2>2, <2>4, <3>1 DEF DistinctIds
    <3>2. CASE i \in DOMAIN nodes /\ j = Len(nodes) + 1
        BY <1>2, <2>1, <2>2, <2>4, <3>2
    <3>3. CASE j \in DOMAIN nodes /\ i = Len(nodes) + 1
        BY <1>2, <2>1, <2>2, <2>4, <3>3
    <3> QED BY <2>3, <3>1, <3>2, <3>3
  <2> QED BY <2>2, <2>4 DEF DistinctIds
<1>4. Left = {} /\ Left' = {}
    BY <1>1, PagingStarts DEF Left
<1>5. Walk'
    BY <1>1, <1>3, <1>4 DEF Walk, Tracking
<1> QED BY <1>1, <1>4, <1>5, LeftOfServersNext DEF OfServers, Visitor!Begin

LEMMA FindsCandidates == Walk /\ FindCandidates => Walk' /\ Visitor!Begin
<1> SUFFICES ASSUME Walk, FindCandidates PROVE Walk' /\ Visitor!Begin
    OBVIOUS
<1>1. /\ pass = "stuck" /\ pass' = "candidates" /\ queue = <<>> /\ queue' = queue /\ todo = {}
      /\ todo' \in SUBSET (DOMAIN nodes) /\ nodes' = nodes /\ visited' = {}
    BY DEF FindCandidates, Walk, Positions
<1>2. Walk'
    BY <1>1 DEF Walk, Tracking
<1>3. Left = {}
    BY <1>1, PagingStarts DEF Left
<1> QED BY <1>1, <1>2, <1>3, LeftOfServersNext DEF OfServers, Visitor!Begin

LEMMA FindsInTeardown == Walk /\ FindInTeardown => Walk' /\ Visitor!Begin
<1> SUFFICES ASSUME Walk, FindInTeardown PROVE Walk' /\ Visitor!Begin
    OBVIOUS
<1>1. /\ pass' = "advance" /\ queue = <<>> /\ queue' = queue /\ todo = {}
      /\ todo' \in SUBSET (DOMAIN nodes) /\ nodes' = nodes /\ visited' = {}
    BY DEF FindInTeardown, Walk, Positions
<1>2. Walk'
    BY <1>1 DEF Walk, Tracking
<1>3. Left = {}
    BY <1>1, PagingStarts DEF Left
<1> QED BY <1>1, <1>2, <1>3, LeftOfServersNext DEF OfServers, Visitor!Begin

LEMMA EndsPasses == Walk /\ EndPasses => Walk' /\ Visitor!Begin
<1> SUFFICES ASSUME Walk, EndPasses PROVE Walk' /\ Visitor!Begin
    OBVIOUS
<1>1. /\ pass' = "none" /\ queue = <<>> /\ queue' = queue /\ todo = {} /\ todo' = todo
      /\ nodes' = nodes /\ visited' = {}
    BY DEF EndPasses, Walk
<1>2. Walk'
    BY <1>1 DEF Walk, Tracking
<1>3. Left = {}
    BY <1>1, PagingStarts DEF Left
<1> QED BY <1>1, <1>2, <1>3, LeftOfServersNext DEF OfServers, Visitor!Begin

LEMMA Loses == NodesLost => Walk' /\ Visitor!Lose
<1> SUFFICES ASSUME NodesLost PROVE Walk' /\ Visitor!Lose
    OBVIOUS
<1>1. nodes' = <<>> /\ pass' = "none" /\ queue' = <<>> /\ todo' = {} /\ visited' = {}
    BY DEF NodesLost
<1>2. nodes' \in Seq(Node) /\ queue' \in Seq(Id) /\ DOMAIN nodes' = {}
    BY <1>1
<1>3. DistinctIds(nodes') /\ Ids(nodes') = {}
    BY <1>2 DEF DistinctIds, Ids
<1>4. IsInjective(queue') /\ Left' = {}
    BY <1>1, PagingStarts DEF Left
<1>5. Walk'
    BY <1>1, <1>2, <1>3, <1>4 DEF Walk, Tracking
<1> QED BY <1>1, <1>3, <1>4, <1>5 DEF Visitor!Lose

(* A visit moves no entry before the one it is to, and the positions left  *)
(* are before it.                                                          *)
LEMMA StepKeepsOthers ==
    ASSUME Tracking, NEW i \in DOMAIN nodes, TeardownStep(i)
    PROVE  /\ Tracking'
           /\ Ids(nodes') \in {Ids(nodes), Ids(nodes) \ {nodes[i].id}}
           /\ \A j \in DOMAIN nodes : j < i => j \in DOMAIN nodes' /\ nodes'[j].id = nodes[j].id
<1>1. nodes \in Seq(Node) /\ DistinctIds(nodes)
    BY DEF Tracking
<1>2. Len(nodes) \in Nat /\ DOMAIN nodes = 1..Len(nodes) /\ \A j \in DOMAIN nodes : nodes[j] \in Node
    BY <1>1, OfNodes
<1>3. \/ nodes' = nodes
      \/ \E state \in States : nodes' = [nodes EXCEPT ![i].state = state]
      \/ nodes' = RemoveAt(nodes, i)
    BY DEF TeardownStep, Stays, Becomes, Goes, States
<1>4. CASE nodes' = nodes
    BY <1>1, <1>4 DEF Tracking
<1>5. CASE \E state \in States : nodes' = [nodes EXCEPT ![i].state = state]
  <2>1. PICK state \in States : nodes' = [nodes EXCEPT ![i].state = state]
      BY <1>5
  <2>2. /\ DOMAIN nodes' = DOMAIN nodes
        /\ \A j \in DOMAIN nodes : nodes'[j] \in Node /\ nodes'[j].id = nodes[j].id
    <3>1. DOMAIN nodes' = DOMAIN nodes /\ \A j \in DOMAIN nodes : j # i => nodes'[j] = nodes[j]
        BY <2>1
    <3>2. nodes'[i] = [nodes[i] EXCEPT !.state = state]
        BY <2>1
    <3>3. nodes'[i] \in Node /\ nodes'[i].id = nodes[i].id
        BY <1>2, <3>2 DEF Node
    <3> QED BY <1>2, <3>1, <3>3
  <2>3. nodes' \in [1..Len(nodes) -> Node]
    <3>1. nodes' = [j \in 1..Len(nodes) |-> nodes'[j]]
        BY <1>2, <2>1
    <3> QED BY <1>2, <2>2, <3>1
  <2>4. nodes' \in Seq(Node)
      BY <1>2, <2>3, SeqDef
  <2>5. DistinctIds(nodes') /\ Ids(nodes') = Ids(nodes)
      BY <1>1, <2>2 DEF DistinctIds, Ids
  <2> QED BY <2>2, <2>4, <2>5 DEF Tracking
<1>6. CASE nodes' = RemoveAt(nodes, i)
  <2>1. /\ nodes' \in Seq(Node) /\ DistinctIds(nodes')
        /\ Ids(nodes') = Ids(nodes) \ {nodes[i].id}
      BY <1>1, <1>6, RemovedDistinct
  <2>2. /\ Len(nodes') = Len(nodes) - 1
        /\ \A j \in 1..(Len(nodes) - 1) : nodes'[j] = IF j < i THEN nodes[j] ELSE nodes[j + 1]
      BY <1>1, <1>6, Removed
  <2>3. DOMAIN nodes' = 1..(Len(nodes) - 1)
      BY <2>1, <2>2
  <2>4. ASSUME NEW j \in DOMAIN nodes, j < i
        PROVE  j \in DOMAIN nodes' /\ nodes'[j].id = nodes[j].id
    <3>1. j \in 1..(Len(nodes) - 1)
        BY <1>2, <2>4
    <3> QED BY <2>2, <2>3, <2>4, <3>1
  <2> QED BY <2>1, <2>4 DEF Tracking
<1> QED BY <1>3, <1>4, <1>5, <1>6

LEMMA VisitsNext == Walk /\ VisitNext => Walk' /\ \E s \in Id : Visitor!Visit(s)
<1> SUFFICES ASSUME Walk, VisitNext PROVE Walk' /\ \E s \in Id : Visitor!Visit(s)
    OBVIOUS
<1> DEFINE i == Following(todo)
           s == nodes[i].id
<1>1. /\ pass \in {"candidates", "advance"} /\ pass' = pass /\ todo # {}
      /\ queue = <<>> /\ queue' = queue
      /\ i \in DOMAIN nodes /\ TeardownStep(i) /\ todo' = todo \ {i}
      /\ visited' = visited \cup {s}
    BY DEF VisitNext, Walk
<1>2. Tracking /\ todo \in SUBSET (DOMAIN nodes) /\ visited \in SUBSET Id /\ visited \cap Left = {}
    BY DEF Walk
<1>3. i \in todo /\ \A j \in todo : j <= i
  <2>1. todo \in SUBSET Nat /\ IsFiniteSet(todo)
      BY <1>2, SomePositions DEF Tracking
  <2> QED BY <1>1, <2>1, Extremes DEF Following
<1> HIDE DEF i
<1>4. /\ Tracking'
      /\ Ids(nodes') \in {Ids(nodes), Ids(nodes) \ {s}}
      /\ \A j \in DOMAIN nodes : j < i => j \in DOMAIN nodes' /\ nodes'[j].id = nodes[j].id
    BY <1>1, <1>2, StepKeepsOthers
<1>5. \A j \in todo \ {i} : j \in DOMAIN nodes /\ j < i
  <2>1. DOMAIN nodes \in SUBSET Nat
      BY <1>2, SomePositions DEF Tracking
  <2> QED BY <1>2, <1>3, <2>1
<1>6. Left = {nodes[j].id : j \in todo}
    BY <1>1, <1>2, PagingStarts DEF Left
<1>7. Left' = {nodes[j].id : j \in todo \ {i}}
  <2>1. Left' = {nodes'[j].id : j \in todo' \cap DOMAIN nodes'}
      BY <1>1, PagingStarts DEF Left
  <2>2. todo' \cap DOMAIN nodes' = todo \ {i}
      BY <1>1, <1>4, <1>5
  <2>3. \A j \in todo \ {i} : nodes'[j].id = nodes[j].id
      BY <1>4, <1>5
  <2> QED BY <2>1, <2>2, <2>3
<1>8. s \in Left /\ Left' = Left \ {s}
    BY <1>2, <1>3, <1>6, <1>7 DEF Tracking, DistinctIds
<1>9. s \in Id
    BY <1>1, <1>2, OfNodes DEF Tracking
<1>10. todo' \in SUBSET (DOMAIN nodes')
    BY <1>1, <1>4, <1>5
<1> HIDE DEF s
<1>11. Walk'
    BY <1>1, <1>2, <1>4, <1>8, <1>9, <1>10 DEF Walk
<1>12. Visitor!Visit(s)
    BY <1>1, <1>2, <1>4, <1>8, <1>9 DEF Visitor!Visit
<1> QED BY <1>9, <1>11, <1>12

--------------------------------------------------------------------------------
(***************************************************************************)
(* The loop                                                                *)
(***************************************************************************)
LoopTypeOK ==
    /\ pc \in {"starting", "gitea", "servers", "kube", "work", "push", "sleep", "hung"}
    /\ up \in SUBSET Services
    /\ success \in 0..Stale
    /\ pushed \in 0..Stale

LoopInv == PagingInv /\ Walk /\ LoopTypeOK

LEMMA AgedInRange ==
    ASSUME NEW age \in 0..Stale
    PROVE  Aged(age) \in 0..Stale
<1>1. Stale \in Nat /\ age \in Nat /\ {age + 1, Stale} \in SUBSET Nat
    BY StaleAssumption
<1>2. IsFiniteSet({age + 1, Stale})
    BY <1>1, FS_BoundedSetOfNaturals
<1>3. Aged(age) \in {age + 1, Stale} /\ \A x \in {age + 1, Stale} : Aged(age) <= x
    BY <1>1, <1>2, Extremes DEF Aged
<1> QED BY <1>1, <1>3

LEMMA TypesKept == LoopTypeOK /\ [Next]_vars => LoopTypeOK'
<1> SUFFICES ASSUME LoopTypeOK, [Next]_vars PROVE LoopTypeOK'
    OBVIOUS
<1>1. Stale \in 0..Stale /\ 0 \in 0..Stale
    BY StaleAssumption
<1>2. Aged(success) \in 0..Stale /\ Aged(pushed) \in 0..Stale
    BY AgedInRange DEF LoopTypeOK
<1>3. up' \in SUBSET Services
    BY DEF LoopTypeOK, Next, Process, Start, StartFails, ListJobsAndRunners, ListServers,
           ListNodesAndPods, Work, Complete, Skip, Fail, Push, PushFails, Sleep, Hang, Hung, Crash,
           Outage, Repair, StoreChanges, mainVars, vars
<1>4. pc' \in {"starting", "gitea", "servers", "kube", "work", "push", "sleep", "hung"}
    BY DEF LoopTypeOK, Next, Process, Start, StartFails, ListJobsAndRunners, ListServers,
           ListNodesAndPods, Work, Complete, Skip, Fail, Push, PushFails, Sleep, Hang, Hung, Crash,
           Outage, Repair, StoreChanges, mainVars, vars
<1>5. success' \in {success, 0, Stale, Aged(success)} /\ pushed' \in {pushed, success, Aged(pushed)}
    BY DEF Next, Process, Start, StartFails, ListJobsAndRunners, ListServers, OnOk,
           ListNodesAndPods, Work, Complete, Skip, Fail, Push, PushFails, Sleep, Hang, Hung, Crash,
           Outage, Repair, StoreChanges, mainVars, vars
<1>6. success' \in 0..Stale /\ pushed' \in 0..Stale
    BY <1>1, <1>2, <1>5 DEF LoopTypeOK
<1> QED BY <1>3, <1>4, <1>6 DEF LoopTypeOK

(* What a step of the loop is to the listing ...                           *)
LEMMA LoopLists == [Next]_vars => [PagingNext]_pagingVars
BY DEF PagingNext, Next, Process, Start, StartFails, ListJobsAndRunners, ListServers,
       ListNodesAndPods, Work, Complete, Skip, Fail, Push, PushFails, Sleep, Hang, Hung, Crash,
       Outage, Repair, StoreChanges, vars

(* ... and to the passes.                                                  *)
LEMMA LoopPasses ==
    PagingInv /\ Walk /\ [Next]_vars => Walk' /\ [Visitor!Next]_(Visitor!vars)
<1> SUFFICES ASSUME PagingInv, Walk, [Next]_vars
             PROVE  Walk' /\ [Visitor!Next]_(Visitor!vars)
    OBVIOUS
<1>1. \/ Reconcile(got)
      \/ Pass
      \/ EndPasses
      \/ NodesLost
      \/ UNCHANGED passVars
    BY DEF Next, Process, Start, StartFails, ListJobsAndRunners, ListServers,
           ListNodesAndPods, Work, Complete, Skip, Fail, Push, PushFails, Sleep, Hang, Hung, Crash,
           Outage, Repair, StoreChanges, vars
<1>2. CASE Reconcile(got)
  <2>1. got \in Seq(Id) /\ IsInjective(got)
      BY PagingFacts DEF PagingInv, NoneTwice
  <2> QED BY <1>2, <2>1, Reconciles DEF Visitor!Next
<1>3. CASE Pass
    BY <1>3, DeletesStuck, FindsCandidates, VisitsNext, FindsInTeardown, Creates
       DEF Pass, Visitor!Next
<1>4. CASE EndPasses
    BY <1>4, EndsPasses DEF Visitor!Next
<1>5. CASE NodesLost
    BY <1>5, Loses DEF Visitor!Next
<1>6. CASE UNCHANGED passVars
  <2>1. nodes' = nodes /\ pass' = pass /\ queue' = queue /\ todo' = todo /\ visited' = visited
      BY <1>6 DEF passVars
  <2>2. Walk' /\ Left' = Left /\ Ids(nodes') = Ids(nodes)
      BY <2>1 DEF Walk, Tracking, Left
  <2> QED BY <2>1, <2>2 DEF Visitor!vars
<1> QED BY <1>1, <1>2, <1>3, <1>4, <1>5, <1>6

LEMMA Initially == Init => LoopInv /\ Visitor!Init
<1> SUFFICES ASSUME Init PROVE LoopInv /\ Visitor!Init
    OBVIOUS
<1>1. nodes = <<>> /\ pass = "none" /\ queue = <<>> /\ todo = {} /\ visited = {}
    BY DEF Init, NoNodes
<1>2. nodes \in Seq(Node) /\ queue \in Seq(Id) /\ DOMAIN nodes = {}
    BY <1>1
<1>3. DistinctIds(nodes) /\ Ids(nodes) = {}
    BY <1>2 DEF DistinctIds, Ids
<1>4. IsInjective(queue) /\ Left = {}
    BY <1>1, PagingStarts DEF Left
<1>5. Walk /\ Visitor!Init
    BY <1>1, <1>2, <1>3, <1>4 DEF Walk, Tracking, Visitor!Init
<1>6. LoopTypeOK
    BY StaleAssumption DEF Init, LoopTypeOK
<1> QED BY <1>5, <1>6, PagingInitially DEF Init, LoopInv

LEMMA Invariance == Spec => []LoopInv
<1>1. Init => LoopInv
    BY Initially
<1>2. LoopInv /\ [Next]_vars => LoopInv'
    BY TypesKept, LoopLists, LoopPasses, PagingStep DEF LoopInv
<1> QED BY <1>1, <1>2, PTL DEF Spec

(* What a listing has behind it, whatever appears and disappears between   *)
(* its pages, and a pass, whatever its visits remove.                      *)
THEOREM LoopInductive == Spec => []IInv
<1>1. LoopInv => IInv
    BY WalkIsInv DEF IInv, LoopInv, PagingInv, PassInv, LoopTypeOK, TypeOK
<1> QED BY <1>1, Invariance, PTL

(* Every variable keeps its type: no listing outgrows the servers there    *)
(* are, no vector of nodes the identifiers, for any number of servers and  *)
(* any page size.                                                          *)
THEOREM LoopTypes == Spec => []TypeOK
<1>1. IInv => TypeOK
    BY DEF IInv
<1> QED BY <1>1, LoopInductive, PTL

(* list_servers and list_jobs return nothing twice, whatever appears and   *)
(* disappears between two of their pages.                                  *)
THEOREM ListedOnce == Spec => []NoneTwice
<1>1. IInv => NoneTwice
    BY DEF IInv, PagingInv
<1> QED BY <1>1, LoopInductive, PTL

(* A listing that ends leaves out no more of what was there all the time   *)
(* than disappeared meanwhile.                                             *)
THEOREM FewMissed == Spec => []MissesBounded
<1>1. IInv => MissesBounded
    BY DEF IInv, PagingInv
<1> QED BY <1>1, LoopInductive, PTL

(* No visit of a pass makes a position still to visit invalid.             *)
THEOREM NoIndexPanics == Spec => []IndicesStayValid
<1>1. IInv => IndicesStayValid
    BY DEF IInv, PassInv
<1> QED BY <1>1, LoopInductive, PTL

(* reconcile, carry_forward_state and scale_up track every server once.    *)
THEOREM TrackedOnce == Spec => []OneEntryEach
<1>1. IInv => OneEntryEach
    BY DEF IInv, PassInv
<1> QED BY <1>1, LoopInductive, PTL

(* The passes over the vector implement Visits: each server chosen is      *)
(* visited once, and a visit removes no other.                             *)
THEOREM PassesVisitOnce == Spec => VisitedOnce
<1>1. Init => Visitor!Init
    BY Initially
<1>2. LoopInv /\ [Next]_vars => [Visitor!Next]_(Visitor!vars)
    BY LoopPasses DEF LoopInv
<1> QED BY <1>1, <1>2, Invariance, PTL DEF Spec, Visitor!Spec, VisitedOnce

================================================================================
