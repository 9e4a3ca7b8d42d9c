---------------------------- MODULE FallbackProofs ----------------------------
(***************************************************************************)
(* Servers are created in the order the configuration prefers, and a       *)
(* placement is left alone for the whole of its cooldown, for all lists of *)
(* types and locations and every cooldown.                                 *)
(***************************************************************************)
EXTENDS Fallback, TLAPS, FiniteSetTheorems, SequenceTheorems

(***************************************************************************)
(* Placements lists every type in every location: the first location of a  *)
(* type follows the last one of the type before it.                        *)
(***************************************************************************)
Entry(m, a, b) == (a - 1) * m + b
Position(a, b) == Entry(Len(Locations), a, b)

LEMMA ListLengths ==
    /\ Len(Types) \in Nat \ {0} /\ DOMAIN Types = 1..Len(Types)
    /\ Len(Locations) \in Nat \ {0} /\ DOMAIN Locations = 1..Len(Locations)
BY ListsAssumption DEF ListsAssumption

LEMMA PlacementsShape ==
    /\ Len(Types) * Len(Locations) \in Nat
    /\ Len(Placements) = Len(Types) * Len(Locations)
    /\ DOMAIN Placements = 1..Len(Placements)
    /\ \A i \in 1..Len(Placements) : Placements[i] \in Placement
<1> DEFINE n == Len(Types) * Len(Locations)
<1>1. n \in Nat
    BY ListLengths
<1>2. DOMAIN Placements = 1..n
    BY DEF Placements, Order
<1>3. Placements \in [1..n -> Placement]
    BY <1>2 DEF Placement, Range, Placements, Order
<1>4. Len(Placements) = n
    BY <1>1, <1>2, <1>3, SeqDef, LenProperties
<1> QED BY <1>1, <1>2, <1>3, <1>4

(***************************************************************************)
(* Counting by rows of m.                                                  *)
(***************************************************************************)
LEMMA RowByRow ==
    ASSUME NEW m \in Nat \ {0}, NEW a \in Nat \ {0}, NEW b \in 1..m,
           NEW c \in Nat \ {0}, NEW d \in 1..m, a < c \/ (a = c /\ b < d)
    PROVE  Entry(m, a, b) < Entry(m, c, d)
<1> USE DEF Entry
<1>1. CASE a < c
  <2>1. (c - 1) * m >= a * m /\ a * m = (a - 1) * m + m
      BY <1>1
  <2> QED BY <2>1
<1>2. CASE a = c /\ b < d
    BY <1>2
<1> QED BY <1>1, <1>2

IsFound(m, n, a, b) ==
    /\ Entry(m, a, b) \in 1..(n * m)
    /\ ((Entry(m, a, b) - 1) \div m) + 1 = a
    /\ ((Entry(m, a, b) - 1) % m) + 1 = b

LEMMA EntryAt ==
    ASSUME NEW m \in Nat \ {0}, NEW n \in Nat, NEW a \in 1..n, NEW b \in 1..m
    PROVE  IsFound(m, n, a, b)
<1>1. PICK q \in 0..(n - 1) : q = a - 1
    OBVIOUS
<1>2. PICK r \in 0..(m - 1) : r = b - 1
    OBVIOUS
<1>3. m * q + r \in Nat /\ m * q + r < n * m
    OBVIOUS
<1>4. (m * q + r) \div m = q /\ (m * q + r) % m = r
    OBVIOUS
<1>5. Entry(m, a, b) = m * q + r + 1 /\ Entry(m, a, b) - 1 = m * q + r
    BY <1>1, <1>2 DEF Entry
<1>6. q + 1 = a /\ r + 1 = b
    BY <1>1, <1>2
<1>7. n * m \in Nat
    OBVIOUS
<1>8. Entry(m, a, b) \in 1..(n * m)
    BY <1>3, <1>5, <1>7
<1> QED BY <1>4, <1>5, <1>6, <1>8 DEF IsFound

LEMMA RowAndColumn ==
    ASSUME NEW m \in Nat \ {0}, NEW n \in Nat, NEW i \in 1..(n * m)
    PROVE  \E a \in 1..n, b \in 1..m : i = Entry(m, a, b)
<1>1. PICK k \in Nat : k + 1 = i /\ k < n * m
  <2>1. n * m \in Nat
      OBVIOUS
  <2> QED BY <2>1
<1>2. k \div m \in Nat /\ k % m \in 0..(m - 1) /\ k = m * (k \div m) + (k % m)
    OBVIOUS
<1>3. k \div m < n
    BY <1>1
<1>4. (k \div m) + 1 \in 1..n /\ (k % m) + 1 \in 1..m
    BY <1>2, <1>3
<1>5. i = Entry(m, (k \div m) + 1, (k % m) + 1)
    BY <1>1, <1>2 DEF Entry
<1> QED BY <1>4, <1>5, Zenon

LEMMA PositionFollows ==
    ASSUME NEW a \in DOMAIN Types, NEW b \in DOMAIN Locations,
           NEW c \in DOMAIN Types, NEW d \in DOMAIN Locations,
           a < c \/ (a = c /\ b < d)
    PROVE  Position(a, b) < Position(c, d)
<1>1. a \in Nat \ {0} /\ c \in Nat \ {0}
    BY ListLengths
<1> QED BY <1>1, RowByRow, ListLengths DEF Position

LEMMA PositionInOrder ==
    ASSUME NEW a \in DOMAIN Types, NEW b \in DOMAIN Locations
    PROVE  /\ Position(a, b) \in 1..Len(Placements)
           /\ Placements[Position(a, b)] = <<Types[a], Locations[b]>>
<1>1. /\ Position(a, b) \in 1..(Len(Types) * Len(Locations))
      /\ ((Position(a, b) - 1) \div Len(Locations)) + 1 = a
      /\ ((Position(a, b) - 1) % Len(Locations)) + 1 = b
  <2>1. /\ Len(Types) \in Nat /\ Len(Locations) \in Nat \ {0}
        /\ a \in 1..Len(Types) /\ b \in 1..Len(Locations)
      BY ListLengths
  <2>2. IsFound(Len(Locations), Len(Types), a, b)
      BY <2>1, EntryAt, Zenon
  <2> QED BY <2>2, Zenon DEF Position, IsFound
<1>2. Placements[Position(a, b)] =
          <<Types[((Position(a, b) - 1) \div Len(Locations)) + 1],
            Locations[((Position(a, b) - 1) % Len(Locations)) + 1]>>
    BY <1>1, Zenon DEF Placements, Order
<1>3. Placements[Position(a, b)] = <<Types[a], Locations[b]>>
    BY <1>1, <1>2
<1> QED BY <1>1, <1>3, PlacementsShape

LEMMA EveryPosition ==
    ASSUME NEW i \in DOMAIN Placements
    PROVE  \E c \in DOMAIN Types, d \in DOMAIN Locations :
              i = Position(c, d) /\ Placements[i] = <<Types[c], Locations[d]>>
<1>1. i \in 1..(Len(Types) * Len(Locations))
    BY PlacementsShape
<1>2. PICK c \in DOMAIN Types, d \in DOMAIN Locations : i = Position(c, d)
  <2>1. Len(Types) \in Nat /\ Len(Locations) \in Nat \ {0}
      BY ListLengths
  <2>2. \E c \in 1..Len(Types), d \in 1..Len(Locations) : i = Entry(Len(Locations), c, d)
      BY <1>1, <2>1, RowAndColumn, Zenon
  <2> QED BY <2>2, ListLengths, Zenon DEF Position
<1> QED BY <1>2, PositionInOrder

--------------------------------------------------------------------------------
(***************************************************************************)
(* A map in memory, some of whose keys are there.                          *)
(***************************************************************************)
Map(f, S, T) == DOMAIN f \subseteq S /\ f \in [DOMAIN f -> T]

LEMMA PartialMap ==
    ASSUME NEW S, NEW T, NEW f
    PROVE  f \in Partial(S, T) <=> Map(f, S, T)
<1>1. ASSUME f \in Partial(S, T) PROVE Map(f, S, T)
  <2>1. PICK D \in SUBSET S : f \in [D -> T]
      BY <1>1, Zenon DEF Partial
  <2>2. DOMAIN f = D
      BY <2>1
  <2> QED BY <2>1, <2>2 DEF Map
<1>2. ASSUME Map(f, S, T) PROVE f \in Partial(S, T)
    BY <1>2 DEF Partial, Map
<1> QED BY <1>1, <1>2

(***************************************************************************)
(* The invariant in four parts, by what the actions touch together.        *)
(***************************************************************************)
WorldOK ==
    /\ stock \subseteq Placement
    /\ cloud \in [Server -> {"free", "new", "up", "gone"}]
    /\ born \in [Server -> Placement \cup {Nowhere}]
    /\ grown \subseteq Server

BlameOK ==
    /\ nodes \in [Server -> {"absent", "Provisioning", "Joined"}]
    /\ Map(pending, Server, Placement)
    /\ todo \subseteq Server
    /\ fresh \subseteq Server
    /\ BlameIsExact

CoolingOK ==
    /\ Map(unavailable, Placement, 0..Cooldown)
    /\ quiet \in [Placement -> 0..Cooldown]
    /\ CooldownsAreExact

RankOK ==
    /\ pc \in {"reconcile", "vanished", "create"}
    /\ want \in 0..MaxNodes
    /\ rank \in 1..(Len(Placements) + 1)
    /\ TriedInOrder

CalmOK == calm \in BOOLEAN

LEMMA Parts == IInv <=> WorldOK /\ BlameOK /\ CoolingOK /\ RankOK /\ CalmOK
<1>1. /\ unavailable \in Partial(Placement, 0..Cooldown) <=> Map(unavailable, Placement, 0..Cooldown)
      /\ pending \in Partial(Server, Placement) <=> Map(pending, Server, Placement)
    BY PartialMap
<1> QED BY <1>1, Zenon DEF IInv, TypeOK, WorldOK, BlameOK, CoolingOK, RankOK, CalmOK

LEMMA PartsNext == WorldOK' /\ BlameOK' /\ CoolingOK' /\ RankOK' /\ CalmOK' => IInv'
<1>1. /\ unavailable' \in Partial(Placement, 0..Cooldown) <=> Map(unavailable', Placement, 0..Cooldown)
      /\ pending' \in Partial(Server, Placement) <=> Map(pending', Server, Placement)
    BY PartialMap
<1> QED BY <1>1, Zenon DEF IInv, TypeOK, WorldOK, BlameOK, CoolingOK, RankOK, CalmOK

LEMMA InitHolds == Init => IInv
<1> SUFFICES ASSUME Init PROVE IInv
    OBVIOUS
<1> USE DEF Init
<1>1. WorldOK
    BY DEF WorldOK
<1>2. BlameOK
    BY DEF BlameOK, BlameIsExact, Map, Empty
<1>3. CoolingOK
    BY NumbersAssumption DEF NumbersAssumption, CoolingOK, CooldownsAreExact, Map, Empty
<1>4. RankOK
    BY NumbersAssumption, PlacementsShape DEF NumbersAssumption, RankOK, TriedInOrder
<1>5. CalmOK
    BY DEF CalmOK
<1> QED BY <1>1, <1>2, <1>3, <1>4, <1>5, Parts

LEMMA CalmStep == CalmOK /\ [Next \/ CalmDown]_vars => CalmOK'
BY Zenon DEF CalmOK, Next, Iterate, Call, World, CalmDown, vars, worldVars, Reconcile, LookUp, ScaleUp,
    Create, CreateLost, CreateFails, Refused, Exhausted, Sleep, Restart, StockChanges, Place,
    Drop, Remove, GrowOlder, Recycle, Accepted

LEMMA WorldStep == WorldOK /\ [Next \/ CalmDown]_vars => WorldOK'
<1> SUFFICES ASSUME WorldOK, [Next \/ CalmDown]_vars PROVE WorldOK'
    OBVIOUS
<1> USE DEF WorldOK
<1>1. CASE UNCHANGED <<stock, cloud, born, grown>>
    BY <1>1
<1>2. CASE \E p \in Placement : StockChanges(p)
    BY <1>2 DEF StockChanges
<1>3. CASE \E s \in Server, i \in DOMAIN Placements : Accepted(s, i)
    BY <1>3, PlacementsShape DEF Accepted
<1>4. CASE \E s \in Server : World(s)
    BY <1>4 DEF World, Place, Drop, Remove, GrowOlder, Recycle
<1>5. CASE Iterate
    BY <1>5, <1>1, <1>3, Zenon DEF Iterate, Call, Reconcile, LookUp, ScaleUp, Create, CreateLost,
        CreateFails, Refused, Exhausted, Sleep, worldVars
<1>6. CASE Restart \/ CalmDown \/ UNCHANGED vars
    BY <1>6, <1>1 DEF Restart, CalmDown, vars, worldVars
<1> QED BY <1>2, <1>4, <1>5, <1>6 DEF Next

(***************************************************************************)
(* The blame: which servers' placements are remembered.                    *)
(***************************************************************************)
LEMMA ReconcileBlames == WorldOK /\ BlameOK /\ Reconcile => BlameOK'
<1> SUFFICES ASSUME WorldOK, BlameOK, Reconcile PROVE BlameOK'
    OBVIOUS
<1> USE DEF BlameOK
<1>1. PICK joined \in SUBSET Server, late \in SUBSET grown :
          /\ nodes' = [s \in Server |-> Reconciled(s, joined \ late, late)]
          /\ fresh' = {s \in fresh \ late : nodes'[s] = "Provisioning"}
    BY DEF Reconcile
<1>2. /\ pending' = Restrict(pending, StillPending(nodes'))
      /\ todo' \subseteq Server
      /\ UNCHANGED <<cloud, born>>
  <2>1. todo' = {s \in grown : nodes'[s] = "Provisioning" /\ cloud[s] # "up"}
      BY DEF Reconcile
  <2> QED BY <2>1 DEF Reconcile, worldVars, WorldOK
<1>3. nodes' \in [Server -> {"absent", "Provisioning", "Joined"}]
    BY <1>1 DEF Reconciled
<1>4. \A s \in fresh \cap late : nodes'[s] = "absent"
    BY <1>1 DEF Reconciled
<1>5. DOMAIN pending' = fresh' /\ \A s \in fresh' : pending'[s] = pending[s]
    BY <1>1, <1>2, <1>4 DEF BlameIsExact, Restrict, StillPending
<1>6. Map(pending', Server, Placement)
    BY <1>1, <1>2, <1>5 DEF Map, Restrict, BlameIsExact
<1>7. BlameIsExact'
    BY <1>1, <1>2, <1>5 DEF BlameIsExact
<1> QED BY <1>1, <1>2, <1>3, <1>6, <1>7

LEMMA BlameStep == WorldOK /\ BlameOK /\ [Next \/ CalmDown]_vars => BlameOK'
<1> SUFFICES ASSUME WorldOK, BlameOK, [Next \/ CalmDown]_vars PROVE BlameOK'
    OBVIOUS
<1>1. CASE Reconcile
    BY <1>1, ReconcileBlames
<1>2. CASE \E s \in Server : LookUp(s)
  <2>1. PICK s \in Server : LookUp(s)
      BY <1>2
  <2>2. todo' \subseteq Server /\ UNCHANGED <<cloud, born>>
      BY <2>1 DEF LookUp, BlameOK, worldVars
  <2>3. CASE UNCHANGED <<nodes, pending, fresh>>
      BY <2>2, <2>3 DEF BlameOK, BlameIsExact, Map
  <2>4. CASE Vanished(s)
      BY <2>2, <2>4 DEF BlameOK, BlameIsExact, Map, Vanished, Restrict
  <2> QED BY <2>1, <2>3, <2>4 DEF LookUp
<1>3. CASE \E s \in Server : Create(s)
  <2>1. PICK s \in Server, i \in DOMAIN Placements :
            /\ Accepted(s, i)
            /\ nodes' = [nodes EXCEPT ![s] = "Provisioning"]
            /\ pending' = [t \in DOMAIN pending \cup {s} |->
                              IF t = s THEN Placements[i] ELSE pending[t]]
            /\ fresh' = fresh \cup {s}
            /\ todo' = todo
      BY <1>3 DEF Create
  <2>2. Placements[i] \in Placement
      BY PlacementsShape
  <2>3. nodes' \in [Server -> {"absent", "Provisioning", "Joined"}] /\ Map(pending', Server, Placement)
      BY <2>1, <2>2 DEF BlameOK, Map
  <2>4. BlameIsExact'
      BY <2>1 DEF BlameOK, BlameIsExact, Accepted, WorldOK
  <2> QED BY <2>1, <2>3, <2>4 DEF BlameOK
<1>4. CASE Restart
    BY <1>4 DEF Restart, BlameOK, BlameIsExact, Map, Empty
<1>5. CASE /\ UNCHANGED <<nodes, pending, fresh, todo>>
           /\ \A s \in fresh : cloud'[s] # "free" /\ born'[s] = born[s]
    BY <1>5 DEF BlameOK, BlameIsExact, Map
<1>6. CASE \E s \in Server : CreateLost(s)
  <2>1. PICK s \in Server, i \in DOMAIN Placements : Accepted(s, i)
      BY <1>6 DEF CreateLost
  <2>2. \A t \in fresh : cloud'[t] # "free" /\ born'[t] = born[t]
      BY <2>1 DEF Accepted, BlameOK, BlameIsExact, WorldOK
  <2> QED BY <1>6, <1>5, <2>2 DEF CreateLost
<1>7. CASE \E s \in Server : World(s)
  <2>1. PICK s \in Server : World(s)
      BY <1>7
  <2>2. \A t \in fresh : cloud'[t] # "free" /\ born'[t] = born[t]
      BY <2>1 DEF World, Place, Drop, Remove, GrowOlder, Recycle, Spent, BlameOK, BlameIsExact, WorldOK
  <2>3. UNCHANGED <<nodes, pending, fresh, todo>>
      BY <2>1 DEF World, Place, Drop, Remove, GrowOlder, Recycle, processVars, localVars
  <2> QED BY <1>5, <2>2, <2>3
<1>8. CASE UNCHANGED <<cloud, born, nodes, pending, fresh, todo>>
    BY <1>5, <1>8 DEF BlameOK, BlameIsExact
<1>9. CASE \/ ScaleUp \/ Refused \/ CreateFails \/ Exhausted \/ Sleep
           \/ CalmDown \/ UNCHANGED vars \/ \E p \in Placement : StockChanges(p)
    BY <1>9, <1>8, Zenon DEF ScaleUp, Refused, CreateFails, Exhausted, Sleep, CalmDown, StockChanges,
        vars, worldVars, processVars, localVars
<1> QED BY <1>1, <1>2, <1>3, <1>4, <1>6, <1>7, <1>9 DEF Next, Iterate, Call

(***************************************************************************)
(* The cooldowns.                                                          *)
(***************************************************************************)
LEMMA FailsCools ==
    ASSUME CoolingOK, NEW p \in Placement, Fails(p)
    PROVE  CoolingOK' /\ DOMAIN unavailable' = DOMAIN unavailable \cup {p}
<1> USE NumbersAssumption DEF NumbersAssumption, CoolingOK, Fails, Marked, Map
<1>1. DOMAIN unavailable' = DOMAIN unavailable \cup {p} /\ Map(unavailable', Placement, 0..Cooldown)
    OBVIOUS
<1>2. quiet' \in [Placement -> 0..Cooldown]
    OBVIOUS
<1>3. CooldownsAreExact'
    BY <1>1 DEF CooldownsAreExact
<1> QED BY <1>1, <1>2, <1>3

LEMMA SleepCools == CoolingOK /\ Sleep => CoolingOK'
<1> SUFFICES ASSUME CoolingOK, Sleep PROVE CoolingOK'
    OBVIOUS
<1> USE NumbersAssumption DEF NumbersAssumption, CoolingOK, Map
<1>1. PICK ticks \in 1..(Cooldown + 1) :
          /\ unavailable' = [p \in DOMAIN unavailable |-> SatSub(unavailable[p], ticks)]
          /\ quiet' = [p \in Placement |-> Lesser(quiet[p] + ticks, Cooldown)]
    BY DEF Sleep
<1>2. Map(unavailable', Placement, 0..Cooldown) /\ quiet' \in [Placement -> 0..Cooldown]
    BY <1>1 DEF SatSub, Lesser
<1>3. CooldownsAreExact'
    BY <1>1 DEF CooldownsAreExact, SatSub, Lesser
<1> QED BY <1>2, <1>3

LEMMA CoolingStep == BlameOK /\ CoolingOK /\ [Next \/ CalmDown]_vars => CoolingOK'
<1> SUFFICES ASSUME BlameOK, CoolingOK, [Next \/ CalmDown]_vars PROVE CoolingOK'
    OBVIOUS
<1>1. CASE UNCHANGED coolingVars
    BY <1>1 DEF coolingVars, CoolingOK, Map, CooldownsAreExact
<1>2. CASE \E s \in Server : LookUp(s)
  <2>1. PICK s \in Server : Vanished(s) \/ UNCHANGED coolingVars
      BY <1>2 DEF LookUp
  <2>2. CASE s \in DOMAIN pending /\ Vanished(s)
      BY <2>2, FailsCools DEF Vanished, BlameOK, Map
  <2> QED BY <1>1, <2>1, <2>2 DEF Vanished
<1>3. CASE Refused
    BY <1>3, FailsCools, PlacementsShape DEF Refused
<1>4. CASE Sleep
    BY <1>4, SleepCools
<1>5. CASE ScaleUp
  <2>1. quiet' = quiet /\ unavailable' \in {unavailable, Restrict(unavailable, Cooling)}
      BY <1>5 DEF ScaleUp
  <2>2. CASE unavailable' = Restrict(unavailable, Cooling)
    <3>1. Map(unavailable', Placement, 0..Cooldown)
        BY <2>2 DEF CoolingOK, Map, Restrict, Cooling
    <3>2. CooldownsAreExact'
        BY <2>1, <2>2, NumbersAssumption DEF NumbersAssumption, CoolingOK, CooldownsAreExact, Map,
            Restrict, Cooling
    <3> QED BY <2>1, <3>1, <3>2 DEF CoolingOK
  <2> QED BY <1>1, <2>1, <2>2 DEF coolingVars
<1>6. CASE Restart
    BY <1>6, NumbersAssumption DEF NumbersAssumption, Restart, Empty, CoolingOK, Map, CooldownsAreExact
<1>7. CASE Reconcile \/ CreateFails \/ Exhausted \/ \E s \in Server : Create(s) \/ CreateLost(s)
    BY <1>7, <1>1, Zenon DEF Reconcile, CreateFails, Exhausted, Create, CreateLost
<1>8. CASE \/ CalmDown \/ UNCHANGED vars \/ \E p \in Placement : StockChanges(p)
           \/ \E s \in Server : World(s)
    BY <1>8, <1>1, Zenon DEF CalmDown, StockChanges, World, Place, Drop, Remove, GrowOlder, Recycle,
        vars, processVars
<1> QED BY <1>2, <1>3, <1>4, <1>5, <1>6, <1>7, <1>8 DEF Next, Iterate, Call

(***************************************************************************)
(* The search for a placement.                                             *)
(***************************************************************************)
LEMMA WantFits == want \in 0..MaxNodes /\ ScaleUp => want' \in 0..MaxNodes
<1> SUFFICES ASSUME ScaleUp PROVE want' \in 0..MaxNodes
    OBVIOUS
<1>1. PICK jobs \in Nat :
          want' = ComputeScaleUp(jobs, 0, Cardinality(In("Provisioning")), 0,
                                 Cardinality(Tracked), MaxNodes)
    BY NumbersAssumption DEF NumbersAssumption, ScaleUp
<1>2. \A S \in SUBSET Server : Cardinality(S) \in Nat
    BY ServersAssumption, FS_Subset, FS_CardinalityType DEF ServersAssumption
<1>3. Cardinality(In("Provisioning")) \in Nat /\ Cardinality(Tracked) \in Nat
    BY <1>2 DEF In, Tracked
<1>4. want' \in Nat /\ (want' > 0 => Cardinality(Tracked) + want' <= MaxNodes)
  <2>1. 0 \in Nat /\ MaxNodes \in Nat
      BY NumbersAssumption DEF NumbersAssumption
  <2> QED BY <1>1, <1>3, <2>1, ScaleUpBound
<1> QED BY <1>3, <1>4, NumbersAssumption DEF NumbersAssumption

LEMMA TriedStays ==
    ASSUME TriedInOrder, rank' = rank, DOMAIN unavailable \subseteq DOMAIN unavailable'
    PROVE  TriedInOrder'
BY DEF TriedInOrder

LEMMA FirstRank ==
    /\ 1 \in 1..(Len(Placements) + 1)
    /\ rank' = 1 => TriedInOrder'
BY PlacementsShape DEF TriedInOrder

LEMMA RefusedRanks == BlameOK /\ CoolingOK /\ RankOK /\ Refused => RankOK'
<1> SUFFICES ASSUME CoolingOK, RankOK, Refused PROVE RankOK'
    OBVIOUS
<1>1. PICK i \in DOMAIN Placements : Trying(i) /\ Fails(Placements[i]) /\ rank' = i + 1
    BY DEF Refused
<1>2. DOMAIN unavailable' = DOMAIN unavailable \cup {Placements[i]}
    BY <1>1, FailsCools, PlacementsShape
<1>3. i \in 1..Len(Placements) /\ Len(Placements) \in Nat
    BY PlacementsShape
<1>4. \A j \in 1..(rank' - 1) : j < rank \/ j \in rank..(i - 1) \/ j = i
    BY <1>1, <1>3 DEF RankOK
<1>5. \A j \in 1..(rank' - 1) : j < rank => j \in 1..(rank - 1)
    BY <1>3 DEF RankOK
<1>6. TriedInOrder'
    BY <1>1, <1>2, <1>4, <1>5 DEF TriedInOrder, RankOK, Trying
<1> QED BY <1>1, <1>3, <1>6 DEF RankOK, Refused

LEMMA RankStep == BlameOK /\ CoolingOK /\ RankOK /\ [Next \/ CalmDown]_vars => RankOK'
<1> SUFFICES ASSUME BlameOK, CoolingOK, RankOK, [Next \/ CalmDown]_vars PROVE RankOK'
    OBVIOUS
<1>1. CASE UNCHANGED <<pc, want, rank, unavailable>>
    BY <1>1, TriedStays DEF RankOK
<1>2. CASE Reconcile
    BY <1>2, TriedStays DEF RankOK, Reconcile, coolingVars
<1>3. CASE \E s \in Server : LookUp(s)
  <2>1. PICK s \in Server : Vanished(s) \/ UNCHANGED coolingVars
      BY <1>3 DEF LookUp
  <2>2. DOMAIN unavailable \subseteq DOMAIN unavailable'
    <3>1. CASE s \in DOMAIN pending /\ Vanished(s)
        BY <3>1, FailsCools DEF Vanished, BlameOK, Map
    <3> QED BY <2>1, <3>1 DEF Vanished, coolingVars
  <2> QED BY <1>3, <2>2, TriedStays DEF RankOK, LookUp
<1>4. CASE ScaleUp
    BY <1>4, WantFits, FirstRank DEF RankOK, ScaleUp
<1>5. CASE NextServer /\ want > 0 /\ pc' = pc
    BY <1>5, FirstRank, NumbersAssumption DEF NumbersAssumption, NextServer, RankOK
<1>6. CASE CreateFails \/ \E s \in Server : Create(s) \/ CreateLost(s)
    BY <1>6, <1>5, Zenon DEF CreateFails, Create, CreateLost, Trying
<1>7. CASE Refused
    BY <1>7, RefusedRanks
<1>8. CASE Exhausted
    BY <1>8, TriedStays, NumbersAssumption DEF NumbersAssumption, RankOK, Exhausted, coolingVars
<1>9. CASE Sleep
    BY <1>9, FirstRank DEF RankOK, Sleep
<1>10. CASE Restart
    BY <1>10, FirstRank, NumbersAssumption DEF NumbersAssumption, RankOK, Restart
<1>11. CASE \/ CalmDown \/ UNCHANGED vars \/ \E p \in Placement : StockChanges(p)
            \/ \E s \in Server : World(s)
    BY <1>11, <1>1, Zenon DEF CalmDown, StockChanges, World, Place, Drop, Remove, GrowOlder, Recycle,
        vars, processVars, coolingVars, localVars
<1> QED BY <1>2, <1>3, <1>4, <1>6, <1>7, <1>8, <1>9, <1>10, <1>11 DEF Next, Iterate, Call

(***************************************************************************)
(* The two maps of the manager say what happened: who is to blame for what *)
(* vanishes, and how long ago each placement failed.                       *)
(***************************************************************************)
THEOREM FallbackInductive == FairSpec => []IInv
<1>1. Init => IInv
    BY InitHolds
<1>2. IInv /\ [Next \/ CalmDown]_vars => IInv'
    BY Parts, PartsNext, CalmStep, WorldStep, BlameStep, CoolingStep, RankStep
<1> QED BY <1>1, <1>2, PTL DEF FairSpec

--------------------------------------------------------------------------------
(***************************************************************************)
(* Every variable keeps its type.                                          *)
(***************************************************************************)
THEOREM FallbackTypes == FairSpec => []TypeOK
<1>1. IInv => TypeOK
    BY DEF IInv
<1> QED BY <1>1, FallbackInductive, PTL

(***************************************************************************)
(* Only create_server creates, where its search has led it.                *)
(***************************************************************************)
Created(s) == cloud[s] = "free" /\ cloud'[s] = "new"

LEMMA CreatedWhenTrying ==
    ASSUME WorldOK, [Next \/ CalmDown]_vars, NEW s \in Server, Created(s)
    PROVE  \E i \in DOMAIN Placements :
              Trying(i) /\ Placements[i] \in Placement /\ born'[s] = Placements[i]
<1> USE DEF Created
<1>1. cloud' # cloud
    OBVIOUS
<1>2. ASSUME NEW t \in Server, NEW i \in DOMAIN Placements, Trying(i), Accepted(t, i)
      PROVE  born'[s] = Placements[i] /\ Placements[i] \in Placement
    BY <1>2, PlacementsShape DEF Accepted, WorldOK
<1>3. CASE \E t \in Server : Create(t) \/ CreateLost(t)
    BY <1>3, <1>2 DEF Create, CreateLost
<1>4. ~\E t \in Server : World(t)
    BY DEF World, Place, Drop, Remove, GrowOlder, Recycle, WorldOK
<1>5. Next
    BY <1>1 DEF CalmDown, vars, worldVars
<1>6. ~(Restart \/ \E p \in Placement : StockChanges(p))
    BY <1>1 DEF Restart, StockChanges, worldVars
<1>7. Iterate
    BY <1>4, <1>5, <1>6 DEF Next
<1>8. ~(Reconcile \/ ScaleUp \/ Refused \/ CreateFails \/ Exhausted \/ Sleep)
    BY <1>1 DEF Reconcile, ScaleUp, Refused, CreateFails, Exhausted, Sleep, worldVars
<1>9. ~\E t \in Server : LookUp(t)
    BY <1>1 DEF LookUp, worldVars
<1> QED BY <1>3, <1>7, <1>8, <1>9 DEF Iterate, Call

(***************************************************************************)
(* No server is created in a placement while one that the configuration    *)
(* prefers is not cooling down.                                            *)
(***************************************************************************)
THEOREM PreferenceHolds == FairSpec => PreferredFirst
<1> DEFINE Holds == \A s \in Server : cloud[s] = "free" /\ cloud'[s] = "new" =>
              \A p \in Placement : Preferred(p, born'[s]) => p \in DOMAIN unavailable
<1>1. IInv /\ [Next \/ CalmDown]_vars => [Holds]_vars
  <2> SUFFICES ASSUME IInv, [Next \/ CalmDown]_vars, NEW s \in Server, Created(s),
                      NEW p \in Placement, Preferred(p, born'[s])
               PROVE  p \in DOMAIN unavailable
      BY DEF Created
  <2>1. WorldOK /\ RankOK
      BY Parts
  <2>2. PICK i \in DOMAIN Placements : Trying(i) /\ born'[s] = Placements[i]
      BY <2>1, CreatedWhenTrying
  <2>3. PICK c \in DOMAIN Types, d \in DOMAIN Locations :
            i = Position(c, d) /\ Placements[i] = <<Types[c], Locations[d]>>
      BY EveryPosition
  <2>4. PICK a \in DOMAIN Types, b \in DOMAIN Locations :
            p = <<Types[a], Locations[b]>> /\ (a < c \/ (a = c /\ b < d))
      BY <2>2, <2>3 DEF Preferred
  <2>5. Position(a, b) \in 1..Len(Placements) /\ Placements[Position(a, b)] = p
      BY <2>4, PositionInOrder
  <2>6. Position(a, b) < i
      BY <2>3, <2>4, PositionFollows
  <2>7. Position(a, b) \in 1..(rank - 1) \/ Position(a, b) \in rank..(i - 1)
      BY <2>1, <2>5, <2>6, PlacementsShape DEF RankOK
  <2> QED BY <2>1, <2>2, <2>5, <2>7 DEF RankOK, TriedInOrder, Trying
<1> QED BY <1>1, FallbackInductive, PTL DEF FairSpec, PreferredFirst

(***************************************************************************)
(* A placement is left alone for its whole cooldown after its last failure.*)
(***************************************************************************)
THEOREM CooldownHolds == FairSpec => CooldownIsKept
<1> DEFINE Holds == \A s \in Server : cloud[s] = "free" /\ cloud'[s] = "new" =>
              quiet[born'[s]] = Cooldown
<1>1. IInv /\ [Next \/ CalmDown]_vars => [Holds]_vars
  <2> SUFFICES ASSUME IInv, [Next \/ CalmDown]_vars, NEW s \in Server, Created(s)
               PROVE  quiet[born'[s]] = Cooldown
      BY DEF Created
  <2>1. WorldOK /\ CoolingOK
      BY Parts
  <2>2. PICK i \in DOMAIN Placements :
            Trying(i) /\ Placements[i] \in Placement /\ born'[s] = Placements[i]
      BY <2>1, CreatedWhenTrying
  <2>3. quiet[Placements[i]] \in 0..Cooldown
      BY <2>1, <2>2 DEF CoolingOK
  <2>4. quiet[Placements[i]] + 0 = Cooldown
      BY <2>1, <2>2 DEF CoolingOK, CooldownsAreExact, Trying
  <2> QED BY <2>2, <2>3, <2>4
<1> QED BY <1>1, FallbackInductive, PTL DEF FairSpec, CooldownIsKept

(***************************************************************************)
(* A placement begins to cool down because it has no capacity, or because  *)
(* a server vanished that was created there and not seen joined.           *)
(***************************************************************************)
Begins(p) ==
    /\ p \in DOMAIN unavailable'
    /\ p \in DOMAIN unavailable => unavailable'[p] > unavailable[p]

LEMMA NeverByTime ==
    ASSUME CoolingOK, NEW p \in Placement, Begins(p),
           \/ ScaleUp \/ Sleep \/ Restart \/ UNCHANGED unavailable
    PROVE  FALSE
<1> USE NumbersAssumption DEF NumbersAssumption, CoolingOK, Map, Begins
<1>1. p \in DOMAIN unavailable => unavailable[p] \in 0..Cooldown
    OBVIOUS
<1>2. CASE ScaleUp
    BY <1>1, <1>2 DEF ScaleUp, Restrict, Cooling
<1>3. CASE Sleep
    BY <1>1, <1>3 DEF Sleep, SatSub
<1>4. CASE Restart
    BY <1>4 DEF Restart, Empty
<1>5. CASE UNCHANGED unavailable
    BY <1>1, <1>5
<1> QED BY <1>2, <1>3, <1>4, <1>5

LEMMA BeginsByFailure ==
    ASSUME CoolingOK, BlameOK, [Next \/ CalmDown]_vars, NEW p \in Placement, Begins(p)
    PROVE  Refused \/ \E s \in DOMAIN pending : pc = "vanished" /\ Vanished(s)
<1>1. unavailable' # unavailable /\ ~ScaleUp /\ ~Sleep /\ ~Restart
    BY NeverByTime
<1>2. Refused \/ \E s \in Server : LookUp(s)
  <2>1. Next
      BY <1>1 DEF vars, coolingVars, CalmDown, processVars
  <2>2. ~(\/ \E q \in Placement : StockChanges(q)
          \/ \E s \in Server : World(s))
      BY <1>1, Zenon DEF StockChanges, World, Place, Drop, Remove, GrowOlder, Recycle, processVars,
          coolingVars
  <2>3. ~(\/ Reconcile \/ CreateFails \/ Exhausted
          \/ \E s \in Server : Create(s) \/ CreateLost(s))
      BY <1>1, Zenon DEF Reconcile, CreateFails, Exhausted, Create, CreateLost, coolingVars
  <2> QED BY <1>1, <2>1, <2>2, <2>3 DEF Next, Iterate, Call
<1>3. ASSUME NEW s \in Server, LookUp(s) PROVE s \in DOMAIN pending /\ pc = "vanished" /\ Vanished(s)
    BY <1>1, <1>3 DEF LookUp, Vanished, coolingVars
<1> QED BY <1>2, <1>3

THEOREM CooldownCause == FairSpec => CooldownHasCause
<1> DEFINE Holds ==
        \A p \in Placement :
          /\ p \in DOMAIN unavailable'
          /\ p \in DOMAIN unavailable => unavailable'[p] > unavailable[p]
          => \/ pc = "create" /\ p \notin stock
             \/ pc = "vanished" /\ \E s \in fresh : born[s] = p /\ cloud[s] = "gone"
<1>1. IInv /\ [Next \/ CalmDown]_vars => [Holds]_vars
  <2> SUFFICES ASSUME IInv, [Next \/ CalmDown]_vars, NEW p \in Placement, Begins(p)
               PROVE  \/ pc = "create" /\ p \notin stock
                      \/ pc = "vanished" /\ \E s \in fresh : born[s] = p /\ cloud[s] = "gone"
      BY DEF Begins
  <2>1. CoolingOK /\ BlameOK
      BY Parts
  <2>2. ASSUME NEW q \in Placement, Fails(q) PROVE p = q
    <3>1. ASSUME p # q PROVE FALSE
      <4>1. p \in DOMAIN unavailable /\ unavailable'[p] = unavailable[p]
          BY <2>2, <3>1 DEF Begins, Fails, Marked
      <4>2. unavailable[p] \in Nat
          BY <2>1, <4>1, NumbersAssumption DEF NumbersAssumption, CoolingOK, Map
      <4> QED BY <4>1, <4>2 DEF Begins
    <3> QED BY <3>1
  <2>3. CASE Refused
      BY <2>2, <2>3, PlacementsShape DEF Refused, Trying
  <2>4. CASE \E s \in DOMAIN pending : pc = "vanished" /\ Vanished(s)
    <3>1. PICK s \in DOMAIN pending : pc = "vanished" /\ Vanished(s)
        BY <2>4
    <3>2. pending[s] \in Placement /\ s \in fresh /\ pending[s] = born[s]
        BY <2>1, <3>1 DEF BlameOK, Map, BlameIsExact
    <3> QED BY <2>2, <3>1, <3>2 DEF Vanished
  <2> QED BY <2>1, <2>3, <2>4, BeginsByFailure
<1> QED BY <1>1, FallbackInductive, PTL DEF FairSpec, CooldownHasCause

(***************************************************************************)
(* A server that vanished before it joined is blamed on its placement.     *)
(***************************************************************************)
THEOREM BlameHolds == FairSpec => VanishedIsBlamed
<1> DEFINE Holds ==
        \A s \in fresh : pc = "vanished" /\ pc' = pc /\ nodes'[s] = "absent" =>
          /\ born[s] \in DOMAIN unavailable'
          /\ unavailable'[born[s]] = Cooldown
<1>1. IInv /\ [Next \/ CalmDown]_vars => [Holds]_vars
  <2> SUFFICES ASSUME IInv, [Next \/ CalmDown]_vars, NEW s \in fresh,
                      pc = "vanished", pc' = pc, nodes'[s] = "absent"
               PROVE  born[s] \in DOMAIN unavailable' /\ unavailable'[born[s]] = Cooldown
      OBVIOUS
  <2>1. BlameOK
      BY Parts
  <2>2. /\ s \in Server /\ s \in DOMAIN pending /\ pending[s] = born[s]
        /\ nodes[s] = "Provisioning"
      BY <2>1 DEF BlameOK, BlameIsExact
  <2>3. nodes' # nodes
      BY <2>2
  <2>4. \E t \in Server : LookUp(t)
    <3>1. Next
        BY <2>3 DEF vars, CalmDown, processVars
    <3>2. ~Restart /\ ~Reconcile /\ ~ScaleUp
        BY DEF Restart, Reconcile, ScaleUp
    <3>3. ~(\/ \E p \in Placement : StockChanges(p)
            \/ \E t \in Server : World(t))
        BY <2>3, Zenon DEF StockChanges, World, Place, Drop, Remove, GrowOlder, Recycle, processVars
    <3>4. ~(\/ CreateFails \/ Exhausted \/ Sleep \/ Refused
            \/ \E t \in Server : Create(t) \/ CreateLost(t))
        BY DEF CreateFails, Exhausted, Sleep, Refused, Create, CreateLost, Trying
    <3> QED BY <3>1, <3>2, <3>3, <3>4 DEF Next, Iterate, Call
  <2>5. PICK t \in Server : Vanished(t)
      BY <2>3, <2>4 DEF LookUp
  <2>6. t = s
      BY <2>1, <2>2, <2>5 DEF Vanished, BlameOK
  <2> QED BY <2>2, <2>5, <2>6 DEF Vanished, Fails, Marked
<1> QED BY <1>1, FallbackInductive, PTL DEF FairSpec, VanishedIsBlamed

================================================================================
