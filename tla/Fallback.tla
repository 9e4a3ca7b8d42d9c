------------------------------- MODULE Fallback -------------------------------
(***************************************************************************)
(* Where a server is created: the placements of the configuration in order *)
(* of preference, the cooldown of those Hetzner has no capacity for, and   *)
(* the blame for a server that Hetzner accepted and never placed (scale_up,*)
(* create_server, mark_unavailable and drop_vanished_servers).             *)
(*                                                                         *)
(* ControlLoop models the rest of the iteration; here Reconcile stands for *)
(* it, and a server deleted in a teardown or as stuck is one that Remove   *)
(* takes away.  `now` is read once per iteration, so time moves while the  *)
(* loop sleeps.  It is counted in ticks, of the time within which Hetzner  *)
(* places or drops a server and the loop finds out, see Sleep.             *)
(***************************************************************************)
EXTENDS Naturals, Sequences, FiniteSets, Functions, ScaleUp

CONSTANTS
    Types,      \* HETZNER_SERVER_TYPE, in order of preference
    Locations,  \* HETZNER_LOCATION, in order of preference
    Server,     \* identifiers of servers; reused when nothing is left of one
    MaxNodes,   \* MAX_NODES
    MaxJobs,    \* bound: waiting jobs that no idle or permanent runner will take
    Cooldown    \* PLACEMENT_COOLDOWN_SECS, in ticks

(* Config::placements: every type in every location, the type first.       *)
Order(types, locations) ==
    [i \in 1..(Len(types) * Len(locations)) |->
        <<types[((i - 1) \div Len(locations)) + 1], locations[((i - 1) % Len(locations)) + 1]>>]

Placements == Order(Types, Locations)
Placement == Range(Placements)

ASSUME ListsAssumption == /\ Types \in Seq(STRING) /\ Types # <<>>
                          /\ Locations \in Seq(STRING) /\ Locations # <<>>
ASSUME NumbersAssumption == MaxNodes \in Nat /\ MaxJobs \in Nat /\ Cooldown \in Nat
ASSUME ServersAssumption == IsFiniteSet(Server)

VARIABLES
    stock,        \* placements Hetzner has capacity for
    cloud,        \* each server: free, new (accepted), up (placed and listed), gone
    born,         \* the placement it was created in
    grown,        \* servers older than VANISH_GRACE_SECS
    calm,         \* whether the faults are over, see CalmDown
    nodes,        \* NodeManager.nodes: absent, Provisioning, Joined (any other state)
    unavailable,  \* NodeManager.unavailable_until: ticks left, by placement
    pending,      \* NodeManager.pending_placements
    pc, todo,     \* what the iteration does next, the servers left to look up
    want, rank,   \* servers left to create, the first placement left to try
    fresh,        \* history: created here, never seen joined nor timed out
    quiet         \* history: ticks since each placement last failed

worldVars   == <<stock, cloud, born, grown, calm>>
coolingVars == <<unavailable, quiet>>
localVars   == <<pc, todo, want, rank>>
vars == <<worldVars, coolingVars, localVars, nodes, pending, fresh>>

Nowhere == <<>>
Partial(S, T) == UNION {[D -> T] : D \in SUBSET S}

TypeOK ==
    /\ stock \subseteq Placement
    /\ cloud \in [Server -> {"free", "new", "up", "gone"}]
    /\ born \in [Server -> Placement \cup {Nowhere}]
    /\ grown \subseteq Server
    /\ calm \in BOOLEAN
    /\ nodes \in [Server -> {"absent", "Provisioning", "Joined"}]
    /\ unavailable \in Partial(Placement, 0..Cooldown)
    /\ pending \in Partial(Server, Placement)
    /\ pc \in {"reconcile", "vanished", "create"}
    /\ todo \subseteq Server
    /\ want \in 0..MaxNodes
    /\ rank \in 1..(Len(Placements) + 1)
    /\ fresh \subseteq Server
    /\ quiet \in [Placement -> 0..Cooldown]

Empty == [x \in {} |-> 0]

Init ==
    /\ stock \in SUBSET Placement
    /\ cloud = [s \in Server |-> "free"]
    /\ born = [s \in Server |-> Nowhere]
    /\ grown = {}
    /\ calm = FALSE
    /\ nodes = [s \in Server |-> "absent"]
    /\ unavailable = Empty
    /\ pending = Empty
    /\ pc = "reconcile" /\ todo = {} /\ want = 0 /\ rank = 1
    /\ fresh = {}
    /\ quiet = [p \in Placement |-> Cooldown]

In(state) == {s \in Server : nodes[s] = state}
Tracked   == {s \in Server : nodes[s] # "absent"}
Spent(s)  == cloud[s] = "gone" /\ nodes[s] = "absent" /\ s \notin DOMAIN pending

--------------------------------------------------------------------------------
(***************************************************************************)
(* What the iteration does with what it listed.                            *)
(***************************************************************************)

(* The state a server is given: joined are the ones whose runner is seen,  *)
(* late the ones past the provisioning timeout, to be deleted as stuck.    *)
Reconciled(s, joined, late) ==
    IF s \in late THEN "absent"
    ELSE IF s \in joined THEN "Joined"
    ELSE IF cloud[s] = "up" \/ nodes[s] = "Provisioning" THEN "Provisioning"
    ELSE "absent"

(* Mutant: a server that joined stays pending. *)
StillPendingAlways(state) == DOMAIN pending
(* drop_vanished_servers: the pending servers it goes on watching.         *)
StillPending(state) == {s \in DOMAIN pending : state[s] = "Provisioning"}

(* reconcile and carry_forward_state, then the first half of               *)
(* drop_vanished_servers: up to its first await.                           *)
Reconcile ==
    /\ pc = "reconcile"
    /\ \E joined \in SUBSET {s \in Server : cloud[s] = "up"}, late \in SUBSET grown :
          /\ late # {} => ~calm
          /\ nodes' = [s \in Server |-> Reconciled(s, joined \ late, late)]
          /\ fresh' = {s \in fresh \ late : nodes'[s] = "Provisioning"}
    /\ pending' = Restrict(pending, StillPending(nodes'))
    /\ todo' = {s \in grown : nodes'[s] = "Provisioning" /\ cloud[s] # "up"}
    /\ pc' = "vanished"
    /\ UNCHANGED <<worldVars, coolingVars, want, rank>>

(* Mutant: a cooldown that is running is not extended. *)
MarkedOnce(p) ==
    [q \in DOMAIN unavailable \cup {p} |->
        IF q \in DOMAIN unavailable THEN unavailable[q] ELSE Cooldown]

(* mark_unavailable *)
Marked(p) ==
    [q \in DOMAIN unavailable \cup {p} |-> IF q = p THEN Cooldown ELSE unavailable[q]]

Fails(p) == unavailable' = Marked(p) /\ quiet' = [quiet EXCEPT ![p] = 0]

(* Mutant: the placement is not blamed. *)
VanishedUnblamed(s) ==
    /\ cloud[s] = "gone"
    /\ nodes' = [nodes EXCEPT ![s] = "absent"]
    /\ pending' = Restrict(pending, DOMAIN pending \ {s})
    /\ fresh' = fresh \ {s}
    /\ UNCHANGED coolingVars

(* server_exists answers false: the server is forgotten, and its placement *)
(* blamed if it is known.                                                  *)
Vanished(s) ==
    /\ cloud[s] = "gone"
    /\ nodes' = [nodes EXCEPT ![s] = "absent"]
    /\ pending' = Restrict(pending, DOMAIN pending \ {s})
    /\ fresh' = fresh \ {s}
    /\ IF s \in DOMAIN pending THEN Fails(pending[s]) ELSE UNCHANGED coolingVars

LookUp(s) ==
    /\ pc = "vanished"
    /\ s \in todo
    /\ todo' = todo \ {s}
    /\ \/ Vanished(s)
       \/ (cloud[s] # "gone" \/ ~calm) /\ UNCHANGED <<nodes, pending, fresh, coolingVars>>
    /\ UNCHANGED <<worldVars, pc, want, rank>>

(* Mutant: a cooldown never ends. *)
CoolingForever == DOMAIN unavailable
(* scale_up: the placements whose cooldown has not run out.                *)
Cooling == {p \in DOMAIN unavailable : unavailable[p] > 0}

(* compute_scale_up, for any number of jobs nobody is free to take, and    *)
(* the start of scale_up.                                                  *)
ScaleUp ==
    /\ pc = "vanished"
    /\ todo = {}
    /\ \E jobs \in IF calm THEN {MaxJobs} ELSE 0..MaxJobs :
          want' = ComputeScaleUp(jobs, 0, Cardinality(In("Provisioning")), 0,
                                 Cardinality(Tracked), MaxNodes)
    /\ rank' = 1
    /\ unavailable' = IF want' > 0 THEN Restrict(unavailable, Cooling) ELSE unavailable
    /\ pc' = "create"
    /\ UNCHANGED <<worldVars, quiet, nodes, pending, fresh, todo>>

(* create_server begins with the preferred placement for each server.      *)
NextServer == want' = want - 1 /\ rank' = 1

(* create_server goes to the first placement from rank on that is not      *)
(* cooling down.                                                           *)
Trying(i) ==
    /\ pc = "create" /\ want > 0
    /\ i \in rank..Len(Placements)
    /\ Placements[i] \notin DOMAIN unavailable
    /\ \A j \in rank..(i - 1) : Placements[j] \in DOMAIN unavailable

Accepted(s, i) ==
    /\ cloud[s] = "free"
    /\ cloud' = [cloud EXCEPT ![s] = "new"]
    /\ born' = [born EXCEPT ![s] = Placements[i]]
    /\ UNCHANGED <<stock, grown, calm>>

(* Hetzner accepts, whether or not it is going to place the server.        *)
Create(s) ==
    \E i \in DOMAIN Placements :
        /\ Trying(i)
        /\ Accepted(s, i)
        /\ nodes' = [nodes EXCEPT ![s] = "Provisioning"]
        /\ pending' = [t \in DOMAIN pending \cup {s} |->
                          IF t = s THEN Placements[i] ELSE pending[t]]
        /\ fresh' = fresh \cup {s}
        /\ NextServer
        /\ UNCHANGED <<coolingVars, pc, todo>>

(* The answer is lost: an error like any other, and the server is there.   *)
CreateLost(s) ==
    /\ ~calm
    /\ \E i \in DOMAIN Placements : Trying(i) /\ Accepted(s, i)
    /\ NextServer
    /\ UNCHANGED <<coolingVars, nodes, pending, fresh, pc, todo>>

(* CreateError::Other: on to the next server.                              *)
CreateFails ==
    /\ ~calm
    /\ \E i \in DOMAIN Placements : Trying(i)
    /\ NextServer
    /\ UNCHANGED <<worldVars, coolingVars, nodes, pending, fresh, pc, todo>>

(* Mutant: the refusal is not remembered. *)
RefusedForgotten ==
    /\ \E i \in DOMAIN Placements :
          /\ Trying(i)
          /\ Placements[i] \notin stock
          /\ rank' = i + 1
    /\ UNCHANGED <<worldVars, coolingVars, nodes, pending, fresh, pc, todo, want>>

(* CreateError::Unavailable: on to the next placement.                     *)
Refused ==
    /\ \E i \in DOMAIN Placements :
          /\ Trying(i)
          /\ Placements[i] \notin stock
          /\ Fails(Placements[i])
          /\ rank' = i + 1
    /\ UNCHANGED <<worldVars, nodes, pending, fresh, pc, todo, want>>

(* No placement is left, which ends scale_up.  So does running out of      *)
(* identifiers, a bound.                                                   *)
Exhausted ==
    /\ pc = "create" /\ want > 0
    /\ \/ \A i \in DOMAIN Placements : ~Trying(i)
       \/ \A s \in Server : cloud[s] # "free" /\ ~Spent(s)
    /\ want' = 0
    /\ UNCHANGED <<worldVars, coolingVars, nodes, pending, fresh, pc, todo, rank>>

(* Nothing is left to learn of the servers that were created: each was     *)
(* placed or dropped, and is old enough to be looked up.                   *)
Settled == \A s \in Server : cloud[s] # "new" /\ (cloud[s] = "free" \/ s \in grown)

(* The loop sleeps: any time, or, once the faults are over, for the one    *)
(* tick in which the servers of the last iteration settle.                 *)
Sleep ==
    /\ pc = "create" /\ want = 0
    /\ calm => Settled
    /\ \E ticks \in 1..(Cooldown + 1) :
          /\ calm => ticks = 1
          /\ unavailable' = [p \in DOMAIN unavailable |-> SatSub(unavailable[p], ticks)]
          /\ quiet' = [p \in Placement |-> Lesser(quiet[p] + ticks, Cooldown)]
    /\ pc' = "reconcile"
    /\ rank' = 1
    /\ UNCHANGED <<worldVars, nodes, pending, fresh, todo, want>>

(* Both maps are in memory. *)
Restart ==
    /\ ~calm
    /\ nodes' = [s \in Server |-> "absent"]
    /\ unavailable' = Empty /\ pending' = Empty
    /\ fresh' = {}
    /\ quiet' = [p \in Placement |-> Cooldown]
    /\ pc' = "reconcile" /\ todo' = {} /\ want' = 0 /\ rank' = 1
    /\ UNCHANGED worldVars

--------------------------------------------------------------------------------
(***************************************************************************)
(* Hetzner, the cluster and Gitea.                                         *)
(***************************************************************************)
processVars == <<coolingVars, localVars, nodes, pending, fresh>>

StockChanges(p) ==
    /\ ~calm
    /\ stock' = IF p \in stock THEN stock \ {p} ELSE stock \cup {p}
    /\ UNCHANGED <<cloud, born, grown, calm, processVars>>

Place(s) ==
    /\ cloud[s] = "new"
    /\ born[s] \in stock
    /\ cloud' = [cloud EXCEPT ![s] = "up"]
    /\ UNCHANGED <<stock, born, grown, calm, processVars>>

(* An accepted server disappears without an error. *)
Drop(s) ==
    /\ cloud[s] = "new"
    /\ born[s] \notin stock \/ ~calm
    /\ cloud' = [cloud EXCEPT ![s] = "gone"]
    /\ UNCHANGED <<stock, born, grown, calm, processVars>>

(* Torn down, or, a fault, deleted as stuck or by hand. *)
Remove(s) ==
    /\ cloud[s] = "up"
    /\ nodes[s] = "Joined" \/ ~calm
    /\ cloud' = [cloud EXCEPT ![s] = "gone"]
    /\ UNCHANGED <<stock, born, grown, calm, processVars>>

GrowOlder(s) ==
    /\ pc = "create" /\ want = 0
    /\ cloud[s] # "free"
    /\ s \notin grown
    /\ grown' = grown \cup {s}
    /\ UNCHANGED <<stock, cloud, born, calm, processVars>>

Recycle(s) ==
    /\ Spent(s)
    /\ cloud' = [cloud EXCEPT ![s] = "free"]
    /\ born' = [born EXCEPT ![s] = Nowhere]
    /\ grown' = grown \ {s}
    /\ UNCHANGED <<stock, calm, processVars>>

--------------------------------------------------------------------------------
Call(s) == LookUp(s) \/ Create(s) \/ CreateLost(s)
Iterate ==
    \/ Reconcile
    \/ ScaleUp \/ Refused \/ CreateFails \/ Exhausted \/ Sleep
    \/ \E s \in Server : Call(s)

World(s) == Place(s) \/ Drop(s) \/ Remove(s) \/ GrowOlder(s) \/ Recycle(s)

Next ==
    \/ Iterate
    \/ Restart
    \/ \E p \in Placement : StockChanges(p)
    \/ \E s \in Server : World(s)

Spec == Init /\ [][Next]_vars

(* From some moment on Hetzner's capacity stays as it is, no other error   *)
(* happens, the process goes on running and jobs never run out.  What      *)
(* Hetzner has no capacity for it may still accept and drop.               *)
CalmDown ==
    /\ ~calm
    /\ calm' = TRUE
    /\ UNCHANGED <<stock, cloud, born, grown, processVars>>

(* The loop goes on, time passes, Hetzner places what it has capacity for  *)
(* and drops what it has not, and identifiers become free again.           *)
Fairness ==
    /\ WF_vars(Iterate) /\ WF_vars(CalmDown)
    /\ \A s \in Server :
          /\ WF_vars(GrowOlder(s)) /\ WF_vars(Place(s)) /\ WF_vars(Drop(s))
          /\ WF_vars(Recycle(s))

FairSpec == Init /\ [][Next \/ CalmDown]_vars /\ Fairness

--------------------------------------------------------------------------------
(* A server is created in a placement only while every one that the        *)
(* configuration prefers is cooling down: an earlier type, or the same     *)
(* type in an earlier location.                                            *)
Preferred(p, q) ==
    \E a \in DOMAIN Types, b \in DOMAIN Locations :
        /\ p = <<Types[a], Locations[b]>>
        /\ \A c \in DOMAIN Types, d \in DOMAIN Locations :
              q = <<Types[c], Locations[d]>> => a < c \/ (a = c /\ b < d)

PreferredFirst ==
    [][\A s \in Server : cloud[s] = "free" /\ cloud'[s] = "new" =>
          \A p \in Placement : Preferred(p, born'[s]) => p \in DOMAIN unavailable]_vars

(* A placement begins to cool down only when Hetzner refuses it for want   *)
(* of capacity, or when a server vanished that was created there and had   *)
(* not joined: the deletion of a node seen working blames nobody.          *)
CooldownHasCause ==
    [][\A p \in Placement :
          /\ p \in DOMAIN unavailable'
          /\ p \in DOMAIN unavailable => unavailable'[p] > unavailable[p]
          => \/ pc = "create" /\ p \notin stock
             \/ pc = "vanished" /\ \E s \in fresh : born[s] = p /\ cloud[s] = "gone"]_vars

(* A server that vanished before it joined makes its placement cool down,  *)
(* so that it is replaced from another one.                                *)
VanishedIsBlamed ==
    [][\A s \in fresh : pc = "vanished" /\ pc' = pc /\ nodes'[s] = "absent" =>
          /\ born[s] \in DOMAIN unavailable'
          /\ unavailable'[born[s]] = Cooldown]_vars

(* A placement is left alone for PLACEMENT_COOLDOWN_SECS after the last    *)
(* time it failed, however the failures of several servers overlap.        *)
CooldownIsKept ==
    [][\A s \in Server : cloud[s] = "free" /\ cloud'[s] = "new" =>
          quiet[born'[s]] = Cooldown]_vars

(* While Hetzner has capacity anywhere, waiting jobs get a server that     *)
(* stays, even if every other placement accepts servers and drops them.    *)
(* This takes a cooldown long enough: the first placement tried must still *)
(* be cooling down when the last but one is found to have dropped its      *)
(* server, which is a tick later for each placement in between.  With a    *)
(* shorter one, creation returns to the first and never gets to the last.  *)
OutlastsSearch == Cooldown > Len(Placements) - 2

StockIsFound ==
    OutlastsSearch => (calm /\ stock # {} ~> \E s \in Server : cloud[s] = "up")

(* Once the preferred placement has capacity for good, from some moment    *)
(* on every server is created there.                                       *)
ReturnsToPreferred ==
    <>[](calm /\ Placements[1] \in stock) =>
        <>[][\A s \in Server :
                cloud[s] = "free" /\ cloud'[s] = "new" => born'[s] = Placements[1]]_vars

--------------------------------------------------------------------------------
(***************************************************************************)
(* Why the action properties hold: the inductive invariant.                *)
(***************************************************************************)

(* The servers whose placement is remembered are the ones created here and *)
(* not seen joined since, each with the placement it was created in.       *)
BlameIsExact ==
    /\ DOMAIN pending = fresh
    /\ \A s \in fresh :
          pending[s] = born[s] /\ nodes[s] = "Provisioning" /\ cloud[s] # "free"

(* What is left of a cooldown and the time since the last failure add up;  *)
(* a placement is dropped from the map only when nothing is left.          *)
CooldownsAreExact ==
    \A p \in Placement :
        quiet[p] + (IF p \in DOMAIN unavailable THEN unavailable[p] ELSE 0) = Cooldown

(* create_server passes over a placement only while it is cooling down.    *)
TriedInOrder ==
    \A j \in 1..(rank - 1) : Placements[j] \in DOMAIN unavailable

IInv == TypeOK /\ BlameIsExact /\ CooldownsAreExact /\ TriedInOrder

================================================================================
