------------------------------ MODULE ControlLoop ------------------------------
(***************************************************************************)
(* One replica of the autoscaler and the three systems it drives.  The     *)
(* loop body (run_loop_iteration) is cut at every await, so that servers,  *)
(* cluster nodes, runners and jobs may change between any two calls of an  *)
(* iteration, and every call may fail in the ways Faults names.  What the  *)
(* iteration listed is kept in saw, which is what the code decides on.     *)
(*                                                                         *)
(* A server, the cluster node that runs on it and the runner on that node  *)
(* share one identifier: reconcile joins them by server name.              *)
(*                                                                         *)
(* Time is relative.  The code samples `now` once per iteration            *)
(* (main.rs:172) and reads the clock nowhere else, so a deadline may as    *)
(* well be crossed while the loop sleeps: the clock actions do so.         *)
(***************************************************************************)
EXTENDS Naturals, FiniteSets, ScaleUp

CONSTANTS
    Server,       \* identifiers of servers; reused when nothing is left of one
    MaxNodes,     \* MAX_NODES
    MaxWaiting,   \* bound: linux jobs waiting at once
    Permanent,    \* free linux runners outside the manager's nodes, at most
    Faults        \* what may go wrong, a subset of FaultKinds

FaultKinds == {
    "reject",      \* a call fails and changes nothing
    "lost",        \* a call takes effect and its answer is lost
    "crash",       \* the process stops and starts again with empty memory
    "vanish",      \* a server disappears: never placed, or deleted by hand
    "slow",        \* a server misses the provisioning timeout
    "lag",         \* list_servers lags behind create_server
    "partial",     \* a listing leaves out some of what is there
    "flap",        \* a node of a living server becomes NotReady
    "rejoin",      \* a deleted node of a living server joins again
    "reregister"}  \* a deregistered runner registers again

ASSUME ServerAssumption == IsFiniteSet(Server)
ASSUME BoundsAssumption == MaxNodes \in Nat /\ MaxWaiting \in Nat /\ Permanent \in Nat
ASSUME FaultsAssumption == Faults \subseteq FaultKinds

VARIABLES
    \* outside the process
    server,     \* Hetzner's server
    age,        \* 0: new, 1: past VANISH_GRACE_SECS, 2: past the provisioning timeout
    node,       \* the Kubernetes node: absent, NotReady or Ready
    cordoned,   \* nodes marked unschedulable
    runner,     \* Gitea's runner; "stale" when its pod is gone
    waiting,    \* waiting and queued linux jobs
    stage,      \* history: how far the teardown of each server has come
    calm,       \* whether the faults are over: for liveness, see CalmDown
    \* NodeManager
    nodes,      \* NodeManager.nodes, by state
    rested,     \* Idle nodes whose idle_since is idle_timeout ago
    orphaned,   \* NodeManager.orphaned_since, by the grace period
    \* locals of the iteration
    pc,         \* the call it is about to make
    saw,        \* what it listed
    todo,       \* the servers the current pass has still to visit
    cur,        \* the server between the two calls of one step
    stuck,      \* servers to delete as stuck
    grow        \* servers still to create

hetznerVars == <<server, age>>
kubeVars    == <<node, cordoned>>
giteaVars   == <<runner, waiting>>
ghostVars   == <<stage, calm>>
worldVars   == <<hetznerVars, kubeVars, giteaVars, ghostVars>>
memoryVars  == <<nodes, rested, orphaned>>
localVars   == <<pc, saw, todo, cur, stuck, grow>>
processVars == <<memoryVars, localVars>>
vars        == <<worldVars, processVars>>

ServerFates    == {"free", "unlisted", "listed", "lost", "deleted"}
NodeStatus     == {"none", "down", "up"}
RunnerStatus   == {"none", "idle", "busy", "stale"}
TeardownStates == {"Deregistering", "Draining", "Removing"}
NodeStates     == {"absent", "Provisioning", "Busy", "Idle"} \cup TeardownStates
Gathering      == {"waiting", "in_progress", "runners", "servers", "nodes", "pods"}
Working        == {"vanished", "orphans", "stuck", "create", "scale_down", "advance"}

Nothing ==
    [waiting |-> 0, jobs |-> {}, runner |-> [s \in Server |-> "none"],
     servers |-> {}, node |-> [s \in Server |-> "none"], cordoned |-> {}, pods |-> {}]

TypeOK ==
    /\ server \in [Server -> ServerFates]
    /\ age \in [Server -> 0..2]
    /\ node \in [Server -> NodeStatus]
    /\ cordoned \in SUBSET Server
    /\ runner \in [Server -> RunnerStatus]
    /\ waiting \in 0..MaxWaiting
    /\ stage \in [Server -> 0..3]
    /\ calm \in BOOLEAN
    /\ nodes \in [Server -> NodeStates]
    /\ rested \in SUBSET Server
    /\ orphaned \in [Server -> {"no", "seen", "due"}]
    /\ pc \in Gathering \cup Working
    /\ saw \in [waiting : Nat, jobs : SUBSET Server, runner : [Server -> RunnerStatus],
                servers : SUBSET Server, node : [Server -> NodeStatus],
                cordoned : SUBSET Server, pods : SUBSET Server]
    /\ todo \in SUBSET Server
    /\ cur \in SUBSET Server
    /\ stuck \in SUBSET Server
    /\ grow \in Nat

Init ==
    /\ server = [s \in Server |-> "free"]
    /\ age = [s \in Server |-> 0]
    /\ node = [s \in Server |-> "none"]
    /\ cordoned = {}
    /\ runner = [s \in Server |-> "none"]
    /\ waiting = 0
    /\ stage = [s \in Server |-> 0]
    /\ calm = FALSE
    /\ nodes = [s \in Server |-> "absent"]
    /\ rested = {}
    /\ orphaned = [s \in Server |-> "no"]
    /\ pc = "waiting"
    /\ saw = Nothing
    /\ todo = {} /\ cur = {} /\ stuck = {}
    /\ grow = 0

Fault(kind) == kind \in Faults /\ ~calm

Alive(s)   == server[s] \in {"unlisted", "listed"}
Gone(s)    == server[s] \in {"lost", "deleted"}
HasPod(s)  == runner[s] \in {"idle", "busy"}
Tracked    == {s \in Server : nodes[s] # "absent"}
In(states) == {s \in Server : nodes[s] \in states}

--------------------------------------------------------------------------------
(***************************************************************************)
(* Gathering: one list call after another (main.rs steps 1 to 3).          *)
(***************************************************************************)

(* list_jobs and list_servers are paged, and what disappears between two   *)
(* pages hides something else (see Paging); list_runners asks for one page *)
(* only.                                                                   *)
PartOf(S) == IF Fault("partial") THEN SUBSET S ELSE {S}

(* list_jobs(Waiting), then list_jobs(Queued): a job that becomes queued   *)
(* between the two calls is counted twice.                                 *)
ListWaiting ==
    /\ pc = "waiting"
    /\ \E once \in IF Fault("partial") THEN 0..waiting ELSE {waiting}, twice \in 0..waiting :
          saw' = [saw EXCEPT !.waiting = once + twice]
    /\ pc' = "in_progress"
    /\ UNCHANGED <<worldVars, memoryVars, todo, cur, stuck, grow>>

ListInProgress ==
    /\ pc = "in_progress"
    /\ \E jobs \in PartOf({s \in Server : runner[s] = "busy"}) :
          saw' = [saw EXCEPT !.jobs = jobs]
    /\ pc' = "runners"
    /\ UNCHANGED <<worldVars, memoryVars, todo, cur, stuck, grow>>

RunnersOf(part) == [s \in Server |-> IF s \in part THEN runner[s] ELSE "none"]

ListRunners ==
    /\ pc = "runners"
    /\ \E part \in PartOf(Server) : saw' = [saw EXCEPT !.runner = RunnersOf(part)]
    /\ pc' = "servers"
    /\ UNCHANGED <<worldVars, memoryVars, todo, cur, stuck, grow>>

ListServers ==
    /\ pc = "servers"
    /\ \E servers \in PartOf({s \in Server : server[s] = "listed"}) :
          saw' = [saw EXCEPT !.servers = servers]
    /\ pc' = "nodes"
    /\ UNCHANGED <<worldVars, memoryVars, todo, cur, stuck, grow>>

ListNodes ==
    /\ pc = "nodes"
    /\ saw' = [saw EXCEPT !.node = node, !.cordoned = cordoned]
    /\ pc' = "pods"
    /\ UNCHANGED <<worldVars, memoryVars, todo, cur, stuck, grow>>

(* Any list call fails: the iteration is given up and leaves no trace.     *)
ListFails ==
    /\ Fault("reject")
    /\ pc \in Gathering
    /\ pc' = "waiting"
    /\ saw' = Nothing
    /\ UNCHANGED <<worldVars, memoryVars, todo, cur, stuck, grow>>

(***************************************************************************)
(* reconcile and carry_forward_state.  A runner belongs to a server when   *)
(* the pod on its node, listed last, has the name of a listed runner.      *)
(***************************************************************************)
Matched(s, pods) == s \in pods /\ saw.runner[s] \in {"idle", "busy"}

(* Mutant: a cordoned node without a runner is not picked up. *)
ReconciledSkipsCordoned(s, pods) ==
    IF saw.node[s] = "none" THEN IF age[s] < 2 THEN "Provisioning" ELSE "absent"
    ELSE IF ~Matched(s, pods) THEN IF s \in saw.cordoned THEN "absent" ELSE "Provisioning"
    ELSE IF saw.runner[s] = "busy" \/ s \in saw.jobs THEN "Busy" ELSE "Idle"

(* The state reconcile gives a listed server, or "absent" for a stuck one. *)
Reconciled(s, pods) ==
    IF saw.node[s] = "none" THEN IF age[s] < 2 THEN "Provisioning" ELSE "absent"
    ELSE IF ~Matched(s, pods) THEN IF s \in saw.cordoned THEN "Draining" ELSE "Provisioning"
    ELSE IF saw.runner[s] = "busy" \/ s \in saw.jobs THEN "Busy" ELSE "Idle"

Found(s, pods) == IF s \in saw.servers THEN Reconciled(s, pods) ELSE "absent"

(* Mutants: what reconcile finds replaces a teardown in progress; Idle is  *)
(* carried forward like a teardown; an unlisted server is dropped; every   *)
(* unlisted node is kept.                                                  *)
ForgetsTeardown(s, pods) ==
    IF Found(s, pods) # "absent" THEN Found(s, pods)
    ELSE IF nodes[s] = "Removing" \/ (nodes[s] = "Provisioning" /\ age[s] < 2)
           THEN nodes[s] ELSE "absent"
CarriesIdle(s, pods) ==
    IF Found(s, pods) # "absent"
      THEN IF nodes[s] \in TeardownStates \cup {"Idle"} THEN nodes[s] ELSE Found(s, pods)
      ELSE IF nodes[s] = "Removing" \/ (nodes[s] = "Provisioning" /\ age[s] < 2)
             THEN nodes[s] ELSE "absent"
DropsUnlisted(s, pods) ==
    IF Found(s, pods) # "absent" /\ nodes[s] \in TeardownStates THEN nodes[s]
    ELSE Found(s, pods)
KeepsUnlisted(s, pods) ==
    IF Found(s, pods) # "absent" /\ nodes[s] \notin TeardownStates THEN Found(s, pods)
    ELSE nodes[s]

(* carry_forward_state: a teardown in progress outlives what was listed,   *)
(* and a server that was not listed survives only while it is provisioning *)
(* or being removed.                                                       *)
CarriedForward(s, pods) ==
    IF Found(s, pods) # "absent"
      THEN IF nodes[s] \in TeardownStates THEN nodes[s] ELSE Found(s, pods)
      ELSE IF nodes[s] = "Removing" \/ (nodes[s] = "Provisioning" /\ age[s] < 2)
             THEN nodes[s] ELSE "absent"

(* Mutants: a node that is only NotReady counts as absent; only a ghost is *)
(* stuck.                                                                  *)
StuckUnlessReady ==
    {s \in Server : /\ age[s] = 2
                    /\ \/ s \in saw.servers /\ saw.node[s] # "up"
                       \/ s \notin saw.servers /\ nodes[s] = "Provisioning"}
StuckOnlyGhosts ==
    {s \in Server : age[s] = 2 /\ s \notin saw.servers /\ nodes[s] = "Provisioning"}

(* DeleteStuckServer, from reconcile or for a provisioning server that has *)
(* not been listed by the timeout.                                         *)
Stuck ==
    {s \in Server : /\ age[s] = 2
                    /\ \/ s \in saw.servers /\ saw.node[s] = "none"
                       \/ s \notin saw.servers /\ nodes[s] = "Provisioning"}

(* list_pods, the synchronous reconciliation after it, and the list of     *)
(* missing servers drop_vanished_servers starts from.                      *)
Reconcile ==
    /\ pc = "pods"
    /\ LET pods == {s \in Server : HasPod(s)}
       IN  /\ saw' = [saw EXCEPT !.pods = pods]
           /\ nodes' = [s \in Server |-> CarriedForward(s, pods)]
    /\ rested' = {s \in rested : nodes[s] = "Idle" /\ nodes'[s] = "Idle"}
    /\ stuck' = Stuck
    /\ todo' = {s \in Server : /\ nodes'[s] = "Provisioning"
                               /\ age[s] >= 1
                               /\ s \notin saw.servers}
    /\ pc' = "vanished"
    /\ UNCHANGED <<worldVars, orphaned, cur, grow>>

--------------------------------------------------------------------------------
(***************************************************************************)
(* Servers that vanished and nodes that were orphaned.                     *)
(***************************************************************************)

(* server_exists: forget the server if it does not, keep it if it does or  *)
(* if the lookup fails.                                                    *)
LookUp(s) ==
    /\ pc = "vanished"
    /\ s \in todo
    /\ todo' = todo \ {s}
    /\ \/ /\ ~Alive(s)
          /\ nodes' = [nodes EXCEPT ![s] = "absent"]
       \/ /\ Alive(s) \/ Fault("reject")
          /\ nodes' = nodes
    /\ UNCHANGED <<worldVars, rested, orphaned, pc, saw, cur, stuck, grow>>

(* Mutant: NotReady is enough. *)
OrphanListed(s) == saw.node[s] = "down"
Orphan(s) == saw.node[s] = "down" /\ s \notin saw.servers

(* Mutant: every poll starts the grace period again. *)
FindOrphansRestartsGrace ==
    /\ pc = "vanished"
    /\ todo = {}
    /\ orphaned' = [s \in Server |-> IF Orphan(s) THEN "seen" ELSE "no"]
    /\ todo' = {}
    /\ pc' = "orphans"
    /\ UNCHANGED <<worldVars, nodes, rested, saw, cur, stuck, grow>>

FindOrphans ==
    /\ pc = "vanished"
    /\ todo = {}
    /\ orphaned' = [s \in Server |-> IF ~Orphan(s) THEN "no"
                                     ELSE IF orphaned[s] = "no" THEN "seen"
                                     ELSE orphaned[s]]
    /\ todo' = {s \in Server : Orphan(s) /\ orphaned[s] = "due"}
    /\ pc' = "orphans"
    /\ UNCHANGED <<worldVars, nodes, rested, saw, cur, stuck, grow>>

(***************************************************************************)
(* The calls that change the world.  What is not there cannot be deleted   *)
(* or drained: the call fails with a 404.                                  *)
(***************************************************************************)
Higher(a, b) == IF a > b THEN a ELSE b
Progress(s, n) == stage' = [stage EXCEPT ![s] = Higher(@, n)]

RunnerDeleted(s) ==
    /\ runner[s] # "none"
    /\ runner' = [runner EXCEPT ![s] = "none"]
    /\ Progress(s, 1)
    /\ UNCHANGED <<waiting, calm, hetznerVars, kubeVars>>

NodeCordoned(s) ==
    /\ node[s] # "none"
    /\ cordoned' = cordoned \cup {s}
    /\ Progress(s, 2)
    /\ UNCHANGED <<node, waiting, calm, hetznerVars>>

PodLost(s) == runner' = [runner EXCEPT ![s] = IF HasPod(s) THEN "stale" ELSE @]

NodeDeleted(s) ==
    /\ node[s] # "none"
    /\ node' = [node EXCEPT ![s] = "none"]
    /\ cordoned' = cordoned \ {s}
    /\ PodLost(s)
    /\ UNCHANGED <<waiting, calm, hetznerVars>>

ServerDeleted(s) ==
    /\ Alive(s)
    /\ server' = [server EXCEPT ![s] = "deleted"]
    /\ UNCHANGED <<age, kubeVars, giteaVars, ghostVars>>

(* The two ways a call ends in an error: the effect may have happened.     *)
Refused(there) == ~there \/ Fault("reject")
AnswerLost     == Fault("lost")

(* Mutant: the runner of an orphaned node is not deregistered. *)
OrphanRunnerSkipped(s) ==
    /\ pc = "orphans"
    /\ cur = {}
    /\ s \in todo
    /\ todo' = todo \ {s}
    /\ cur' = {s}
    /\ UNCHANGED <<worldVars, memoryVars, pc, saw, stuck, grow>>

(* remove_orphaned_node, first call: deregister the runner found on the    *)
(* node.  The error is only logged.                                        *)
OrphanRunner(s) ==
    /\ pc = "orphans"
    /\ cur = {}
    /\ s \in todo
    /\ todo' = todo \ {s}
    /\ cur' = {s}
    /\ \/ Matched(s, saw.pods) /\ RunnerDeleted(s)
       \/ /\ ~Matched(s, saw.pods) \/ Refused(runner[s] # "none")
          /\ UNCHANGED worldVars
    /\ UNCHANGED <<memoryVars, pc, saw, stuck, grow>>

(* second call: delete the node, whatever became of the first.             *)
OrphanNode(s) ==
    /\ pc = "orphans"
    /\ s \in cur
    /\ cur' = {}
    /\ \/ /\ NodeDeleted(s) /\ UNCHANGED stage
          /\ orphaned' = [orphaned EXCEPT ![s] = "no"]
       \/ /\ AnswerLost /\ NodeDeleted(s) /\ UNCHANGED stage
          /\ UNCHANGED orphaned
       \/ /\ Refused(node[s] # "none")
          /\ UNCHANGED <<worldVars, orphaned>>
    /\ UNCHANGED <<nodes, rested, pc, saw, todo, stuck, grow>>

StuckPhase ==
    /\ pc = "orphans"
    /\ todo = {} /\ cur = {}
    /\ todo' = stuck
    /\ stuck' = {}
    /\ pc' = "stuck"
    /\ UNCHANGED <<worldVars, memoryVars, saw, cur, grow>>

(* delete_stuck_server, once per server: the actions were deduplicated.    *)
DeleteStuck(s) ==
    /\ pc = "stuck"
    /\ s \in todo
    /\ todo' = todo \ {s}
    /\ \/ ServerDeleted(s) /\ nodes' = [nodes EXCEPT ![s] = "absent"]
       \/ AnswerLost /\ ServerDeleted(s) /\ UNCHANGED nodes
       \/ Refused(Alive(s)) /\ UNCHANGED <<worldVars, nodes>>
    /\ UNCHANGED <<rested, orphaned, pc, saw, cur, stuck, grow>>

--------------------------------------------------------------------------------
(***************************************************************************)
(* Scaling up.                                                             *)
(***************************************************************************)

(* A free runner that is not on a Busy or Idle node counts as permanent,   *)
(* one that registered again on a node in teardown included.               *)
Unmanaged == {s \in Server : saw.runner[s] \in {"idle", "stale"}} \ In({"Busy", "Idle"})

(* Mutant: nodes in teardown do not count towards MAX_NODES. *)
GrowthIgnoresTeardown ==
    /\ pc = "stuck"
    /\ todo = {}
    /\ \E permanent \in 0..(Permanent + Cardinality(Unmanaged)) :
          grow' = ComputeScaleUp(saw.waiting, Cardinality(In({"Idle"})),
                                 Cardinality(In({"Provisioning"})), permanent,
                                 Cardinality(Tracked \ In(TeardownStates)), MaxNodes)
    /\ pc' = "create"
    /\ saw' = [saw EXCEPT !.waiting = 0]
    /\ UNCHANGED <<worldVars, memoryVars, todo, cur, stuck>>

Growth ==
    /\ pc = "stuck"
    /\ todo = {}
    /\ \E permanent \in 0..(Permanent + Cardinality(Unmanaged)) :
          grow' = ComputeScaleUp(saw.waiting, Cardinality(In({"Idle"})),
                                 Cardinality(In({"Provisioning"})), permanent,
                                 Cardinality(Tracked), MaxNodes)
    /\ pc' = "create"
    /\ saw' = [saw EXCEPT !.waiting = 0]
    /\ UNCHANGED <<worldVars, memoryVars, todo, cur, stuck>>

ServerCreated(s) ==
    /\ server[s] = "free"
    /\ \E fate \in IF Fault("lag") THEN {"listed", "unlisted"} ELSE {"listed"} :
          server' = [server EXCEPT ![s] = fate]
    /\ UNCHANGED <<age, kubeVars, giteaVars, ghostVars>>

(* create_server answers: the server is tracked as Provisioning.           *)
Create(s) ==
    /\ pc = "create"
    /\ grow > 0
    /\ ServerCreated(s)
    /\ nodes' = [nodes EXCEPT ![s] = "Provisioning"]
    /\ grow' = grow - 1
    /\ UNCHANGED <<rested, orphaned, pc, saw, todo, cur, stuck>>

(* The answer is lost: the server is there and nobody tracks it.           *)
CreateLost(s) ==
    /\ AnswerLost
    /\ pc = "create"
    /\ grow > 0
    /\ ServerCreated(s)
    /\ grow' = grow - 1
    /\ UNCHANGED <<memoryVars, pc, saw, todo, cur, stuck>>

(* Another error goes on to the next server, no placement with capacity    *)
(* ends scale_up.  So does running out of identifiers, a bound.            *)
CreateFails ==
    /\ pc = "create"
    /\ grow > 0
    /\ Refused(\E s \in Server : server[s] = "free")
    /\ grow' \in {grow - 1, 0}
    /\ UNCHANGED <<worldVars, memoryVars, pc, saw, todo, cur, stuck>>

--------------------------------------------------------------------------------
(***************************************************************************)
(* Scaling down: teardown_step on the candidates, then on every node in    *)
(* teardown, the ones the first pass has just put there included.          *)
(***************************************************************************)

(* find_teardown_candidates.  Any part of the rested nodes may be in the   *)
(* last minutes of its billing hour.                                       *)
ScaleDown ==
    /\ pc = "create"
    /\ grow = 0
    /\ todo' \in SUBSET (rested \cap In({"Idle"}))
    /\ pc' = "scale_down"
    /\ UNCHANGED <<worldVars, memoryVars, saw, cur, stuck, grow>>

Becomes(s, state) == nodes' = [nodes EXCEPT ![s] = state]

(* teardown_step, Idle *)
Deregister(s) ==
    /\ pc = "scale_down"
    /\ s \in todo
    /\ todo' = todo \ {s}
    /\ \/ RunnerDeleted(s) /\ Becomes(s, "Deregistering") /\ rested' = rested \ {s}
       \/ AnswerLost /\ RunnerDeleted(s) /\ UNCHANGED <<nodes, rested>>
       \/ Refused(runner[s] # "none") /\ UNCHANGED <<worldVars, nodes, rested>>
    /\ UNCHANGED <<orphaned, pc, saw, cur, stuck, grow>>

Advance ==
    /\ pc = "scale_down"
    /\ todo = {}
    /\ todo' = In(TeardownStates)
    /\ pc' = "advance"
    /\ saw' = Nothing
    /\ UNCHANGED <<worldVars, memoryVars, cur, stuck, grow>>

Visit(s, state) ==
    /\ pc = "advance"
    /\ cur = {}
    /\ s \in todo
    /\ nodes[s] = state
    /\ todo' = todo \ {s}
    /\ UNCHANGED <<rested, orphaned, pc, saw, stuck, grow>>

(* teardown_step, Deregistering: drain_node cordons the node, lists its    *)
(* pods and evicts them, a runner that registered again included unless a  *)
(* DaemonSet owns it or the eviction fails, an error it ignores.  Any      *)
(* other error after the cordon leaves the node cordoned.                  *)
Drain(s) ==
    /\ Visit(s, "Deregistering")
    /\ \/ NodeCordoned(s) /\ (PodLost(s) \/ UNCHANGED runner) /\ Becomes(s, "Draining")
       \/ /\ AnswerLost \/ Fault("reject")
          /\ NodeCordoned(s) /\ UNCHANGED <<runner, nodes>>
       \/ Refused(node[s] # "none") /\ UNCHANGED <<worldVars, nodes>>
    /\ UNCHANGED cur

(* Mutant: an error of delete_node is ignored. *)
DeleteNodeIgnoresError(s) ==
    /\ Visit(s, "Draining")
    /\ Becomes(s, "Removing") /\ cur' = {s}
    /\ \/ NodeDeleted(s) /\ Progress(s, 3)
       \/ Refused(node[s] # "none") /\ UNCHANGED worldVars

(* teardown_step, Draining: delete_node, and on success the server next.   *)
DeleteNode(s) ==
    /\ Visit(s, "Draining")
    /\ \/ NodeDeleted(s) /\ Progress(s, 3) /\ Becomes(s, "Removing") /\ cur' = {s}
       \/ AnswerLost /\ NodeDeleted(s) /\ Progress(s, 3) /\ UNCHANGED <<nodes, cur>>
       \/ Refused(node[s] # "none") /\ UNCHANGED <<worldVars, nodes, cur>>

(* Mutant: the node stays in Removing when the server is deleted. *)
TryDeleteServerKeepsNode(s) ==
    \/ ServerDeleted(s) /\ UNCHANGED nodes
    \/ Refused(Alive(s)) /\ UNCHANGED <<worldVars, nodes>>

(* try_delete_hetzner_server: an error, a 404 too, keeps the node in       *)
(* Removing.                                                               *)
TryDeleteServer(s) ==
    \/ ServerDeleted(s) /\ Becomes(s, "absent")
    \/ AnswerLost /\ ServerDeleted(s) /\ UNCHANGED nodes
    \/ Refused(Alive(s)) /\ UNCHANGED <<worldVars, nodes>>

DeleteAtOnce(s) ==
    /\ pc = "advance"
    /\ s \in cur
    /\ cur' = {}
    /\ TryDeleteServer(s)
    /\ UNCHANGED <<rested, orphaned, pc, saw, todo, stuck, grow>>

(* teardown_step, Removing *)
DeleteServer(s) ==
    /\ Visit(s, "Removing")
    /\ TryDeleteServer(s)
    /\ UNCHANGED cur

EndIteration ==
    /\ pc = "advance"
    /\ todo = {} /\ cur = {}
    /\ pc' = "waiting"
    /\ UNCHANGED <<worldVars, memoryVars, saw, todo, cur, stuck, grow>>

--------------------------------------------------------------------------------
(***************************************************************************)
(* The process restarts: everything it knew is in memory.                  *)
(***************************************************************************)
Crash ==
    /\ Fault("crash")
    /\ nodes' = [s \in Server |-> "absent"]
    /\ rested' = {}
    /\ orphaned' = [s \in Server |-> "no"]
    /\ pc' = "waiting"
    /\ saw' = Nothing
    /\ todo' = {} /\ cur' = {} /\ stuck' = {} /\ grow' = 0
    /\ UNCHANGED worldVars

(***************************************************************************)
(* The clock, while the loop sleeps.                                       *)
(***************************************************************************)
GrowOlder(s) ==
    /\ pc = "waiting"
    /\ server[s] # "free"
    /\ age[s] < 2
    /\ age[s] = 1 /\ Alive(s) /\ node[s] = "none" /\ stage[s] = 0 => Fault("slow")
    /\ age' = [age EXCEPT ![s] = @ + 1]
    /\ UNCHANGED <<server, kubeVars, giteaVars, ghostVars, processVars>>

Rest(s) ==
    /\ pc = "waiting"
    /\ nodes[s] = "Idle"
    /\ s \notin rested
    /\ rested' = rested \cup {s}
    /\ UNCHANGED <<worldVars, nodes, orphaned, localVars>>

OrphanDue(s) ==
    /\ pc = "waiting"
    /\ orphaned[s] = "seen"
    /\ orphaned' = [orphaned EXCEPT ![s] = "due"]
    /\ UNCHANGED <<worldVars, nodes, rested, localVars>>

(***************************************************************************)
(* Hetzner, Kubernetes, Gitea and the people who push to it.               *)
(***************************************************************************)
Listed(s) ==
    /\ server[s] = "unlisted"
    /\ server' = [server EXCEPT ![s] = "listed"]
    /\ UNCHANGED <<age, kubeVars, giteaVars, ghostVars, processVars>>

Vanish(s) ==
    /\ Fault("vanish")
    /\ Alive(s)
    /\ server' = [server EXCEPT ![s] = "lost"]
    /\ UNCHANGED <<age, kubeVars, giteaVars, ghostVars, processVars>>

(* cloud-init starts the k3s agent, which registers the node. *)
Join(s) ==
    /\ Alive(s)
    /\ node[s] = "none"
    /\ stage[s] < 3 \/ Fault("rejoin")
    /\ node' = [node EXCEPT ![s] = "down"]
    /\ UNCHANGED <<cordoned, hetznerVars, giteaVars, ghostVars, processVars>>

NodeUp(s) ==
    /\ Alive(s)
    /\ node[s] = "down"
    /\ node' = [node EXCEPT ![s] = "up"]
    /\ UNCHANGED <<cordoned, hetznerVars, giteaVars, ghostVars, processVars>>

NodeDown(s) ==
    /\ node[s] = "up"
    /\ Gone(s) \/ Fault("flap")
    /\ node' = [node EXCEPT ![s] = "down"]
    /\ UNCHANGED <<cordoned, hetznerVars, giteaVars, ghostVars, processVars>>

Register(s) ==
    /\ Alive(s)
    /\ node[s] = "up"
    /\ runner[s] = "none"
    /\ stage[s] = 0 \/ Fault("reregister")
    /\ runner' = [runner EXCEPT ![s] = "idle"]
    /\ UNCHANGED <<waiting, hetznerVars, kubeVars, ghostVars, processVars>>

JobArrives ==
    /\ waiting < MaxWaiting
    /\ waiting' = waiting + 1
    /\ UNCHANGED <<runner, hetznerVars, kubeVars, ghostVars, processVars>>

(* Cancelled, or taken by a runner that is not the autoscaler's. *)
JobWithdrawn ==
    /\ waiting > 0
    /\ waiting' = waiting - 1
    /\ UNCHANGED <<runner, hetznerVars, kubeVars, ghostVars, processVars>>

JobTaken(s) ==
    /\ waiting > 0
    /\ Alive(s) /\ node[s] = "up" /\ runner[s] = "idle"
    /\ waiting' = waiting - 1
    /\ runner' = [runner EXCEPT ![s] = "busy"]
    /\ UNCHANGED <<hetznerVars, kubeVars, ghostVars, processVars>>

JobDone(s) ==
    /\ runner[s] = "busy"
    /\ runner' = [runner EXCEPT ![s] = "idle"]
    /\ UNCHANGED <<waiting, hetznerVars, kubeVars, ghostVars, processVars>>

(* Nothing is left of a server: its identifier may stand for another one.  *)
(* A registration whose pod is gone stays in Gitea under a name that no    *)
(* pod will have again, and out of sight.                                  *)
Recycle(s) ==
    /\ pc = "waiting"
    /\ Gone(s) /\ node[s] = "none" /\ ~HasPod(s)
    /\ nodes[s] = "absent" /\ orphaned[s] = "no"
    /\ server' = [server EXCEPT ![s] = "free"]
    /\ age' = [age EXCEPT ![s] = 0]
    /\ stage' = [stage EXCEPT ![s] = 0]
    /\ runner' = [runner EXCEPT ![s] = "none"]
    /\ UNCHANGED <<waiting, calm, kubeVars, processVars>>

--------------------------------------------------------------------------------
List  == ListWaiting \/ ListInProgress \/ ListRunners \/ ListServers \/ ListNodes
Phase == Reconcile \/ FindOrphans \/ StuckPhase \/ Growth \/ ScaleDown \/ Advance
         \/ EndIteration
Call(s) ==
    \/ LookUp(s) \/ OrphanRunner(s) \/ OrphanNode(s) \/ DeleteStuck(s)
    \/ Create(s) \/ CreateLost(s) \/ Deregister(s)
    \/ Drain(s) \/ DeleteNode(s) \/ DeleteAtOnce(s) \/ DeleteServer(s)

(* run_loop_iteration *)
Iterate == List \/ ListFails \/ Phase \/ CreateFails \/ \E s \in Server : Call(s)

Clock(s)  == GrowOlder(s) \/ Rest(s) \/ OrphanDue(s)
World(s)  == Listed(s) \/ Vanish(s) \/ Join(s) \/ NodeUp(s) \/ NodeDown(s) \/ Register(s)
             \/ JobTaken(s) \/ JobDone(s) \/ Recycle(s)
Jobs      == JobArrives \/ JobWithdrawn

Next ==
    \/ Iterate
    \/ Crash
    \/ Jobs
    \/ \E s \in Server : Clock(s) \/ World(s)

Spec == Init /\ [][Next]_vars

(***************************************************************************)
(* Liveness is asked of what follows the faults: CalmDown ends them, at    *)
(* any moment.  Before it a call may fail, and the process restart, any    *)
(* number of times.                                                        *)
(***************************************************************************)
CalmDown ==
    /\ ~calm
    /\ calm' = TRUE
    /\ UNCHANGED <<hetznerVars, kubeVars, giteaVars, stage, processVars>>

(* The loop never stops taking steps (main's loop, whose every await ends) *)
(* and time passes while it sleeps.                                        *)
LoopFairness ==
    /\ WF_vars(Iterate)
    /\ \A s \in Server :
          SF_vars(GrowOlder(s)) /\ SF_vars(Rest(s)) /\ SF_vars(OrphanDue(s))

(* Hetzner lists what it created, and Kubernetes marks the node of a       *)
(* server that is gone NotReady.                                           *)
CloudFairness ==
    \A s \in Server : WF_vars(Listed(s)) /\ WF_vars(NodeDown(s) /\ Gone(s))

FairSpec == Init /\ [][Next \/ CalmDown]_vars /\ WF_vars(CalmDown)
            /\ LoopFairness /\ CloudFairness

(* What serving a job takes beyond that: servers join, runners start and   *)
(* register, a free runner takes a waiting job, a job ends, and            *)
(* identifiers become free again.                                          *)
ServingFairness ==
    \A s \in Server :
        /\ WF_vars(Join(s)) /\ WF_vars(NodeUp(s)) /\ WF_vars(Register(s))
        /\ SF_vars(JobTaken(s)) /\ WF_vars(JobDone(s)) /\ SF_vars(Recycle(s))

ServingSpec == FairSpec /\ ServingFairness

================================================================================
