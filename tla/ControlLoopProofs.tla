--------------------------- MODULE ControlLoopProofs ---------------------------
(***************************************************************************)
(* The safety properties of the control loop, for every number of servers, *)
(* every limit and every set of faults.                                    *)
(***************************************************************************)
EXTENDS ControlLoopProperties, TLAPS, FiniteSetTheorems

(***************************************************************************)
(* How many of the servers are in some set is a natural number.            *)
(***************************************************************************)
LEMMA CountType ==
    ASSUME NEW S \in SUBSET Server
    PROVE  IsFiniteSet(S) /\ Cardinality(S) \in Nat
BY ServerAssumption, FS_Subset, FS_CardinalityType

(***************************************************************************)
(* Type correctness.                                                       *)
(***************************************************************************)
LEMMA InitType == Init => TypeOK
<1> SUFFICES ASSUME Init PROVE TypeOK
    OBVIOUS
<1> USE DEF Init
<1>1. waiting \in 0..MaxWaiting
    BY BoundsAssumption DEF BoundsAssumption
<1>2. calm \in BOOLEAN
    OBVIOUS
<1>3. saw \in [waiting : Nat, jobs : SUBSET Server, runner : [Server -> RunnerStatus],
                servers : SUBSET Server, node : [Server -> NodeStatus],
                cordoned : SUBSET Server, pods : SUBSET Server]
    BY DEF Nothing, NodeStatus, RunnerStatus
<1> QED
    BY <1>1, <1>2, <1>3 DEF TypeOK, ServerFates, NodeStatus, RunnerStatus, NodeStates, Gathering

LEMMA ListType == TypeOK /\ (List \/ ListFails) => TypeOK'
<1> SUFFICES ASSUME TypeOK, List \/ ListFails PROVE TypeOK'
    OBVIOUS
<1> USE BoundsAssumption DEF BoundsAssumption, TypeOK, worldVars, hetznerVars, kubeVars, giteaVars, ghostVars,
        memoryVars, Gathering, Working
<1>1. CASE ListWaiting     BY <1>1 DEF ListWaiting
<1>2. CASE ListInProgress  BY <1>2 DEF ListInProgress, PartOf
<1>3. CASE ListRunners
  <2>1. PICK part \in SUBSET Server : saw' = [saw EXCEPT !.runner = RunnersOf(part)]
      BY <1>3 DEF ListRunners, PartOf
  <2>2. RunnersOf(part) \in [Server -> RunnerStatus]
      BY DEF RunnersOf, RunnerStatus
  <2> QED BY <1>3, <2>1, <2>2 DEF ListRunners
<1>4. CASE ListServers     BY <1>4 DEF ListServers, PartOf
<1>5. CASE ListNodes       BY <1>5 DEF ListNodes
<1>6. CASE ListFails       BY <1>6 DEF ListFails, Nothing, NodeStatus, RunnerStatus
<1> QED BY <1>1, <1>2, <1>3, <1>4, <1>5, <1>6 DEF List

LEMMA PhaseType == TypeOK /\ (Phase \/ CreateFails) => TypeOK'
<1> SUFFICES ASSUME TypeOK, Phase \/ CreateFails PROVE TypeOK'
    OBVIOUS
<1> USE DEF TypeOK, worldVars, hetznerVars, kubeVars, giteaVars, ghostVars, memoryVars,
        Gathering, Working
<1>1. CASE Reconcile
  <2>1. \A s \in Server, pods \in SUBSET Server : CarriedForward(s, pods) \in NodeStates
    BY DEF CarriedForward, Found, Reconciled, NodeStates, TeardownStates
  <2> QED BY <1>1, <2>1 DEF Reconcile, Stuck, HasPod
<1>2. CASE FindOrphans   BY <1>2 DEF FindOrphans
<1>3. CASE StuckPhase    BY <1>3 DEF StuckPhase
<1>4. CASE Growth
  <2>1. grow' \in Nat
    <3>1. PICK permanent \in 0..(Permanent + Cardinality(Unmanaged)) :
            grow' = ComputeScaleUp(saw.waiting, Cardinality(In({"Idle"})),
                                   Cardinality(In({"Provisioning"})), permanent,
                                   Cardinality(Tracked), MaxNodes)
        BY <1>4 DEF Growth
    <3>2. /\ In({"Idle"}) \in SUBSET Server /\ In({"Provisioning"}) \in SUBSET Server
          /\ Tracked \in SUBSET Server /\ Unmanaged \in SUBSET Server
        BY DEF In, Tracked, Unmanaged
    <3>3. /\ Cardinality(In({"Idle"})) \in Nat /\ Cardinality(In({"Provisioning"})) \in Nat
          /\ Cardinality(Tracked) \in Nat /\ Cardinality(Unmanaged) \in Nat
        BY <3>2, CountType
    <3>4. permanent \in Nat /\ saw.waiting \in Nat /\ MaxNodes \in Nat
        BY <3>3, BoundsAssumption DEF BoundsAssumption
    <3> QED BY <3>1, <3>3, <3>4, ScaleUpBound
  <2> QED BY <1>4, <2>1 DEF Growth
<1>5. CASE ScaleDown     BY <1>5 DEF ScaleDown
<1>6. CASE Advance       BY <1>6 DEF Advance, In, Nothing, NodeStatus, RunnerStatus
<1>7. CASE EndIteration  BY <1>7 DEF EndIteration
<1>8. CASE CreateFails   BY <1>8 DEF CreateFails
<1> QED BY <1>1, <1>2, <1>3, <1>4, <1>5, <1>6, <1>7, <1>8 DEF Phase

(***************************************************************************)
(* The calls, and the effect each of them has on the world.                *)
(***************************************************************************)
WorldTypeOK ==
    /\ server \in [Server -> ServerFates] /\ age \in [Server -> 0..2]
    /\ node \in [Server -> NodeStatus] /\ cordoned \in SUBSET Server
    /\ runner \in [Server -> RunnerStatus] /\ waiting \in 0..MaxWaiting
    /\ stage \in [Server -> 0..3] /\ calm \in BOOLEAN

LEMMA EffectType ==
    ASSUME TypeOK, NEW s \in Server,
           \/ UNCHANGED worldVars
           \/ RunnerDeleted(s)
           \/ NodeCordoned(s) /\ (PodLost(s) \/ UNCHANGED runner)
           \/ NodeDeleted(s) /\ (UNCHANGED stage \/ Progress(s, 3))
           \/ ServerDeleted(s)
           \/ ServerCreated(s)
    PROVE  WorldTypeOK'
<1> USE DEF TypeOK, WorldTypeOK, worldVars, hetznerVars, kubeVars, giteaVars, ghostVars,
        ServerFates, NodeStatus, RunnerStatus, Progress, Higher
<1>1. CASE UNCHANGED worldVars   BY <1>1
<1>2. CASE RunnerDeleted(s)      BY <1>2 DEF RunnerDeleted
<1>3. CASE NodeCordoned(s) /\ (PodLost(s) \/ UNCHANGED runner)
    BY <1>3 DEF NodeCordoned, PodLost
<1>4. CASE NodeDeleted(s) /\ (UNCHANGED stage \/ Progress(s, 3))
    BY <1>4 DEF NodeDeleted, PodLost
<1>5. CASE ServerDeleted(s)      BY <1>5 DEF ServerDeleted
<1>6. CASE ServerCreated(s)      BY <1>6 DEF ServerCreated
<1> QED BY <1>1, <1>2, <1>3, <1>4, <1>5, <1>6

LEMMA CallType == ASSUME TypeOK, NEW s \in Server, Call(s) PROVE TypeOK'
<1> USE DEF TypeOK, WorldTypeOK, Gathering, Working, NodeStates, TeardownStates, memoryVars,
        Becomes, Visit
<1>1. CASE LookUp(s)        BY <1>1, EffectType DEF LookUp
<1>2. CASE OrphanRunner(s)  BY <1>2, EffectType DEF OrphanRunner
<1>3. CASE OrphanNode(s)    BY <1>3, EffectType DEF OrphanNode, worldVars, ghostVars
<1>4. CASE DeleteStuck(s)   BY <1>4, EffectType DEF DeleteStuck
<1>5. CASE Create(s)        BY <1>5, EffectType DEF Create
<1>6. CASE CreateLost(s)    BY <1>6, EffectType DEF CreateLost
<1>7. CASE Deregister(s)    BY <1>7, EffectType DEF Deregister
<1>8. CASE Drain(s)         BY <1>8, EffectType DEF Drain
<1>9. CASE DeleteNode(s)    BY <1>9, EffectType DEF DeleteNode
<1>10. CASE DeleteAtOnce(s) BY <1>10, EffectType DEF DeleteAtOnce, TryDeleteServer
<1>11. CASE DeleteServer(s) BY <1>11, EffectType DEF DeleteServer, TryDeleteServer
<1> QED BY <1>1, <1>2, <1>3, <1>4, <1>5, <1>6, <1>7, <1>8, <1>9, <1>10, <1>11 DEF Call

LEMMA WorldType == ASSUME TypeOK, NEW s \in Server, Clock(s) \/ World(s) PROVE TypeOK'
<1> USE DEF TypeOK, worldVars, hetznerVars, kubeVars, giteaVars, ghostVars, processVars,
        memoryVars, localVars, ServerFates, NodeStatus, RunnerStatus
<1>1. CASE GrowOlder(s)  BY <1>1 DEF GrowOlder
<1>2. CASE Rest(s)       BY <1>2 DEF Rest
<1>3. CASE OrphanDue(s)  BY <1>3 DEF OrphanDue
<1>4. CASE Listed(s)     BY <1>4 DEF Listed
<1>5. CASE Vanish(s)     BY <1>5 DEF Vanish
<1>6. CASE Join(s)       BY <1>6 DEF Join
<1>7. CASE NodeUp(s)     BY <1>7 DEF NodeUp
<1>8. CASE NodeDown(s)   BY <1>8 DEF NodeDown
<1>9. CASE Register(s)   BY <1>9 DEF Register
<1>10. CASE JobTaken(s)  BY <1>10, BoundsAssumption DEF JobTaken, BoundsAssumption
<1>11. CASE JobDone(s)   BY <1>11 DEF JobDone
<1>12. CASE Recycle(s)   BY <1>12 DEF Recycle
<1> QED BY <1>1, <1>2, <1>3, <1>4, <1>5, <1>6, <1>7, <1>8, <1>9, <1>10, <1>11, <1>12
        DEF Clock, World

LEMMA TypeStep == TypeOK /\ [Next]_vars => TypeOK'
<1> SUFFICES ASSUME TypeOK, [Next]_vars PROVE TypeOK'
    OBVIOUS
<1> USE DEF worldVars, hetznerVars, kubeVars, giteaVars, ghostVars, processVars, memoryVars,
        localVars
<1>1. CASE Iterate
    BY <1>1, ListType, PhaseType, CallType DEF Iterate
<1>2. CASE Crash
    BY <1>2 DEF Crash, TypeOK, Nothing, NodeStates, NodeStatus, RunnerStatus, Gathering
<1>3. CASE Jobs
    BY <1>3, BoundsAssumption DEF Jobs, JobArrives, JobWithdrawn, TypeOK, BoundsAssumption
<1>4. CASE \E s \in Server : Clock(s) \/ World(s)
    BY <1>4, WorldType
<1>5. CASE UNCHANGED vars
    BY <1>5 DEF vars, TypeOK
<1> QED BY <1>1, <1>2, <1>3, <1>4, <1>5 DEF Next

(***************************************************************************)
(* Every variable keeps its type, under every fault.                       *)
(***************************************************************************)
THEOREM TypeCorrect == Spec => []TypeOK
<1>1. Init => TypeOK
    BY InitType
<1>2. TypeOK /\ [Next]_vars => TypeOK'
    BY TypeStep
<1> QED BY <1>1, <1>2, PTL DEF Spec

--------------------------------------------------------------------------------
(***************************************************************************)
(* The inductive invariant.                                                *)
(***************************************************************************)
Safe == LocalsInPhase /\ NothingOfFree /\ TeardownHappened /\ IdleWasSeen /\ NoServerForgotten

LEMMA InitSafe == Init => Safe
BY DEF Init, Safe, LocalsInPhase, NothingOfFree, TeardownHappened, IdleWasSeen,
    NoServerForgotten, Nothing, Gathering, Working

LEMMA ListSafe == IInv /\ (List \/ ListFails) => Safe'
<1> SUFFICES ASSUME IInv, List \/ ListFails PROVE Safe'
    OBVIOUS
<1> USE DEF IInv, TypeOK, Safe, LocalsInPhase, NothingOfFree, TeardownHappened, IdleWasSeen,
        NoServerForgotten, worldVars, hetznerVars, kubeVars, giteaVars, ghostVars, memoryVars,
        Gathering, Working, Nothing, Alive
<1>1. CASE ListWaiting     BY <1>1 DEF ListWaiting
<1>2. CASE ListInProgress  BY <1>2 DEF ListInProgress, PartOf
<1>3. CASE ListRunners     BY <1>3 DEF ListRunners, PartOf
<1>4. CASE ListServers     BY <1>4 DEF ListServers, PartOf
<1>5. CASE ListNodes       BY <1>5 DEF ListNodes
<1>6. CASE ListFails       BY <1>6 DEF ListFails
<1> QED BY <1>1, <1>2, <1>3, <1>4, <1>5, <1>6 DEF List

LEMMA PhaseSafe == IInv /\ (Phase \/ CreateFails) => Safe'
<1> SUFFICES ASSUME IInv, Phase \/ CreateFails PROVE Safe'
    OBVIOUS
<1> USE DEF IInv, TypeOK, Safe, LocalsInPhase, NothingOfFree, TeardownHappened, IdleWasSeen,
        NoServerForgotten, worldVars, hetznerVars, kubeVars, giteaVars, ghostVars, memoryVars,
        Gathering, Working, Alive
<1>1. CASE Reconcile
  BY <1>1 DEF Reconcile, Stuck, CarriedForward, Found, Reconciled, Matched, HasPod, NodeStates, TeardownStates
<1>2. CASE FindOrphans   BY <1>2 DEF FindOrphans
<1>3. CASE StuckPhase    BY <1>3 DEF StuckPhase
<1>4. CASE Growth        BY <1>4 DEF Growth
<1>5. CASE ScaleDown     BY <1>5 DEF ScaleDown
<1>6. CASE Advance       BY <1>6 DEF Advance, In, Nothing
<1>7. CASE EndIteration  BY <1>7 DEF EndIteration
<1>8. CASE CreateFails   BY <1>8 DEF CreateFails
<1> QED BY <1>1, <1>2, <1>3, <1>4, <1>5, <1>6, <1>7, <1>8 DEF Phase

LEMMA CallSafe == ASSUME IInv, NEW s \in Server, Call(s) PROVE Safe'
<1> USE DEF IInv, TypeOK, Safe, LocalsInPhase, NothingOfFree, TeardownHappened, IdleWasSeen,
        NoServerForgotten, worldVars, hetznerVars, kubeVars, giteaVars, ghostVars, memoryVars,
        Gathering, Working, Alive, Becomes, Visit,
        RunnerDeleted, NodeCordoned, NodeDeleted, PodLost, HasPod, ServerDeleted, ServerCreated,
        Progress, Higher
<1>1. CASE LookUp(s)        BY <1>1 DEF LookUp
<1>2. CASE OrphanRunner(s)  BY <1>2 DEF OrphanRunner
<1>3. CASE OrphanNode(s)    BY <1>3 DEF OrphanNode
<1>4. CASE DeleteStuck(s)   BY <1>4 DEF DeleteStuck
<1>5. CASE Create(s)        BY <1>5 DEF Create
<1>6. CASE CreateLost(s)    BY <1>6 DEF CreateLost
<1>7. CASE Deregister(s)    BY <1>7 DEF Deregister
<1>8. CASE Drain(s)         BY <1>8 DEF Drain
<1>9. CASE DeleteNode(s)    BY <1>9 DEF DeleteNode
<1>10. CASE DeleteAtOnce(s) BY <1>10 DEF DeleteAtOnce, TryDeleteServer
<1>11. CASE DeleteServer(s) BY <1>11 DEF DeleteServer, TryDeleteServer
<1> QED BY <1>1, <1>2, <1>3, <1>4, <1>5, <1>6, <1>7, <1>8, <1>9, <1>10, <1>11 DEF Call

LEMMA WorldSafe == ASSUME IInv, NEW s \in Server, Clock(s) \/ World(s) PROVE Safe'
<1> USE DEF IInv, TypeOK, Safe, LocalsInPhase, NothingOfFree, TeardownHappened, IdleWasSeen,
        NoServerForgotten, worldVars, hetznerVars, kubeVars, giteaVars, ghostVars, processVars,
        memoryVars, localVars, Gathering, Working, Alive, Gone, HasPod
<1>1. CASE GrowOlder(s)  BY <1>1 DEF GrowOlder
<1>2. CASE Rest(s)       BY <1>2 DEF Rest
<1>3. CASE OrphanDue(s)  BY <1>3 DEF OrphanDue
<1>4. CASE Listed(s)     BY <1>4 DEF Listed
<1>5. CASE Vanish(s)     BY <1>5 DEF Vanish
<1>6. CASE Join(s)       BY <1>6 DEF Join
<1>7. CASE NodeUp(s)     BY <1>7 DEF NodeUp
<1>8. CASE NodeDown(s)   BY <1>8 DEF NodeDown
<1>9. CASE Register(s)   BY <1>9 DEF Register
<1>10. CASE JobTaken(s)  BY <1>10 DEF JobTaken
<1>11. CASE JobDone(s)   BY <1>11 DEF JobDone
<1>12. CASE Recycle(s)   BY <1>12 DEF Recycle, Nothing
<1> QED BY <1>1, <1>2, <1>3, <1>4, <1>5, <1>6, <1>7, <1>8, <1>9, <1>10, <1>11, <1>12
        DEF Clock, World

LEMMA IInvStep == IInv /\ [Next]_vars => IInv'
<1> SUFFICES ASSUME IInv, [Next]_vars PROVE IInv'
    OBVIOUS
<1>1. TypeOK'
    BY TypeStep DEF IInv
<1>2. Safe'
  <2> USE DEF worldVars, hetznerVars, kubeVars, giteaVars, ghostVars, processVars, memoryVars,
          localVars
  <2>1. CASE Iterate
      BY <2>1, ListSafe, PhaseSafe, CallSafe DEF Iterate
  <2>2. CASE Crash
      BY <2>2 DEF Crash, IInv, Safe, LocalsInPhase, NothingOfFree, TeardownHappened,
          IdleWasSeen, NoServerForgotten, Nothing, Gathering, Working
  <2>3. CASE Jobs
      BY <2>3 DEF Jobs, JobArrives, JobWithdrawn, IInv, Safe, LocalsInPhase, NothingOfFree,
          TeardownHappened, IdleWasSeen, NoServerForgotten, Alive
  <2>4. CASE \E s \in Server : Clock(s) \/ World(s)
      BY <2>4, WorldSafe
  <2>5. CASE UNCHANGED vars
      BY <2>5 DEF vars, IInv, Safe, LocalsInPhase, NothingOfFree, TeardownHappened,
          IdleWasSeen, NoServerForgotten, Alive
  <2> QED BY <2>1, <2>2, <2>3, <2>4, <2>5 DEF Next
<1> QED BY <1>1, <1>2 DEF IInv, Safe

(***************************************************************************)
(* The inductive invariant holds, under every fault.                       *)
(***************************************************************************)
THEOREM Inductive == Spec => []IInv
<1>1. Init => IInv
    BY InitType, InitSafe DEF IInv, Safe
<1>2. IInv /\ [Next]_vars => IInv'
    BY IInvStep
<1> QED BY <1>1, <1>2, PTL DEF Spec

(***************************************************************************)
(* Reconciliation loses no living server it listed, restarts included.     *)
(***************************************************************************)
THEOREM ListedServersKept == Spec => []NoServerForgotten
<1>1. IInv => NoServerForgotten
    BY DEF IInv
<1> QED BY <1>1, Inductive, PTL

(***************************************************************************)
(* A runner is deregistered to scale down only if this iteration listed it *)
(* free.                                                                   *)
(***************************************************************************)
THEOREM ScaleDownSawIdle == Spec => TornDownOnlyWhenSeenIdle
<1> DEFINE Seen == \A s \in Server :
                     nodes[s] = "Idle" /\ nodes'[s] = "Deregistering" =>
                         /\ saw.runner[s] = "idle" /\ s \notin saw.jobs
                         /\ s \in saw.pods /\ s \in saw.servers
<1>1. IInv /\ [Next]_vars => [Seen]_vars
  <2> SUFFICES ASSUME IInv, Next, NEW s \in Server,
                      nodes[s] = "Idle", nodes'[s] = "Deregistering"
               PROVE  pc = "scale_down"
      BY DEF IInv, IdleWasSeen, Working
  <2> USE DEF IInv, TypeOK, worldVars, hetznerVars, kubeVars, giteaVars, ghostVars,
          processVars, memoryVars, localVars, NodeStates, TeardownStates
  <2>1. CASE List \/ ListFails \/ CreateFails
      BY <2>1 DEF List, ListWaiting, ListInProgress, ListRunners, ListServers, ListNodes,
          ListFails, CreateFails
  <2>2. CASE Phase
      BY <2>2 DEF Phase, Reconcile, CarriedForward, Found, Reconciled, FindOrphans,
          StuckPhase, Growth, ScaleDown, Advance, EndIteration
  <2>3. CASE \E t \in Server : Call(t)
      BY <2>3 DEF Call, LookUp, OrphanRunner, OrphanNode, DeleteStuck, Create, CreateLost,
          Deregister, Drain, DeleteNode, DeleteAtOnce, DeleteServer, TryDeleteServer, Becomes,
          Visit
  <2>4. CASE Crash \/ Jobs \/ \E t \in Server : Clock(t) \/ World(t)
      BY <2>4 DEF Crash, Jobs, JobArrives, JobWithdrawn, Clock, GrowOlder, Rest, OrphanDue,
          World, Listed, Vanish, Join, NodeUp, NodeDown, Register, JobTaken, JobDone, Recycle
  <2> QED BY <2>1, <2>2, <2>3, <2>4 DEF Next, Iterate
<1> QED BY <1>1, Inductive, PTL DEF Spec, TornDownOnlyWhenSeenIdle

--------------------------------------------------------------------------------
(***************************************************************************)
(* The loop implements the abstract lifecycle: every step of the loop that *)
(* changes what became of a server, how far its teardown has come or       *)
(* whether it is past the timeout is a step of NodeLifecycle.              *)
(***************************************************************************)
LEMMA InitMaps == Init => Lifecycle!Init
BY DEF Init, Lifecycle!Init

LEMMA NothingMaps ==
    ASSUME UNCHANGED <<server, age, stage>>
    PROVE  UNCHANGED Lifecycle!vars
BY DEF Lifecycle!vars

(* A call of the teardown is the next stage, or changes nothing the second *)
(* time.                                                                   *)
LEMMA StageMaps ==
    ASSUME IInv, NEW s \in Server, NEW n \in 1..3,
           Progress(s, n), stage[s] >= n - 1, server[s] # "free",
           UNCHANGED <<server, age>>
    PROVE  [Lifecycle!Next]_(Lifecycle!vars)
<1> USE DEF IInv, TypeOK, Progress, Higher
<1>1. CASE stage[s] = n - 1
  <2>1. stage' = [stage EXCEPT ![s] = n]
    <3>1. stage[s] \in 0..3 /\ Higher(stage[s], n) = n
        BY <1>1
    <3> QED BY <3>1
  <2>2. Lifecycle!Reach(s, n)
      BY <1>1, <2>1 DEF Lifecycle!Reach
  <2> QED BY <2>2 DEF Lifecycle!Next, Lifecycle!Deregister, Lifecycle!Drain, Lifecycle!Unjoin
<1>2. CASE stage[s] >= n
  <2>1. stage' = stage
      BY <1>2
  <2> QED BY <2>1, NothingMaps
<1> QED BY <1>1, <1>2

LEMMA DeleteMaps ==
    ASSUME IInv, NEW s \in Server, ServerDeleted(s), stage[s] = 3 \/ age[s] = 2
    PROVE  Lifecycle!Next
<1>1. Lifecycle!Delete(s)
    BY DEF Lifecycle!Delete, ServerDeleted, Alive, IInv, TypeOK, ghostVars
<1> QED BY <1>1 DEF Lifecycle!Next

LEMMA CreateMaps ==
    ASSUME IInv, NEW s \in Server, ServerCreated(s)
    PROVE  Lifecycle!Next
<1>1. PICK fate \in {"listed", "unlisted"} : server' = [server EXCEPT ![s] = fate]
    BY DEF ServerCreated
<1>2. Lifecycle!Create(s)
    BY <1>1 DEF Lifecycle!Create, ServerCreated, IInv, TypeOK, ghostVars
<1> QED BY <1>2 DEF Lifecycle!Next

LEMMA CallMaps ==
    ASSUME IInv, NEW s \in Server, Call(s)
    PROVE  [Lifecycle!Next]_(Lifecycle!vars)
<1> USE DEF worldVars, hetznerVars, kubeVars, giteaVars, ghostVars, Visit
<1>1. CASE LookUp(s)
    BY <1>1, NothingMaps DEF LookUp
<1>2. CASE OrphanRunner(s)
  <2>1. CASE RunnerDeleted(s)
      BY <2>1, StageMaps DEF RunnerDeleted, IInv, TypeOK, NothingOfFree
  <2> QED BY <1>2, <2>1, NothingMaps DEF OrphanRunner
<1>3. CASE OrphanNode(s)
    BY <1>3, NothingMaps DEF OrphanNode, NodeDeleted
<1>4. CASE DeleteStuck(s)
    BY <1>4, NothingMaps, DeleteMaps DEF DeleteStuck, IInv, TeardownHappened
<1>5. CASE Create(s)
    BY <1>5, CreateMaps DEF Create
<1>6. CASE CreateLost(s)
    BY <1>6, CreateMaps DEF CreateLost
<1>7. CASE Deregister(s)
  <2>1. CASE RunnerDeleted(s)
      BY <2>1, StageMaps DEF RunnerDeleted, IInv, TypeOK, NothingOfFree
  <2> QED BY <1>7, <2>1, NothingMaps DEF Deregister
<1>8. CASE Drain(s)
  <2>1. CASE NodeCordoned(s)
      BY <1>8, <2>1, StageMaps DEF Drain, NodeCordoned, IInv, TypeOK, NothingOfFree,
          TeardownHappened
  <2> QED BY <1>8, <2>1, NothingMaps DEF Drain
<1>9. CASE DeleteNode(s)
  <2>1. CASE NodeDeleted(s) /\ Progress(s, 3)
      BY <1>9, <2>1, StageMaps DEF DeleteNode, NodeDeleted, IInv, TypeOK, NothingOfFree,
          TeardownHappened
  <2> QED BY <1>9, <2>1, NothingMaps DEF DeleteNode
<1>10. CASE DeleteAtOnce(s)
    BY <1>10, NothingMaps, DeleteMaps DEF DeleteAtOnce, TryDeleteServer, IInv, TeardownHappened
<1>11. CASE DeleteServer(s)
    BY <1>11, NothingMaps, DeleteMaps DEF DeleteServer, TryDeleteServer, IInv, TeardownHappened
<1> QED BY <1>1, <1>2, <1>3, <1>4, <1>5, <1>6, <1>7, <1>8, <1>9, <1>10, <1>11 DEF Call

LEMMA WorldMaps ==
    ASSUME IInv, NEW s \in Server, Clock(s) \/ World(s)
    PROVE  [Lifecycle!Next]_(Lifecycle!vars)
<1> USE DEF worldVars, hetznerVars, kubeVars, giteaVars, ghostVars
<1>1. CASE GrowOlder(s)
  <2>1. CASE age[s] = 1
    <3>1. Lifecycle!GrowOld(s)
        BY <1>1, <2>1 DEF GrowOlder, Lifecycle!GrowOld, IInv, TypeOK, ServerFates
    <3> QED BY <3>1 DEF Lifecycle!Next
  <2>2. CASE age[s] = 0
      BY <1>1, <2>2 DEF GrowOlder, Lifecycle!vars, IInv, TypeOK
  <2> QED BY <1>1, <2>1, <2>2 DEF GrowOlder, IInv, TypeOK
<1>2. CASE Vanish(s)
  <2>1. Lifecycle!Lose(s)
      BY <1>2 DEF Vanish, Lifecycle!Lose, Alive, IInv, TypeOK
  <2> QED BY <2>1 DEF Lifecycle!Next
<1>3. CASE Recycle(s)
  <2>1. {t \in Server : age'[t] = 2} = {t \in Server : age[t] = 2} \ {s}
      BY <1>3 DEF Recycle, IInv, TypeOK
  <2>2. Lifecycle!Recycle(s)
      BY <1>3, <2>1 DEF Recycle, Lifecycle!Recycle, Gone, IInv, TypeOK
  <2> QED BY <2>2 DEF Lifecycle!Next
<1>4. CASE Listed(s)
    BY <1>4 DEF Listed, Lifecycle!vars, IInv, TypeOK
<1>5. CASE Rest(s) \/ OrphanDue(s) \/ Join(s) \/ NodeUp(s) \/ NodeDown(s) \/ Register(s)
           \/ JobTaken(s) \/ JobDone(s)
    BY <1>5, NothingMaps DEF Rest, OrphanDue, Join, NodeUp, NodeDown, Register, JobTaken, JobDone
<1> QED BY <1>1, <1>2, <1>3, <1>4, <1>5 DEF Clock, World

LEMMA StepMaps == IInv /\ [Next]_vars => [Lifecycle!Next]_(Lifecycle!vars)
<1> SUFFICES ASSUME IInv, [Next]_vars PROVE [Lifecycle!Next]_(Lifecycle!vars)
    OBVIOUS
<1> USE DEF worldVars, hetznerVars, kubeVars, giteaVars, ghostVars
<1>1. CASE List \/ ListFails \/ Phase \/ CreateFails \/ Crash \/ Jobs
    BY <1>1, NothingMaps DEF List, ListWaiting, ListInProgress, ListRunners, ListServers,
        ListNodes, ListFails, Phase, Reconcile, FindOrphans, StuckPhase, Growth, ScaleDown,
        Advance, EndIteration, CreateFails, Crash, Jobs, JobArrives, JobWithdrawn
<1>2. CASE \E s \in Server : Call(s)
    BY <1>2, CallMaps
<1>3. CASE \E s \in Server : Clock(s) \/ World(s)
    BY <1>3, WorldMaps
<1>4. CASE UNCHANGED vars
    BY <1>4, NothingMaps DEF vars
<1> QED BY <1>1, <1>2, <1>3, <1>4 DEF Next, Iterate

(***************************************************************************)
(* Every server goes through its lifecycle in the promised order, whatever *)
(* fails and whenever the process restarts.                                *)
(***************************************************************************)
THEOREM ImplementsLifecycle == Spec => TeardownOrder
<1>1. Init => Lifecycle!Init
    BY InitMaps
<1>2. IInv /\ [Next]_vars => [Lifecycle!Next]_(Lifecycle!vars)
    BY StepMaps
<1> QED BY <1>1, <1>2, Inductive, PTL DEF Spec, TeardownOrder, Lifecycle!Spec

--------------------------------------------------------------------------------
(***************************************************************************)
(* The loop never sets out to create more than MAX_NODES leaves room for.  *)
(***************************************************************************)
LEMMA TrackedCount == Tracked \in SUBSET Server /\ Cardinality(Tracked) \in Nat
<1>1. Tracked \in SUBSET Server
    BY DEF Tracked
<1> QED BY <1>1, CountType

(* Tracking one more server adds at most one. *)
LEMMA TrackOneMore ==
    ASSUME TypeOK, NEW s \in Server, nodes' = [nodes EXCEPT ![s] = "Provisioning"]
    PROVE  Cardinality(Tracked') \in Nat /\ Cardinality(Tracked') <= Cardinality(Tracked) + 1
<1>1. Tracked' = Tracked \cup {s}
    BY DEF Tracked, TypeOK
<1>2. IsFiniteSet(Tracked)
    BY TrackedCount, CountType
<1>3. Cardinality(Tracked \cup {s}) = IF s \in Tracked THEN Cardinality(Tracked)
                                      ELSE Cardinality(Tracked) + 1
    BY <1>2, FS_AddElement
<1> QED BY <1>1, <1>3, TrackedCount

LEMMA GrowthStep == TypeOK /\ GrowthWithinMax /\ [Next]_vars => GrowthWithinMax'
<1> SUFFICES ASSUME TypeOK, GrowthWithinMax, [Next]_vars, pc' = "create", grow' > 0
             PROVE  Cardinality(Tracked') + grow' <= MaxNodes
    BY DEF GrowthWithinMax
<1> USE DEF worldVars, hetznerVars, kubeVars, giteaVars, ghostVars, processVars, memoryVars,
        localVars
<1>1. CASE Growth
  <2>1. Tracked' = Tracked
      BY <1>1 DEF Growth, Tracked
  <2>2. PICK permanent \in 0..(Permanent + Cardinality(Unmanaged)) :
            grow' = ComputeScaleUp(saw.waiting, Cardinality(In({"Idle"})),
                                   Cardinality(In({"Provisioning"})), permanent,
                                   Cardinality(Tracked), MaxNodes)
      BY <1>1 DEF Growth
  <2>3. /\ In({"Idle"}) \in SUBSET Server /\ In({"Provisioning"}) \in SUBSET Server
        /\ Unmanaged \in SUBSET Server
      BY DEF In, Unmanaged
  <2>4. /\ Cardinality(In({"Idle"})) \in Nat /\ Cardinality(In({"Provisioning"})) \in Nat
        /\ Cardinality(Unmanaged) \in Nat
      BY <2>3, CountType
  <2>5. permanent \in Nat /\ saw.waiting \in Nat /\ MaxNodes \in Nat
      BY <2>4, BoundsAssumption DEF TypeOK, BoundsAssumption
  <2> QED BY <2>1, <2>2, <2>4, <2>5, TrackedCount, ScaleUpBound
<1>2. CASE \E s \in Server : Create(s)
  <2>1. PICK s \in Server : Create(s)
      BY <1>2
  <2>2. pc = "create" /\ grow > 0 /\ grow' = grow - 1
      BY <2>1 DEF Create
  <2>3. Cardinality(Tracked') \in Nat /\ Cardinality(Tracked') <= Cardinality(Tracked) + 1
      BY <2>1, TrackOneMore DEF Create
  <2> QED BY <2>2, <2>3, TrackedCount, BoundsAssumption DEF GrowthWithinMax, TypeOK, BoundsAssumption
<1>3. CASE CreateFails \/ \E s \in Server : CreateLost(s)
  <2>1. Tracked' = Tracked
      BY <1>3 DEF CreateFails, CreateLost, Tracked
  <2>2. pc = "create" /\ grow > 0 /\ grow' \in {grow - 1, 0}
      BY <1>3 DEF CreateFails, CreateLost
  <2>3. grow \in Nat /\ MaxNodes \in Nat
      BY BoundsAssumption DEF TypeOK, BoundsAssumption
  <2> QED BY <2>1, <2>2, <2>3, TrackedCount DEF GrowthWithinMax
<1>4. CASE Jobs \/ \E s \in Server : Clock(s) \/ World(s)
  <2>1. pc' = pc /\ grow' = grow /\ Tracked' = Tracked
      BY <1>4 DEF Jobs, JobArrives, JobWithdrawn, Clock, GrowOlder, Rest, OrphanDue, World,
          Listed, Vanish, Join, NodeUp, NodeDown, Register, JobTaken, JobDone, Recycle, Tracked
  <2> QED BY <2>1 DEF GrowthWithinMax
<1>5. CASE UNCHANGED vars
  <2>1. pc' = pc /\ grow' = grow /\ Tracked' = Tracked
      BY <1>5 DEF vars, Tracked
  <2> QED BY <2>1 DEF GrowthWithinMax
<1>6. CASE List \/ ListFails \/ Reconcile \/ FindOrphans \/ StuckPhase \/ ScaleDown
           \/ Advance \/ EndIteration \/ Crash
    BY <1>6 DEF List, ListWaiting, ListInProgress, ListRunners, ListServers, ListNodes,
        ListFails, Reconcile, FindOrphans, StuckPhase, ScaleDown, Advance, EndIteration, Crash
<1>7. CASE \E s \in Server : LookUp(s) \/ OrphanRunner(s) \/ OrphanNode(s) \/ DeleteStuck(s)
              \/ Deregister(s) \/ Drain(s) \/ DeleteNode(s) \/ DeleteAtOnce(s)
              \/ DeleteServer(s)
    BY <1>7 DEF LookUp, OrphanRunner, OrphanNode, DeleteStuck, Deregister, Drain, DeleteNode,
        DeleteAtOnce, DeleteServer, Visit
<1> QED BY <1>1, <1>2, <1>3, <1>4, <1>5, <1>6, <1>7 DEF Next, Iterate, Phase, Call

(***************************************************************************)
(* The servers the loop sets out to create and those it tracks together    *)
(* stay within MAX_NODES.                                                  *)
(***************************************************************************)
THEOREM GrowthBounded == Spec => []GrowthWithinMax
<1>1. Init => GrowthWithinMax
    BY DEF Init, GrowthWithinMax
<1>2. TypeOK /\ GrowthWithinMax /\ [Next]_vars => GrowthWithinMax'
    BY GrowthStep
<1> QED BY <1>1, <1>2, TypeCorrect, PTL DEF Spec

================================================================================
