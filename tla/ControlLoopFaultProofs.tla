------------------------- MODULE ControlLoopFaultProofs -------------------------
(***************************************************************************)
(* The safety properties of the control loop that hold as long as some     *)
(* kinds of fault do not occur, for every number of servers and every      *)
(* combination of the other faults.                                        *)
(***************************************************************************)
EXTENDS ControlLoopProofs

(***************************************************************************)
(* Listings that leave out no living server.                               *)
(***************************************************************************)
ExactListings == Faults \cap {"lag", "partial"} = {}

LEMMA InitExact == Init => ListingExact
BY DEF Init, ListingExact, Nothing

LEMMA ListExact ==
    ASSUME ExactListings, IInv, ListingExact, List \/ ListFails
    PROVE  ListingExact'
<1> USE DEF IInv, TypeOK, LocalsInPhase, NothingOfFree, ListingExact, Alive, Gone,
        worldVars, hetznerVars, kubeVars, giteaVars, ghostVars, memoryVars
<1>1. CASE ListWaiting     BY <1>1 DEF ListWaiting
<1>2. CASE ListInProgress  BY <1>2 DEF ListInProgress, PartOf
<1>3. CASE ListRunners     BY <1>3 DEF ListRunners, PartOf
<1>4. CASE ListServers
  <2>1. saw' = [saw EXCEPT !.servers = {s \in Server : server[s] = "listed"}]
      BY <1>4 DEF ListServers, PartOf, Fault, ExactListings
  <2>2. \A s \in Server \ saw'.servers : server[s] = "free" \/ Gone(s)
      BY <2>1 DEF ServerFates
  <2> QED BY <1>4, <2>1, <2>2 DEF ListServers
<1>5. CASE ListNodes       BY <1>5 DEF ListNodes
<1>6. CASE ListFails       BY <1>6 DEF ListFails, Nothing
<1> QED BY <1>1, <1>2, <1>3, <1>4, <1>5, <1>6 DEF List

LEMMA PhaseExact ==
    ASSUME ExactListings, IInv, ListingExact, Phase \/ CreateFails
    PROVE  ListingExact'
<1> USE DEF IInv, TypeOK, LocalsInPhase, NothingOfFree, ListingExact, Alive, Gone,
        worldVars, hetznerVars, kubeVars, giteaVars, ghostVars, memoryVars
<1>1. CASE Reconcile     BY <1>1 DEF Reconcile
<1>2. CASE FindOrphans   BY <1>2 DEF FindOrphans, Orphan
<1>3. CASE StuckPhase    BY <1>3 DEF StuckPhase
<1>4. CASE Growth        BY <1>4 DEF Growth
<1>5. CASE ScaleDown     BY <1>5 DEF ScaleDown
<1>6. CASE Advance       BY <1>6 DEF Advance, Nothing
<1>7. CASE EndIteration  BY <1>7 DEF EndIteration
<1>8. CASE CreateFails   BY <1>8 DEF CreateFails
<1> QED BY <1>1, <1>2, <1>3, <1>4, <1>5, <1>6, <1>7, <1>8 DEF Phase

LEMMA CallExact ==
    ASSUME ExactListings, IInv, ListingExact, NEW s \in Server, Call(s)
    PROVE  ListingExact'
<1> USE DEF IInv, TypeOK, LocalsInPhase, NothingOfFree, ListingExact, Alive, Gone,
        worldVars, hetznerVars, kubeVars, giteaVars, ghostVars, memoryVars, Gathering,
        RunnerDeleted, NodeCordoned, NodeDeleted, ServerDeleted, Visit
<1>1. CASE LookUp(s)        BY <1>1 DEF LookUp
<1>2. CASE OrphanRunner(s)  BY <1>2 DEF OrphanRunner
<1>3. CASE OrphanNode(s)    BY <1>3 DEF OrphanNode
<1>4. CASE DeleteStuck(s)   BY <1>4 DEF DeleteStuck
<1>5. CASE Create(s) \/ CreateLost(s)
    BY <1>5 DEF Create, CreateLost, ServerCreated, Fault, ExactListings
<1>6. CASE Deregister(s)    BY <1>6 DEF Deregister
<1>7. CASE Drain(s)         BY <1>7 DEF Drain
<1>8. CASE DeleteNode(s)    BY <1>8 DEF DeleteNode
<1>9. CASE DeleteAtOnce(s) \/ DeleteServer(s)
    BY <1>9 DEF DeleteAtOnce, DeleteServer, TryDeleteServer
<1> QED BY <1>1, <1>2, <1>3, <1>4, <1>5, <1>6, <1>7, <1>8, <1>9 DEF Call

LEMMA WorldExact ==
    ASSUME IInv, ListingExact, NEW s \in Server, Clock(s) \/ World(s)
    PROVE  ListingExact'
<1> USE DEF IInv, TypeOK, LocalsInPhase, ListingExact, Alive, Gone, Nothing, worldVars,
        hetznerVars, kubeVars, giteaVars, ghostVars, processVars, memoryVars, localVars
<1>1. CASE GrowOlder(s) \/ Rest(s) \/ OrphanDue(s) \/ Join(s) \/ NodeUp(s) \/ NodeDown(s)
           \/ Register(s) \/ JobTaken(s) \/ JobDone(s)
    BY <1>1 DEF GrowOlder, Rest, OrphanDue, Join, NodeUp, NodeDown, Register, JobTaken, JobDone
<1>2. CASE Listed(s)   BY <1>2 DEF Listed
<1>3. CASE Vanish(s)   BY <1>3 DEF Vanish
<1>4. CASE Recycle(s)  BY <1>4 DEF Recycle
<1> QED BY <1>1, <1>2, <1>3, <1>4 DEF Clock, World

LEMMA ExactStep ==
    ASSUME ExactListings, IInv, ListingExact, [Next]_vars
    PROVE  ListingExact'
<1> USE DEF worldVars, hetznerVars, kubeVars, giteaVars, ghostVars, processVars, memoryVars,
        localVars
<1>1. CASE Iterate
    BY <1>1, ListExact, PhaseExact, CallExact DEF Iterate
<1>2. CASE Crash
    BY <1>2 DEF Crash, ListingExact, Nothing
<1>3. CASE Jobs \/ UNCHANGED vars
    BY <1>3 DEF Jobs, JobArrives, JobWithdrawn, vars, ListingExact, Gone
<1>4. CASE \E s \in Server : Clock(s) \/ World(s)
    BY <1>4, WorldExact
<1> QED BY <1>1, <1>2, <1>3, <1>4 DEF Next

(***************************************************************************)
(* What an iteration listed stays exact until it is used up: a server that *)
(* was not listed has gone, or has never been.                             *)
(***************************************************************************)
LEMMA ExactAlways == ASSUME ExactListings PROVE Spec => [](IInv /\ ListingExact)
<1>1. Init => ListingExact
    BY InitExact
<1>2. IInv /\ ListingExact /\ [Next]_vars => ListingExact'
    BY ExactStep
<1> QED BY <1>1, <1>2, Inductive, PTL DEF Spec

(***************************************************************************)
(* A node is removed as orphaned only after its server has gone, whatever  *)
(* else fails and whenever the process restarts.                           *)
(***************************************************************************)
THEOREM OrphansHaveNoServer == ASSUME ExactListings PROVE Spec => OrphanServerGone
<1> DEFINE OnlyGone == \A s \in Server :
               pc = "orphans" /\ node[s] # "none" /\ node'[s] = "none" => Gone(s)
<1>1. IInv /\ ListingExact /\ [Next]_vars => [OnlyGone]_vars
  <2> SUFFICES ASSUME IInv, ListingExact, Next, NEW s \in Server,
                      pc = "orphans", node[s] # "none", node'[s] = "none"
               PROVE  s \in cur
      BY DEF ListingExact
  <2> USE DEF IInv, TypeOK, worldVars, hetznerVars, kubeVars, giteaVars, ghostVars,
          processVars, memoryVars, localVars, Gathering
  <2>1. CASE List \/ ListFails \/ CreateFails \/ Phase
      BY <2>1 DEF List, ListWaiting, ListInProgress, ListRunners, ListServers, ListNodes,
          ListFails, CreateFails, Phase, Reconcile, FindOrphans, StuckPhase, Growth, ScaleDown,
          Advance, EndIteration
  <2>2. CASE \E t \in Server : Call(t)
      BY <2>2 DEF Call, LookUp, OrphanRunner, OrphanNode, DeleteStuck, Create, CreateLost,
          Deregister, Drain, DeleteNode, DeleteAtOnce, DeleteServer, Visit, RunnerDeleted,
          NodeDeleted
  <2>3. CASE Crash \/ Jobs \/ \E t \in Server : Clock(t) \/ World(t)
      BY <2>3 DEF Crash, Jobs, JobArrives, JobWithdrawn, Clock, GrowOlder, Rest, OrphanDue,
          World, Listed, Vanish, Join, NodeUp, NodeDown, Register, JobTaken, JobDone, Recycle
  <2> QED BY <2>1, <2>2, <2>3 DEF Next, Iterate
<1> QED BY <1>1, ExactAlways, PTL DEF Spec, OrphanServerGone

--------------------------------------------------------------------------------
(***************************************************************************)
(* What is on a node, and what was when it was listed.                     *)
(***************************************************************************)
LEMMA InitOnNodes == Init => RunnersOnNodes
BY DEF Init, RunnersOnNodes, Nothing, HasPod, Working

LEMMA ListOnNodes ==
    ASSUME IInv, RunnersOnNodes, List \/ ListFails
    PROVE  RunnersOnNodes'
<1> USE DEF IInv, TypeOK, LocalsInPhase, RunnersOnNodes, HasPod, Working, Gathering,
        worldVars, hetznerVars, kubeVars, giteaVars, ghostVars, memoryVars
<1>1. CASE ListWaiting     BY <1>1 DEF ListWaiting
<1>2. CASE ListInProgress  BY <1>2 DEF ListInProgress, PartOf
<1>3. CASE ListRunners
  <2>1. PICK part \in SUBSET Server : saw' = [saw EXCEPT !.runner = RunnersOf(part)]
      BY <1>3 DEF ListRunners, PartOf
  <2>2. \A s \in Server : saw'.runner[s] \in {runner[s], "none"}
      BY <2>1 DEF RunnersOf
  <2> QED BY <1>3, <2>1, <2>2 DEF ListRunners
<1>4. CASE ListServers     BY <1>4 DEF ListServers, PartOf
<1>5. CASE ListNodes       BY <1>5 DEF ListNodes
<1>6. CASE ListFails       BY <1>6 DEF ListFails, Nothing
<1> QED BY <1>1, <1>2, <1>3, <1>4, <1>5, <1>6 DEF List

LEMMA PhaseOnNodes ==
    ASSUME IInv, ListingExact, RunnersOnNodes, Phase \/ CreateFails
    PROVE  RunnersOnNodes'
<1> USE DEF IInv, TypeOK, LocalsInPhase, NothingOfFree, RunnersOnNodes, HasPod, Working,
        Gathering, worldVars, hetznerVars, kubeVars, giteaVars, ghostVars, memoryVars
<1>1. CASE Reconcile     BY <1>1 DEF Reconcile, Stuck, ListingExact, Alive, Gone
<1>2. CASE FindOrphans   BY <1>2 DEF FindOrphans, Alive
<1>3. CASE StuckPhase    BY <1>3 DEF StuckPhase, Alive
<1>4. CASE Growth        BY <1>4 DEF Growth
<1>5. CASE ScaleDown     BY <1>5 DEF ScaleDown
<1>6. CASE Advance       BY <1>6 DEF Advance, Nothing
<1>7. CASE EndIteration  BY <1>7 DEF EndIteration
<1>8. CASE CreateFails   BY <1>8 DEF CreateFails
<1> QED BY <1>1, <1>2, <1>3, <1>4, <1>5, <1>6, <1>7, <1>8 DEF Phase

LEMMA CallOnNodes ==
    ASSUME IInv, RunnersOnNodes, NEW s \in Server, Call(s)
    PROVE  RunnersOnNodes'
<1> USE DEF IInv, TypeOK, LocalsInPhase, RunnersOnNodes, HasPod, Alive, Working, Gathering,
        worldVars, hetznerVars, kubeVars, giteaVars, ghostVars, memoryVars,
        RunnerDeleted, NodeCordoned, NodeDeleted, PodLost, ServerDeleted, Visit
<1>1. CASE LookUp(s)        BY <1>1 DEF LookUp
<1>2. CASE OrphanRunner(s)  BY <1>2 DEF OrphanRunner
<1>3. CASE OrphanNode(s)    BY <1>3 DEF OrphanNode
<1>4. CASE DeleteStuck(s)   BY <1>4 DEF DeleteStuck
<1>5. CASE Create(s) \/ CreateLost(s)
    BY <1>5 DEF Create, CreateLost, ServerCreated
<1>6. CASE Deregister(s)    BY <1>6 DEF Deregister
<1>7. CASE Drain(s)         BY <1>7 DEF Drain
<1>8. CASE DeleteNode(s)    BY <1>8 DEF DeleteNode
<1>9. CASE DeleteAtOnce(s) \/ DeleteServer(s)
    BY <1>9 DEF DeleteAtOnce, DeleteServer, TryDeleteServer
<1> QED BY <1>1, <1>2, <1>3, <1>4, <1>5, <1>6, <1>7, <1>8, <1>9 DEF Call

LEMMA WorldOnNodes ==
    ASSUME IInv, RunnersOnNodes, NEW s \in Server, Clock(s) \/ World(s)
    PROVE  RunnersOnNodes'
<1> USE DEF IInv, TypeOK, LocalsInPhase, RunnersOnNodes, HasPod, Alive, Gone, Working,
        Gathering, worldVars, hetznerVars, kubeVars, giteaVars, ghostVars, processVars,
        memoryVars, localVars
<1>1. CASE GrowOlder(s) \/ Rest(s) \/ OrphanDue(s)
    BY <1>1 DEF GrowOlder, Rest, OrphanDue
<1>2. CASE Listed(s)    BY <1>2 DEF Listed
<1>3. CASE Vanish(s)    BY <1>3 DEF Vanish
<1>4. CASE Join(s)      BY <1>4 DEF Join
<1>5. CASE NodeUp(s)    BY <1>5 DEF NodeUp
<1>6. CASE NodeDown(s)  BY <1>6 DEF NodeDown
<1>7. CASE Register(s)  BY <1>7 DEF Register
<1>8. CASE JobTaken(s)  BY <1>8 DEF JobTaken
<1>9. CASE JobDone(s)   BY <1>9 DEF JobDone
<1>10. CASE Recycle(s)  BY <1>10 DEF Recycle, Nothing
<1> QED BY <1>1, <1>2, <1>3, <1>4, <1>5, <1>6, <1>7, <1>8, <1>9, <1>10 DEF Clock, World

LEMMA OnNodesStep ==
    ASSUME IInv, ListingExact, RunnersOnNodes, [Next]_vars
    PROVE  RunnersOnNodes'
<1> USE DEF worldVars, hetznerVars, kubeVars, giteaVars, ghostVars, processVars, memoryVars,
        localVars
<1>1. CASE Iterate
    BY <1>1, ListOnNodes, PhaseOnNodes, CallOnNodes DEF Iterate
<1>2. CASE Crash
    BY <1>2 DEF Crash, RunnersOnNodes, HasPod, Nothing, Working
<1>3. CASE Jobs \/ UNCHANGED vars
    BY <1>3 DEF Jobs, JobArrives, JobWithdrawn, vars, RunnersOnNodes, HasPod, Alive
<1>4. CASE \E s \in Server : Clock(s) \/ World(s)
    BY <1>4, WorldOnNodes
<1> QED BY <1>1, <1>2, <1>3, <1>4 DEF Next

(***************************************************************************)
(* What an iteration listed stays exact until it is used up: a server that *)
(* was not listed has gone or has never been, a runner that was listed has *)
(* a node in the later listing, a stuck server that is alive has none.     *)
(***************************************************************************)
THEOREM ListingsAge == ASSUME ExactListings PROVE Spec => []ListingHolds
<1>1. Init => RunnersOnNodes
    BY InitOnNodes
<1>2. IInv /\ ListingExact /\ RunnersOnNodes /\ [Next]_vars => RunnersOnNodes'
    BY OnNodesStep
<1>3. ListingExact /\ RunnersOnNodes => ListingHolds
    BY DEF ListingHolds
<1> QED BY <1>1, <1>2, <1>3, ExactAlways, PTL DEF Spec

(***************************************************************************)
(* A server deleted as stuck had no runner when runners were listed.       *)
(***************************************************************************)
THEOREM StuckIsIdle == ASSUME ExactListings PROVE Spec => StuckHadNoRunner
<1> DEFINE HadNone == \A s \in Server :
               pc = "stuck" /\ Alive(s) /\ server'[s] = "deleted" =>
                   saw.runner[s] \in {"none", "stale"}
<1>1. IInv /\ RunnersOnNodes /\ [Next]_vars => [HadNone]_vars
  <2> SUFFICES ASSUME IInv, RunnersOnNodes, Next, NEW s \in Server,
                      pc = "stuck", Alive(s), server'[s] = "deleted"
               PROVE  s \in todo
      BY DEF RunnersOnNodes, IInv, TypeOK, RunnerStatus, Working
  <2> USE DEF IInv, TypeOK, worldVars, hetznerVars, kubeVars, giteaVars, ghostVars,
          processVars, memoryVars, localVars, Gathering, Alive
  <2>1. CASE List \/ ListFails \/ CreateFails \/ Phase
      BY <2>1 DEF List, ListWaiting, ListInProgress, ListRunners, ListServers, ListNodes,
          ListFails, CreateFails, Phase, Reconcile, FindOrphans, StuckPhase, Growth, ScaleDown,
          Advance, EndIteration
  <2>2. CASE \E t \in Server : Call(t)
      BY <2>2 DEF Call, LookUp, OrphanRunner, OrphanNode, DeleteStuck, Create, CreateLost,
          Deregister, Drain, DeleteNode, DeleteAtOnce, DeleteServer, Visit, ServerDeleted
  <2>3. CASE Crash \/ Jobs \/ \E t \in Server : Clock(t) \/ World(t)
      BY <2>3 DEF Crash, Jobs, JobArrives, JobWithdrawn, Clock, GrowOlder, Rest, OrphanDue,
          World, Listed, Vanish, Join, NodeUp, NodeDown, Register, JobTaken, JobDone, Recycle
  <2> QED BY <2>1, <2>2, <2>3 DEF Next, Iterate
<1>2. ListingHolds => RunnersOnNodes
    BY DEF ListingHolds
<1> QED BY <1>1, <1>2, Inductive, ListingsAge, PTL DEF Spec, StuckHadNoRunner

--------------------------------------------------------------------------------
(***************************************************************************)
(* Calls that are not refused: what is asked for happens, whether or not   *)
(* the answer arrives.  A runner does not register again.                  *)
(***************************************************************************)
NothingRefused == Faults \cap {"reject", "reregister"} = {}

LEMMA InitAccounted == Init => RunnersAccounted /\ NoStaleRunner
BY DEF Init, RunnersAccounted, NoStaleRunner, HasPod

LEMMA ListAccounted ==
    ASSUME ExactListings, NothingRefused, IInv, ListingExact, RunnersAccounted, NoStaleRunner,
           List \/ ListFails
    PROVE  RunnersAccounted' /\ NoStaleRunner'
<1> USE DEF IInv, TypeOK, LocalsInPhase, RunnersAccounted, NoStaleRunner, HasPod, Gone,
        worldVars, hetznerVars, kubeVars, giteaVars, ghostVars, memoryVars
<1>1. CASE ListWaiting     BY <1>1 DEF ListWaiting
<1>2. CASE ListInProgress  BY <1>2 DEF ListInProgress, PartOf
<1>3. CASE ListRunners
  <2>1. saw' = [saw EXCEPT !.runner = RunnersOf(Server)]
      BY <1>3 DEF ListRunners, PartOf, Fault, ExactListings
  <2>2. \A s \in Server : saw'.runner[s] = runner[s]
      BY <2>1 DEF RunnersOf
  <2> QED BY <1>3, <2>1, <2>2 DEF ListRunners
<1>4. CASE ListServers     BY <1>4 DEF ListServers, PartOf
<1>5. CASE ListNodes       BY <1>5 DEF ListNodes
<1>6. CASE ListFails       BY <1>6 DEF ListFails, Fault, NothingRefused
<1> QED BY <1>1, <1>2, <1>3, <1>4, <1>5, <1>6 DEF List

LEMMA PhaseAccounted ==
    ASSUME NothingRefused, IInv, ListingExact, RunnersAccounted, NoStaleRunner,
           Phase \/ CreateFails
    PROVE  RunnersAccounted' /\ NoStaleRunner'
<1> USE DEF IInv, TypeOK, LocalsInPhase, NothingOfFree, RunnersAccounted, NoStaleRunner,
        HasPod, Gone, worldVars, hetznerVars, kubeVars, giteaVars, ghostVars, memoryVars,
        Gathering
<1>1. CASE Reconcile     BY <1>1 DEF Reconcile
<1>2. CASE FindOrphans
  <2>1. \A s \in Server : Orphan(s) => Gone(s)
      BY <1>2 DEF FindOrphans, Orphan, ListingExact
  <2> QED BY <1>2, <2>1 DEF FindOrphans, Matched
<1>3. CASE StuckPhase    BY <1>3 DEF StuckPhase
<1>4. CASE Growth        BY <1>4 DEF Growth
<1>5. CASE ScaleDown     BY <1>5 DEF ScaleDown
<1>6. CASE Advance       BY <1>6 DEF Advance
<1>7. CASE EndIteration  BY <1>7 DEF EndIteration
<1>8. CASE CreateFails   BY <1>8 DEF CreateFails
<1> QED BY <1>1, <1>2, <1>3, <1>4, <1>5, <1>6, <1>7, <1>8 DEF Phase

LEMMA CallAccounted ==
    ASSUME NothingRefused, IInv, RunnersAccounted, NoStaleRunner, NEW s \in Server, Call(s)
    PROVE  RunnersAccounted' /\ NoStaleRunner'
<1> USE DEF IInv, TypeOK, LocalsInPhase, NothingOfFree, TeardownHappened, RunnersAccounted,
        NoStaleRunner, HasPod, Alive, Gone, Matched, Gathering, RunnerStatus,
        worldVars, hetznerVars, kubeVars, giteaVars, ghostVars, memoryVars,
        RunnerDeleted, NodeCordoned, NodeDeleted, PodLost, ServerDeleted, Visit, Progress,
        Higher
<1>1. CASE LookUp(s)        BY <1>1 DEF LookUp
<1>2. CASE OrphanRunner(s)
    BY <1>2 DEF OrphanRunner, Refused, Fault, NothingRefused
<1>3. CASE OrphanNode(s)    BY <1>3 DEF OrphanNode
<1>4. CASE DeleteStuck(s)   BY <1>4 DEF DeleteStuck
<1>5. CASE Create(s) \/ CreateLost(s)
    BY <1>5 DEF Create, CreateLost, ServerCreated
<1>6. CASE Deregister(s)    BY <1>6 DEF Deregister
<1>7. CASE Drain(s)         BY <1>7 DEF Drain
<1>8. CASE DeleteNode(s)    BY <1>8 DEF DeleteNode
<1>9. CASE DeleteAtOnce(s) \/ DeleteServer(s)
    BY <1>9 DEF DeleteAtOnce, DeleteServer, TryDeleteServer
<1> QED BY <1>1, <1>2, <1>3, <1>4, <1>5, <1>6, <1>7, <1>8, <1>9 DEF Call

LEMMA WorldAccounted ==
    ASSUME NothingRefused, IInv, ListingExact, RunnersAccounted, NoStaleRunner,
           NEW s \in Server, Clock(s) \/ World(s)
    PROVE  RunnersAccounted' /\ NoStaleRunner'
<1> USE DEF IInv, TypeOK, LocalsInPhase, RunnersAccounted, NoStaleRunner, HasPod, Alive, Gone,
        Matched, worldVars, hetznerVars, kubeVars, giteaVars, ghostVars, processVars,
        memoryVars, localVars
<1>1. CASE GrowOlder(s) \/ Rest(s) \/ OrphanDue(s)
    BY <1>1 DEF GrowOlder, Rest, OrphanDue
<1>2. CASE Listed(s)    BY <1>2 DEF Listed
<1>3. CASE Vanish(s)    BY <1>3 DEF Vanish
<1>4. CASE Join(s) \/ NodeUp(s) \/ NodeDown(s)
    BY <1>4 DEF Join, NodeUp, NodeDown
<1>5. CASE Register(s)
  <2>1. stage[s] = 0
      BY <1>5 DEF Register, Fault, NothingRefused
  <2>2. pc = "orphans" => s \notin todo \cup cur
      BY <1>5 DEF Register, ListingExact
  <2> QED BY <1>5, <2>1, <2>2 DEF Register
<1>6. CASE JobTaken(s)  BY <1>6 DEF JobTaken
<1>7. CASE JobDone(s)   BY <1>7 DEF JobDone
<1>8. CASE Recycle(s)   BY <1>8 DEF Recycle
<1> QED BY <1>1, <1>2, <1>3, <1>4, <1>5, <1>6, <1>7, <1>8 DEF Clock, World

LEMMA AccountedStep ==
    ASSUME ExactListings, NothingRefused, IInv, ListingExact, RunnersAccounted, NoStaleRunner,
           [Next]_vars
    PROVE  RunnersAccounted' /\ NoStaleRunner'
<1> USE DEF worldVars, hetznerVars, kubeVars, giteaVars, ghostVars, processVars, memoryVars,
        localVars
<1>1. CASE Iterate
    BY <1>1, ListAccounted, PhaseAccounted, CallAccounted DEF Iterate
<1>2. CASE Crash
    BY <1>2 DEF Crash, RunnersAccounted, NoStaleRunner
<1>3. CASE Jobs \/ UNCHANGED vars
    BY <1>3 DEF Jobs, JobArrives, JobWithdrawn, vars, RunnersAccounted, NoStaleRunner, HasPod,
        Gone, Matched
<1>4. CASE \E s \in Server : Clock(s) \/ World(s)
    BY <1>4, WorldAccounted
<1> QED BY <1>1, <1>2, <1>3, <1>4 DEF Next

(***************************************************************************)
(* Where a teardown has begun there is no runner, and the runner of an     *)
(* orphaned node is found when the node is removed: no runner outlives its *)
(* pod in Gitea, lost answers and restarts included.                       *)
(***************************************************************************)
THEOREM AccountedAlways ==
    ASSUME ExactListings, NothingRefused
    PROVE  Spec => [](RunnersAccounted /\ NoStaleRunner)
<1>1. Init => RunnersAccounted /\ NoStaleRunner
    BY InitAccounted
<1>2. IInv /\ ListingExact /\ RunnersAccounted /\ NoStaleRunner /\ [Next]_vars
        => RunnersAccounted' /\ NoStaleRunner'
    BY AccountedStep
<1> QED BY <1>1, <1>2, ExactAlways, PTL DEF Spec

(***************************************************************************)
(* The second half on its own: whoever deletes a node has deregistered its *)
(* runner first.                                                           *)
(***************************************************************************)
THEOREM RunnersLeaveFirst ==
    ASSUME ExactListings, NothingRefused
    PROVE  Spec => []NoStaleRunner
BY AccountedAlways, PTL

--------------------------------------------------------------------------------
(***************************************************************************)
(* Nothing fails and nothing restarts: what is rented is tracked.          *)
(***************************************************************************)
NothingFails == Faults \cap {"reject", "lost", "crash", "partial"} = {}

LEMMA InitTracked == Init => AliveIsTracked
BY DEF Init, AliveIsTracked, Alive

LEMMA ListTracked ==
    ASSUME NothingFails, IInv, AliveIsTracked, List \/ ListFails
    PROVE  AliveIsTracked'
<1> USE DEF IInv, TypeOK, LocalsInPhase, AliveIsTracked, Alive, In,
        worldVars, hetznerVars, kubeVars, giteaVars, ghostVars, memoryVars
<1>1. CASE ListWaiting     BY <1>1 DEF ListWaiting
<1>2. CASE ListInProgress  BY <1>2 DEF ListInProgress, PartOf
<1>3. CASE ListRunners     BY <1>3 DEF ListRunners, PartOf
<1>4. CASE ListServers
  <2>1. saw' = [saw EXCEPT !.servers = {s \in Server : server[s] = "listed"}]
      BY <1>4 DEF ListServers, PartOf, Fault, NothingFails
  <2>2. \A s \in Server \ saw'.servers : Alive(s) => nodes[s] \in {"absent", "Provisioning"}
      BY <2>1
  <2> QED BY <1>4, <2>1, <2>2 DEF ListServers
<1>5. CASE ListNodes       BY <1>5 DEF ListNodes
<1>6. CASE ListFails       BY <1>6 DEF ListFails, Fault, NothingFails
<1> QED BY <1>1, <1>2, <1>3, <1>4, <1>5, <1>6 DEF List

(* Reconciliation forgets a living server only to delete it as stuck, and  *)
(* calls a server that is not listed Provisioning or nothing.              *)
LEMMA ReconcileTracked ==
    ASSUME IInv, AliveIsTracked, Reconcile
    PROVE  AliveIsTracked'
<1> USE DEF IInv, TypeOK, AliveIsTracked, Alive, In, worldVars, hetznerVars, Gathering
<1> DEFINE pods == {s \in Server : HasPod(s)}
<1>1. /\ \A s \in Server : nodes'[s] = CarriedForward(s, pods)
      /\ stuck' = Stuck /\ pc = "pods" /\ pc' = "vanished" /\ UNCHANGED server
    BY DEF Reconcile
<1>2. ASSUME NEW s \in Server, Alive(s), nodes'[s] = "absent"
      PROVE  s \in Stuck
  <2>1. nodes[s] # "absent" /\ Found(s, pods) = "absent"
        /\ nodes[s] # "Removing" /\ ~(nodes[s] = "Provisioning" /\ age[s] < 2)
      BY <1>1, <1>2 DEF CarriedForward, LocalsInPhase, TeardownStates
  <2>2. CASE s \in saw.servers
      BY <2>1, <2>2 DEF Found, Reconciled, Stuck
  <2>3. CASE s \notin saw.servers
    <3>1. nodes[s] = "Provisioning"
        BY <1>1, <1>2, <2>1, <2>3
    <3> QED BY <2>1, <2>3, <3>1 DEF Stuck
  <2> QED BY <2>2, <2>3
<1>3. ASSUME NEW s \in Server, server[s] = "unlisted"
      PROVE  nodes'[s] \in {"absent", "Provisioning"}
  <2>1. s \notin saw.servers
      BY <1>3 DEF NothingOfFree
  <2> QED BY <1>1, <1>3, <2>1 DEF CarriedForward, Found
<1> QED BY <1>1, <1>2, <1>3

LEMMA PhaseTracked ==
    ASSUME NothingFails, IInv, AliveIsTracked, Phase \/ CreateFails
    PROVE  AliveIsTracked'
<1> USE DEF IInv, TypeOK, LocalsInPhase, AliveIsTracked, Alive, In, Gathering,
        worldVars, hetznerVars, kubeVars, giteaVars, ghostVars, memoryVars
<1>1. CASE Reconcile     BY <1>1, ReconcileTracked
<1>2. CASE FindOrphans   BY <1>2 DEF FindOrphans
<1>3. CASE StuckPhase    BY <1>3 DEF StuckPhase
<1>4. CASE Growth        BY <1>4 DEF Growth
<1>5. CASE ScaleDown     BY <1>5 DEF ScaleDown
<1>6. CASE Advance       BY <1>6 DEF Advance
<1>7. CASE EndIteration  BY <1>7 DEF EndIteration
<1>8. CASE CreateFails   BY <1>8 DEF CreateFails
<1> QED BY <1>1, <1>2, <1>3, <1>4, <1>5, <1>6, <1>7, <1>8 DEF Phase

LEMMA CallTracked ==
    ASSUME NothingFails, IInv, AliveIsTracked, NEW s \in Server, Call(s)
    PROVE  AliveIsTracked'
<1> USE DEF IInv, TypeOK, LocalsInPhase, NothingOfFree, TeardownHappened, AliveIsTracked,
        Alive, In, Gathering, NothingFails, Refused, AnswerLost, Fault,
        worldVars, hetznerVars, kubeVars, giteaVars, ghostVars, memoryVars,
        RunnerDeleted, NodeCordoned, NodeDeleted, ServerDeleted, Visit, Becomes
<1>1. CASE LookUp(s)        BY <1>1 DEF LookUp
<1>2. CASE OrphanRunner(s)  BY <1>2 DEF OrphanRunner
<1>3. CASE OrphanNode(s)    BY <1>3 DEF OrphanNode
<1>4. CASE DeleteStuck(s)   BY <1>4 DEF DeleteStuck
<1>5. CASE Create(s)        BY <1>5 DEF Create, ServerCreated
<1>6. CASE CreateLost(s)    BY <1>6 DEF CreateLost
<1>7. CASE Deregister(s)    BY <1>7 DEF Deregister
<1>8. CASE Drain(s)         BY <1>8 DEF Drain
<1>9. CASE DeleteNode(s)    BY <1>9 DEF DeleteNode
<1>10. CASE DeleteAtOnce(s) \/ DeleteServer(s)
    BY <1>10 DEF DeleteAtOnce, DeleteServer, TryDeleteServer
<1> QED BY <1>1, <1>2, <1>3, <1>4, <1>5, <1>6, <1>7, <1>8, <1>9, <1>10 DEF Call

LEMMA WorldTracked ==
    ASSUME IInv, AliveIsTracked, NEW s \in Server, Clock(s) \/ World(s)
    PROVE  AliveIsTracked'
<1> USE DEF IInv, TypeOK, LocalsInPhase, AliveIsTracked, Alive, In, Gone, Nothing, worldVars,
        hetznerVars, kubeVars, giteaVars, ghostVars, processVars, memoryVars, localVars
<1>1. CASE GrowOlder(s) \/ Rest(s) \/ OrphanDue(s) \/ Join(s) \/ NodeUp(s) \/ NodeDown(s)
           \/ Register(s) \/ JobTaken(s) \/ JobDone(s)
    BY <1>1 DEF GrowOlder, Rest, OrphanDue, Join, NodeUp, NodeDown, Register, JobTaken, JobDone
<1>2. CASE Listed(s)   BY <1>2 DEF Listed
<1>3. CASE Vanish(s)   BY <1>3 DEF Vanish
<1>4. CASE Recycle(s)  BY <1>4 DEF Recycle
<1> QED BY <1>1, <1>2, <1>3, <1>4 DEF Clock, World

LEMMA TrackedStep ==
    ASSUME NothingFails, IInv, AliveIsTracked, [Next]_vars
    PROVE  AliveIsTracked'
<1> USE DEF worldVars, hetznerVars, kubeVars, giteaVars, ghostVars, processVars, memoryVars,
        localVars
<1>1. CASE Iterate
    BY <1>1, ListTracked, PhaseTracked, CallTracked DEF Iterate
<1>2. CASE Crash
    BY <1>2 DEF Crash, Fault, NothingFails
<1>3. CASE Jobs \/ UNCHANGED vars
    BY <1>3 DEF Jobs, JobArrives, JobWithdrawn, vars, AliveIsTracked, Alive, In
<1>4. CASE \E s \in Server : Clock(s) \/ World(s)
    BY <1>4, WorldTracked
<1> QED BY <1>1, <1>2, <1>3, <1>4 DEF Next

(***************************************************************************)
(* The living servers grow in number by a creation only, which GrowthBound *)
(* has left room for: at that moment every living one is tracked.          *)
(***************************************************************************)
AliveServers == {s \in Server : Alive(s)}

LEMMA AliveCount ==
    /\ IsFiniteSet(AliveServers) /\ Cardinality(AliveServers) \in Nat
    /\ \A S \in SUBSET AliveServers : Cardinality(S) \in Nat
                                      /\ Cardinality(S) <= Cardinality(AliveServers)
<1>1. AliveServers \in SUBSET Server
    BY DEF AliveServers
<1>2. IsFiniteSet(AliveServers) /\ Cardinality(AliveServers) \in Nat
    BY <1>1, CountType
<1>3. ASSUME NEW S \in SUBSET AliveServers
      PROVE  Cardinality(S) \in Nat /\ Cardinality(S) <= Cardinality(AliveServers)
    BY <1>2, <1>3, FS_Subset, FS_CardinalityType
<1> QED BY <1>2, <1>3

LEMMA OnlyCreateAddsServers ==
    ASSUME IInv, [Next]_vars, ~\E s \in Server : Create(s) \/ CreateLost(s)
    PROVE  AliveServers' \in SUBSET AliveServers
<1> USE DEF IInv, TypeOK, AliveServers, Alive, worldVars, hetznerVars, kubeVars, giteaVars,
        ghostVars, processVars, memoryVars, localVars
<1>1. CASE List \/ ListFails \/ CreateFails \/ Phase
    BY <1>1 DEF List, ListWaiting, ListInProgress, ListRunners, ListServers, ListNodes,
        ListFails, CreateFails, Phase, Reconcile, FindOrphans, StuckPhase, Growth, ScaleDown,
        Advance, EndIteration
<1>2. CASE \E t \in Server : Call(t)
    BY <1>2 DEF Call, LookUp, OrphanRunner, OrphanNode, DeleteStuck, Deregister, Drain,
        DeleteNode, DeleteAtOnce, DeleteServer, TryDeleteServer, RunnerDeleted, NodeCordoned,
        NodeDeleted, ServerDeleted
<1>3. CASE Crash \/ Jobs \/ \E t \in Server : Clock(t) \/ World(t)
    BY <1>3 DEF Crash, Jobs, JobArrives, JobWithdrawn, Clock, GrowOlder, Rest, OrphanDue,
        World, Listed, Vanish, Join, NodeUp, NodeDown, Register, JobTaken, JobDone, Recycle
<1>4. CASE UNCHANGED vars
    BY <1>4 DEF vars
<1> QED BY <1>1, <1>2, <1>3, <1>4 DEF Next, Iterate

LEMMA CreateFits ==
    ASSUME IInv, AliveIsTracked, GrowthWithinMax, NEW s \in Server, Create(s)
    PROVE  Cardinality(AliveServers') <= MaxNodes
<1> USE DEF IInv, TypeOK
<1>1. pc = "create" /\ grow > 0 /\ grow \in Nat /\ ServerCreated(s)
    BY DEF Create
<1>2. AliveServers \in SUBSET Tracked
    BY <1>1 DEF AliveServers, Tracked, AliveIsTracked, LocalsInPhase
<1>3. Cardinality(AliveServers) <= Cardinality(Tracked)
    BY <1>2, TrackedCount, CountType, FS_Subset
<1>4. Cardinality(Tracked) + grow <= MaxNodes
    BY <1>1 DEF GrowthWithinMax
<1>5. AliveServers' = AliveServers \cup {s}
    BY <1>1 DEF AliveServers, Alive, ServerCreated
<1>6. IsFiniteSet(AliveServers) /\ Cardinality(AliveServers) \in Nat
    BY AliveCount
<1>7. Cardinality(AliveServers \cup {s}) = IF s \in AliveServers THEN Cardinality(AliveServers)
                                           ELSE Cardinality(AliveServers) + 1
    BY <1>6, FS_AddElement
<1> QED BY <1>1, <1>3, <1>4, <1>5, <1>6, <1>7, TrackedCount, BoundsAssumption
        DEF BoundsAssumption

(***************************************************************************)
(* A living server is in the manager's list or about to be deleted as      *)
(* stuck.                                                                  *)
(***************************************************************************)
THEOREM TrackedAlways == ASSUME NothingFails PROVE Spec => []AliveIsTracked
<1>1. Init => AliveIsTracked
    BY InitTracked
<1>2. IInv /\ AliveIsTracked /\ [Next]_vars => AliveIsTracked'
    BY TrackedStep
<1> QED BY <1>1, <1>2, Inductive, PTL DEF Spec

(***************************************************************************)
(* MAX_NODES bounds the servers that are paid for.                         *)
(***************************************************************************)
THEOREM PaidForWithinMax == ASSUME NothingFails PROVE Spec => []AliveWithinMax
<1>1. Init => AliveWithinMax
  <2>1. Init => AliveServers = {}
      BY DEF Init, AliveServers, Alive
  <2> QED BY <2>1, FS_EmptySet, BoundsAssumption
          DEF AliveWithinMax, AliveServers, BoundsAssumption
<1>2. IInv /\ AliveIsTracked /\ GrowthWithinMax /\ AliveWithinMax /\ [Next]_vars
        => AliveWithinMax'
  <2> SUFFICES ASSUME IInv, AliveIsTracked, GrowthWithinMax, AliveWithinMax, [Next]_vars
               PROVE  Cardinality(AliveServers') <= MaxNodes
      BY DEF AliveWithinMax, AliveServers
  <2>1. CASE \E s \in Server : Create(s)
      BY <2>1, CreateFits
  <2>2. CASE \E s \in Server : CreateLost(s)
      BY <2>2 DEF CreateLost, AnswerLost, Fault, NothingFails
  <2>3. CASE ~\E s \in Server : Create(s) \/ CreateLost(s)
    <3>1. AliveServers' \in SUBSET AliveServers
        BY <2>3, OnlyCreateAddsServers
    <3>2. Cardinality(AliveServers) <= MaxNodes
        BY DEF AliveWithinMax, AliveServers
    <3> QED BY <3>1, <3>2, AliveCount, BoundsAssumption DEF BoundsAssumption
  <2> QED BY <2>1, <2>2, <2>3
<1> QED BY <1>1, <1>2, Inductive, TrackedAlways, GrowthBounded, PTL DEF Spec

================================================================================
