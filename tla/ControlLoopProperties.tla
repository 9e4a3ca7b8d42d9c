------------------------- MODULE ControlLoopProperties -------------------------
(***************************************************************************)
(* What the control loop must not do, and what it must eventually do.      *)
(* Each property names the faults it holds under; MCControlLoop's          *)
(* configurations choose them.                                             *)
(***************************************************************************)
EXTENDS ControlLoop

(***************************************************************************)
(* The abstract lifecycle of a server, seen through the loop's world.      *)
(***************************************************************************)
Lifecycle == INSTANCE NodeLifecycle WITH
    fate <- [s \in Server |-> IF server[s] \in {"unlisted", "listed"} THEN "alive"
                              ELSE server[s]],
    stage <- stage,
    old <- {s \in Server : age[s] = 2}

(* Under every fault, restarts included, each server's calls take effect   *)
(* in the README's order: its runner is deregistered before its node is    *)
(* cordoned, the node is cordoned before it is deleted, the server goes    *)
(* last; only servers past the provisioning timeout skip that order.  The  *)
(* removal of an orphaned node is no part of a teardown: stage stays.      *)
TeardownOrder == Lifecycle!Spec

(* A runner is deregistered to scale down only if this same iteration      *)
(* listed it free, found no job in progress on it and saw its pod on the   *)
(* node: nothing an earlier iteration knew is acted on (carry_forward      *)
(* keeps idle_since, never idleness).                                      *)
TornDownOnlyWhenSeenIdle ==
    [][\A s \in Server :
          nodes[s] = "Idle" /\ nodes'[s] = "Deregistering" =>
              /\ saw.runner[s] = "idle" /\ s \notin saw.jobs
              /\ s \in saw.pods /\ s \in saw.servers]_vars

(* Between reconciliation and scale-down every living server the iteration *)
(* listed is tracked, unless it is past the timeout and has no node:       *)
(* nothing reconcile and carry_forward do loses a rented server, and a     *)
(* restart finds them all again.                                           *)
NoServerForgotten ==
    pc \in Working \ {"advance"} =>
        \A s \in saw.servers :
            Alive(s) => nodes[s] # "absent" \/ (age[s] = 2 /\ saw.node[s] = "none")

(* The loop never sets out to create more servers than MAX_NODES leaves    *)
(* room for, counting what it tracks, whichever creations fail or answer   *)
(* late in between.                                                        *)
GrowthWithinMax ==
    pc = "create" /\ grow > 0 => Cardinality(Tracked) + grow <= MaxNodes

(* MAX_NODES bounds the servers paid for, not only the nodes tracked, as   *)
(* long as no call fails and the process does not restart: a server that   *)
(* is late in the listing, or dropped as stuck, is never replaced while it *)
(* lives.                                                                  *)
AliveWithinMax == Cardinality({s \in Server : Alive(s)}) <= MaxNodes

(* A node removed as orphaned has no server any more, if list_servers      *)
(* leaves out no living server.                                            *)
OrphanServerGone ==
    [][\A s \in Server :
          pc = "orphans" /\ node[s] # "none" /\ node'[s] = "none" => Gone(s)]_vars

(* A server deleted as stuck had no runner when runners were listed, if    *)
(* list_servers leaves out no living server: what it could be running by   *)
(* now it started within this iteration.                                   *)
StuckHadNoRunner ==
    [][\A s \in Server :
          pc = "stuck" /\ Alive(s) /\ server'[s] = "deleted" =>
              saw.runner[s] \in {"none", "stale"}]_vars

(* When no call is refused, listings are exact and a runner registers once *)
(* only, none outlives its pod in Gitea: whoever deletes a node has its    *)
(* runner deregistered first, restarts and lost answers notwithstanding.   *)
NoStaleRunner == \A s \in Server : runner[s] # "stale"

--------------------------------------------------------------------------------
(***************************************************************************)
(* The inductive invariant behind the safety properties above.             *)
(***************************************************************************)

(* Each local variable holds something in some phases only. *)
LocalsInPhase ==
    /\ pc = "waiting" => saw = Nothing
    /\ pc \in Gathering \cup {"create"} => todo = {}
    /\ pc \notin {"orphans", "advance"} => cur = {}
    /\ pc \notin {"vanished", "orphans"} => stuck = {}
    /\ pc # "create" => grow = 0
    /\ pc = "advance" => saw = Nothing
    /\ pc = "vanished" => todo \cap saw.servers = {}

(* An identifier that is free stands for nothing, and only a node that is  *)
(* there is cordoned.                                                      *)
NothingOfFree ==
    \A s \in Server :
        /\ server[s] = "free" => node[s] = "none" /\ runner[s] = "none" /\ age[s] = 0
                                 /\ stage[s] = 0
        /\ s \in cordoned => node[s] # "none" /\ stage[s] >= 2
        /\ s \in saw.cordoned => stage[s] >= 2
        /\ s \in saw.servers => server[s] \notin {"free", "unlisted"}

(* What the manager believes of a teardown has happened, and a server it   *)
(* is about to delete may be deleted.                                      *)
TeardownHappened ==
    \A s \in Server :
        /\ nodes[s] = "Deregistering" => stage[s] >= 1
        /\ nodes[s] = "Draining" => stage[s] >= 2
        /\ nodes[s] = "Removing" => stage[s] = 3
        /\ pc = "advance" /\ s \in cur => stage[s] = 3
        /\ s \in stuck \/ (pc = "stuck" /\ s \in todo) => age[s] = 2

(* While it works on what it listed, the loop calls a node Idle only if it *)
(* listed it so.                                                           *)
IdleWasSeen ==
    pc \in Working \ {"advance"} =>
        \A s \in Server : nodes[s] = "Idle" =>
            /\ saw.runner[s] = "idle" /\ s \notin saw.jobs
            /\ s \in saw.pods /\ s \in saw.servers

(* The inductive invariant: every reachable state of the control loop has  *)
(* all of these properties, and every step keeps them together.            *)
IInv ==
    /\ TypeOK
    /\ LocalsInPhase
    /\ NothingOfFree
    /\ TeardownHappened
    /\ IdleWasSeen
    /\ NoServerForgotten

--------------------------------------------------------------------------------
(***************************************************************************)
(* What makes the properties inductive that hold under some faults only.   *)
(***************************************************************************)

(* If no server is listed late (faults lag and partial): one that was not  *)
(* listed is gone, or has never been; so is what an orphaned node ran on.  *)
ListingExact ==
    /\ \A s \in Server : server[s] # "unlisted"
    /\ \A s \in Server : saw.node[s] # "none" => server[s] # "free"
    /\ pc \in {"nodes", "pods", "vanished", "orphans", "stuck"} =>
          \A s \in Server \ saw.servers : server[s] = "free" \/ Gone(s)
    /\ pc = "orphans" => \A s \in todo \cup cur : Gone(s)

(* A pod is on a node, and still is when the nodes are listed after the    *)
(* runners; a stuck server that is alive was listed and had no node.       *)
RunnersOnNodes ==
    /\ \A s \in Server : HasPod(s) => node[s] # "none"
    /\ \A s \in Server : saw.runner[s] \in {"idle", "busy"} =>
          /\ pc \in {"servers", "nodes"} => node[s] # "none"
          /\ pc \in {"pods"} \cup Working => saw.node[s] # "none"
    /\ \A s \in stuck : Alive(s) => saw.node[s] = "none"
    /\ pc = "stuck" => \A s \in todo : Alive(s) => saw.node[s] = "none"

(* How what an iteration listed ages, while it works on it.                *)
ListingHolds == ListingExact /\ RunnersOnNodes

(* Where teardown has begun the runner is gone for good, and the runner of *)
(* an orphaned node was listed after its server had gone, so that it is    *)
(* found when the node is removed.                                         *)
RunnersAccounted ==
    /\ \A s \in Server : stage[s] >= 1 => runner[s] = "none"
    /\ \A s \in Server : orphaned[s] # "no" =>
          /\ Gone(s)
          /\ HasPod(s) /\ pc \in {"servers", "nodes", "pods", "vanished"} =>
                saw.runner[s] \in {"idle", "busy"}
          /\ HasPod(s) /\ pc = "vanished" => s \in saw.pods
    /\ pc = "orphans" =>
          /\ \A s \in todo : HasPod(s) => Matched(s, saw.pods)
          /\ \A s \in cur : ~HasPod(s)

(* If no call fails, nothing restarts and nothing is left out of a listing *)
(* but new servers: a living server is tracked or about to be deleted as   *)
(* stuck, one that was not listed is new, and a candidate is still idle.   *)
AliveIsTracked ==
    /\ \A s \in Server : Alive(s) =>
          nodes[s] # "absent" \/ s \in stuck \/ (pc = "stuck" /\ s \in todo)
    /\ \A s \in Server : server[s] = "unlisted" => nodes[s] \in {"absent", "Provisioning"}
    /\ pc \in {"nodes", "pods"} =>
          \A s \in Server \ saw.servers :
              Alive(s) => nodes[s] \in {"absent", "Provisioning"}
    /\ pc = "scale_down" => todo \subseteq In({"Idle"})

--------------------------------------------------------------------------------
(* A server that is gone is forgotten, unless its teardown had come to     *)
(* Removing.                                                               *)
GoneIsForgotten ==
    \A s \in Server :
        Gone(s) /\ nodes[s] \notin {"absent", "Removing"}
            ~> nodes[s] \in {"absent", "Removing"}

(* A server past the provisioning timeout that never joins is deleted,     *)
(* listed by then or not, and also if its deletion was refused before.     *)
StuckIsDeleted ==
    \A s \in Server :
        Alive(s) /\ age[s] = 2 /\ node[s] = "none" ~> ~Alive(s) \/ node[s] # "none"

(* The node of a server that is gone is removed from the cluster.          *)
OrphanIsRemoved ==
    \A s \in Server : Gone(s) /\ node[s] # "none" ~> node[s] = "none"

(* A server whose runner was deregistered does not stay rented.            *)
TeardownEnds ==
    \A s \in Server : stage[s] >= 1 /\ Alive(s) ~> ~Alive(s)

(* Waiting jobs get a runner, or are withdrawn.                            *)
JobsAreServed == waiting > 0 ~> waiting = 0 \/ \E s \in Server : runner[s] = "busy"

--------------------------------------------------------------------------------
(***************************************************************************)
(* What the repository says of itself and the code does not do.            *)
(***************************************************************************)

(* reconcile.rs: Removing nodes are kept because the server "may already   *)
(* be deleted from Hetzner but we need to confirm".                        *)
RemovingIsConfirmed ==
    \A s \in Server : nodes[s] = "Removing" /\ Gone(s) ~> nodes[s] = "absent"

(* README: servers stuck in provisioning beyond the timeout are deleted.   *)
ProvisioningEnds ==
    \A s \in Server :
        nodes[s] = "Provisioning" /\ age[s] = 2 ~> nodes[s] # "Provisioning"

================================================================================
