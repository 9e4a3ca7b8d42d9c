-------------------------------- MODULE MainLoop --------------------------------
(***************************************************************************)
(* main: start-up, then one iteration after another, each followed by a    *)
(* push of the metrics and a sleep.  An iteration whose calls to Hetzner   *)
(* or Kubernetes fail is an Err and counts as a failure; one whose calls   *)
(* to Gitea fail returns Ok.  What operators see of it is the Pushgateway's *)
(* copy of last_success_timestamp.                                         *)
(*                                                                         *)
(* The listing is Paging's and the work of an iteration is Passes', whose  *)
(* calls cannot fail the iteration.                                        *)
(***************************************************************************)
EXTENDS Passes

CONSTANT Stale   \* ages of a timestamp the model tells apart; the last is "stale"

ASSUME StaleAssumption == Stale \in Nat \ {0}

VARIABLES
    pc,        \* where main is
    up,        \* the services that answer, of those an iteration cannot do without
    success,   \* age of last_success_timestamp
    pushed     \* age of the Pushgateway's copy of it

mainVars == <<pc, up, success, pushed>>
vars     == <<pagingVars, passVars, mainVars>>

Services == {"hetzner", "kubernetes"}

TypeOK ==
    /\ PagingTypeOK
    /\ PassTypeOK
    /\ pc \in {"starting", "gitea", "servers", "kube", "work", "push", "sleep", "hung"}
    /\ up \in SUBSET Services
    /\ success \in 0..Stale
    /\ pushed \in 0..Stale

Init ==
    /\ PagingInit
    /\ NoNodes
    /\ pc = "starting"
    /\ up = Services
    /\ success = Stale
    /\ pushed = Stale

Aged(age) == Min({age + 1, Stale})

--------------------------------------------------------------------------------
(* Mutant: start-up does without the SSH keys. *)
KeysNotNeeded == TRUE
(* RealHetznerClient::new lists the SSH keys. *)
KeysLoaded == "hetzner" \in up
(* The version of the cluster and the address of its master are read. *)
ClusterRead == "kubernetes" \in up

(* The timestamp is seeded with the time of the start. *)
Start ==
    /\ pc = "starting"
    /\ KeysLoaded /\ ClusterRead
    /\ success' = 0
    /\ pc' = "gitea"
    /\ UNCHANGED <<pagingVars, passVars, up, pushed>>

(* main returns the error; the process is started again after a while. *)
StartFails ==
    /\ pc = "starting"
    /\ ~(KeysLoaded /\ ClusterRead)
    /\ pushed' = Aged(pushed)
    /\ UNCHANGED <<pagingVars, passVars, pc, up, success>>

ListJobsAndRunners ==
    /\ pc = "gitea"
    /\ StartListing
    /\ pc' = "servers"
    /\ UNCHANGED <<passVars, up, success, pushed>>

ListServers ==
    /\ pc = "servers"
    /\ "hetzner" \in up
    /\ FetchPage
    /\ pc' = IF page' = 0 THEN "kube" ELSE "servers"
    /\ UNCHANGED <<passVars, up, success, pushed>>

ListNodesAndPods ==
    /\ pc = "kube"
    /\ "kubernetes" \in up
    /\ pc' = "work"
    /\ EndListing
    /\ Reconcile(got)
    /\ UNCHANGED <<up, success, pushed>>

Work ==
    /\ pc = "work"
    /\ Pass
    /\ UNCHANGED <<pagingVars, mainVars>>

(* Mutant: the timestamp is not set. *)
NotSet(age) == age
OnOk(age) == 0

(* run_loop_iteration returns Ok: its work is done. *)
Complete ==
    /\ pc = "work"
    /\ EndPasses
    /\ success' = OnOk(success)
    /\ pc' = "push"
    /\ UNCHANGED <<pagingVars, up, pushed>>

(* ... or Gitea did not answer, and nothing was done.                      *)
Skip ==
    /\ pc = "gitea"
    /\ success' = OnOk(success)
    /\ pc' = "push"
    /\ UNCHANGED <<pagingVars, passVars, up, pushed>>

(* It returns Err. *)
Fail ==
    /\ \/ pc = "servers" /\ "hetzner" \notin up
       \/ pc = "kube" /\ "kubernetes" \notin up
    /\ EndListing
    /\ pc' = "push"
    /\ UNCHANGED <<passVars, up, success, pushed>>

Push ==
    /\ pc = "push"
    /\ pushed' = success
    /\ pc' = "sleep"
    /\ UNCHANGED <<pagingVars, passVars, up, success>>

(* An error of push is logged. *)
PushFails ==
    /\ pc = "push"
    /\ pc' = "sleep"
    /\ UNCHANGED <<pagingVars, passVars, up, success, pushed>>

Sleep ==
    /\ pc = "sleep"
    /\ success' = Aged(success)
    /\ pushed' = Aged(pushed)
    /\ pc' = "gitea"
    /\ UNCHANGED <<pagingVars, passVars, up>>

--------------------------------------------------------------------------------
(* No client sets a timeout: a call to a service that is down, to Gitea or *)
(* to the Pushgateway, and any call of the work may never be answered.     *)
(* What the process knows makes no difference from then on.                *)
Hang ==
    /\ \/ pc \in {"gitea", "work", "push"}
       \/ pc = "starting" /\ ~(KeysLoaded /\ ClusterRead)
       \/ pc = "servers" /\ "hetzner" \notin up
       \/ pc = "kube" /\ "kubernetes" \notin up
    /\ EndListing
    /\ NodesLost
    /\ success' = Stale
    /\ pc' = "hung"
    /\ UNCHANGED <<up, pushed>>

Hung ==
    /\ pc = "hung"
    /\ pushed' = Aged(pushed)
    /\ UNCHANGED <<pagingVars, passVars, pc, up, success>>

Crash ==
    /\ pc # "starting"
    /\ EndListing
    /\ NodesLost
    /\ success' = Stale
    /\ pc' = "starting"
    /\ UNCHANGED <<up, pushed>>

Outage(service) ==
    /\ service \in up
    /\ up' = up \ {service}
    /\ UNCHANGED <<pagingVars, passVars, pc, success, pushed>>

Repair(service) ==
    /\ service \notin up
    /\ up' = up \cup {service}
    /\ UNCHANGED <<pagingVars, passVars, pc, success, pushed>>

(* Servers come and go between two pages. *)
StoreChanges(s) ==
    /\ Appear(s) \/ Disappear(s)
    /\ UNCHANGED <<passVars, mainVars>>

Process ==
    \/ Start \/ StartFails
    \/ ListJobsAndRunners \/ ListServers \/ ListNodesAndPods \/ Work \/ Complete
    \/ Skip \/ Fail
    \/ Push \/ PushFails \/ Sleep
    \/ Hung

Next ==
    \/ Process
    \/ Hang \/ Crash
    \/ \E service \in Services : Outage(service) \/ Repair(service)
    \/ \E s \in Id : StoreChanges(s)

(* The process takes its steps, the one of time included, and is started   *)
(* again when it stops.  Nobody restarts it because it hangs.              *)
Spec == Init /\ [][Next]_vars /\ WF_vars(Process)

--------------------------------------------------------------------------------
(* While Hetzner, or Kubernetes, stays away, or the process hangs, the     *)
(* timestamp the operators see becomes stale and stays so, however often   *)
(* the process is restarted: the seed of Metrics::new takes a start-up     *)
(* that asks both.  Iterations that Gitea cuts short hide an outage, so    *)
(* they must come to an end.                                               *)
OutageIsNoticed ==
    \A service \in Services :
        <>[](service \notin up \/ pc = "hung") /\ ~[]<><<Skip>>_vars => <>[](pushed = Stale)

(* When every service stays up, and hanging calls, crashes and pushes that *)
(* fail to bring news have an end, the timestamp is fresh from some moment *)
(* on.                                                                     *)
NewsLost == PushFails /\ pushed # success
RecoveryIsNoticed ==
    <>[](up = Services /\ pc # "hung") /\ ~[]<><<Crash \/ NewsLost>>_vars
        => <>[](pushed # Stale)

--------------------------------------------------------------------------------
(* The inductive invariant: what a listing and a pass have behind them.  A *)
(* listing hands on nothing twice, on which the passes rely.               *)
IInv == TypeOK /\ PagingInv /\ PassInv

================================================================================
