--------------------------------- MODULE Metrics ---------------------------------
(***************************************************************************)
(* The per-node gauges on their way to Prometheus.  An iteration that      *)
(* comes to its end replaces the series of both gauges by those of the     *)
(* nodes it manages (update_metrics); main pushes what the registry        *)
(* gathers, whatever became of the iteration, and Prometheus scrapes the   *)
(* Pushgateway.                                                            *)
(***************************************************************************)
CONSTANT Node   \* nodes, by name

VARIABLES
    nodes,      \* NodeManager.nodes: "absent", "Idle", or "other"
    registry,   \* the series of each gauge in the process
    gateway,    \* the series of each gauge on the Pushgateway
    pc          \* what main does next: "work" or "push"; "sleep" after a good push

vars == <<nodes, registry, gateway, pc>>

(* node_age_seconds and node_idle_seconds *)
Gauges == {"age", "idle"}
NoSeries == [g \in Gauges |-> {}]
NoNodes  == [n \in Node |-> "absent"]

Init ==
    /\ nodes = NoNodes
    /\ registry = NoSeries
    /\ gateway = NoSeries
    /\ pc = "work"

(* update_metrics: both gauges are reset, then each node sets its series. *)
UpdateMetrics ==
    registry' = [g \in Gauges |-> {n \in Node : \/ g = "age" /\ nodes'[n] # "absent"
                                               \/ nodes'[n] = "Idle"}]

(* The iteration leaves the manager with any nodes, and updates the gauges. *)
Iterate ==
    /\ pc \in {"work", "sleep"}
    /\ nodes' \in [Node -> {"absent", "Idle", "other"}]
    /\ UpdateMetrics
    /\ pc' = "push"
    /\ UNCHANGED gateway

(* It is skipped or fails before it touches either. *)
GiveUp ==
    /\ pc \in {"work", "sleep"}
    /\ pc' = "push"
    /\ UNCHANGED <<nodes, registry, gateway>>

(* gather leaves out a gauge without series; a POST to the Pushgateway     *)
(* replaces the series of the gauges it contains and keeps the others.     *)
Gathered == {g \in Gauges : registry[g] # {}}
Posted   == [g \in Gauges |-> IF g \in Gathered THEN registry[g] ELSE gateway[g]]

Push ==
    /\ pc = "push"
    /\ gateway' = Posted
    /\ pc' = "sleep"
    /\ UNCHANGED <<nodes, registry>>

PushFails ==
    /\ pc = "push"
    /\ pc' = "work"
    /\ UNCHANGED <<nodes, registry, gateway>>

(* A new process has a new registry. *)
Restart ==
    /\ nodes' = NoNodes
    /\ registry' = NoSeries
    /\ pc' = "work"
    /\ UNCHANGED gateway

Next == Iterate \/ GiveUp \/ Push \/ PushFails \/ Restart

Spec == Init /\ [][Next]_vars

--------------------------------------------------------------------------------
(* "Reset per-node gauges so deleted nodes stop emitting stale series"     *)
(* (node_manager.rs:499): after a push that succeeds the Pushgateway has   *)
(* no series of a node the manager does not manage.  It does not hold: a   *)
(* gauge that lost its last series is not part of the push.                *)
NoStaleSeries == pc = "sleep" => \A n \in gateway["age"] : nodes[n] # "absent"

================================================================================
