--------------------------------- MODULE Passes ---------------------------------
(***************************************************************************)
(* NodeManager.nodes is a vector and the passes of an iteration walk it by *)
(* position, while visits remove entries from it; the stuck servers are a  *)
(* vector of identifiers with repetitions.  ControlLoop visits servers by  *)
(* identity; this module has the positions.                                *)
(*                                                                         *)
(* Of an entry's state it keeps what decides who is visited and who is     *)
(* removed: "Running" is Busy or Idle, "Closing" Deregistering or Draining *)
(* (ControlLoop has the calls, their order and their outcomes).            *)
(***************************************************************************)
EXTENDS Paging

VARIABLES
    nodes,     \* NodeManager.nodes
    pass,      \* the pass under way: none, stuck, candidates, advance
    queue,     \* all_actions: the stuck servers still to delete
    todo,      \* candidates or teardown_indices: the positions still to visit
    visited    \* history: the servers this pass has visited

passVars == <<nodes, pass, queue, todo, visited>>

States == {"Provisioning", "Running", "Closing", "Removing"}
InTeardown == {"Closing", "Removing"}

PassTypeOK ==
    /\ nodes \in BoundedSeq([id : Id, state : States], Cardinality(Id))
    /\ pass \in {"none", "stuck", "candidates", "advance"}
    /\ queue \in BoundedSeq(Id, 2 * Cardinality(Id))
    /\ todo \in SUBSET (1..Cardinality(Id))
    /\ visited \in SUBSET Id

NoNodes == nodes = <<>> /\ pass = "none" /\ queue = <<>> /\ todo = {} /\ visited = {}
NodesLost ==
    nodes' = <<>> /\ pass' = "none" /\ queue' = <<>> /\ todo' = {} /\ visited' = {}

Entry(s, state) == [id |-> s, state |-> state]
Ids(entries) == {entries[i].id : i \in DOMAIN entries}
Positions(states) == {i \in DOMAIN nodes : nodes[i].state \in states}

--------------------------------------------------------------------------------
(***************************************************************************)
(* Reconciliation                                                          *)
(***************************************************************************)

(* A teardown in progress outlives what was found of the server. *)
Preserved(s, state) ==
    LET torn == {i \in Positions(InTeardown) : nodes[i].id = s}
    IN  IF torn = {} THEN state ELSE nodes[Min(torn)].state

(* Provisioning servers a listing does not have. *)
Unlisted(entries, listed) ==
    {n.id : n \in {e \in ToSet(entries) : e.state = "Provisioning"}} \ ToSet(listed)

(* reconcile: an entry for each listed server that is not stuck. *)
Listed(listed, found) ==
    LET kept == Picked(listed, {i \in DOMAIN listed : found[listed[i]] # "stuck"})
    IN  [k \in DOMAIN kept |-> Entry(kept[k], Preserved(kept[k], found[kept[k]]))]

(* carry_forward_state, second half: unlisted entries that stay. *)
Staying(late) ==
    Positions({"Removing"}) \cup {i \in Positions({"Provisioning"}) : nodes[i].id \notin late}

(* Mutant: an entry is carried over whether or not it is tracked already. *)
CarriedTwice(entries, late) == entries \o Picked(nodes, Staying(late))

(* An entry is carried over unless its server is tracked, by the listing   *)
(* or by an entry just carried over.                                       *)
Carried(entries, late) ==
    LET untracked == {i \in Staying(late) : nodes[i].id \notin Ids(entries)}
    IN  entries \o Picked(nodes, {i \in untracked :
                       \A j \in untracked : j < i => nodes[j].id # nodes[i].id})

(* The servers past the timeout: those reconcile found without a node, and *)
(* those that provision unlisted.  A server that is listed and stuck is    *)
(* both, if it was Provisioning before.                                    *)
Actions(listed, found, entries, late) ==
    LET ghosts == Picked(nodes, {i \in Positions({"Provisioning"}) :
                      nodes[i].id \in late \ Ids(entries)})
    IN  Picked(listed, {i \in DOMAIN listed : found[listed[i]] = "stuck"})
        \o [i \in DOMAIN ghosts |-> ghosts[i].id]

(* Mutant: the actions are not sorted. *)
Unsorted(actions) == Dedup(actions)
InOrder(actions) == Dedup(Sorted(actions))

(* reconcile, carry_forward_state and drop_vanished_servers: found is what *)
(* the cluster shows of a listed server, ghosts are unlisted ones past the *)
(* provisioning timeout, vanished those server_exists does not know.       *)
Reconcile(listed) ==
    /\ pass = "none"
    /\ \E found \in [ToSet(listed) -> (States \ {"Removing"}) \cup {"stuck"}],
          ghosts \in SUBSET Unlisted(nodes, listed) :
       \E late \in {{s \in ToSet(listed) : found[s] = "stuck"} \cup ghosts},
          entries \in {Listed(listed, found)} :
       \E tracked \in {Carried(entries, late)} :
          /\ \E vanished \in SUBSET Unlisted(tracked, listed) :
                nodes' = Picked(tracked, {i \in DOMAIN tracked : tracked[i].id \notin vanished})
          /\ queue' = InOrder(Actions(listed, found, entries, late))
    /\ pass' = "stuck"
    /\ UNCHANGED <<todo, visited>>

--------------------------------------------------------------------------------
(***************************************************************************)
(* The passes                                                              *)
(***************************************************************************)

(* delete_stuck_server, for the next action: on success the first entry    *)
(* with its identifier goes, if there is one.                              *)
DeleteStuck ==
    /\ pass = "stuck"
    /\ queue # <<>>
    /\ queue' = Tail(queue)
    /\ visited' = visited \cup {Head(queue)}
    /\ LET entries == {i \in DOMAIN nodes : nodes[i].id = Head(queue)}
       IN  \/ nodes' = IF entries = {} THEN nodes ELSE RemoveAt(nodes, Min(entries))
           \/ nodes' = nodes
    /\ UNCHANGED <<pass, todo>>

(* scale_up pushes the server Hetzner made. *)
Create(s) ==
    /\ pass = "stuck"
    /\ queue = <<>>
    /\ s \notin Ids(nodes)
    /\ nodes' = Append(nodes, Entry(s, "Provisioning"))
    /\ visited' = {}
    /\ UNCHANGED <<pass, queue, todo>>

(* find_teardown_candidates: any of the running ones. *)
FindCandidates ==
    /\ pass = "stuck"
    /\ queue = <<>>
    /\ todo' \in SUBSET Positions({"Running"})
    /\ pass' = "candidates"
    /\ visited' = {}
    /\ UNCHANGED <<nodes, queue>>

(* Mutant: the positions are walked from the front. *)
FirstOf(positions) == Min(positions)
(* .iter().rev() *)
Following(positions) == Max(positions)

Stays(i)          == nodes' = nodes
Becomes(i, state) == nodes' = [nodes EXCEPT ![i].state = state]
Goes(i)           == nodes' = RemoveAt(nodes, i)

(* teardown_step and try_delete_hetzner_server: a failed call changes      *)
(* nothing, a server deleted takes its entry with it.                      *)
TeardownStep(i) ==
    \/ Stays(i)
    \/ nodes[i].state = "Running" /\ Becomes(i, "Closing")
    \/ nodes[i].state = "Closing" /\ (Becomes(i, "Removing") \/ Goes(i))
    \/ nodes[i].state = "Removing" /\ Goes(i)

VisitNext ==
    /\ pass \in {"candidates", "advance"}
    /\ todo # {}
    /\ LET i == Following(todo)
       IN  /\ i \in DOMAIN nodes
           /\ TeardownStep(i)
           /\ todo' = todo \ {i}
           /\ visited' = visited \cup {nodes[i].id}
    /\ UNCHANGED <<pass, queue>>

FindInTeardown ==
    /\ pass = "candidates"
    /\ todo = {}
    /\ todo' = Positions(InTeardown)
    /\ pass' = "advance"
    /\ visited' = {}
    /\ UNCHANGED <<nodes, queue>>

EndPasses ==
    /\ pass = "advance"
    /\ todo = {}
    /\ pass' = "none"
    /\ visited' = {}
    /\ UNCHANGED <<nodes, queue, todo>>

Pass == DeleteStuck \/ FindCandidates \/ VisitNext \/ FindInTeardown \/ \E s \in Id : Create(s)

--------------------------------------------------------------------------------
(* Whatever a visit removes, the positions still to visit are positions of *)
(* the vector: no index panics ("so indices stay valid", main.rs:256).     *)
IndicesStayValid == todo \subseteq DOMAIN nodes

(* No server has two entries: it would count twice against MAX_NODES, and  *)
(* delete_stuck_server and carry_forward_state look at the first only.     *)
OneEntryEach == \A i, j \in DOMAIN nodes : nodes[i].id = nodes[j].id => i = j

(* The servers the pass has still to visit.                                *)
Left == ToSet(queue) \cup {nodes[i].id : i \in todo \cap DOMAIN nodes}

(* The passes over stuck servers, candidates and teardowns implement       *)
(* Visits: by whatever positions and repetitions they go, each server      *)
(* chosen is visited once and no other one is removed.                     *)
Visitor == INSTANCE Visits WITH tracked <- Ids(nodes), left <- Left

VisitedOnce == Visitor!Spec

--------------------------------------------------------------------------------
(* What a pass has before and behind it: the inductive invariant.          *)

QueueIsExact ==
    /\ IsInjective(queue)
    /\ pass # "stuck" => queue = <<>>

PassIsExact ==
    /\ pass \in {"none", "stuck"} => todo = {}
    /\ pass = "none" => visited = {}
    /\ visited \cap Left = {}

PassInv == PassTypeOK /\ OneEntryEach /\ IndicesStayValid /\ QueueIsExact /\ PassIsExact

================================================================================
