----------------------------- MODULE NodeLifecycle -----------------------------
(***************************************************************************)
(* What the autoscaler promises about one rented server, whatever the      *)
(* control loop does between its awaits: the README's lifecycle            *)
(*                                                                         *)
(*   [Create Server] -> ... -> Idle -> Deregistering -> Draining           *)
(*                   -> Removing -> [Deleted]                              *)
(*                                                                         *)
(* told by the calls that take effect outside the process, so that it      *)
(* keeps its meaning across a restart.  The runner is deregistered before  *)
(* the node is drained, the node is drained before it is deleted from the  *)
(* cluster, and all of that comes before the server is deleted; the only   *)
(* other server ever deleted is one past the provisioning timeout.         *)
(***************************************************************************)
EXTENDS Naturals

CONSTANT Server

VARIABLES
    fate,    \* what became of each server
    stage,   \* how far its teardown has come: see Deregister, Drain, Unjoin
    old      \* servers older than the provisioning timeout

vars == <<fate, stage, old>>

Fates == {"free", "alive", "lost", "deleted"}

Init ==
    /\ fate = [s \in Server |-> "free"]
    /\ stage = [s \in Server |-> 0]
    /\ old = {}

Create(s) ==
    /\ fate[s] = "free"
    /\ fate' = [fate EXCEPT ![s] = "alive"]
    /\ UNCHANGED <<stage, old>>

(* Hetzner drops the server, or somebody deletes it in the console. *)
Lose(s) ==
    /\ fate[s] = "alive"
    /\ fate' = [fate EXCEPT ![s] = "lost"]
    /\ UNCHANGED <<stage, old>>

GrowOld(s) ==
    /\ fate[s] # "free"
    /\ old' = old \cup {s}
    /\ UNCHANGED <<fate, stage>>

(* Stage n can only follow stage n - 1. *)
Reach(s, n) ==
    /\ fate[s] # "free"
    /\ stage[s] = n - 1
    /\ stage' = [stage EXCEPT ![s] = n]
    /\ UNCHANGED <<fate, old>>

Deregister(s) == Reach(s, 1)
Drain(s)      == Reach(s, 2)
Unjoin(s)     == Reach(s, 3)

Delete(s) ==
    /\ fate[s] = "alive"
    /\ stage[s] = 3 \/ s \in old
    /\ fate' = [fate EXCEPT ![s] = "deleted"]
    /\ UNCHANGED <<stage, old>>

(* The identifier stands for a new server from here on. *)
Recycle(s) ==
    /\ fate[s] \in {"lost", "deleted"}
    /\ fate' = [fate EXCEPT ![s] = "free"]
    /\ stage' = [stage EXCEPT ![s] = 0]
    /\ old' = old \ {s}

Next ==
    \E s \in Server :
        \/ Create(s) \/ Lose(s) \/ GrowOld(s) \/ Recycle(s)
        \/ Deregister(s) \/ Drain(s) \/ Unjoin(s) \/ Delete(s)

Spec == Init /\ [][Next]_vars

================================================================================
