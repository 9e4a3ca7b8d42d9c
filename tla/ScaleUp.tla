-------------------------------- MODULE ScaleUp --------------------------------
(***************************************************************************)
(* The arithmetic that decides how many servers to create                  *)
(* (NodeManager::compute_scale_up and permanent_runner_capacity): usize    *)
(* subtraction that saturates at zero.                                     *)
(***************************************************************************)
EXTENDS Naturals

(* Mutant: the subtraction goes below zero. *)
SatSubSigned(a, b) == a - b

(* usize::saturating_sub *)
SatSub(a, b) == IF a > b THEN a - b ELSE 0

(* usize::min *)
Lesser(a, b) == IF a < b THEN a ELSE b

(***************************************************************************)
(* compute_scale_up: the waiting jobs nobody is going to take, as far as   *)
(* the node limit leaves room.  idle, provisioning and managed count the   *)
(* manager's nodes; permanent counts the free runners on other machines.   *)
(***************************************************************************)
Needed(jobs, idle, provisioning, permanent) ==
    SatSub(SatSub(SatSub(jobs, idle), provisioning), permanent)

ComputeScaleUp(jobs, idle, provisioning, permanent, managed, limit) ==
    Lesser(Needed(jobs, idle, provisioning, permanent), SatSub(limit, managed))

(***************************************************************************)
(* compute_scale_up returns a count that fits under the limit.             *)
(***************************************************************************)
LEMMA ScaleUpBound ==
    ASSUME NEW jobs \in Nat, NEW idle \in Nat, NEW provisioning \in Nat,
           NEW permanent \in Nat, NEW managed \in Nat, NEW limit \in Nat
    PROVE  LET n == ComputeScaleUp(jobs, idle, provisioning, permanent, managed, limit)
           IN  /\ n \in Nat
               /\ n > 0 => managed + n <= limit
               /\ n <= jobs
BY DEF ComputeScaleUp, Needed, SatSub, Lesser

================================================================================
