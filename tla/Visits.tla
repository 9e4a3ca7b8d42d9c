--------------------------------- MODULE Visits ---------------------------------
(***************************************************************************)
(* What a pass over some of the managed servers promises: each of them is  *)
(* visited exactly once, and a visit takes no server off the books but the *)
(* one it is to.  Between passes the books may change in any way.          *)
(***************************************************************************)
CONSTANT Id

VARIABLES
    tracked,   \* the servers on the books
    left,      \* the servers the pass has still to visit
    visited    \* the servers it has visited

vars == <<tracked, left, visited>>

Init == tracked = {} /\ left = {} /\ visited = {}

Begin ==
    /\ left = {}
    /\ tracked' \in SUBSET Id
    /\ left' \in SUBSET Id
    /\ visited' = {}

Visit(s) ==
    /\ s \in left
    /\ left' = left \ {s}
    /\ s \notin visited
    /\ visited' = visited \cup {s}
    /\ tracked' \in {tracked, tracked \ {s}}

(* The process stops, and what it knew is lost. *)
Lose == tracked' = {} /\ left' = {} /\ visited' = {}

Next == Begin \/ Lose \/ \E s \in Id : Visit(s)

Spec == Init /\ [][Next]_vars

================================================================================
