--------------------------------- MODULE Orders ---------------------------------
(***************************************************************************)
(* Lists in order: the pages of a listing, filter and collect over a       *)
(* vector, sort and dedup.                                                 *)
(***************************************************************************)
EXTENDS Naturals, FiniteSets, Sequences

(* How many elements of a set of numbers do not come after x. *)
Rank(x, S) == Cardinality({y \in S : y <= x})

(* The elements of a finite set of numbers, in ascending order. *)
Ascending(S) ==
    CHOOSE f \in [1..Cardinality(S) -> S] :
        \A i, j \in 1..Cardinality(S) : i < j => f[i] < f[j]

(* iter().filter(): the entries of a sequence at some of its positions. *)
Picked(s, positions) ==
    LET order == Ascending(positions) IN [k \in 1..Cardinality(positions) |-> s[order[k]]]

(* sort_by_key, which is stable. *)
Comes(s, i, j) == s[i] < s[j] \/ (s[i] = s[j] /\ i < j)
Sorted(s) ==
    LET order == CHOOSE p \in [DOMAIN s -> DOMAIN s] :
                     \A i, j \in DOMAIN s : i < j => Comes(s, p[i], p[j])
    IN  [k \in DOMAIN s |-> s[order[k]]]

(* dedup_by_key: of equal neighbours the first stays. *)
Dedup(s) == Picked(s, {i \in DOMAIN s : i = 1 \/ s[i] # s[i - 1]})

================================================================================
