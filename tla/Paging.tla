--------------------------------- MODULE Paging ---------------------------------
(***************************************************************************)
(* A listing taken page by page (list_servers, and list_jobs, which has    *)
(* the same loop): every page is a request of its own, and what is listed  *)
(* may change between two of them.  An entry that disappears from a page   *)
(* already read moves every later one forward, and the first of the next   *)
(* page out of sight.                                                      *)
(*                                                                         *)
(* Entries are listed in the order of their identifiers, which grow.       *)
(***************************************************************************)
EXTENDS Naturals, FiniteSets, SequencesExt, Orders

CONSTANTS
    Id,        \* identifiers of servers, reused from one listing to the next
    PerPage    \* PER_PAGE, and the 50 of list_jobs

ASSUME PagingAssumption == Id \subseteq Nat /\ IsFiniteSet(Id) /\ PerPage \in Nat \ {0}

VARIABLES
    store,     \* what there is to list, while a listing looks at it
    page,      \* the page to ask for, 0 when no listing is under way
    got,       \* what the pages so far contained
    atStart,   \* history: the store when the listing began
    ever       \* history: what was in the store since

pagingVars == <<store, page, got, atStart, ever>>

PagingTypeOK ==
    /\ store \in SUBSET Id
    /\ page \in 0..(Cardinality(Id) + 1)
    /\ got \in BoundedSeq(Id, Cardinality(Id))
    /\ atStart \in SUBSET Id
    /\ ever \in SUBSET Id

PagingInit == store = {} /\ page = 0 /\ got = <<>> /\ atStart = {} /\ ever = {}

(* How many entries the pages before page p have room for. *)
Behind(p) == (p - 1) * PerPage

(* Page p of a store.  One beyond the last is empty. *)
PageOf(S, p) ==
    Ascending({s \in S : Behind(p) < Rank(s, S) /\ Rank(s, S) <= Behind(p + 1)})

(* Mutant: the same page is asked for again. *)
SamePage(p) == p
NextPage(p) == p + 1

(* Mutant: a full page is the last one too. *)
LastIfFull(answer) == Len(answer) <= PerPage
IsLast(answer) == Len(answer) < PerPage

(* What came and went since the last listing is anybody's guess. *)
StartListing ==
    /\ store' \in SUBSET Id
    /\ atStart' = store' /\ ever' = store'
    /\ page' = 1
    /\ got' = <<>>

FetchPage ==
    /\ page > 0
    /\ LET answer == PageOf(store, page)
       IN  /\ got' = got \o answer
           /\ page' = IF IsLast(answer) THEN 0 ELSE NextPage(page)
    /\ UNCHANGED <<store, atStart, ever>>

(* The listing is used up, or given up: a page that fails takes the others *)
(* with it.                                                                *)
EndListing == store' = {} /\ page' = 0 /\ got' = <<>> /\ atStart' = {} /\ ever' = {}

Appear(s) ==
    /\ page > 0
    /\ s \notin ever /\ \A t \in store : t < s
    /\ store' = store \cup {s}
    /\ ever' = ever \cup {s}
    /\ UNCHANGED <<page, got, atStart>>

Disappear(s) ==
    /\ page > 0
    /\ s \in store
    /\ store' = store \ {s}
    /\ UNCHANGED <<page, got, atStart, ever>>

--------------------------------------------------------------------------------
(* Nothing is listed twice, whatever comes and goes between the pages:     *)
(* list_servers does not look for duplicates, nor does reconcile.          *)
NoneTwice == IsInjective(got)

(* A listing that ends leaves out no more of what was there all the time   *)
(* than disappeared meanwhile; in particular, without a disappearance it   *)
(* is complete, a last page that happens to be full included.              *)
MissesBounded ==
    page = 0 => Cardinality((atStart \cap store) \ ToSet(got)) <= Cardinality(ever \ store)

--------------------------------------------------------------------------------
(* What a listing under way has behind it: the inductive invariant.        *)

HistoryIsExact ==
    /\ store \subseteq ever /\ atStart \subseteq ever
    /\ ToSet(got) \subseteq ever

(* Every page so far was full; what is still there of it has not moved     *)
(* back.                                                                   *)
PagesWereFull ==
    page > 0 =>
        /\ Len(got) = Behind(page)
        /\ \A s \in ToSet(got) \cap store : Rank(s, store) <= Behind(page)

(* What moved to a page already read, unseen, moved there by as many       *)
(* disappearances.                                                         *)
Overlooked == {s \in atStart \cap store : Rank(s, store) <= Behind(page)} \ ToSet(got)

FewOverlooked == page > 0 => Cardinality(Overlooked) <= Cardinality(ever \ store)

PagingInv ==
    /\ PagingTypeOK
    /\ HistoryIsExact
    /\ NoneTwice
    /\ PagesWereFull
    /\ FewOverlooked
    /\ MissesBounded

================================================================================
