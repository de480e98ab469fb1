---------------------------- MODULE PoolSelection ----------------------------
(****************************************************************************)
(* Which DNSUpstreamPool of a namespace is the active one: the order that   *)
(* sortPoolsForSelection sorts the listed pools by, and the pools the sort  *)
(* can put first.                                                           *)
(*                                                                          *)
(* The operators take the pool objects as a function objs from pool names   *)
(* to records with the fields created (creationTimestamp in seconds, 0 when *)
(* it is the zero time) and irv (the initial-resource-version annotation,   *)
(* 0 when it is absent or does not parse).                                  *)
(****************************************************************************)
EXTENDS Naturals, FiniteSets, Functions

CONSTANTS
    Pools,      \* the pool names (of every namespace)
    NameRank    \* the rank of each name in the order of Go's string <

ASSUME SelectionAssumption ==
    /\ IsFiniteSet(Pools)
    /\ NameRank \in [Pools -> Nat]
    /\ \A a, b \in Pools : NameRank[a] = NameRank[b] => a = b

-----------------------------------------------------------------------------
(* Faulty variant: without the last rule, the names. *)
BugBeforeWithoutNames(objs, a, b) ==
    LET left == objs[a]
        right == objs[b]
    IN  IF left.created > 0 /\ right.created > 0 /\ left.created # right.created
        THEN left.created < right.created
        ELSE /\ left.irv > 0 /\ right.irv > 0
             /\ left.irv < right.irv

(* Faulty variant: of two equal timestamps each comes before the other. *)
BugNotStrict(objs, a, b) ==
    LET left == objs[a]
        right == objs[b]
    IN  IF left.created > 0 /\ right.created > 0
        THEN left.created <= right.created
        ELSE NameRank[a] < NameRank[b]

(* Faulty variant: the annotation decides before the timestamp. *)
BugStampFirst(objs, a, b) ==
    LET left == objs[a]
        right == objs[b]
    IN  IF left.irv > 0 /\ right.irv > 0 /\ left.irv # right.irv
        THEN left.irv < right.irv
        ELSE IF left.created > 0 /\ right.created > 0 /\ left.created # right.created
        THEN left.created < right.created
        ELSE NameRank[a] < NameRank[b]

(* Faulty variant: the newest pool first. *)
BugNewestFirst(objs, a, b) ==
    LET left == objs[a]
        right == objs[b]
    IN  IF left.created > 0 /\ right.created > 0 /\ left.created # right.created
        THEN left.created > right.created
        ELSE IF left.irv > 0 /\ right.irv > 0 /\ left.irv # right.irv
        THEN left.irv > right.irv
        ELSE NameRank[a] < NameRank[b]

(****************************************************************************)
(* The comparator of sort.Slice: the older creationTimestamp; when the two  *)
(* are equal or one is zero, the smaller annotation; when the two are equal *)
(* or one is missing, the smaller name.                                     *)
(****************************************************************************)
Before(objs, a, b) ==
    LET left == objs[a]
        right == objs[b]
    IN  IF left.created > 0 /\ right.created > 0 /\ left.created # right.created
        THEN left.created < right.created
        ELSE IF left.irv > 0 /\ right.irv > 0 /\ left.irv # right.irv
        THEN left.irv < right.irv
        ELSE NameRank[a] < NameRank[b]

(****************************************************************************)
(* The orders of the pools S that the sort leaves alone.  The informer's    *)
(* List returns the pools in the order of a Go map, hence in any order, and *)
(* module PoolSort shows that the sort ends in one of these; a sorted order *)
(* is also what the sort makes of itself.  So these are its outcomes.       *)
(****************************************************************************)
SortedOrders(objs, S) ==
    { s \in Bijection(1 .. Cardinality(S), S) :
        \A i \in 1 .. Cardinality(S) - 1 : ~ Before(objs, s[i + 1], s[i]) }

(* The pools that items[0] can be after the sort. *)
FirstChoices(objs, S) ==
    { p \in S : \E s \in SortedOrders(objs, S) : s[1] = p }

(****************************************************************************)
(* Pools that one rule decides between: every timestamp is set, and either  *)
(* every pool carries the annotation or none does.                          *)
(****************************************************************************)
Uniform(objs, S) ==
    /\ \A p \in S : objs[p].created > 0
    /\ \/ \A p \in S : objs[p].irv > 0
       \/ \A p \in S : objs[p].irv = 0

(* o comes before every other pool of S: what "the oldest pool" means. *)
IsOldest(objs, S, o) ==
    o \in S /\ \A p \in S \ {o} : Before(objs, o, p)
=============================================================================
