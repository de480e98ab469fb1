------------------------------ MODULE PoolSort ------------------------------
(****************************************************************************)
(* sortPoolsForSelection as it runs: sort.Slice on the pools of a           *)
(* namespace.  Below 13 items sort.Slice is an insertion sort, which is     *)
(* modelled one swap at a time, from every order the informer's List can    *)
(* return and for every mix of timestamps and annotations.                  *)
(****************************************************************************)
EXTENDS PoolSelection, Sequences

CONSTANTS
    Timestamps,     \* the creationTimestamps listed pools have, 0 the zero time
    MaxStamp        \* bound on annotation values, 0 meaning unset

(* Both callers return early where no pool is listed. *)
ASSUME SortAssumption ==
    /\ Pools # {}
    /\ Timestamps \subseteq Nat
    /\ MaxStamp \in Nat

VARIABLES
    objs,       \* the listed pool objects
    items,      \* the slice being sorted
    i, j        \* the two loop variables of the insertion sort (from 1)

vars == <<objs, items, i, j>>

Size == Cardinality(Pools)

TypeOK ==
    /\ objs \in [Pools -> [created : Timestamps, irv : 0 .. MaxStamp]]
    /\ items \in Bijection(1 .. Size, Pools)
    /\ i \in 2 .. Size + 1
    /\ j \in 1 .. Size + 1

Init ==
    /\ objs \in [Pools -> [created : Timestamps, irv : 0 .. MaxStamp]]
    /\ items \in Bijection(1 .. Size, Pools)
    /\ i = 2
    /\ j = 2

(* The guard of the inner loop. *)
MustSwap == j > 1 /\ Before(objs, items[j], items[j - 1])

(* Faulty variant: an assignment instead of a swap. *)
BugSwapOverwrites ==
    /\ i <= Size
    /\ MustSwap
    /\ items' = [items EXCEPT ![j - 1] = items[j]]
    /\ j' = j - 1
    /\ UNCHANGED <<objs, i>>

(* The inner loop: swap an item with its left neighbour while it is smaller. *)
Swap ==
    /\ i <= Size
    /\ MustSwap
    /\ items' = [items EXCEPT ![j] = items[j - 1], ![j - 1] = items[j]]
    /\ j' = j - 1
    /\ UNCHANGED <<objs, i>>

(* The outer loop: on to the next item. *)
NextItem ==
    /\ i <= Size
    /\ ~ MustSwap
    /\ i' = i + 1
    /\ j' = i + 1
    /\ UNCHANGED <<objs, items>>

Next == Swap \/ NextItem

Spec == Init /\ [][Next]_vars

Done == i > Size

-----------------------------------------------------------------------------
(****************************************************************************)
(* sortPoolsForSelection ends in one of SortedOrders, whatever the pools    *)
(* are: also where the comparator is not transitive, which is what module   *)
(* UpstreamPoolController relies on.                                        *)
(****************************************************************************)
EndsSorted == Done => items \in SortedOrders(objs, Pools)

(****************************************************************************)
(* Where one rule decides (Uniform), the first item after the sort does not *)
(* depend on the order in which the pools were listed, and it is the pool   *)
(* that comes before all others.                                            *)
(****************************************************************************)
UniformSelectionIsOldest ==
    Done /\ Uniform(objs, Pools) =>
        /\ FirstChoices(objs, Pools) = {items[1]}
        /\ IsOldest(objs, Pools, items[1])
=============================================================================
