----------------------------- MODULE MCPoolSort -----------------------------
(* PoolSort for TLC: three pools named in the order a < b < c. *)
EXTENDS PoolSort

CONSTANTS a, b, c

MCNameRank == [p \in Pools |-> CASE p = a -> 1 [] p = b -> 2 [] p = c -> 3]
=============================================================================
