--------------------------- MODULE PoolSortProofs ---------------------------
(****************************************************************************)
(* What the insertion sort of sortPoolsForSelection leaves, for any number  *)
(* of pools: a sorted order although the comparator is not transitive, and  *)
(* the oldest pool first where one rule decides.                            *)
(****************************************************************************)
EXTENDS PoolSort, FiniteSetTheorems, TLAPS

(* The objects that can be listed. *)
Listings == [Pools -> [created : Timestamps, irv : 0 .. MaxStamp]]

(****************************************************************************)
(* Neighbours up to the item being inserted, the one at j, are in order,    *)
(* except for the pair that ends at j; and the neighbours of that item are  *)
(* in order with each other, so that it can leave its place between them.   *)
(****************************************************************************)
SortInv ==
    /\ TypeOK
    /\ j <= i
    /\ i > Size => j = i
    /\ \A k \in 1 .. Size :
          k + 1 <= Size /\ k + 1 <= i /\ k + 1 # j => ~ Before(objs, items[k + 1], items[k])
    /\ 1 < j /\ j < i => ~ Before(objs, items[j + 1], items[j - 1])

(****************************************************************************)
(* Where one rule decides, all items up to i are in order but for the one   *)
(* at j, which comes before those to the right of it.                       *)
(****************************************************************************)
UniformInv ==
    Uniform(objs, Pools) =>
        \A k, l \in 1 .. Size :
            k < l /\ l <= i /\ l # j => Before(objs, items[k], items[l])

-----------------------------------------------------------------------------
LEMMA SizeFacts == Size \in Nat \ {0}
BY SelectionAssumption, SortAssumption, FS_CardinalityType, FS_EmptySet DEF Size

LEMMA ListedTypes ==
    ASSUME NEW o \in Listings, NEW p \in Pools
    PROVE  o[p].created \in Nat /\ o[p].irv \in Nat
<1>1. o[p] \in [created : Timestamps, irv : 0 .. MaxStamp]
  BY DEF Listings
<1>2. o[p].created \in Timestamps /\ o[p].irv \in 0 .. MaxStamp
  BY <1>1
<1>3. Timestamps \subseteq Nat /\ 0 .. MaxStamp \subseteq Nat
  BY SortAssumption
<1> QED
  BY <1>2, <1>3

(* Of two pools exactly one comes before the other. *)
LEMMA BeforeIsTotal ==
    ASSUME NEW o \in Listings, NEW a \in Pools, NEW b \in Pools, a # b
    PROVE  Before(o, a, b) <=> ~ Before(o, b, a)
<1>1. /\ o[a].created \in Nat /\ o[b].created \in Nat
      /\ o[a].irv \in Nat /\ o[b].irv \in Nat
  BY ListedTypes
<1>2. /\ NameRank[a] \in Nat /\ NameRank[b] \in Nat
      /\ NameRank[a] # NameRank[b]
  BY SelectionAssumption
<1> QED
  BY <1>1, <1>2 DEF Before

(* Where one rule decides, the comparator is transitive. *)
LEMMA BeforeIsTransitive ==
    ASSUME NEW o \in Listings, Uniform(o, Pools),
           NEW a \in Pools, NEW b \in Pools, NEW c \in Pools,
           Before(o, a, b), Before(o, b, c)
    PROVE  Before(o, a, c)
<1>1. \A p \in {a, b, c} : o[p].created \in Nat /\ o[p].created > 0 /\ o[p].irv \in Nat
  BY ListedTypes DEF Uniform
<1>2. \A p \in {a, b, c} : NameRank[p] \in Nat
  BY SelectionAssumption
<1>3. CASE \A p \in Pools : o[p].irv > 0
  BY <1>1, <1>2, <1>3 DEF Before
<1>4. CASE \A p \in Pools : o[p].irv = 0
  BY <1>1, <1>2, <1>4 DEF Before
<1> QED
  BY <1>3, <1>4 DEF Uniform

(* Different places of a permutation hold different pools. *)
LEMMA ItemFacts ==
    ASSUME NEW s \in Bijection(1 .. Size, Pools)
    PROVE  /\ s \in [1 .. Size -> Pools]
           /\ \A k, l \in 1 .. Size : s[k] = s[l] => k = l
           /\ \A p \in Pools : \E k \in 1 .. Size : s[k] = p
BY DEF Bijection, Injection, Surjection, IsInjective

(* The exchange of two items leaves a permutation. *)
LEMMA SwapIsPermutation ==
    ASSUME NEW s \in Bijection(1 .. Size, Pools), NEW k \in 1 .. Size, NEW l \in 1 .. Size
    PROVE  [s EXCEPT ![k] = s[l], ![l] = s[k]] \in Bijection(1 .. Size, Pools)
<1> DEFINE t == [s EXCEPT ![k] = s[l], ![l] = s[k]]
<1>1. /\ s \in [1 .. Size -> Pools]
      /\ \A x, y \in 1 .. Size : s[x] = s[y] => x = y
      /\ \A p \in Pools : \E x \in 1 .. Size : s[x] = p
  BY ItemFacts
<1>2. t \in [1 .. Size -> Pools]
  BY <1>1
<1>3. \A x \in 1 .. Size : t[x] = IF x = l THEN s[k] ELSE IF x = k THEN s[l] ELSE s[x]
  BY <1>1
<1> HIDE DEF t
<1>4. \A x, y \in 1 .. Size : t[x] = t[y] => x = y
  BY <1>1, <1>3
<1>5. ASSUME NEW p \in Pools
      PROVE  \E x \in 1 .. Size : t[x] = p
  <2>1. PICK x \in 1 .. Size : s[x] = p
    BY <1>1
  <2> QED
    BY <2>1, <1>3
<1>6. t \in Bijection(1 .. Size, Pools)
  BY <1>2, <1>4, <1>5 DEF Bijection, Injection, Surjection, IsInjective
<1> QED
  BY <1>6 DEF t

-----------------------------------------------------------------------------
LEMMA SortInvInit == Init => SortInv /\ UniformInv
<1> SUFFICES ASSUME Init PROVE SortInv /\ UniformInv
  OBVIOUS
<1>1. TypeOK
  BY SizeFacts DEF Init, TypeOK
<1>2. \A k \in 1 .. Size : ~ (k + 1 <= 2 /\ k + 1 # 2)
  BY SizeFacts
<1>3. \A k, l \in 1 .. Size : ~ (k < l /\ l <= 2 /\ l # 2)
  BY SizeFacts
<1> QED
  BY <1>1, <1>2, <1>3 DEF Init, SortInv, UniformInv

(* A step of the inner loop. *)
LEMMA SwapStep ==
    ASSUME SortInv, UniformInv, Swap
    PROVE  SortInv' /\ UniformInv'
<1> DEFINE x == items[j]
           y == items[j - 1]
<1>1. /\ i \in Nat /\ j \in Nat /\ Size \in Nat /\ 1 < j /\ j <= i /\ i <= Size
      /\ i' = i /\ j' = j - 1 /\ objs' = objs /\ objs \in Listings
      /\ items \in Bijection(1 .. Size, Pools)
      /\ Before(objs, x, y)
  BY SizeFacts DEF SortInv, TypeOK, Swap, MustSwap, Listings
<1>2. /\ items \in [1 .. Size -> Pools]
      /\ \A k, l \in 1 .. Size : items[k] = items[l] => k = l
  BY <1>1, ItemFacts
<1>3. j \in 1 .. Size /\ j - 1 \in 1 .. Size
  BY <1>1
<1>4. items' \in Bijection(1 .. Size, Pools)
  BY <1>1, <1>3, SwapIsPermutation DEF Swap
<1>5. \A k \in 1 .. Size :
         items'[k] = IF k = j - 1 THEN x ELSE IF k = j THEN y ELSE items[k]
  BY <1>1, <1>2, <1>3 DEF Swap
<1>6. x \in Pools /\ y \in Pools /\ x # y
  BY <1>1, <1>2, <1>3
<1> HIDE DEF x, y
<1>7. ~ Before(objs, y, x)
  BY <1>1, <1>6, BeforeIsTotal
<1>8. TypeOK'
  BY <1>1, <1>4 DEF SortInv, TypeOK
<1>9. ASSUME NEW k \in 1 .. Size, k + 1 <= Size, k + 1 <= i, k + 1 # j - 1
      PROVE  ~ Before(objs, items'[k + 1], items'[k])
  <2>1. k + 1 \in 1 .. Size
    BY <1>9, <1>1
  <2>2. CASE k + 1 = j
    BY <2>1, <2>2, <1>1, <1>5, <1>7
  <2>3. CASE k = j
    <3>1. items'[k + 1] = items[j + 1] /\ items'[k] = y
      BY <2>1, <2>3, <1>1, <1>5
    <3> QED
      BY <3>1, <2>3, <1>1, <1>9 DEF SortInv, y
  <2>4. CASE k + 1 # j /\ k # j
    <3>1. items'[k + 1] = items[k + 1] /\ items'[k] = items[k]
      BY <2>1, <2>4, <1>1, <1>5, <1>9
    <3> QED
      BY <3>1, <2>4, <1>9 DEF SortInv
  <2> QED
    BY <2>2, <2>3, <2>4
<1>10. ASSUME 1 < j - 1
       PROVE  ~ Before(objs, items'[j], items'[j - 2])
  <2>1. j - 2 \in 1 .. Size /\ (j - 2) + 1 = j - 1
    BY <1>1, <1>10
  <2>2. items'[j] = y /\ items'[j - 2] = items[j - 2]
    BY <2>1, <1>1, <1>3, <1>5
  <2>3. ~ Before(objs, items[(j - 2) + 1], items[j - 2])
    BY <2>1, <1>1 DEF SortInv
  <2> QED
    BY <2>1, <2>2, <2>3 DEF y
<1>11. SortInv'
  <2>1. j' <= i' /\ (i' > Size => j' = i')
    BY <1>1
  <2>2. 1 < j' /\ j' < i' => ~ Before(objs', items'[j' + 1], items'[j' - 1])
    <3>1. j' + 1 = j /\ j' - 1 = j - 2
      BY <1>1
    <3> QED
      BY <3>1, <1>1, <1>10
  <2>3. \A k \in 1 .. Size :
           k + 1 <= Size /\ k + 1 <= i' /\ k + 1 # j' => ~ Before(objs', items'[k + 1], items'[k])
    BY <1>1, <1>9
  <2> QED
    BY <1>8, <2>1, <2>2, <2>3 DEF SortInv
<1>12. ASSUME Uniform(objs, Pools), NEW k \in 1 .. Size, NEW l \in 1 .. Size,
              k < l, l <= i, l # j - 1
       PROVE  Before(objs, items'[k], items'[l])
  <2>1. \A m, n \in 1 .. Size :
           m < n /\ n <= i /\ n # j => Before(objs, items[m], items[n])
    BY <1>12 DEF UniformInv
  <2>2. CASE l = j
    <3>1. CASE k = j - 1
      BY <2>2, <3>1, <1>1, <1>3, <1>5
    <3>2. CASE k < j - 1
      <4>1. items'[k] = items[k] /\ items'[l] = y
        BY <2>2, <3>2, <1>1, <1>5
      <4> QED
        BY <4>1, <2>1, <3>2, <1>1, <1>3 DEF y
    <3> QED
      BY <2>2, <3>1, <3>2, <1>1, <1>12
  <2>3. CASE l # j
    <3>1. items'[l] = items[l]
      BY <2>3, <1>1, <1>5, <1>12
    <3>2. CASE k = j - 1
      <4>1. items'[k] = items[j] /\ j < l
        BY <3>2, <2>3, <1>1, <1>5, <1>12 DEF x
      <4> QED
        BY <4>1, <3>1, <2>1, <2>3, <1>1, <1>3, <1>12
    <3>3. CASE k = j
      <4>1. items'[k] = items[j - 1] /\ j - 1 < l
        BY <3>3, <1>1, <1>5, <1>12 DEF y
      <4> QED
        BY <4>1, <3>1, <2>1, <2>3, <1>1, <1>3, <1>12
    <3>4. CASE k # j - 1 /\ k # j
      BY <3>1, <3>4, <2>1, <2>3, <1>1, <1>5, <1>12
    <3> QED
      BY <3>2, <3>3, <3>4
  <2> QED
    BY <2>2, <2>3
<1>13. UniformInv'
  BY <1>1, <1>12 DEF UniformInv
<1> QED
  BY <1>11, <1>13

(* A step of the outer loop. *)
LEMMA NextItemStep ==
    ASSUME SortInv, UniformInv, NextItem
    PROVE  SortInv' /\ UniformInv'
<1>1. /\ i \in Nat /\ j \in Nat /\ Size \in Nat /\ 1 <= j /\ j <= i /\ i <= Size
      /\ i' = i + 1 /\ j' = i + 1 /\ objs' = objs /\ items' = items
      /\ objs \in Listings /\ items \in Bijection(1 .. Size, Pools)
      /\ j > 1 => ~ Before(objs, items[j], items[j - 1])
  BY SizeFacts DEF SortInv, TypeOK, NextItem, MustSwap, Listings
<1>2. /\ items \in [1 .. Size -> Pools]
      /\ \A k, l \in 1 .. Size : items[k] = items[l] => k = l
  BY <1>1, ItemFacts
<1>3. TypeOK'
  BY <1>1 DEF SortInv, TypeOK
<1>4. ASSUME NEW k \in 1 .. Size, k + 1 <= Size, k + 1 <= i + 1, k + 1 # i + 1
      PROVE  ~ Before(objs, items[k + 1], items[k])
  <2>1. CASE k + 1 = j
    <3>1. k = j - 1 /\ j > 1
      BY <2>1, <1>1
    <3> QED
      BY <3>1, <2>1, <1>1
  <2>2. CASE k + 1 # j
    BY <2>2, <1>1, <1>4 DEF SortInv
  <2> QED
    BY <2>1, <2>2
<1>5. SortInv'
  BY <1>1, <1>3, <1>4 DEF SortInv
<1>6. ASSUME Uniform(objs, Pools), NEW k \in 1 .. Size, NEW l \in 1 .. Size,
             k < l, l <= i + 1, l # i + 1
      PROVE  Before(objs, items[k], items[l])
  <2>1. \A m, n \in 1 .. Size :
           m < n /\ n <= i /\ n # j => Before(objs, items[m], items[n])
    BY <1>6 DEF UniformInv
  <2>2. CASE l = j
    <3>1. j - 1 \in 1 .. Size /\ j \in 1 .. Size /\ j > 1
      BY <2>2, <1>1, <1>6
    <3>2. items[j] \in Pools /\ items[j - 1] \in Pools /\ items[j] # items[j - 1]
      BY <3>1, <1>1, <1>2
    <3>3. Before(objs, items[j - 1], items[j])
      BY <3>1, <3>2, <1>1, BeforeIsTotal
    <3>4. CASE k = j - 1
      BY <2>2, <3>3, <3>4
    <3>5. CASE k < j - 1
      <4>1. Before(objs, items[k], items[j - 1])
        BY <2>1, <3>1, <3>5, <1>1
      <4>2. items[k] \in Pools
        BY <1>2
      <4> QED
        BY <4>1, <4>2, <3>2, <3>3, <2>2, <1>1, <1>6, BeforeIsTransitive
    <3> QED
      BY <3>4, <3>5, <2>2, <1>1, <1>6
  <2>3. CASE l # j
    BY <2>1, <2>3, <1>1, <1>6
  <2> QED
    BY <2>2, <2>3
<1>7. UniformInv'
  BY <1>1, <1>6 DEF UniformInv
<1> QED
  BY <1>5, <1>7

(* Both invariants hold of every step. *)
LEMMA SortInvCorrect == Spec => [](SortInv /\ UniformInv)
<1>1. SortInv /\ UniformInv /\ UNCHANGED vars => (SortInv /\ UniformInv)'
  BY DEF vars, SortInv, UniformInv, TypeOK
<1>2. SortInv /\ UniformInv /\ [Next]_vars => (SortInv /\ UniformInv)'
  BY <1>1, SwapStep, NextItemStep DEF Next
<1> QED
  BY <1>2, SortInvInit, PTL DEF Spec

-----------------------------------------------------------------------------
(* The items are a permutation of the listed pools throughout the sort. *)
THEOREM SortTypeCorrect == Spec => []TypeOK
<1>1. SortInv => TypeOK
  BY DEF SortInv
<1> QED
  BY <1>1, SortInvCorrect, PTL

LEMMA SortedWhenDone == SortInv => EndsSorted
<1> SUFFICES ASSUME SortInv, Done PROVE items \in SortedOrders(objs, Pools)
  BY DEF EndsSorted
<1>1. /\ i = Size + 1 /\ j = Size + 1 /\ Size \in Nat
      /\ items \in Bijection(1 .. Size, Pools)
  BY SizeFacts DEF SortInv, TypeOK, Done
<1>2. \A k \in 1 .. Size - 1 : ~ Before(objs, items[k + 1], items[k])
  BY <1>1 DEF SortInv
<1> QED
  BY <1>1, <1>2 DEF SortedOrders, Size

(* sortPoolsForSelection ends in a sorted order, whatever it compares. *)
THEOREM SortEndsSorted == Spec => []EndsSorted
BY SortedWhenDone, SortInvCorrect, PTL

(****************************************************************************)
(* The oldest of the pools S is the only one that a sorted order can begin  *)
(* with: at another place, the pool to the left of it would be out of order.*)
(****************************************************************************)
LEMMA OldestIsOnlyChoice ==
    ASSUME NEW o \in Listings, NEW S \in SUBSET Pools, NEW oldest, IsOldest(o, S, oldest)
    PROVE  FirstChoices(o, S) \subseteq {oldest}
<1> SUFFICES ASSUME NEW s \in SortedOrders(o, S)
             PROVE  s[1] = oldest
  BY DEF FirstChoices
<1> DEFINE n == Cardinality(S)
<1>1. n \in Nat
  BY SelectionAssumption, FS_Subset, FS_CardinalityType
<1>2. /\ s \in [1 .. n -> S]
      /\ \A k, l \in 1 .. n : s[k] = s[l] => k = l
      /\ \A p \in S : \E k \in 1 .. n : s[k] = p
      /\ \A k \in 1 .. n - 1 : ~ Before(o, s[k + 1], s[k])
  BY DEF SortedOrders, Bijection, Injection, Surjection, IsInjective
<1> HIDE DEF n
<1>3. PICK k \in 1 .. n : s[k] = oldest
  BY <1>2 DEF IsOldest
<1>4. CASE k = 1
  BY <1>3, <1>4
<1>5. CASE k # 1
  <2>1. k - 1 \in 1 .. n /\ k - 1 \in 1 .. n - 1 /\ (k - 1) + 1 = k
    BY <1>1, <1>5
  <2>2. s[k - 1] \in S \ {oldest}
    BY <2>1, <1>1, <1>2, <1>3
  <2>3. Before(o, oldest, s[k - 1])
    BY <2>2 DEF IsOldest
  <2>4. ~ Before(o, s[(k - 1) + 1], s[k - 1])
    BY <2>1, <1>2
  <2> QED
    BY <2>1, <2>3, <2>4, <1>3
<1> QED
  BY <1>4, <1>5

(****************************************************************************)
(* Where one rule decides, sortPoolsForSelection puts the oldest pool first *)
(* whatever the order of the informer's List.                               *)
(****************************************************************************)
THEOREM UniformSelection == Spec => []UniformSelectionIsOldest
<1>1. SortInv /\ UniformInv => UniformSelectionIsOldest
  <2> SUFFICES ASSUME SortInv, UniformInv, Done, Uniform(objs, Pools)
               PROVE  /\ FirstChoices(objs, Pools) = {items[1]}
                      /\ IsOldest(objs, Pools, items[1])
    BY DEF UniformSelectionIsOldest
  <2>1. /\ i = Size + 1 /\ j = Size + 1 /\ Size \in Nat /\ 1 \in 1 .. Size
        /\ items \in Bijection(1 .. Size, Pools) /\ objs \in Listings
    BY SizeFacts DEF SortInv, TypeOK, Done, Listings
  <2>2. /\ items \in [1 .. Size -> Pools]
        /\ \A p \in Pools : \E k \in 1 .. Size : items[k] = p
    BY <2>1, ItemFacts
  <2>3. ASSUME NEW p \in Pools \ {items[1]}
        PROVE  Before(objs, items[1], p)
    <3>1. PICK k \in 1 .. Size : items[k] = p
      BY <2>2
    <3>2. 1 < k /\ k <= i /\ k # j
      BY <3>1, <2>1
    <3> QED
      BY <3>1, <3>2, <2>1 DEF UniformInv
  <2>4. IsOldest(objs, Pools, items[1])
    BY <2>1, <2>2, <2>3 DEF IsOldest
  <2>5. items \in SortedOrders(objs, Pools)
    BY SortedWhenDone DEF EndsSorted
  <2>6. items[1] \in FirstChoices(objs, Pools)
    BY <2>1, <2>2, <2>5 DEF FirstChoices
  <2> QED
    BY <2>1, <2>4, <2>6, OldestIsOnlyChoice
<1> QED
  BY <1>1, SortInvCorrect, PTL
=============================================================================
