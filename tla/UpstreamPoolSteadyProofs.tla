----------------------- MODULE UpstreamPoolSteadyProofs -----------------------
(****************************************************************************)
(* What UpstreamPoolController promises at rest about the order of the      *)
(* pools, the gauge, the ConfigMap of a Ready pool, the key of a namespace  *)
(* without pools and the pool that a Superseded one names: for every set of *)
(* pools, any lag of the pool and profile caches and any faults.  The runs  *)
(* pool_recreate, pool_same_second, pool_stale_configmap and pool_shared    *)
(* show that none of this may be taken for granted; each theorem names, as  *)
(* its hypotheses, which of the situations of those runs it excludes.       *)
(*                                                                          *)
(* A name that is used once has one life, and the events of the pools reach *)
(* the cache in the order in which the pools were created.  So a pool that  *)
(* was the oldest of the cache stays it, until it goes.                     *)
(****************************************************************************)
EXTENDS UpstreamPoolWorkProofs, FiniteSetTheorems, WellFoundedInduction

(* No pool was created anew under the name of one before it. *)
Once == \A p \in Pools : lives[p] <= 1

(* The copies of pool p: stored, cached and on their way. *)
Copies(p) ==
    ({api[p], cache[p]}
     \cup { poolWatch[i].obj : i \in { j \in 1 .. Len(poolWatch) : poolWatch[j].pool = p } })
    \ {None}

(* All copies of a pool are of one life, which began in the past. *)
OneLife ==
    /\ 0 < now
    /\ \A p \in Pools : \A x, y \in Copies(p) :
          x.created = y.created /\ 0 < x.created /\ x.created <= now

(* Of a pool that was not created yet, the operator knows nothing. *)
UnbornUnknown ==
    \A p \in Pools :
        lives[p] = 0 =>
            /\ api[p] = None /\ cache[p] = None
            /\ ~ EventPending(p)
            /\ queue[p] = "none"
            /\ w.req # p

(* The event of a deletion is the last event of its pool. *)
DeletionIsLast ==
    \A i, j \in 1 .. Len(poolWatch) :
        i < j /\ poolWatch[i].pool = poolWatch[j].pool => poolWatch[i].obj # None

(* The event i is the first of a pool that is not in the cache. *)
Newcomer(i) ==
    /\ poolWatch[i].obj # None
    /\ cache[poolWatch[i].pool] = None
    /\ \A k \in 1 .. i - 1 : poolWatch[k].pool # poolWatch[i].pool

(* When a pool appears in the cache, none that is there is younger. *)
InOrder ==
    \A i \in 1 .. Len(poolWatch) :
        Newcomer(i) =>
            /\ \A p \in Pools :
                  cache[p] # None => cache[p].created <= poolWatch[i].obj.created
            /\ \A j \in 1 .. i - 1 :
                  poolWatch[j].obj # None => poolWatch[j].obj.created <= poolWatch[i].obj.created

(* A pool that left the cache, and is still to be handled, does not come back. *)
GoneStaysGone ==
    \A p \in Pools :
        cache[p] = None /\ (queue[p] # "none" \/ w.req = p) => ~ EventPending(p)

(* A pool whose deletion is being handled is not in the cache. *)
DeletedIsGone == w.pc # "idle" /\ w.del => cache[w.req] = None

(* The invariant of pools whose names are used once. *)
OnceInv ==
    /\ OneLife /\ UnbornUnknown /\ DeletionIsLast /\ InOrder
    /\ GoneStaysGone /\ DeletedIsGone

(* The pool at hand is in the namespace of the request, and cached or queued. *)
AtHand ==
    w.pc \in Holding =>
        /\ NamespaceOf[w.target] = NamespaceOf[w.req]
        /\ cache[w.target] # None \/ queue[w.target] # "none"

-----------------------------------------------------------------------------
(* The sort puts a pool first that is no younger than any other. *)
LEMMA FirstIsEldest ==
    ASSUME NEW objs, NEW S \in SUBSET Pools, \A p \in S : objs[p].created \in Nat \ {0},
           NEW p \in FirstChoices(objs, S), NEW q \in S
    PROVE  objs[p].created <= objs[q].created
<1>1. PICK s \in SortedOrders(objs, S) : s[1] = p
  BY DEF FirstChoices
<1>2. p \in S
  BY DEF FirstChoices
<1> DEFINE n == Cardinality(S)
<1>3. n \in Nat
  BY SelectionAssumption, FS_Subset, FS_CardinalityType
<1>4. /\ s \in [1 .. n -> S]
      /\ \A x \in S : \E k \in 1 .. n : s[k] = x
      /\ \A k \in 1 .. n - 1 : ~ Before(objs, s[k + 1], s[k])
  BY DEF SortedOrders, Bijection, Injection, Surjection, IsInjective
<1> HIDE DEF n
<1> SUFFICES ASSUME objs[q].created < objs[p].created PROVE FALSE
  BY <1>2
<1> DEFINE T == { k \in 1 .. n : objs[s[k]].created < objs[p].created }
           R == OpToRel(<, Nat)
<1>5. T # {} /\ T \subseteq Nat
  BY <1>3, <1>4
<1>6. IsWellFoundedOn(R, Nat)
  BY NatLessThanWellFounded
<1>7. \A x, y \in Nat : x < y => <<x, y>> \in R
  BY DEF OpToRel
<1> HIDE DEF T, R
<1>8. PICK k \in T : \A l \in T : ~ (<<l, k>> \in R)
  BY <1>5, <1>6, WFMin
<1>9. k \in 1 .. n /\ objs[s[k]].created < objs[p].created
  BY <1>8 DEF T
<1>10. k # 1
  BY <1>1, <1>2, <1>9
<1>11. /\ k - 1 \in 1 .. n /\ k - 1 \in 1 .. n - 1 /\ (k - 1) + 1 = k
       /\ k - 1 \in Nat /\ k \in Nat /\ k - 1 < k
  BY <1>3, <1>9, <1>10
<1>12. k - 1 \notin T
  BY <1>7, <1>8, <1>11
<1>13. ~ (objs[s[k - 1]].created < objs[p].created)
  BY <1>11, <1>12 DEF T
<1>14. ~ Before(objs, s[k], s[k - 1])
  BY <1>4, <1>11
<1>15. s[k] \in S /\ s[k - 1] \in S
  BY <1>4, <1>9, <1>11
<1>16. /\ objs[s[k]].created \in Nat \ {0} /\ objs[s[k - 1]].created \in Nat \ {0}
       /\ objs[p].created \in Nat
  BY <1>2, <1>15
<1> QED
  BY <1>9, <1>13, <1>14, <1>16 DEF Before

-----------------------------------------------------------------------------
(* The steps as far as the pools and their events are concerned. *)

(* Pool p becomes the object n, and an event says so. *)
Writes(p, n) ==
    /\ n # api[p]
    /\ api' = [api EXCEPT ![p] = n]
    /\ poolWatch' = Append(poolWatch, [pool |-> p, obj |-> n])
    /\ cache' = cache

(* Pool p is created. *)
Births(p, n) ==
    /\ Writes(p, n)
    /\ api[p] = None /\ n # None
    /\ \E gap \in Gaps : now' = now + gap
    /\ n.created = now'
    /\ lives' = [lives EXCEPT ![p] = @ + 1]
    /\ UNCHANGED <<queue, w>>

(* Pool p is patched, edited or deleted. *)
Changes(p, n) ==
    /\ Writes(p, n)
    /\ api[p] # None
    /\ n # None => n.created = api[p].created
    /\ UNCHANGED <<now, lives>>

Quiet == UNCHANGED <<api, poolWatch, cache, now, lives>>

(* A write of the API server changes a pool or nothing. *)
LEMMA WriteKinds ==
    ASSUME TypeInv, NEW p \in Pools, NEW o \in PoolObjects \cup {None}, ApiWrite(p, o),
           cache' = cache
    PROVE  \/ UNCHANGED <<api, poolWatch, cache>> /\ (api[p] = None <=> o = None)
           \/ \E n \in PoolObjects \cup {None} :
                Writes(p, n) /\ (n = None <=> o = None) /\ (n # None => n.created = o.created)
<1> DEFINE n == api'[p]
<1>1. api \in [Pools -> PoolObjects \cup {None}] /\ revision \in Nat
  BY DEF TypeInv, TypeOK
<1>2. n = o \/ (o # None /\ n = [o EXCEPT !.rv = revision + 1])
  BY <1>1 DEF ApiWrite
<1>3. n \in PoolObjects \cup {None} /\ (n = None <=> o = None) /\ (n # None => n.created = o.created)
  <2>1. CASE n = o
    BY <2>1
  <2>2. CASE o # None /\ n = [o EXCEPT !.rv = revision + 1]
    <3>1. o \in PoolObjects
      BY <2>2
    <3>2. [o EXCEPT !.rv = revision + 1] \in PoolObjects /\ [o EXCEPT !.rv = revision + 1].created = o.created
      BY <1>1, <3>1 DEF PoolObjects
    <3> QED
      BY <2>2, <3>2, NoneAssumption
  <2> QED
    BY <1>2, <2>1, <2>2
<1>4. /\ api' = [api EXCEPT ![p] = n]
      /\ poolWatch' = IF n = api[p] THEN poolWatch
                      ELSE Append(poolWatch, [pool |-> p, obj |-> n])
  BY <1>1 DEF ApiWrite
<1> HIDE DEF n
<1> QED
  BY <1>1, <1>3, <1>4 DEF Writes

(* Every step is one of these. *)
LEMMA StepKinds ==
    ASSUME TypeInv, TypeInv', [Next]_vars
    PROVE  \/ Quiet
           \/ DeliverPool
           \/ Restart
           \/ \E p \in Pools, n \in PoolObjects \cup {None} : Births(p, n) \/ Changes(p, n)
<1> DEFINE Goal == \/ Quiet
                   \/ DeliverPool
                   \/ Restart
                   \/ \E p \in Pools, n \in PoolObjects \cup {None} : Births(p, n) \/ Changes(p, n)
<1> USE DEF environmentVars, userVars, seenVars, apiVars
<1>1. ASSUME UNCHANGED vars PROVE Goal
  BY <1>1 DEF vars, Quiet
<1>2. ASSUME NEW p \in Pools, NEW o \in PoolObjects \cup {None}, ApiWrite(p, o), api[p] # None,
             o # None => o.created = api[p].created, UNCHANGED <<cache, now, lives>>
      PROVE  Goal
  <2>1. \/ UNCHANGED <<api, poolWatch, cache>>
        \/ \E n \in PoolObjects \cup {None} :
             Writes(p, n) /\ (n = None <=> o = None) /\ (n # None => n.created = o.created)
    BY <1>2, WriteKinds
  <2> QED
    BY <1>2, <2>1 DEF Quiet, Changes
<1>3. ASSUME NEW p \in Pools, NEW s \in Specs, NEW gap \in Gaps, CreatePool(p, s, gap)
      PROVE  Goal
  <2> DEFINE o == [created |-> now + gap, rv |-> 1, irv |-> 0, gen |-> 1, spec |-> s,
                   status |-> None]
  <2>1. now + gap \in Nat
    BY ControllerAssumption DEF TypeInv, TypeOK
  <2>2. o \in PoolObjects
    BY <2>1 DEF PoolObjects
  <2>3. /\ api[p] = None /\ ApiWrite(p, o) /\ o.created = now + gap
        /\ now' = now + gap /\ lives' = [lives EXCEPT ![p] = @ + 1]
        /\ UNCHANGED <<cache, queue, w>>
    BY <1>3 DEF CreatePool
  <2> HIDE DEF o
  <2>4. o # None
    BY <2>2, NoneAssumption
  <2>5. PICK n \in PoolObjects \cup {None} :
             Writes(p, n) /\ (n = None <=> o = None) /\ (n # None => n.created = o.created)
    BY <2>2, <2>3, <2>4, WriteKinds
  <2>6. Births(p, n)
    BY <2>3, <2>4, <2>5 DEF Births
  <2> QED
    BY <2>6
<1>4. ASSUME NEW p \in Pools, NEW s \in Specs, EditPool(p, s)
      PROVE  Goal
  <2> DEFINE o == [api[p] EXCEPT !.spec = s, !.gen = @ + 1]
  <2>1. api[p] \in PoolObjects /\ api[p] # None
    BY <1>4 DEF EditPool, TypeInv, TypeOK
  <2>2. o \in PoolObjects
    BY <2>1, EditedPool
  <2>3. o.created = api[p].created
    BY <2>1 DEF PoolObjects
  <2>4. ApiWrite(p, o) /\ UNCHANGED <<cache, now, lives>>
    BY <1>4 DEF EditPool
  <2> HIDE DEF o
  <2> QED
    BY <1>2, <2>1, <2>2, <2>3, <2>4
<1>5. ASSUME NEW p \in Pools, DeletePool(p)
      PROVE  Goal
  BY <1>2, <1>5 DEF DeletePool
<1>6. CASE Users
  <2>1. ASSUME NEW n \in Namespaces, NEW v \in Profiles \cup {None}, SetProfile(n, v)
        PROVE  Goal
    BY <2>1 DEF SetProfile, Quiet
  <2> QED
    BY <1>3, <1>4, <1>5, <1>6, <2>1 DEF Users
<1>7. CASE Deliver
  BY <1>7 DEF Deliver, DeliverProfile, DeliverConfigMap, Quiet
<1>8. CASE Timers \/ \E p \in Pools : Start(p) \/ GetFails(p)
  BY <1>8 DEF Timers, DelayOver, CircuitWindowPasses, Start, ReconcilePool, ReconcileDeletion,
              GetFails, Quiet
<1>9. CASE ensureInitialRVAnnotation \/ setReadyCondition \/ PatchFails
  <2>1. w.pc \in {"stamp", "status"} /\ UNCHANGED <<cache, now, lives>>
    BY <1>9 DEF ensureInitialRVAnnotation, setReadyCondition, PatchFails
  <2>2. PICK t \in Pools : t = w.target /\ w.obj \in PoolObjects
    BY <2>1 DEF TypeInv, Fits, Holding
  <2>3. CASE UNCHANGED apiVars
    BY <2>1, <2>3 DEF Quiet
  <2>4. ASSUME api[t] # None, ApiWrite(t, [api[t] EXCEPT !.irv = w.obj.rv])
        PROVE  Goal
    <3>1. api[t] \in PoolObjects
      BY <2>4 DEF TypeInv, TypeOK
    <3>2. /\ [api[t] EXCEPT !.irv = w.obj.rv] \in PoolObjects
          /\ [api[t] EXCEPT !.irv = w.obj.rv].created = api[t].created
      BY <2>2, <3>1 DEF PoolObjects
    <3> QED
      BY <1>2, <2>1, <2>4, <3>2
  <2>5. ASSUME api[t] # None, PatchStatus, w.pc = "status"
        PROVE  Goal
    <3>1. api[t] \in PoolObjects
      BY <2>5 DEF TypeInv, TypeOK
    <3>2. /\ [api[t] EXCEPT !.status = Desired] \in PoolObjects
          /\ [api[t] EXCEPT !.status = Desired].created = api[t].created
      BY <2>2, <2>5, <3>1, PatchedObjects DEF PoolObjects
    <3>3. ApiWrite(t, api[t]) \/ ApiWrite(t, [api[t] EXCEPT !.status = Desired])
      BY <2>2, <2>5 DEF PatchStatus
    <3> QED
      BY <1>2, <2>1, <2>5, <3>1, <3>2, <3>3
  <2> QED
    BY <1>9, <2>2, <2>3, <2>4, <2>5 DEF ensureInitialRVAnnotation, setReadyCondition, PatchFails
<1>10. CASE Worker /\ ~ (ensureInitialRVAnnotation \/ setReadyCondition \/ PatchFails)
  BY <1>10 DEF Worker, SelectActivePool, ListNone, ListRemaining, BuildConfig,
               UpsertConfigMap, ConfigMapWritten, ConfigMapNotWritten,
               RemoveConfigKey, ConfigKeyRemoved, ConfigKeyNotRemoved, ReadFails, Quiet
<1> QED
  BY <1>1, <1>6, <1>7, <1>8, <1>9, <1>10 DEF Next

-----------------------------------------------------------------------------
(* The events after a write. *)
LEMMA WrittenEvents ==
    ASSUME TypeInv, NEW p \in Pools, NEW n \in PoolObjects \cup {None}, Writes(p, n)
    PROVE  /\ Len(poolWatch) \in Nat
           /\ Len(poolWatch') = Len(poolWatch) + 1
           /\ \A i \in 1 .. Len(poolWatch) : poolWatch'[i] = poolWatch[i]
           /\ poolWatch'[Len(poolWatch) + 1] = [pool |-> p, obj |-> n]
           /\ \A q \in Pools : Copies(q)' \subseteq Copies(q) \cup (IF q = p THEN {n} ELSE {})
           /\ \A q \in Pools : q # p => (EventPending(q)' <=> EventPending(q)) /\ api'[q] = api[q]
           /\ api'[p] = n
<1>1. poolWatch \in Seq(PoolEvents) /\ api \in [Pools -> PoolObjects \cup {None}]
  BY DEF TypeInv, TypeOK
<1>2. [pool |-> p, obj |-> n] \in PoolEvents
  BY DEF PoolEvents
<1>3. /\ Len(poolWatch) \in Nat
      /\ Len(poolWatch') = Len(poolWatch) + 1
      /\ \A i \in 1 .. Len(poolWatch) : poolWatch'[i] = poolWatch[i]
      /\ poolWatch'[Len(poolWatch) + 1] = [pool |-> p, obj |-> n]
      /\ DOMAIN poolWatch = 1 .. Len(poolWatch)
      /\ DOMAIN poolWatch' = 1 .. Len(poolWatch')
  BY <1>1, <1>2 DEF Writes
<1>4. cache' = cache /\ api'[p] = n /\ \A q \in Pools : q # p => api'[q] = api[q]
  BY <1>1 DEF Writes
<1>5. ASSUME NEW q \in Pools, NEW i \in 1 .. Len(poolWatch'), poolWatch'[i].pool = q
      PROVE  \/ q = p /\ poolWatch'[i].obj = n
             \/ \E j \in 1 .. Len(poolWatch) : poolWatch[j].pool = q /\ poolWatch[j].obj = poolWatch'[i].obj
  BY <1>3, <1>5
<1>6. \A q \in Pools : Copies(q)' \subseteq Copies(q) \cup (IF q = p THEN {n} ELSE {})
  BY <1>4, <1>5 DEF Copies
<1>7. \A q \in Pools : q # p => (EventPending(q)' <=> EventPending(q))
  BY <1>3 DEF EventPending
<1> QED
  BY <1>3, <1>4, <1>6, <1>7

(* The cache, the events and the queue after a delivery. *)
LEMMA Delivered ==
    ASSUME TypeInv, DeliverPool
    PROVE  \E p \in Pools, n \in PoolObjects \cup {None} :
             /\ Len(poolWatch) \in Nat \ {0}
             /\ Len(poolWatch') = Len(poolWatch) - 1
             /\ \A i \in 1 .. Len(poolWatch') : i + 1 \in 1 .. Len(poolWatch) /\ poolWatch'[i] = poolWatch[i + 1]
             /\ poolWatch[1].pool = p /\ poolWatch[1].obj = n
             /\ cache'[p] = n /\ n \in Copies(p) \cup {None} /\ EventPending(p)
             /\ \A q \in Pools : q # p => cache'[q] = cache[q]
             /\ \A q \in Pools : Copies(q)' \subseteq Copies(q)
             /\ \A q \in Pools : EventPending(q)' => EventPending(q)
             /\ queue'[p] # "none"
             /\ \A q \in Pools : queue[q] # "none" => queue'[q] # "none"
             /\ \A q \in Pools : q # p => queue'[q] = queue[q]
             /\ UNCHANGED <<api, now, lives, w, profile, profWatch, metric, configMap>>
<1> DEFINE e == Head(poolWatch)
<1>1. /\ poolWatch \in Seq(PoolEvents) /\ poolWatch # <<>>
      /\ poolWatch' = Tail(poolWatch)
      /\ cache' = [cache EXCEPT ![e.pool] = e.obj]
      /\ queue' = Enqueue(queue, e.pool, "ready")
      /\ UNCHANGED <<api, now, lives, w, profile, profWatch, metric, configMap>>
  BY DEF DeliverPool, TypeInv, TypeOK, userVars, configMapVars
<1>2. /\ Len(poolWatch) \in Nat \ {0}
      /\ Len(poolWatch') = Len(poolWatch) - 1
      /\ \A i \in 1 .. Len(poolWatch') : i + 1 \in 1 .. Len(poolWatch) /\ poolWatch'[i] = poolWatch[i + 1]
      /\ e = poolWatch[1] /\ e \in PoolEvents
      /\ DOMAIN poolWatch = 1 .. Len(poolWatch)
      /\ DOMAIN poolWatch' = 1 .. Len(poolWatch')
  BY <1>1
<1> HIDE DEF e
<1>3. PICK p \in Pools, n \in PoolObjects \cup {None} : e.pool = p /\ e.obj = n
  BY <1>2 DEF PoolEvents
<1>4. cache'[p] = n /\ \A q \in Pools : q # p => cache'[q] = cache[q]
  BY <1>1, <1>3 DEF TypeInv, TypeOK
<1>5. 1 \in 1 .. Len(poolWatch)
  BY <1>2
<1>6. n \in Copies(p) \cup {None} /\ EventPending(p)
  BY <1>2, <1>3, <1>5 DEF Copies, EventPending
<1>7. ASSUME NEW q \in Pools
      PROVE  Copies(q)' \subseteq Copies(q) /\ (EventPending(q)' => EventPending(q))
  <2>1. ASSUME NEW i \in 1 .. Len(poolWatch'), poolWatch'[i].pool = q
        PROVE  \E j \in 1 .. Len(poolWatch) : poolWatch[j].pool = q /\ poolWatch[j].obj = poolWatch'[i].obj
    BY <1>2, <2>1
  <2>2. cache'[q] = cache[q] \/ (q = p /\ cache'[q] = n)
    BY <1>4
  <2> QED
    BY <1>1, <1>2, <1>6, <2>1, <2>2 DEF Copies, EventPending
<1>8. queue \in [Pools -> Results] /\ "ready" \in Results
  BY DEF TypeInv, TypeOK, Results
<1>9. /\ queue'[p] # "none"
      /\ \A q \in Pools : queue[q] # "none" => queue'[q] # "none"
      /\ \A q \in Pools : q # p => queue'[q] = queue[q]
  BY <1>1, <1>3, <1>8, EnqueueFacts DEF Enqueue
<1> QED
  BY <1>1, <1>2, <1>3, <1>4, <1>6, <1>7, <1>9

(* What is left of the events and the copies after a restart. *)
LEMMA Restarted ==
    ASSUME TypeInv, Restart
    PROVE  /\ UNCHANGED <<api, now, lives, profile, configMap>> /\ cache' = api /\ Len(poolWatch') = 0
           /\ w' = Idle
           /\ \A q \in Pools : Copies(q)' \subseteq Copies(q) /\ ~ EventPending(q)'
           /\ \A q \in Pools : queue'[q] # "none" <=> api[q] # None
<1>1. /\ UNCHANGED <<api, now, lives, profile, configMap>> /\ cache' = api /\ poolWatch' = <<>> /\ w' = Idle
      /\ queue' = [p \in Pools |-> IF api[p] # None THEN "ready" ELSE "none"]
  BY DEF Restart, userVars
<1>2. Len(poolWatch') = 0 /\ DOMAIN poolWatch' = {}
  BY <1>1
<1>3. \A q \in Pools : Copies(q)' \subseteq Copies(q) /\ ~ EventPending(q)'
  BY <1>1, <1>2 DEF Copies, EventPending
<1> QED
  BY <1>1, <1>2, <1>3

-----------------------------------------------------------------------------
(* The steps of the worker: it ends with an error, or without one, or goes on. *)

(* The handling of a deletion ends. *)
Finishes == w.pc \in {"remove", "removeWrite"} /\ Return("none")

(* The status is patched and the reconcile ends. *)
Reports ==
    /\ w.pc = "status" /\ api[w.target] # None
    /\ PatchStatus
    /\ Return(w.result)

(* The steps at which the worker is about to publish. *)
Publishing == {"build", "upsert", "write"}

(* The worker goes on with the same request, and but for a list with the same pool. *)
Proceeds ==
    /\ queue' = queue /\ w'.pc # "idle" /\ w'.req = w.req /\ w'.del = w.del
    /\ \/ /\ w.pc = "stamp" /\ w'.pc \in {"select", "status"} /\ w'.target = w.target
          /\ w'.pc = "status" => w'.verdict = NotReady("InvalidSpec", None) /\ w'.result = "none"
       \/ SelectActivePool
       \/ ListNone
       \/ ListRemaining
       \/ /\ w.pc \in Publishing /\ w'.pc \in {"upsert", "write", "status"}
          /\ w'.target = w.target
          /\ w'.pc = "status" => w'.verdict.reason \notin {"InvalidSpec", "Superseded"}
       \/ w.pc = "remove" /\ w'.pc = "removeWrite"

LEMMA WorkerMoves ==
    ASSUME TypeInv, Worker
    PROVE  /\ w.pc # "idle"
           /\ cache' = cache
           /\ ReturnError \/ Finishes \/ Reports \/ Proceeds
<1> USE DEF environmentVars, seenVars
<1>1. w.pc # "idle" /\ cache' = cache
  BY DEF Worker, ensureInitialRVAnnotation, SelectActivePool, ListNone, ListRemaining,
         BuildConfig, UpsertConfigMap, ConfigMapWritten, ConfigMapNotWritten,
         RemoveConfigKey, ConfigKeyRemoved, ConfigKeyNotRemoved, setReadyCondition,
         PatchFails, ReadFails
<1> SUFFICES ReturnError \/ Finishes \/ Reports \/ Proceeds
  BY <1>1
<1>2. w \in Workers /\ (w.pc \in Holding => w.obj \in PoolObjects)
  BY DEF TypeInv, Fits
<1>3. ASSUME NEW v, NEW r
      PROVE  LET x == SetStatus(w, v, r)
             IN  /\ x.pc = "status" /\ x.req = w.req /\ x.del = w.del /\ x.target = w.target
                 /\ x.verdict = v
  BY <1>2 DEF SetStatus, Workers
<1>4. ASSUME NEW v, NEW r, w.pc \in Publishing, w' = SetStatus(w, v, r), queue' = queue,
             v.reason \notin {"InvalidSpec", "Superseded"}
      PROVE  Proceeds
  BY <1>3, <1>4 DEF Proceeds
<1>5. ASSUME NEW s
      PROVE  LET x == [w EXCEPT !.pc = s]
             IN  x.pc = s /\ x.req = w.req /\ x.del = w.del /\ x.target = w.target
  BY <1>2 DEF Workers
<1>6. CASE ensureInitialRVAnnotation
  <2>1. ASSUME NEW o, w' = Validated([w EXCEPT !.obj = o]), queue' = queue, w.pc = "stamp"
        PROVE  Proceeds
    <3> DEFINE x == [w EXCEPT !.obj = o]
    <3>1. /\ x.req = w.req /\ x.del = w.del /\ x.target = w.target
          /\ DOMAIN x = DOMAIN w
      BY <1>2 DEF Workers
    <3>2. \/ w' = [x EXCEPT !.pc = "select"]
          \/ w' = SetStatus(x, NotReady("InvalidSpec", None), "none")
      BY <2>1 DEF Validated
    <3>3. [x EXCEPT !.pc = "select"].pc = "select" /\ [x EXCEPT !.pc = "select"].req = x.req
          /\ [x EXCEPT !.pc = "select"].del = x.del /\ [x EXCEPT !.pc = "select"].target = x.target
      BY <1>2 DEF Workers
    <3>4. LET y == SetStatus(x, NotReady("InvalidSpec", None), "none")
          IN  /\ y.pc = "status" /\ y.req = x.req /\ y.del = x.del /\ y.target = x.target
              /\ y.verdict = NotReady("InvalidSpec", None) /\ y.result = "none"
      BY <1>2 DEF Workers, SetStatus
    <3> HIDE DEF x
    <3> QED
      BY <2>1, <3>1, <3>2, <3>3, <3>4 DEF Proceeds
  <2> QED
    BY <1>6, <2>1 DEF ensureInitialRVAnnotation
<1>7. CASE SelectActivePool
  <2>1. queue' = queue
    BY <1>7 DEF SelectActivePool
  <2>2. w' = [w EXCEPT !.pc = "build"]
        \/ \E a : w' = SetStatus(w, NotReady("Superseded", a), "none")
    BY <1>7 DEF SelectActivePool
  <2>3. w'.pc # "idle" /\ w'.req = w.req /\ w'.del = w.del
    <3>1. CASE w' = [w EXCEPT !.pc = "build"]
      BY <1>5, <3>1
    <3>2. ASSUME NEW a, w' = SetStatus(w, NotReady("Superseded", a), "none")
          PROVE  w'.pc # "idle" /\ w'.req = w.req /\ w'.del = w.del
      BY <1>3, <3>2
    <3> QED
      BY <2>2, <3>1, <3>2
  <2> QED
    BY <1>7, <2>1, <2>3 DEF Proceeds
<1>8. CASE ListNone
  BY <1>5, <1>8 DEF ListNone, Proceeds
<1>9. CASE ListRemaining
  <2>1. PICK f : w' = [w EXCEPT !.pc = "build", !.target = f, !.obj = cache[f]]
    BY <1>9 DEF ListRemaining
  <2>2. w'.pc = "build" /\ w'.req = w.req /\ w'.del = w.del
    BY <1>2, <2>1 DEF Workers
  <2> QED
    BY <1>9, <2>2 DEF Proceeds, ListRemaining
<1>10. CASE BuildConfig
  <2>1. w.pc \in Publishing /\ w.obj.spec \in Specs
    BY <1>2, <1>10 DEF BuildConfig, Publishing, Holding, PoolObjects
  <2>2. CASE w' = [w EXCEPT !.pc = "upsert",
                            !.cfg = [spec |-> w.obj.spec,
                                     profile |-> getDefaultCacheProfile(NamespaceOf[w.req])]]
             /\ queue' = queue
    <3>1. w'.pc = "upsert" /\ w'.req = w.req /\ w'.del = w.del /\ w'.target = w.target
      BY <1>2, <2>2 DEF Workers
    <3> QED
      BY <2>1, <2>2, <3>1 DEF Proceeds
  <2>3. CASE BuildResult[w.obj.spec] # "ok" /\ queue' = queue
             /\ w' = SetStatus(w, NotReady(BuildResult[w.obj.spec], None), "none")
    <3>1. BuildResult[w.obj.spec] \in BuildFailures
      BY <2>1, <2>3, ControllerAssumption
    <3>2. NotReady(BuildResult[w.obj.spec], None).reason \notin {"InvalidSpec", "Superseded"}
      BY <3>1 DEF NotReady, BuildFailures
    <3> QED
      BY <1>4, <2>1, <2>3, <3>2
  <2> QED
    BY <1>10, <2>2, <2>3 DEF BuildConfig, Outcome
<1>11. CASE UpsertConfigMap \/ ConfigMapWritten \/ ConfigMapNotWritten \/ ReadFails
  <2>1. /\ NotReady("ConfigMapCircuitOpen", None).reason \notin {"InvalidSpec", "Superseded"}
        /\ Ready.reason \notin {"InvalidSpec", "Superseded"}
        /\ NotReady("ConfigMapUpdateFailed", None).reason \notin {"InvalidSpec", "Superseded"}
        /\ NotReady("ProfileLookupFailed", None).reason \notin {"InvalidSpec", "Superseded"}
    BY DEF NotReady, Ready
  <2>2. CASE UpsertConfigMap
    <3>1. ASSUME NEW b, w' = [w EXCEPT !.pc = "write", !.stale = b]
          PROVE  w'.pc = "write" /\ w'.req = w.req /\ w'.del = w.del /\ w'.target = w.target
      BY <1>2, <3>1 DEF Workers
    <3>2. w.pc \in Publishing /\ queue' = queue
      BY <2>2 DEF UpsertConfigMap, Publishing
    <3>3. \/ w' = SetStatus(w, NotReady("ConfigMapCircuitOpen", None), CircuitOpenResult)
          \/ w' = SetStatus(w, Ready, "none")
          \/ \E b : w' = [w EXCEPT !.pc = "write", !.stale = b]
      BY <2>2 DEF UpsertConfigMap
    <3>4. CASE \E b : w' = [w EXCEPT !.pc = "write", !.stale = b]
      BY <3>1, <3>2, <3>4 DEF Proceeds
    <3> QED
      BY <1>4, <2>1, <3>2, <3>3, <3>4
  <2>3. CASE ConfigMapWritten
    BY <1>4, <2>1, <2>3 DEF ConfigMapWritten, Publishing
  <2>4. CASE ConfigMapNotWritten \/ ReadFails
    BY <1>4, <2>1, <2>4 DEF ConfigMapNotWritten, ReadFails, Publishing
  <2> QED
    BY <1>11, <2>2, <2>3, <2>4
<1>12. CASE RemoveConfigKey
  <2>1. ASSUME NEW b, w' = [w EXCEPT !.pc = "removeWrite", !.stale = b]
        PROVE  w'.pc = "removeWrite" /\ w'.req = w.req /\ w'.del = w.del
    BY <1>2, <2>1 DEF Workers
  <2>2. w.pc = "remove" /\ (Return("none") \/ (queue' = queue
                             /\ \E b : w' = [w EXCEPT !.pc = "removeWrite", !.stale = b]))
    BY <1>12 DEF RemoveConfigKey
  <2> QED
    BY <2>1, <2>2 DEF Proceeds, Finishes
<1>13. CASE ConfigKeyRemoved \/ ConfigKeyNotRemoved
  BY <1>13 DEF ConfigKeyRemoved, ConfigKeyNotRemoved, Finishes
<1>14. CASE setReadyCondition \/ PatchFails
  BY <1>14 DEF setReadyCondition, PatchFails, Reports
<1> QED
  BY <1>1, <1>6, <1>7, <1>8, <1>9, <1>10, <1>11, <1>12, <1>13, <1>14 DEF Worker

(* What the queue and the worker are when Reconcile returns. *)
LEMMA Returned ==
    ASSUME TypeInv, w.pc # "idle", NEW how \in Results, Return(how)
    PROVE  /\ w' = Idle /\ Idle.pc = "idle" /\ Idle.req = None
           /\ \A q \in Pools : queue[q] # "none" => queue'[q] # "none"
           /\ \A q \in Pools : queue'[q] # "none" => queue[q] # "none" \/ q = w.req
           /\ how # "none" => queue'[w.req] # "none"
<1>1. queue \in [Pools -> Results] /\ w.req \in Pools
  BY DEF TypeInv, TypeOK, Fits
<1>2. w' = Idle /\ queue' = Enqueue(queue, w.req, how) /\ Idle.pc = "idle" /\ Idle.req = None
  BY DEF Return, Idle
<1>3. \A q \in Pools : queue'[q] # "none" => queue[q] # "none" \/ q = w.req
  BY <1>1, <1>2 DEF Enqueue
<1> QED
  BY <1>1, <1>2, <1>3, EnqueueFacts

(* What the worker is when it has taken a key. *)
LEMMA Started ==
    ASSUME TypeInv, NEW p \in Pools, Start(p)
    PROVE  /\ w.pc = "idle" /\ queue[p] = "ready" /\ queue' = [queue EXCEPT ![p] = "none"]
           /\ w'.req = p
           /\ UNCHANGED <<api, poolWatch, cache, now, lives, profile, profWatch, profCache,
                          metric, configMap>>
           /\ \/ /\ cache[p] # None /\ ~ w'.del /\ w'.target = p
                 /\ w'.pc \in {"stamp", "select", "status"}
                 /\ w'.pc = "status" => /\ w'.verdict = NotReady("InvalidSpec", None)
                                        /\ ~ validateDNSUpstreamPool(cache[p].spec)
              \/ cache[p] = None /\ w'.del /\ w'.pc = "list"
<1> USE DEF environmentVars, userVars, seenVars, apiVars, configMapVars
<1>1. CASE ReconcilePool(p)
  <2> DEFINE x == [Idle EXCEPT !.req = p, !.target = p, !.obj = cache[p]]
  <2>1. cache[p] \in PoolObjects /\ cache[p] # None /\ Idle \in Workers
    BY <1>1, IdleFits DEF ReconcilePool, TypeInv, TypeOK, Fits
  <2>2. x \in Workers /\ x.req = p /\ x.target = p /\ x.obj = cache[p] /\ ~ x.del
    BY <2>1 DEF Idle, Workers
  <2>3. w' = IF cache[p].irv # 0 THEN Validated(x) ELSE [x EXCEPT !.pc = "stamp"]
    BY <1>1 DEF ReconcilePool
  <2> HIDE DEF x
  <2>4. /\ w'.pc \in {"stamp", "select", "status"} /\ w'.req = p /\ ~ w'.del /\ w'.target = p
        /\ w'.pc = "status" => w' = Validated(x)
    <3>1. CASE cache[p].irv # 0
      BY <2>1, <2>2, <2>3, <3>1, ValidatedFits
    <3>2. CASE cache[p].irv = 0
      BY <2>2, <2>3, <3>2 DEF Workers, Steps
    <3> QED
      BY <3>1, <3>2
  <2>5. w'.pc = "status" => w'.verdict = NotReady("InvalidSpec", None)
                            /\ ~ validateDNSUpstreamPool(cache[p].spec)
    BY <2>2, <2>4, ValidatedSays
  <2> QED
    BY <1>1, <2>1, <2>4, <2>5 DEF ReconcilePool, TakeKey
<1>2. CASE ReconcileDeletion(p)
  BY <1>2 DEF ReconcileDeletion, TakeKey, Idle
<1> QED
  BY <1>1, <1>2 DEF Start

-----------------------------------------------------------------------------
(* Where a key is queued or at hand, it was before, or its pool is in the cache. *)
LEMMA KeysKnown ==
    ASSUME TypeInv, [Next]_vars, ~ DeliverPool, NEW q \in Pools, queue'[q] # "none" \/ w'.req = q
    PROVE  queue[q] # "none" \/ w.req = q \/ cache'[q] # None
<1> USE DEF environmentVars, userVars, seenVars, apiVars
<1>1. queue \in [Pools -> Results] /\ None \notin Pools /\ Idle.req = None
  BY ControllerAssumption DEF TypeInv, TypeOK, Idle
<1>2. CASE UNCHANGED <<queue, w>>
  BY <1>2
<1>3. CASE Worker
  <2>1. w.pc # "idle" /\ "none" \in Results /\ "backoff" \in Results /\ w.result \in Results
    BY <1>3, WorkerMoves DEF TypeInv, Fits, Workers, Results
  <2>2. ASSUME NEW how \in Results, Return(how)
        PROVE  queue[q] # "none" \/ w.req = q
    BY <1>1, <2>1, <2>2, Returned
  <2>3. CASE Proceeds
    BY <2>3 DEF Proceeds
  <2>4. CASE Reports
    <3>1. PICK how \in Results : how = w.result
      BY <2>1
    <3> QED
      BY <2>2, <2>4, <3>1 DEF Reports
  <2> QED
    BY <1>3, <2>1, <2>2, <2>3, <2>4, WorkerMoves DEF Finishes, ReturnError
<1>4. CASE Users
  BY <1>2, <1>4 DEF Users, CreatePool, EditPool, DeletePool, SetProfile
<1>5. CASE Deliver
  BY <1>2, <1>5 DEF Deliver, DeliverProfile, DeliverConfigMap, mapCacheProfileToPools, Listed, PoolsIn
<1>6. CASE Timers
  BY <1>1, <1>6 DEF Timers, DelayOver, CircuitWindowPasses
<1>7. ASSUME NEW p \in Pools, GetFails(p) PROVE queue[q] # "none" \/ w.req = q
  BY <1>1, <1>7 DEF GetFails
<1>8. ASSUME NEW p \in Pools, Start(p) PROVE queue[q] # "none" \/ w.req = q
  <2>1. queue[p] = "ready" /\ queue' = [queue EXCEPT ![p] = "none"] /\ w'.req = p
    BY <1>8, Started
  <2> QED
    BY <1>1, <2>1
<1>9. CASE Restart
  BY <1>1, <1>9 DEF Restart
<1>10. CASE UNCHANGED vars
  BY <1>2, <1>10 DEF vars
<1> QED
  BY <1>3, <1>4, <1>5, <1>6, <1>7, <1>8, <1>9, <1>10 DEF Next

-----------------------------------------------------------------------------
(* The copies of a pool are pool objects. *)
LEMMA CopiesType ==
    ASSUME TypeInv, TypeInv'
    PROVE  \A p \in Pools : Copies(p) \subseteq PoolObjects /\ Copies(p)' \subseteq PoolObjects
<1>1. /\ \A i \in 1 .. Len(poolWatch) : poolWatch[i] \in PoolEvents
      /\ \A i \in 1 .. Len(poolWatch') : poolWatch'[i] \in PoolEvents
  BY DEF TypeInv, TypeOK
<1>2. /\ \A i \in 1 .. Len(poolWatch) : poolWatch[i].obj \in PoolObjects \cup {None}
      /\ \A i \in 1 .. Len(poolWatch') : poolWatch'[i].obj \in PoolObjects \cup {None}
  BY <1>1 DEF PoolEvents
<1>3. /\ \A p \in Pools : {api[p], cache[p]} \subseteq PoolObjects \cup {None}
      /\ \A p \in Pools : {api'[p], cache'[p]} \subseteq PoolObjects \cup {None}
  BY DEF TypeInv, TypeOK
<1>4. ASSUME NEW p \in Pools PROVE Copies(p) \subseteq PoolObjects
  BY <1>2, <1>3 DEF Copies
<1>5. ASSUME NEW p \in Pools PROVE Copies(p)' \subseteq PoolObjects
  BY <1>2, <1>3 DEF Copies
<1> QED
  BY <1>4, <1>5

(* A pool that is created was not before. *)
LEMMA BornOnce ==
    ASSUME TypeInv, TypeInv', Once', UnbornUnknown, NEW p \in Pools, NEW n, Births(p, n)
    PROVE  /\ lives[p] = 0 /\ Copies(p) = {} /\ ~ EventPending(p)
           /\ cache[p] = None /\ queue[p] = "none" /\ w.req # p
           /\ now' \in Nat /\ now \in Nat /\ now <= now'
<1>1. lives \in [Pools -> 0 .. MaxLives] /\ MaxLives \in Nat
  BY ControllerAssumption DEF TypeInv, TypeOK
<1>2. lives'[p] = lives[p] + 1 /\ lives'[p] <= 1 /\ lives[p] \in Nat
  BY <1>1 DEF Births, Once
<1>3. lives[p] = 0
  BY <1>2
<1>4. /\ ~ EventPending(p) /\ cache[p] = None /\ api[p] = None
      /\ queue[p] = "none" /\ w.req # p
  BY <1>3 DEF UnbornUnknown
<1>5. DOMAIN poolWatch = 1 .. Len(poolWatch)
  BY DEF TypeInv, TypeOK
<1>6. Copies(p) = {}
  BY <1>4, <1>5 DEF Copies, EventPending
<1>7. now' \in Nat /\ now \in Nat /\ now <= now'
  BY ControllerAssumption DEF TypeInv, TypeOK, Births
<1> QED
  BY <1>3, <1>4, <1>6, <1>7

(* A pool's copies stay of one life. *)
LEMMA OneLifeStep ==
    ASSUME TypeInv, TypeInv', Once', UnbornUnknown, OneLife, [Next]_vars
    PROVE  OneLife'
<1>1. \A q \in Pools : Copies(q) \subseteq PoolObjects
  BY CopiesType
<1>2. \A x \in PoolObjects : x.created \in Nat
  BY DEF PoolObjects
<1>3. ASSUME \A q \in Pools : Copies(q)' \subseteq Copies(q), now' = now
      PROVE  OneLife'
  BY <1>3 DEF OneLife
<1>4. CASE Quiet
  <2>1. \A q \in Pools : Copies(q)' = Copies(q)
    BY <1>4 DEF Quiet, Copies
  <2> QED
    BY <1>3, <1>4, <2>1 DEF Quiet
<1>5. CASE DeliverPool
  BY <1>3, <1>5, Delivered
<1>6. CASE Restart
  BY <1>3, <1>6, Restarted
<1>7. ASSUME NEW p \in Pools, NEW n \in PoolObjects \cup {None}, Births(p, n)
      PROVE  OneLife'
  <2>1. /\ Copies(p) = {} /\ now' \in Nat /\ now \in Nat /\ now <= now'
    BY <1>7, BornOnce
  <2>2. /\ \A q \in Pools : Copies(q)' \subseteq Copies(q) \cup (IF q = p THEN {n} ELSE {})
        /\ n.created = now'
    BY <1>7, WrittenEvents DEF Births
  <2>3. Copies(p)' \subseteq {n} /\ \A q \in Pools : q # p => Copies(q)' \subseteq Copies(q)
    BY <2>1, <2>2
  <2>4. 0 < now
    BY DEF OneLife
  <2>5. ASSUME NEW q \in Pools, NEW x \in Copies(q)', NEW y \in Copies(q)'
        PROVE  x.created = y.created /\ 0 < x.created /\ x.created <= now'
    <3>1. CASE q = p
      BY <2>1, <2>2, <2>3, <2>4, <2>5, <3>1
    <3>2. CASE q # p
      <4>1. x \in Copies(q) /\ y \in Copies(q) /\ x.created \in Nat
        BY <1>1, <1>2, <2>3, <2>5, <3>2
      <4>2. x.created = y.created /\ 0 < x.created /\ x.created <= now
        BY <4>1 DEF OneLife
      <4> QED
        BY <2>1, <4>1, <4>2
    <3> QED
      BY <3>1, <3>2
  <2>6. 0 < now'
    BY <2>1, <2>4
  <2> QED
    BY <2>5, <2>6 DEF OneLife
<1>8. ASSUME NEW p \in Pools, NEW n \in PoolObjects \cup {None}, Changes(p, n)
      PROVE  OneLife'
  <2>1. /\ \A q \in Pools : Copies(q)' \subseteq Copies(q) \cup (IF q = p THEN {n} ELSE {})
        /\ n # None => n.created = api[p].created
        /\ api[p] \in Copies(p) /\ now' = now
    BY <1>8, WrittenEvents DEF Changes, Copies
  <2>2. None \notin Copies(p)'
    BY DEF Copies
  <2>3. ASSUME NEW q \in Pools, NEW x \in Copies(q)'
        PROVE  \E z \in Copies(q) : x.created = z.created
    BY <2>1, <2>2, <2>3
  <2> QED
    BY <2>1, <2>3 DEF OneLife
<1> QED
  BY <1>4, <1>5, <1>6, <1>7, <1>8, StepKinds

(* The unborn stay unknown. *)
LEMMA UnbornStep ==
    ASSUME TypeInv, TypeInv', UnbornUnknown, [Next]_vars
    PROVE  UnbornUnknown'
<1> SUFFICES ASSUME NEW p \in Pools, lives'[p] = 0
             PROVE  /\ api'[p] = None /\ cache'[p] = None
                    /\ ~ EventPending(p)'
                    /\ queue'[p] = "none"
                    /\ w'.req # p
  BY DEF UnbornUnknown
<1>1. \A q \in Pools : lives[q] \in Nat
  BY ControllerAssumption DEF TypeInv, TypeOK
<1>2. ASSUME lives[p] = 0, ~ DeliverPool, cache'[p] = None
      PROVE  queue'[p] = "none" /\ w'.req # p
  BY <1>2, KeysKnown DEF UnbornUnknown
<1>3. CASE Quiet
  BY <1>2, <1>3, Delivered DEF Quiet, UnbornUnknown, EventPending, DeliverPool
<1>4. CASE DeliverPool
  BY <1>4, Delivered DEF UnbornUnknown
<1>5. CASE Restart
  <2>1. Idle.req = None /\ None \notin Pools
    BY ControllerAssumption DEF Idle
  <2> QED
    BY <1>5, <2>1, Restarted DEF UnbornUnknown
<1>6. ASSUME NEW q \in Pools, NEW n \in PoolObjects \cup {None}, Births(q, n) \/ Changes(q, n)
      PROVE  /\ api'[p] = None /\ cache'[p] = None
             /\ ~ EventPending(p)'
             /\ queue'[p] = "none"
             /\ w'.req # p
  <2>1. Writes(q, n)
    BY <1>6 DEF Births, Changes
  <2>2. p # q /\ lives[p] = 0
    <3>1. CASE Births(q, n)
      <4>1. lives' = [lives EXCEPT ![q] = lives[q] + 1] /\ lives \in [Pools -> 0 .. MaxLives]
        BY <3>1 DEF Births, TypeInv, TypeOK
      <4>2. lives[q] \in Nat /\ lives[q] + 1 # 0
        BY <1>1
      <4> QED
        BY <4>1, <4>2
    <3>2. CASE Changes(q, n)
      BY <3>2 DEF Changes, UnbornUnknown
    <3> QED
      BY <1>6, <3>1, <3>2
  <2>3. api'[p] = None /\ cache'[p] = None /\ ~ EventPending(p)'
    BY <2>1, <2>2, WrittenEvents DEF Writes, UnbornUnknown
  <2>4. ~ DeliverPool
    <3>1. Len(poolWatch') = Len(poolWatch) + 1 /\ Len(poolWatch) \in Nat
      BY <2>1, WrittenEvents
    <3>2. CASE DeliverPool
      <4>1. Len(poolWatch') = Len(poolWatch) - 1
        BY <3>2, Delivered
      <4> QED
        BY <3>1, <4>1
    <3> QED
      BY <3>2
  <2> QED
    BY <1>2, <2>2, <2>3, <2>4
<1> QED
  BY <1>3, <1>4, <1>5, <1>6, StepKinds

(* The event of a deletion stays the last of its pool. *)
LEMMA DeletionStep ==
    ASSUME TypeInv, TypeInv', Synced, Once', UnbornUnknown, DeletionIsLast, [Next]_vars
    PROVE  DeletionIsLast'
<1>1. CASE Quiet
  BY <1>1 DEF Quiet, DeletionIsLast
<1>2. CASE DeliverPool
  <2>1. /\ Len(poolWatch') \in Int
        /\ \A i \in 1 .. Len(poolWatch') : i + 1 \in 1 .. Len(poolWatch) /\ poolWatch'[i] = poolWatch[i + 1]
    BY <1>2, Delivered
  <2>2. ASSUME NEW i \in 1 .. Len(poolWatch'), NEW j \in 1 .. Len(poolWatch'), i < j
        PROVE  i + 1 < j + 1
    BY <2>1, <2>2
  <2> QED
    BY <2>1, <2>2 DEF DeletionIsLast
<1>3. CASE Restart
  BY <1>3, Restarted DEF DeletionIsLast
<1>4. ASSUME NEW p \in Pools, NEW n \in PoolObjects \cup {None}, Births(p, n) \/ Changes(p, n)
      PROVE  DeletionIsLast'
  <2>1. /\ Len(poolWatch) \in Nat
        /\ Len(poolWatch') = Len(poolWatch) + 1
        /\ \A i \in 1 .. Len(poolWatch) : poolWatch'[i] = poolWatch[i]
        /\ poolWatch'[Len(poolWatch) + 1].pool = p
    <3>1. Writes(p, n)
      BY <1>4 DEF Births, Changes
    <3>2. poolWatch'[Len(poolWatch) + 1] = [pool |-> p, obj |-> n]
      BY <3>1, WrittenEvents
    <3> QED
      BY <3>1, <3>2, WrittenEvents
  <2> SUFFICES ASSUME NEW i \in 1 .. Len(poolWatch'), NEW j \in 1 .. Len(poolWatch'), i < j,
                      poolWatch'[i].pool = poolWatch'[j].pool, poolWatch'[i].obj = None
               PROVE  FALSE
    BY DEF DeletionIsLast
  <2>2. i \in 1 .. Len(poolWatch) /\ poolWatch'[i] = poolWatch[i]
    BY <2>1
  <2>3. j = Len(poolWatch) + 1
    <3>1. CASE j \in 1 .. Len(poolWatch)
      BY <2>1, <2>2, <3>1 DEF DeletionIsLast
    <3> QED
      BY <2>1, <3>1
  <2>4. poolWatch[i].pool = p /\ poolWatch[i].obj = None
    BY <2>1, <2>2, <2>3
  <2>5. EventPending(p)
    <3>1. DOMAIN poolWatch = 1 .. Len(poolWatch)
      BY DEF TypeInv, TypeOK
    <3> QED
      BY <2>2, <2>4, <3>1 DEF EventPending
  <2>6. api[p] # None
    BY <1>4, <2>5, BornOnce DEF Changes
  <2>7. IsLastEvent(p, i)
    BY <2>2, <2>4 DEF IsLastEvent, DeletionIsLast
  <2> QED
    BY <2>2, <2>4, <2>6, <2>7 DEF Synced
<1> QED
  BY <1>1, <1>2, <1>3, <1>4, StepKinds

(* The pools keep appearing in the cache in the order in which they were created. *)
LEMMA InOrderStep ==
    ASSUME TypeInv, TypeInv', Synced, Once', UnbornUnknown, OneLife, DeletionIsLast, InOrder,
           [Next]_vars
    PROVE  InOrder'
<1>0. \A q \in Pools : Copies(q) \subseteq PoolObjects
  BY CopiesType
<1>1. CASE Quiet
  BY <1>1 DEF Quiet, InOrder, Newcomer
<1>2. CASE DeliverPool
  <2>1. PICK p \in Pools, n \in PoolObjects \cup {None} :
             /\ Len(poolWatch) \in Nat \ {0}
             /\ Len(poolWatch') = Len(poolWatch) - 1
             /\ \A i \in 1 .. Len(poolWatch') : i + 1 \in 1 .. Len(poolWatch) /\ poolWatch'[i] = poolWatch[i + 1]
             /\ poolWatch[1].pool = p /\ poolWatch[1].obj = n
             /\ cache'[p] = n
             /\ \A q \in Pools : q # p => cache'[q] = cache[q]
    BY <1>2, Delivered
  <2> SUFFICES ASSUME NEW i \in 1 .. Len(poolWatch'), Newcomer(i)'
               PROVE  /\ \A q \in Pools :
                            cache'[q] # None => cache'[q].created <= poolWatch'[i].obj.created
                      /\ \A j \in 1 .. i - 1 :
                            poolWatch'[j].obj # None => poolWatch'[j].obj.created <= poolWatch'[i].obj.created
    BY DEF InOrder
  <2>2. PICK k \in 1 .. Len(poolWatch) : k = i + 1 /\ poolWatch'[i] = poolWatch[k]
    BY <2>1
  <2>3. /\ poolWatch[k].obj # None /\ cache'[poolWatch[k].pool] = None
        /\ poolWatch[k].pool \in Pools
    <3>1. poolWatch[k] \in PoolEvents
      BY DEF TypeInv, TypeOK
    <3> QED
      BY <2>2, <3>1 DEF Newcomer, PoolEvents
  <2>4. poolWatch[k].pool # p
    <3>1. CASE poolWatch[k].pool = p
      <4>1. n = None
        BY <2>1, <2>3, <3>1
      <4>2. 1 \in 1 .. Len(poolWatch) /\ 1 < k
        BY <2>1, <2>2
      <4> QED
        BY <2>1, <3>1, <4>1, <4>2 DEF DeletionIsLast
    <3> QED
      BY <3>1
  <2>5. ASSUME NEW l \in 1 .. k - 1
        PROVE  poolWatch[l].pool # poolWatch[k].pool
    <3>1. CASE l = 1
      BY <2>1, <2>4, <3>1
    <3>2. CASE l # 1
      <4>1. l - 1 \in 1 .. i - 1 /\ l - 1 \in 1 .. Len(poolWatch') /\ (l - 1) + 1 = l
        BY <2>1, <2>2, <3>2
      <4>2. poolWatch'[l - 1] = poolWatch[l]
        BY <2>1, <4>1
      <4>3. poolWatch'[l - 1].pool # poolWatch'[i].pool
        BY <4>1 DEF Newcomer
      <4> QED
        BY <2>2, <4>2, <4>3
    <3> QED
      BY <3>1, <3>2
  <2>6. Newcomer(k)
    BY <2>1, <2>3, <2>4, <2>5 DEF Newcomer
  <2>7. /\ \A q \in Pools : cache[q] # None => cache[q].created <= poolWatch[k].obj.created
        /\ \A j \in 1 .. k - 1 :
              poolWatch[j].obj # None => poolWatch[j].obj.created <= poolWatch[k].obj.created
    BY <2>6 DEF InOrder
  <2>8. 1 \in 1 .. k - 1
    BY <2>2
  <2>9. \A q \in Pools : cache'[q] # None => cache'[q].created <= poolWatch[k].obj.created
    BY <2>1, <2>7, <2>8
  <2>10. ASSUME NEW j \in 1 .. i - 1, poolWatch'[j].obj # None
         PROVE  poolWatch'[j].obj.created <= poolWatch[k].obj.created
    <3>1. j + 1 \in 1 .. k - 1 /\ j \in 1 .. Len(poolWatch')
      BY <2>1, <2>2
    <3>2. poolWatch'[j] = poolWatch[j + 1]
      BY <2>1, <3>1
    <3> QED
      BY <2>7, <2>10, <3>1, <3>2
  <2> QED
    BY <2>2, <2>9, <2>10
<1>3. CASE Restart
  BY <1>3, Restarted DEF InOrder
<1>4. ASSUME NEW p \in Pools, NEW n \in PoolObjects \cup {None}, Births(p, n) \/ Changes(p, n)
      PROVE  InOrder'
  <2>1. /\ Len(poolWatch) \in Nat
        /\ Len(poolWatch') = Len(poolWatch) + 1
        /\ \A i \in 1 .. Len(poolWatch) : poolWatch'[i] = poolWatch[i]
        /\ poolWatch'[Len(poolWatch) + 1].pool = p
        /\ poolWatch'[Len(poolWatch) + 1].obj = n
        /\ cache' = cache
    BY <1>4, WrittenEvents DEF Births, Changes, Writes
  <2>2. ASSUME NEW i \in 1 .. Len(poolWatch), Newcomer(i)'
        PROVE  /\ \A q \in Pools :
                     cache'[q] # None => cache'[q].created <= poolWatch'[i].obj.created
               /\ \A j \in 1 .. i - 1 :
                     poolWatch'[j].obj # None => poolWatch'[j].obj.created <= poolWatch'[i].obj.created
    <3>1. \A j \in 1 .. i - 1 : j \in 1 .. Len(poolWatch)
      BY <2>1
    <3>2. Newcomer(i)
      BY <2>1, <2>2, <3>1 DEF Newcomer
    <3> QED
      BY <2>1, <3>1, <3>2 DEF InOrder
  <2>3. ASSUME NEW i, i = Len(poolWatch) + 1, Newcomer(i)'
        PROVE  /\ \A q \in Pools :
                     cache'[q] # None => cache'[q].created <= poolWatch'[i].obj.created
               /\ \A j \in 1 .. i - 1 :
                     poolWatch'[j].obj # None => poolWatch'[j].obj.created <= poolWatch'[i].obj.created
    <3>1. cache[p] = None /\ \A k \in 1 .. Len(poolWatch) : poolWatch[k].pool # p
      BY <2>1, <2>3 DEF Newcomer
    <3>2. ~ EventPending(p)
      BY <3>1 DEF EventPending, TypeInv, TypeOK
    <3>3. api[p] = None
      BY <3>1, <3>2 DEF Synced
    <3>4. Births(p, n) /\ n.created = now'
      BY <1>4, <3>3 DEF Changes, Births
    <3>5. now' \in Nat /\ now \in Nat /\ now <= now'
      BY <3>4, BornOnce
    <3>6. ASSUME NEW q \in Pools, NEW x \in Copies(q)
          PROVE  x.created <= now'
      <4>1. x.created <= now /\ x.created \in Nat
        BY <1>0 DEF OneLife, PoolObjects
      <4> QED
        BY <3>5, <4>1
    <3>7. \A q \in Pools : cache[q] # None => cache[q] \in Copies(q)
      BY DEF Copies
    <3>8. ASSUME NEW j \in 1 .. Len(poolWatch), poolWatch[j].obj # None
          PROVE  poolWatch[j].obj.created <= now'
      <4>1. poolWatch[j] \in PoolEvents
        BY DEF TypeInv, TypeOK
      <4>2. poolWatch[j].pool \in Pools /\ poolWatch[j].obj \in Copies(poolWatch[j].pool)
        BY <3>8, <4>1 DEF Copies, PoolEvents
      <4> QED
        BY <3>6, <4>2
    <3> QED
      BY <2>1, <2>3, <3>4, <3>6, <3>7, <3>8
  <2>4. \A i \in 1 .. Len(poolWatch') : i \in 1 .. Len(poolWatch) \/ i = Len(poolWatch) + 1
    BY <2>1
  <2> QED
    BY <2>2, <2>3, <2>4 DEF InOrder
<1> QED
  BY <1>1, <1>2, <1>3, <1>4, StepKinds

(* The gone stay gone. *)
LEMMA GoneStep ==
    ASSUME TypeInv, TypeInv', Synced, Once', UnbornUnknown, DeletionIsLast, GoneStaysGone,
           [Next]_vars
    PROVE  GoneStaysGone'
<1> SUFFICES ASSUME NEW q \in Pools, cache'[q] = None, queue'[q] # "none" \/ w'.req = q
             PROVE  ~ EventPending(q)'
  BY DEF GoneStaysGone
<1>1. ~ DeliverPool => queue[q] # "none" \/ w.req = q
  BY KeysKnown
<1>2. CASE Quiet /\ ~ DeliverPool
  BY <1>1, <1>2 DEF Quiet, GoneStaysGone, EventPending
<1>3. CASE DeliverPool
  <2>1. PICK p \in Pools, n \in PoolObjects \cup {None} :
             /\ Len(poolWatch) \in Nat \ {0}
             /\ Len(poolWatch') = Len(poolWatch) - 1
             /\ \A i \in 1 .. Len(poolWatch') : i + 1 \in 1 .. Len(poolWatch) /\ poolWatch'[i] = poolWatch[i + 1]
             /\ poolWatch[1].pool = p /\ poolWatch[1].obj = n
             /\ cache'[p] = n
             /\ \A r \in Pools : r # p => cache'[r] = cache[r]
             /\ \A r \in Pools : EventPending(r)' => EventPending(r)
             /\ \A r \in Pools : r # p => queue'[r] = queue[r]
             /\ w' = w
    BY <1>3, Delivered
  <2>2. CASE q # p
    BY <2>1, <2>2 DEF GoneStaysGone
  <2>3. CASE q = p
    <3>1. n = None /\ 1 \in 1 .. Len(poolWatch)
      BY <2>1, <2>3
    <3>2. \A i \in 1 .. Len(poolWatch') : 1 < i + 1 /\ poolWatch'[i].pool # p
      BY <2>1, <3>1 DEF DeletionIsLast
    <3> QED
      BY <2>3, <3>2 DEF EventPending, TypeInv, TypeOK
  <2> QED
    BY <2>2, <2>3
<1>4. CASE Restart
  BY <1>4, Restarted
<1>5. ASSUME NEW p \in Pools, NEW n \in PoolObjects \cup {None}, Births(p, n) \/ Changes(p, n),
             ~ DeliverPool
      PROVE  ~ EventPending(q)'
  <2>1. cache' = cache /\ (q # p => (EventPending(q)' <=> EventPending(q)))
    BY <1>5, WrittenEvents DEF Births, Changes, Writes
  <2>2. ~ EventPending(q)
    BY <1>1, <1>5, <2>1 DEF GoneStaysGone
  <2>3. api[q] = None
    BY <2>1, <2>2 DEF Synced
  <2>4. q # p
    BY <1>1, <1>5, <2>3, BornOnce DEF Changes
  <2> QED
    BY <2>1, <2>2, <2>4
<1> QED
  BY <1>2, <1>3, <1>4, <1>5, StepKinds

(* A pool whose deletion is being handled stays out of the cache. *)
LEMMA DeletedStep ==
    ASSUME TypeInv, TypeInv', GoneStaysGone, DeletedIsGone, [Next]_vars
    PROVE  DeletedIsGone'
<1> USE DEF environmentVars, userVars, seenVars, apiVars
<1>1. ASSUME w' = w, cache' = cache PROVE DeletedIsGone'
  BY <1>1 DEF DeletedIsGone
<1>2. CASE Worker
  <2>1. w.pc # "idle" /\ cache' = cache /\ (ReturnError \/ Finishes \/ Reports \/ Proceeds)
    BY <1>2, WorkerMoves
  <2>2. CASE w' = Idle
    BY <2>2 DEF Idle, DeletedIsGone
  <2>3. CASE Proceeds
    BY <2>1, <2>3 DEF Proceeds, DeletedIsGone
  <2> QED
    BY <2>1, <2>2, <2>3 DEF ReturnError, Finishes, Reports, Return
<1>3. CASE DeliverPool
  <2>1. PICK p \in Pools : w' = w /\ EventPending(p) /\ \A r \in Pools : r # p => cache'[r] = cache[r]
    BY <1>3, Delivered
  <2> SUFFICES ASSUME w.pc # "idle", w.del PROVE cache'[w.req] = None
    BY <2>1 DEF DeletedIsGone
  <2>2. w.req \in Pools /\ cache[w.req] = None
    BY DEF TypeInv, Fits, DeletedIsGone
  <2>3. w.req # p
    BY <2>1, <2>2 DEF GoneStaysGone
  <2> QED
    BY <2>1, <2>2, <2>3
<1>4. ASSUME NEW p \in Pools, Start(p)
      PROVE  DeletedIsGone'
  BY <1>4, Started DEF DeletedIsGone
<1>5. CASE Restart
  BY <1>5 DEF Restart, Idle, DeletedIsGone
<1>6. CASE Users
  BY <1>1, <1>6 DEF Users, CreatePool, EditPool, DeletePool, SetProfile
<1>7. CASE Deliver /\ ~ DeliverPool
  BY <1>1, <1>7 DEF Deliver, DeliverProfile, DeliverConfigMap
<1>8. CASE Timers \/ \E p \in Pools : GetFails(p)
  BY <1>1, <1>8 DEF Timers, DelayOver, CircuitWindowPasses, GetFails
<1>9. CASE UNCHANGED vars
  BY <1>1, <1>9 DEF vars
<1> QED
  BY <1>2, <1>3, <1>4, <1>5, <1>6, <1>7, <1>8, <1>9 DEF Next, Deliver

LEMMA OnceStep ==
    ASSUME TypeInv, TypeInv', WorkInv, Once', OnceInv, [Next]_vars
    PROVE  OnceInv'
<1>1. Synced
  BY DEF WorkInv
<1>2. OneLife' /\ UnbornUnknown'
  BY OneLifeStep, UnbornStep DEF OnceInv
<1>3. DeletionIsLast' /\ InOrder'
  BY <1>1, DeletionStep, InOrderStep DEF OnceInv
<1>4. GoneStaysGone' /\ DeletedIsGone'
  BY <1>1, GoneStep, DeletedStep DEF OnceInv
<1> QED
  BY <1>2, <1>3, <1>4 DEF OnceInv

(* The pool at hand stays cached or queued, for want of another worker to take its key. *)
LEMMA AtHandStep ==
    ASSUME TypeInv, TypeInv', AtHand, [Next]_vars
    PROVE  AtHand'
<1> USE DEF environmentVars, userVars, seenVars, apiVars
<1>1. ASSUME w' = w, \A q \in Pools : queue[q] # "none" => queue'[q] # "none",
             \A q \in Pools : cache'[q] = cache[q] \/ queue'[q] # "none"
      PROVE  AtHand'
  BY <1>1 DEF AtHand, TypeInv, Fits
<1>2. CASE Worker
  <2>1. w.pc # "idle" /\ cache' = cache /\ (ReturnError \/ Finishes \/ Reports \/ Proceeds)
    BY <1>2, WorkerMoves
  <2>2. CASE w' = Idle
    BY <2>2 DEF Idle, AtHand, Holding
  <2>3. CASE ListRemaining
    <3>1. PICK f \in Listed(NamespaceOf[w.req]) :
               w' = [w EXCEPT !.pc = "build", !.target = f, !.obj = cache[f]]
      BY <2>3 DEF ListRemaining, FirstChoices
    <3>2. w'.target = f /\ w'.req = w.req
      BY <3>1 DEF Workers, TypeInv, Fits
    <3> QED
      BY <2>1, <3>1, <3>2 DEF AtHand, Listed, PoolsIn
  <2>4. CASE SelectActivePool
    <3>1. w \in Workers
      BY DEF TypeInv, Fits
    <3>2. [w EXCEPT !.pc = "build"].target = w.target /\ [w EXCEPT !.pc = "build"].req = w.req
      BY <3>1 DEF Workers
    <3>3. \A v, r : SetStatus(w, v, r).target = w.target /\ SetStatus(w, v, r).req = w.req
      BY <3>1 DEF SetStatus, Workers
    <3>4. w.pc \in Holding /\ queue' = queue
      BY <2>4 DEF SelectActivePool, Holding
    <3>5. w'.target = w.target /\ w'.req = w.req
      BY <2>4, <3>2, <3>3 DEF SelectActivePool
    <3> QED
      BY <2>1, <3>4, <3>5 DEF AtHand
  <2>5. CASE Proceeds /\ ~ ListRemaining /\ ~ SelectActivePool
    <3>1. CASE w'.pc \in {"remove", "removeWrite"}
      BY <3>1 DEF AtHand, Holding
    <3>2. CASE w'.pc \notin {"remove", "removeWrite"}
      <4>1. ListNone => w'.pc = "remove"
        BY DEF ListNone, TypeInv, Fits, Workers
      <4>2. w.pc \in Holding /\ w'.target = w.target /\ w'.req = w.req /\ queue' = queue
        BY <2>5, <3>2, <4>1 DEF Proceeds, Publishing, Holding
      <4> QED
        BY <2>1, <4>2 DEF AtHand
    <3> QED
      BY <3>1, <3>2
  <2> QED
    BY <2>1, <2>2, <2>3, <2>4, <2>5 DEF ReturnError, Finishes, Reports, Return
<1>3. CASE DeliverPool
  BY <1>1, <1>3, Delivered
<1>4. ASSUME NEW p \in Pools, Start(p)
      PROVE  AtHand'
  BY <1>4, Started DEF AtHand, Holding
<1>5. CASE Restart
  BY <1>5 DEF Restart, Idle, AtHand, Holding
<1>6. CASE UNCHANGED vars
  BY <1>1, <1>6 DEF vars
<1>7. CASE (Users \/ Deliver \/ Timers \/ \E p \in Pools : GetFails(p)) /\ ~ DeliverPool
  <2>1. \A q \in Pools : queue[q] # "none" => queue'[q] # "none"
    BY <1>7, QueueKept
  <2>2. w' = w /\ cache' = cache
    BY <1>7 DEF Users, CreatePool, EditPool, DeletePool, SetProfile, Deliver, DeliverProfile,
                DeliverConfigMap, Timers, DelayOver, CircuitWindowPasses, GetFails
  <2> QED
    BY <1>1, <2>1, <2>2
<1> QED
  BY <1>2, <1>3, <1>4, <1>5, <1>6, <1>7 DEF Next, Deliver

-----------------------------------------------------------------------------
(* The steps as far as the worker is concerned. *)

(* The worker stands still, the cache and the ConfigMaps too, and no key is taken. *)
Aside ==
    /\ UNCHANGED <<w, cache, metric, configMap>>
    /\ \A q \in Pools : queue[q] # "none" => queue'[q] # "none"

LEMMA Sides ==
    ASSUME TypeInv, [Next]_vars
    PROVE  Restart \/ DeliverPool \/ Worker \/ Aside \/ \E p \in Pools : Start(p)
<1> USE DEF environmentVars, userVars, seenVars, configMapVars
<1>1. CASE UNCHANGED vars
  BY <1>1 DEF vars, Aside
<1>2. CASE (Users \/ Deliver \/ Timers \/ \E p \in Pools : GetFails(p)) /\ ~ DeliverPool
  <2>1. \A q \in Pools : queue[q] # "none" => queue'[q] # "none"
    BY <1>2, QueueKept
  <2>2. UNCHANGED <<w, cache, metric, configMap>>
    BY <1>2 DEF Users, CreatePool, EditPool, DeletePool, SetProfile, Deliver, DeliverProfile,
                DeliverConfigMap, Timers, DelayOver, CircuitWindowPasses, GetFails
  <2> QED
    BY <2>1, <2>2 DEF Aside
<1> QED
  BY <1>1, <1>2 DEF Next

(* But for taking a key and a restart, every step is calm, and so is none. *)
LEMMA CalmStep ==
    ASSUME TypeInv, TypeInv', WorkInv, [Next]_vars, ~ Restart, \A p \in Pools : ~ Start(p)
    PROVE  Calm
<1>1. CASE UNCHANGED vars
  <2>1. UNCHANGED <<api, poolWatch, queue, profile, profWatch>>
    BY <1>1 DEF vars, apiVars, userVars
  <2> QED
    BY <2>1 DEF Calm, Stirred, Pending, EventPending
<1> QED
  BY <1>1, StepCalm DEF Next

(* Only a delivery and a restart change the cache. *)
LEMMA CacheStays ==
    ASSUME TypeInv, TypeInv', [Next]_vars, ~ Restart, ~ DeliverPool
    PROVE  cache' = cache
BY StepKinds DEF Quiet, Births, Changes, Writes

(* The pool p has a status, and nothing is left that will make the worker look at it. *)
Resting(p) == HasStatus(p) /\ ~ Stirred(p) /\ ~ Reconciling(p)

(****************************************************************************)
(* A pool that rests after a step rested before it, or was being reconciled *)
(* and has just been reported the status that it had.                       *)
(****************************************************************************)
LEMMA RestingBefore ==
    ASSUME TypeInv, TypeInv', WorkInv, [Next]_vars, NEW p \in Pools, Resting(p)'
    PROVE  /\ ~ Restart
           /\ api'[p] = api[p] /\ profile'[NamespaceOf[p]] = profile[NamespaceOf[p]]
           /\ HasStatus(p) /\ api[p] # None /\ ~ Stirred(p)
           /\ cache[p] = api[p]
           /\ Resting(p) \/ (Reports /\ ~ w.del /\ w.req = p /\ w.target = p /\ w.result = "none")
           /\ Worker /\ Reports /\ w.target = p => api[p].status = Desired
<1>1. ~ Restart
  <2>1. CASE Restart
    <3>1. api'[p] # None /\ api' = api /\ queue'[p] = "none"
      BY <2>1, Restarted DEF Resting, HasStatus, Stirred, Pending
    <3> QED
      BY <2>1, <3>1, Restarted
  <2> QED
    BY <2>1
<1>2. ASSUME NEW r \in Pools, Start(r)
      PROVE  /\ UNCHANGED <<api, profile>> /\ HasStatus(p) /\ api[p] # None /\ ~ Stirred(p)
             /\ w.pc = "idle"
  <2>1. /\ w.pc = "idle" /\ queue[r] = "ready" /\ queue' = [queue EXCEPT ![r] = "none"]
        /\ w'.req = r /\ w'.pc # "idle"
        /\ UNCHANGED <<api, poolWatch, cache, profile, profWatch>>
        /\ cache[r] # None => ~ w'.del
    BY <1>2, Started
  <2>2. HasStatus(p) /\ api[p] # None
    BY <2>1 DEF Resting, HasStatus
  <2>3. ~ EventPending(p)
    BY <2>1 DEF Resting, Stirred, Pending, EventPending
  <2>4. cache[p] # None
    BY <2>2, <2>3 DEF WorkInv, Synced
  <2>5. p # r
    BY <2>1, <2>4 DEF Resting, Reconciling
  <2>6. queue'[p] = queue[p]
    BY <2>1, <2>5 DEF TypeInv, TypeOK
  <2>7. ~ Stirred(p)
    BY <2>1, <2>3, <2>6 DEF Resting, Stirred, Pending
  <2> QED
    BY <2>1, <2>2, <2>7
<1>3. ASSUME \A r \in Pools : ~ Start(r)
      PROVE  /\ api'[p] = api[p] /\ profile'[NamespaceOf[p]] = profile[NamespaceOf[p]]
             /\ HasStatus(p) /\ api[p] # None /\ ~ Stirred(p)
  <2>1. Calm
    BY <1>1, <1>3, CalmStep
  <2>2. api'[p] = api[p] /\ profile'[NamespaceOf[p]] = profile[NamespaceOf[p]]
    BY <2>1 DEF Calm, Resting
  <2>3. HasStatus(p) /\ api[p] # None
    BY <2>2 DEF Resting, HasStatus
  <2> QED
    BY <2>1, <2>2, <2>3 DEF Calm, Resting
<1>4. /\ api'[p] = api[p] /\ profile'[NamespaceOf[p]] = profile[NamespaceOf[p]]
      /\ HasStatus(p) /\ api[p] # None /\ ~ Stirred(p)
  BY <1>2, <1>3
<1>5. cache[p] = api[p]
  BY <1>4 DEF WorkInv, Synced, Stirred, Pending
<1>6. ASSUME Reconciling(p)
      PROVE  Reports /\ ~ w.del /\ w.req = p /\ w.target = p /\ w.result = "none"
  <2>1. w.pc # "idle" /\ ~ w.del /\ w.req = p /\ w.target = p /\ w.result \in Results
    BY <1>6 DEF Reconciling, TypeInv, Fits, Workers, Results
  <2>2. w' # w
    BY <1>6 DEF Reconciling, Resting
  <2>3. Worker
    BY <1>1, <1>2, <2>1, <2>2, Sides, Delivered DEF Aside
  <2>4. queue'[p] = "none"
    BY DEF Resting, Stirred, Pending
  <2>5. ASSUME NEW how \in Results, Return(how) PROVE how = "none"
    BY <2>1, <2>4, <2>5, Returned
  <2>6. ~ ReturnError
    BY <2>5 DEF ReturnError, Results
  <2>7. ~ Finishes
    BY <2>1 DEF Finishes, TypeInv, Fits
  <2>8. ~ Proceeds
    BY <2>1 DEF Proceeds, Resting, Reconciling
  <2>9. Reports
    BY <2>3, <2>6, <2>7, <2>8, WorkerMoves
  <2>10. PICK how \in Results : how = w.result
    BY <2>1
  <2> QED
    BY <2>1, <2>5, <2>9, <2>10 DEF Reports
<1>7. ASSUME Worker, Reports, w.target = p
      PROVE  api[p].status = Desired
  <2>1. w.pc = "status" /\ PatchStatus /\ w.pc \in Holding
    BY <1>7 DEF Reports, Holding
  <2>2. w.obj = api[p]
    BY <1>4, <1>7, <2>1 DEF WorkInv, HoldsLatest, Stirred
  <2> QED
    BY <1>4, <1>7, <2>1, <2>2, PatchLands
<1> QED
  BY <1>1, <1>4, <1>5, <1>6, <1>7 DEF Resting

-----------------------------------------------------------------------------
(****************************************************************************)
(* A pool that rests and is Ready is valid.  A reconcile that found the     *)
(* pool goes on past validateDNSUpstreamPool with a valid copy only; the    *)
(* status that the handling of a deletion writes is an event of the pool,   *)
(* or the pool had it before.                                               *)
(****************************************************************************)

(* The worker x, reconciling its request, goes on with a valid pool. *)
Validly(x) ==
    ~ x.del /\ (x.pc \in {"select"} \cup Publishing \/ (x.pc = "status" /\ x.verdict.ready))
        => validateDNSUpstreamPool(x.obj.spec)

ReadyValid ==
    \A p \in Pools : Resting(p) /\ api[p].status.ready => validateDNSUpstreamPool(api[p].spec)

ValidInv == ReadyValid /\ Validly(w)

(* A worker whose copy was judged goes on with a valid one, or with a bad verdict. *)
LEMMA ValidatedValidly ==
    ASSUME NEW x \in Workers
    PROVE  Validly(Validated(x))
<1>1. CASE validateDNSUpstreamPool(x.obj.spec)
  <2>1. Validated(x) = [x EXCEPT !.pc = "select"]
    BY <1>1 DEF Validated
  <2>2. [x EXCEPT !.pc = "select"].obj = x.obj
    BY DEF Workers
  <2> QED
    BY <1>1, <2>1, <2>2 DEF Validly
<1>2. CASE ~ validateDNSUpstreamPool(x.obj.spec)
  <2>1. Validated(x) = SetStatus(x, NotReady("InvalidSpec", None), "none")
    BY <1>2 DEF Validated
  <2>2. Validated(x).pc = "status" /\ Validated(x).verdict = NotReady("InvalidSpec", None)
    BY <2>1 DEF SetStatus, Workers
  <2> QED
    BY <2>2 DEF Validly, NotReady, Publishing
<1> QED
  BY <1>1, <1>2

LEMMA ValidlyStep ==
    ASSUME TypeInv, TypeInv', Validly(w), [Next]_vars
    PROVE  Validly(w')
<1>1. w \in Workers
  BY DEF TypeInv, Fits
<1>2. ASSUME w' = Idle PROVE Validly(w')
  BY <1>2 DEF Validly, Idle, Publishing
<1>3. ASSUME w' = w PROVE Validly(w')
  BY <1>3
<1>4. ASSUME Return("none") \/ ReturnError \/ Return(w.result) PROVE Validly(w')
  BY <1>2, <1>4 DEF Return, ReturnError
<1>5. ASSUME NEW s, w.pc \in {"select"} \cup Publishing,
             \/ w' = [w EXCEPT !.pc = s]
             \/ \E b : w' = [w EXCEPT !.pc = s, !.stale = b]
             \/ \E c : w' = [w EXCEPT !.pc = s, !.cfg = c]
      PROVE  Validly(w')
  <2>1. w'.obj = w.obj /\ w'.del = w.del
    BY <1>1, <1>5 DEF Workers
  <2> QED
    BY <1>5, <2>1 DEF Validly
<1>6. ASSUME NEW v, NEW r, w.pc \in {"select"} \cup Publishing \/ ~ v.ready,
             w' = SetStatus(w, v, r)
      PROVE  Validly(w')
  <2>1. w'.pc = "status" /\ w'.verdict = v /\ w'.obj = w.obj /\ w'.del = w.del
    BY <1>1, <1>6 DEF SetStatus, Workers
  <2> QED
    BY <1>6, <2>1 DEF Validly, Publishing
<1>7. CASE Restart
  BY <1>2, <1>7 DEF Restart
<1>8. ASSUME NEW p \in Pools, Start(p) PROVE Validly(w')
  <2>1. CASE ReconcilePool(p)
    <3> DEFINE x == [Idle EXCEPT !.req = p, !.target = p, !.obj = cache[p]]
    <3>1. w' = IF cache[p].irv # 0 THEN Validated(x) ELSE [x EXCEPT !.pc = "stamp"]
      BY <2>1 DEF ReconcilePool
    <3>2. cache[p] \in PoolObjects \cup {None} /\ Idle \in Workers
      BY IdleFits DEF TypeInv, TypeOK, Fits
    <3>3. x \in Workers
      BY <3>2 DEF Idle, Workers
    <3>4. [x EXCEPT !.pc = "stamp"].pc = "stamp"
      BY <3>3 DEF Workers
    <3> HIDE DEF x
    <3>5. CASE cache[p].irv = 0
      BY <3>1, <3>4, <3>5 DEF Validly, Publishing
    <3> QED
      BY <3>1, <3>3, <3>5, ValidatedValidly
  <2>2. CASE ReconcileDeletion(p)
    <3>1. w'.del
      BY <2>2, <1>8, Started DEF ReconcileDeletion, TakeKey, Idle
    <3> QED
      BY <3>1 DEF Validly
  <2> QED
    BY <1>8, <2>1, <2>2 DEF Start
<1>9. CASE Worker
  <2>1. CASE ensureInitialRVAnnotation
    <3>1. ASSUME api[w.target] # None, w' = Validated([w EXCEPT !.obj = api'[w.target]])
          PROVE  Validly(w')
      <4>1. w.target \in Pools
        BY <2>1 DEF ensureInitialRVAnnotation, TypeInv, Fits, Holding
      <4>2. api'[w.target] \in PoolObjects \cup {None}
        BY <4>1 DEF TypeInv, TypeOK
      <4>3. [w EXCEPT !.obj = api'[w.target]] \in Workers
        BY <1>1, <4>2 DEF Workers
      <4> QED
        BY <3>1, <4>3, ValidatedValidly
    <3> QED
      BY <1>4, <2>1, <3>1 DEF ensureInitialRVAnnotation
  <2>2. CASE SelectActivePool
    <3>1. ASSUME NEW q, w' = SetStatus(w, NotReady("Superseded", q), "none") PROVE Validly(w')
      BY <1>6, <3>1 DEF NotReady
    <3>2. CASE w' = [w EXCEPT !.pc = "build"] /\ w.pc = "select"
      BY <1>5, <3>2
    <3> QED
      BY <2>2, <3>1, <3>2 DEF SelectActivePool
  <2>3. CASE ListNone \/ ListRemaining \/ RemoveConfigKey
    <3>1. w.del /\ w.pc \in {"list", "remove"}
      BY <2>3 DEF ListNone, ListRemaining, RemoveConfigKey, TypeInv, Fits
    <3>2. ReturnError \/ Finishes \/ Reports \/ Proceeds
      BY <1>9, WorkerMoves
    <3>3. CASE Proceeds
      BY <3>1, <3>3 DEF Proceeds, Validly
    <3> QED
      BY <1>4, <3>2, <3>3 DEF Finishes, Reports
  <2>4. CASE BuildConfig
    <3>1. w.pc \in {"select"} \cup Publishing
      BY <2>4 DEF BuildConfig, Publishing
    <3>2. \/ \E c : w' = [w EXCEPT !.pc = "upsert", !.cfg = c]
          \/ \E v : w' = SetStatus(w, v, "none")
          \/ ReturnError
      BY <2>4 DEF BuildConfig
    <3> QED
      BY <1>4, <1>5, <1>6, <3>1, <3>2
  <2>5. CASE UpsertConfigMap
    <3>1. w.pc \in {"select"} \cup Publishing
      BY <2>5 DEF UpsertConfigMap, Publishing
    <3>2. \/ \E b : w' = [w EXCEPT !.pc = "write", !.stale = b]
          \/ \E v, r : w' = SetStatus(w, v, r)
      BY <2>5 DEF UpsertConfigMap
    <3> QED
      BY <1>5, <1>6, <3>1, <3>2
  <2>6. CASE ConfigMapWritten
    BY <1>6, <2>6 DEF ConfigMapWritten, Publishing
  <2>7. CASE ConfigMapNotWritten
    BY <1>4, <1>6, <2>7 DEF ConfigMapNotWritten, Publishing
  <2>8. CASE ConfigKeyRemoved \/ ConfigKeyNotRemoved
    BY <1>4, <2>8 DEF ConfigKeyRemoved, ConfigKeyNotRemoved
  <2>9. CASE setReadyCondition \/ PatchFails
    BY <1>4, <2>9 DEF setReadyCondition, PatchFails
  <2>10. CASE ReadFails
    BY <1>4, <1>6, <2>10 DEF ReadFails, Publishing
  <2> QED
    BY <1>9, <2>1, <2>2, <2>3, <2>4, <2>5, <2>6, <2>7, <2>8, <2>9, <2>10 DEF Worker
<1>10. CASE DeliverPool \/ Aside
  BY <1>3, <1>10 DEF DeliverPool, Aside
<1> QED
  BY <1>7, <1>8, <1>9, <1>10, Sides

LEMMA ReadyValidStep ==
    ASSUME TypeInv, TypeInv', WorkInv, ValidInv, [Next]_vars
    PROVE  ReadyValid'
<1> SUFFICES ASSUME NEW p \in Pools, Resting(p)', api'[p].status.ready
             PROVE  validateDNSUpstreamPool(api'[p].spec)
  BY DEF ReadyValid, validateDNSUpstreamPool
<1>1. /\ ~ Restart /\ api'[p] = api[p] /\ ~ Stirred(p)
      /\ Resting(p) \/ (Reports /\ ~ w.del /\ w.target = p)
      /\ Worker /\ Reports /\ w.target = p => api[p].status = Desired
  BY RestingBefore
<1>2. CASE Resting(p)
  BY <1>1, <1>2 DEF ValidInv, ReadyValid
<1>3. CASE Reports /\ ~ w.del /\ w.target = p
  <2>1. w.pc = "status" /\ w' = Idle /\ Idle.pc = "idle"
    BY <1>3 DEF Reports, Return, Idle
  <2>2. Worker
    BY <1>1, <2>1, Sides, Started DEF Aside, DeliverPool
  <2>3. api[p].status.ready = w.verdict.ready
    BY <1>1, <1>3, <2>2 DEF Desired
  <2>4. w.obj = api[p]
    BY <1>1, <1>3, <2>1 DEF WorkInv, HoldsLatest, Holding, Stirred
  <2>5. validateDNSUpstreamPool(w.obj.spec)
    BY <1>1, <1>3, <2>1, <2>3 DEF ValidInv, Validly
  <2> QED
    BY <1>1, <2>4, <2>5
<1> QED
  BY <1>1, <1>2, <1>3

(****************************************************************************)
(* When the operator rests, no pool is Ready that validation refuses,       *)
(* although reconcileAfterPoolDeletion does not validate: for any pools,    *)
(* re-created names, any lag, faults and restarts.                          *)
(****************************************************************************)
THEOREM ReadyIsValid == Spec => []SettledReadyIsValid
<1>1. Init => ValidInv
  BY DEF Init, ValidInv, ReadyValid, Validly, Resting, HasStatus, Idle, Publishing
<1>2. TypeInv /\ TypeInv' /\ WorkInv /\ ValidInv /\ [Next]_vars => ValidInv'
  BY ReadyValidStep, ValidlyStep DEF ValidInv, Validly
<1>3. ASSUME WorkInv, TruthInv, ValidInv
      PROVE  SettledReadyIsValid
  <2> SUFFICES ASSUME Settled, NEW p \in Pools, IsReady(p)
               PROVE  validateDNSUpstreamPool(api[p].spec)
    BY DEF SettledReadyIsValid
  <2>1. HasStatus(p)
    BY DEF IsReady, HasStatus
  <2>2. ~ Stirred(p) /\ ~ Reconciling(p)
    BY NamespaceFacts DEF Settled, Stirred, Pending, EventPending, Reconciling
  <2> QED
    BY <1>3, <2>1, <2>2 DEF ValidInv, ReadyValid, Resting, IsReady
<1> QED
  BY <1>1, <1>2, <1>3, TruthAlways, PTL DEF Spec

-----------------------------------------------------------------------------
(****************************************************************************)
(* The order of the pools.  The inductive invariant OrderInv says that the  *)
(* status of a pool that rests, and the verdict of the worker, is in order  *)
(* with the pools of the cache, or a deletion is to be handled that will    *)
(* put it in order.                                                         *)
(****************************************************************************)

(* If pool t is in the cache, none of its namespace there is older. *)
Eldest(t) ==
    cache[t] # None =>
        \A q \in PoolsIn(NamespaceOf[t]) : cache[q] # None => cache[t].created <= cache[q].created

(* A verdict that is passed after the selection. *)
Selected(v) == v.ready \/ v.reason \notin {"InvalidSpec", "Superseded"}

(* A pool that is gone and whose key is queued. *)
Leaving(q) == cache[q] = None /\ queue[q] # "none"

(****************************************************************************)
(* A pool of p's namespace that is no younger is in the cache, or has left  *)
(* it and is to be handled, or is being handled and the worker may go on    *)
(* with p.                                                                  *)
(****************************************************************************)
Elder(p) ==
    \E q \in PoolsIn(NamespaceOf[p]) \ {p} :
        \/ cache[q] # None /\ cache[q].created <= api[p].created
        \/ Leaving(q)
        \/ /\ w.del /\ w.req = q
           /\ w.pc = "list" \/ (w.pc \in Holding /\ w.target = p)

(* The statuses say Superseded where there is an elder pool and nowhere else. *)
StatusInOrder ==
    \A p \in Pools :
        Resting(p) =>
            /\ Selected(api[p].status) => Eldest(p)
            /\ api[p].status.reason = "Superseded" => Elder(p)

(* The worker x goes on with the eldest pool, and supersedes where there is an elder one. *)
Orderly(x) ==
    /\ x.pc \in Publishing => Eldest(x.target)
    /\ x.pc = "status" /\ ~ x.del =>
          /\ Selected(x.verdict) => Eldest(x.target)
          /\ x.verdict.reason = "Superseded" => Stirred(x.req) \/ Elder(x.req)

OrderInv == StatusInOrder /\ Orderly(w)

(* The cached pools have a creation time, and a delivery does not change it. *)
LEMMA CachedLife ==
    ASSUME TypeInv, TypeInv', OneLife
    PROVE  /\ \A q \in Pools : cache[q] # None => cache[q].created \in Nat \ {0}
           /\ \A q \in Pools : \A x \in Copies(q) : cache[q] # None => x.created = cache[q].created
<1>1. \A q \in Pools : Copies(q) \subseteq PoolObjects
  BY CopiesType
<1>2. \A x \in PoolObjects : x.created \in Nat
  BY DEF PoolObjects
<1>3. \A q \in Pools : cache[q] # None => cache[q] \in Copies(q)
  BY DEF Copies
<1>4. \A q \in Pools : cache[q] # None => cache[q].created \in Nat /\ 0 < cache[q].created
  BY <1>1, <1>2, <1>3 DEF OneLife
<1>5. \A q \in Pools : \A x \in Copies(q) : cache[q] # None => x.created = cache[q].created
  BY <1>3 DEF OneLife
<1>6. ASSUME NEW q \in Pools, cache[q] # None PROVE cache[q].created \in Nat \ {0}
  BY <1>4, <1>6
<1> QED
  BY <1>5, <1>6

(* The eldest pool stays the eldest, but for a restart and its own return to the cache. *)
LEMMA EldestKept ==
    ASSUME TypeInv, TypeInv', OnceInv, [Next]_vars, ~ Restart, NEW t \in Pools, Eldest(t),
           cache[t] # None \/ cache'[t] = None
    PROVE  Eldest(t)'
<1>1. CASE ~ DeliverPool
  BY <1>1, CacheStays DEF Eldest, PoolsIn
<1>2. CASE DeliverPool
  <2>1. PICK p \in Pools, n \in PoolObjects \cup {None} :
             /\ Len(poolWatch) \in Nat \ {0}
             /\ poolWatch[1].pool = p /\ poolWatch[1].obj = n
             /\ cache'[p] = n /\ n \in Copies(p) \cup {None}
             /\ \A q \in Pools : q # p => cache'[q] = cache[q]
    BY <1>2, Delivered
  <2> SUFFICES ASSUME cache'[t] # None, NEW q \in PoolsIn(NamespaceOf[t]), cache'[q] # None
               PROVE  cache'[t].created <= cache'[q].created
    BY DEF Eldest, PoolsIn
  <2>2. q \in Pools /\ cache[t] # None
    BY DEF PoolsIn
  <2>3. \A r \in Pools : cache[r] # None /\ cache'[r] # None => cache'[r].created = cache[r].created
    BY <2>1, CachedLife DEF OnceInv
  <2>4. CASE cache[q] # None
    BY <2>2, <2>3, <2>4 DEF Eldest
  <2>5. CASE cache[q] = None
    <3>1. q = p /\ n # None /\ 1 \in 1 .. Len(poolWatch)
      BY <2>1, <2>2, <2>5
    <3>2. Newcomer(1)
      BY <2>1, <2>5, <3>1 DEF Newcomer
    <3>3. cache[t].created <= n.created
      BY <2>1, <2>2, <3>1, <3>2 DEF OnceInv, InOrder
    <3> QED
      BY <2>1, <2>2, <2>3, <3>1, <3>3
  <2> QED
    BY <2>4, <2>5
<1> QED
  BY <1>1, <1>2

(* What the sort of the cached pools puts first is the eldest. *)
LEMMA FirstListed ==
    ASSUME TypeInv, TypeInv', OneLife, NEW n, NEW f \in FirstChoices(cache, Listed(n))
    PROVE  /\ f \in Pools /\ NamespaceOf[f] = n /\ cache[f] # None
           /\ \A q \in Listed(n) : cache[f].created <= cache[q].created
           /\ Eldest(f)
<1>1. Listed(n) \in SUBSET Pools /\ f \in Listed(n)
  BY DEF Listed, PoolsIn, FirstChoices
<1>2. \A q \in Listed(n) : cache[q].created \in Nat \ {0}
  BY CachedLife DEF Listed, PoolsIn
<1>3. \A q \in Listed(n) : cache[f].created <= cache[q].created
  BY <1>1, <1>2, FirstIsEldest
<1>4. f \in Pools /\ NamespaceOf[f] = n /\ cache[f] # None
  BY <1>1 DEF Listed, PoolsIn
<1> QED
  BY <1>3, <1>4 DEF Eldest, Listed, PoolsIn

(* A pool that is leaving goes on leaving, or its deletion is handled. *)
LEMMA LeavingKept ==
    ASSUME TypeInv, TypeInv', OnceInv, [Next]_vars, ~ Restart, NEW q \in Pools, Leaving(q)
    PROVE  /\ cache'[q] = None
           /\ Leaving(q)' \/ (w'.del /\ w'.req = q /\ w'.pc = "list")
<1>1. cache'[q] = None
  <2>1. CASE DeliverPool
    <3>1. ~ EventPending(q)
      BY DEF Leaving, OnceInv, GoneStaysGone
    <3> QED
      BY <2>1, <3>1, Delivered DEF Leaving
  <2>2. CASE ~ DeliverPool
    BY <2>2, CacheStays DEF Leaving
  <2> QED
    BY <2>1, <2>2
<1>2. ASSUME NEW r \in Pools, Start(r), queue'[q] = "none"
      PROVE  w'.del /\ w'.req = q /\ w'.pc = "list"
  <2>1. queue' = [queue EXCEPT ![r] = "none"] /\ queue \in [Pools -> Results]
    BY <1>2, Started DEF TypeInv, TypeOK
  <2>2. r = q
    BY <1>2, <2>1 DEF Leaving
  <2> QED
    BY <1>2, <2>2, Started DEF Leaving
<1>3. ASSUME \A r \in Pools : ~ Start(r) PROVE queue'[q] # "none"
  <2>1. CASE DeliverPool
    BY <2>1, Delivered DEF Leaving
  <2>2. CASE Worker
    BY <2>2, QueueKept DEF Leaving
  <2>3. CASE Aside
    BY <2>3 DEF Leaving, Aside
  <2> QED
    BY <1>3, <2>1, <2>2, <2>3, Sides
<1> QED
  BY <1>1, <1>2, <1>3 DEF Leaving

(****************************************************************************)
(* A pool that has an elder pool keeps one, until the handling of the       *)
(* deletion of that pool ends with a report on p itself.                    *)
(****************************************************************************)
LEMMA ElderKept ==
    ASSUME TypeInv, TypeInv', WorkInv, OnceInv, [Next]_vars, ~ Restart, NEW p \in Pools, Elder(p),
           api'[p] = api[p], api[p] # None, ~ Stirred(p),
           ~ (Worker /\ Reports /\ w.target = p /\ w.del)
    PROVE  Elder(p)'
<1>1. PICK q \in PoolsIn(NamespaceOf[p]) \ {p} :
           \/ cache[q] # None /\ cache[q].created <= api[p].created
           \/ Leaving(q)
           \/ /\ w.del /\ w.req = q
              /\ w.pc = "list" \/ (w.pc \in Holding /\ w.target = p)
  BY DEF Elder
<1>2. q \in Pools /\ NamespaceOf[q] = NamespaceOf[p]
  BY <1>1 DEF PoolsIn
<1> SUFFICES \E f \in PoolsIn(NamespaceOf[p]) \ {p} :
                \/ cache'[f] # None /\ cache'[f].created <= api[p].created
                \/ cache'[f] = None /\ queue'[f] # "none"
                \/ /\ w'.del /\ w'.req = f
                   /\ w'.pc = "list" \/ (w'.pc \in Holding /\ w'.target = p)
  BY DEF Elder, Leaving, PoolsIn
<1>3. CASE cache[q] # None /\ cache[q].created <= api[p].created
  <2>1. CASE DeliverPool
    <3>1. PICK d \in Pools, n \in PoolObjects \cup {None} :
               /\ cache'[d] = n /\ n \in Copies(d) \cup {None}
               /\ \A r \in Pools : r # d => cache'[r] = cache[r]
               /\ queue'[d] # "none"
      BY <2>1, Delivered
    <3>2. cache'[q] # None => cache'[q].created = cache[q].created
      BY <1>2, <1>3, <3>1, CachedLife DEF OnceInv
    <3>3. cache'[q] = None => queue'[q] # "none"
      BY <1>2, <1>3, <3>1
    <3> QED
      BY <1>1, <1>3, <3>2, <3>3
  <2>2. CASE ~ DeliverPool
    BY <1>1, <1>3, <2>2, CacheStays
  <2> QED
    BY <2>1, <2>2
<1>4. CASE Leaving(q)
  BY <1>1, <1>2, <1>4, LeavingKept DEF Leaving
<1>5. CASE w.del /\ w.req = q /\ (w.pc = "list" \/ (w.pc \in Holding /\ w.target = p))
  <2>1. CASE w' = w
    BY <1>1, <1>5, <2>1
  <2>2. CASE Worker
    <3>1. w.pc # "idle" /\ cache' = cache /\ (ReturnError \/ Finishes \/ Reports \/ Proceeds)
      BY <2>2, WorkerMoves
    <3>2. cache[q] = None
      BY <1>5, <3>1 DEF OnceInv, DeletedIsGone
    <3>3. CASE ReturnError
      <4>1. queue'[q] # "none"
        BY <1>2, <1>5, <3>1, <3>3, Returned DEF ReturnError, Results
      <4> QED
        BY <1>1, <3>1, <3>2, <4>1
    <3>4. ~ Finishes
      BY <1>5 DEF Finishes, Holding
    <3>5. ~ Reports
      BY <1>5, <2>2 DEF Reports
    <3>6. CASE ListRemaining
      <4>1. PICK f \in FirstChoices(cache, Listed(NamespaceOf[w.req])) :
                 w' = [w EXCEPT !.pc = "build", !.target = f, !.obj = cache[f]]
        BY <3>6 DEF ListRemaining
      <4>2. w'.pc = "build" /\ w'.target = f /\ w'.req = w.req /\ w'.del = w.del
        BY <4>1 DEF Workers, TypeInv, Fits
      <4>3. CASE f = p
        BY <1>1, <1>5, <4>2, <4>3 DEF Holding
      <4>4. CASE f # p
        <5>1. cache[p] = api[p]
          BY DEF WorkInv, Synced, Stirred, Pending
        <5>2. p \in Listed(NamespaceOf[w.req])
          BY <1>2, <1>5, <5>1 DEF Listed, PoolsIn
        <5>3. /\ f \in Pools /\ NamespaceOf[f] = NamespaceOf[p] /\ cache[f] # None
              /\ cache[f].created <= api[p].created
          BY <1>2, <1>5, <4>1, <5>1, <5>2, FirstListed DEF OnceInv
        <5> QED
          BY <3>1, <4>4, <5>3 DEF PoolsIn
      <4> QED
        BY <4>3, <4>4
    <3>7. ~ ListNone
      <4>1. cache[p] = api[p]
        BY DEF WorkInv, Synced, Stirred, Pending
      <4>2. p \in Listed(NamespaceOf[w.req])
        BY <1>2, <1>5, <4>1 DEF Listed, PoolsIn
      <4> QED
        BY <4>2 DEF ListNone
    <3>8. CASE Proceeds /\ ~ ListRemaining
      <4>1. ~ SelectActivePool /\ w.pc # "stamp"
        BY <1>5 DEF SelectActivePool, TypeInv, Fits
      <4>2. w.pc # "remove"
        BY <1>5 DEF Holding
      <4>3. w.pc \in Publishing /\ w'.pc \in {"upsert", "write", "status"} /\ w'.target = w.target
            /\ w'.req = w.req /\ w'.del = w.del
        BY <3>7, <3>8, <4>1, <4>2 DEF Proceeds
      <4> QED
        BY <1>1, <1>5, <4>3 DEF Holding, Publishing
    <3> QED
      BY <3>1, <3>3, <3>4, <3>5, <3>6, <3>8
  <2>3. ASSUME NEW r \in Pools PROVE ~ Start(r)
    BY <1>5, Started DEF Holding
  <2>4. CASE DeliverPool
    BY <2>1, <2>4, Delivered
  <2>5. CASE Aside
    BY <2>1, <2>5 DEF Aside
  <2> QED
    BY <2>2, <2>3, <2>4, <2>5, Sides
<1> QED
  BY <1>1, <1>3, <1>4, <1>5

(* The statuses stay in order. *)
LEMMA StatusOrderStep ==
    ASSUME TypeInv, TypeInv', WorkInv, TruthInv, OnceInv, OrderInv, [Next]_vars
    PROVE  StatusInOrder'
<1> SUFFICES ASSUME NEW p \in Pools, Resting(p)'
             PROVE  /\ Selected(api'[p].status) => Eldest(p)'
                    /\ api'[p].status.reason = "Superseded" => Elder(p)'
  BY DEF StatusInOrder, Selected
<1>1. /\ ~ Restart
      /\ api'[p] = api[p] /\ api[p] # None /\ ~ Stirred(p) /\ cache[p] = api[p]
      /\ Resting(p) \/ (Reports /\ ~ w.del /\ w.req = p /\ w.target = p)
      /\ Worker /\ Reports /\ w.target = p => api[p].status = Desired
  BY RestingBefore
<1>2. Worker \/ w.pc = "idle" \/ w' = w
  BY <1>1, Sides, Delivered, Started DEF Aside
<1>3. ASSUME Reports, ~ w.del, w.req = p, w.target = p
      PROVE  Worker
  <2>1. w.pc = "status" /\ w' = Idle /\ Idle.pc = "idle"
    BY <1>3 DEF Reports, Return, Idle
  <2> QED
    BY <1>2, <2>1
<1>4. Desired.ready = w.verdict.ready /\ Desired.reason = w.verdict.reason
  BY DEF Desired
<1>5. /\ Selected(api[p].status) => Eldest(p)
      /\ api[p].status.reason = "Superseded" => Elder(p)
  <2>1. CASE Resting(p)
    BY <2>1 DEF OrderInv, StatusInOrder
  <2>2. CASE Reports /\ ~ w.del /\ w.req = p /\ w.target = p
    <3>1. api[p].status.ready = w.verdict.ready /\ api[p].status.reason = w.verdict.reason
      BY <1>1, <1>3, <1>4, <2>2
    <3>2. w.pc = "status"
      BY <2>2 DEF Reports
    <3> QED
      BY <1>1, <2>2, <3>1, <3>2 DEF OrderInv, Orderly, Selected
  <2> QED
    BY <1>1, <2>1, <2>2
<1>6. Selected(api[p].status) => Eldest(p)'
  BY <1>1, <1>5, EldestKept
<1>7. ASSUME api[p].status.reason = "Superseded" PROVE Elder(p)'
  <2>1. ~ (Worker /\ Reports /\ w.target = p /\ w.del)
    <3>1. CASE Worker /\ Reports /\ w.target = p /\ w.del
      <4>1. w.pc = "status" /\ w.verdict.reason # "Superseded"
        BY <3>1 DEF Reports, TruthInv, Honest
      <4> QED
        BY <1>1, <1>4, <1>7, <3>1, <4>1
    <3> QED
      BY <3>1
  <2> QED
    BY <1>1, <1>5, <1>7, <2>1, ElderKept
<1> QED
  BY <1>1, <1>6, <1>7

(* The worker stays in order while others move. *)
LEMMA OrderlyStays ==
    ASSUME TypeInv, TypeInv', WorkInv, WorkInv', OnceInv, AtHand, Orderly(w), [Next]_vars,
           ~ Restart, w' = w, w.pc # "idle"
    PROVE  Orderly(w)'
<1>1. \A p \in Pools : ~ Start(p)
  BY Started
<1>2. CASE w.pc \notin Publishing \cup {"status"}
  BY <1>2 DEF Orderly
<1>3. CASE w.pc \in Publishing \cup {"status"}
  <2>1. w.pc \in Holding
    BY <1>3 DEF Publishing, Holding
  <2>2. PICK t \in Pools, r \in Pools : t = w.target /\ r = w.req
    BY <2>1 DEF TypeInv, Fits, Holding
  <2>3. cache[t] # None \/ cache'[t] = None
    <3>1. cache[t] # None \/ queue[t] # "none"
      BY <2>1, <2>2 DEF AtHand
    <3>2. CASE cache[t] = None /\ DeliverPool
      <4>1. ~ EventPending(t)
        BY <3>1, <3>2 DEF OnceInv, GoneStaysGone
      <4> QED
        BY <3>2, <4>1, Delivered
    <3> QED
      BY <3>2, CacheStays
  <2>4. Eldest(t) => Eldest(t)'
    BY <2>3, EldestKept
  <2>5. ASSUME w.pc = "status", ~ w.del, Stirred(r) \/ Elder(r)
        PROVE  Stirred(r)' \/ Elder(r)'
    <3> SUFFICES ASSUME ~ Stirred(r)' PROVE Elder(r)'
      OBVIOUS
    <3>1. Calm
      BY <1>1, CalmStep
    <3>2. api'[r] = api[r]
      BY <3>1 DEF Calm
    <3>3. api[r] # None
      <4>1. t = r /\ w.obj \in PoolObjects
        BY <2>1, <2>2, <2>5 DEF TypeInv, Fits, Holding
      <4>2. w.obj = api'[t] \/ Pending(t)'
        <5>1. (w.pc \in Holding => w.obj = api[w.target] \/ Pending(w.target))'
          BY DEF WorkInv, HoldsLatest
        <5> QED
          BY <2>1, <2>2, <5>1
      <4> QED
        BY <3>2, <4>1, <4>2, NoneAssumption DEF Stirred
    <3>4. ~ Stirred(r) /\ Elder(r)
      BY <2>5, <3>1, <3>3 DEF Calm
    <3>5. ~ (Worker /\ Reports /\ w.target = r /\ w.del)
      BY <2>5
    <3> QED
      BY <3>2, <3>3, <3>4, <3>5, ElderKept
  <2>6. (w.pc \in Publishing => Eldest(t))
        /\ (w.pc = "status" /\ ~ w.del =>
              (Selected(w.verdict) => Eldest(t))
              /\ (w.verdict.reason = "Superseded" => Stirred(r) \/ Elder(r)))
    BY <2>2 DEF Orderly
  <2>7. (w.pc \in Publishing => Eldest(t)')
        /\ (w.pc = "status" /\ ~ w.del =>
              (Selected(w.verdict) => Eldest(t)')
              /\ (w.verdict.reason = "Superseded" => Stirred(r)' \/ Elder(r)'))
    BY <2>4, <2>5, <2>6
  <2> QED
    BY <2>2, <2>7 DEF Orderly, Selected
<1> QED
  BY <1>2, <1>3

(* The selection is in order. *)
LEMMA SelectOrder ==
    ASSUME TypeInv, TypeInv', WorkInv, WorkInv', OnceInv, SelectActivePool
    PROVE  Orderly(w)'
<1>1. /\ w \in Workers /\ w.pc = "select" /\ w.req \in Pools /\ ~ w.del /\ w.target = w.req
      /\ w.obj \in PoolObjects
      /\ UNCHANGED <<api, cache, poolWatch, queue, profWatch>>
  BY DEF SelectActivePool, TypeInv, Fits, Holding, environmentVars, seenVars, apiVars
<1>2. PICK r \in Pools : r = w.req
  BY <1>1
<1> DEFINE n == NamespaceOf[r]
<1>3. ASSUME w' = [w EXCEPT !.pc = "build"], Eldest(r)
      PROVE  Orderly(w)'
  <2>1. w'.pc = "build" /\ w'.target = r
    BY <1>1, <1>2, <1>3 DEF Workers
  <2>2. Eldest(r)'
    BY <1>1, <1>3 DEF Eldest, PoolsIn
  <2> QED
    BY <2>1, <2>2 DEF Orderly
<1>4. CASE Listed(n) = {} /\ w' = [w EXCEPT !.pc = "build"]
  <2>1. Eldest(r)
    BY <1>4 DEF Eldest, Listed, PoolsIn
  <2> QED
    BY <1>3, <1>4, <2>1
<1>5. ASSUME NEW active \in FirstChoices(cache, Listed(n)),
             w' = IF Cardinality(Listed(n)) > 1 /\ active # w.target
                  THEN SetStatus(w, NotReady("Superseded", active), "none")
                  ELSE [w EXCEPT !.pc = "build"]
      PROVE  Orderly(w)'
  <2>1. /\ active \in Pools /\ NamespaceOf[active] = n /\ cache[active] # None
        /\ \A q \in Listed(n) : cache[active].created <= cache[q].created
        /\ Eldest(active)
    BY FirstListed DEF OnceInv
  <2>2. CASE active = r
    BY <1>1, <1>2, <1>3, <1>5, <2>1, <2>2
  <2>3. CASE active # r /\ ~ (Cardinality(Listed(n)) > 1)
    <3>1. r \notin Listed(n)
      <4>1. CASE r \in Listed(n)
        <5>1. IsFiniteSet(Listed(n)) /\ {active, r} \subseteq Listed(n)
          <6>1. Listed(n) \subseteq Pools /\ active \in Listed(n)
            BY <2>1 DEF Listed, PoolsIn
          <6> QED
            BY <4>1, <6>1, SelectionAssumption, FS_Subset
        <5>2. Cardinality({active, r}) <= Cardinality(Listed(n))
              /\ Cardinality({active, r}) \in Nat /\ Cardinality(Listed(n)) \in Nat
          BY <5>1, FS_Subset, FS_CardinalityType
        <5>3. Cardinality({active, r}) = 2
          <6>1. IsFiniteSet({active}) /\ Cardinality({active}) = 1
            BY FS_Singleton
          <6>2. r \notin {active} /\ {active} \cup {r} = {active, r}
            BY <2>3
          <6>3. Cardinality({active} \cup {r}) = Cardinality({active}) + 1
            BY <6>1, <6>2, FS_AddElement
          <6> QED
            BY <6>1, <6>2, <6>3
        <5> QED
          BY <2>3, <5>2, <5>3
      <4> QED
        BY <4>1
    <3>2. Eldest(r)
      BY <3>1 DEF Eldest, Listed, PoolsIn
    <3> QED
      BY <1>3, <1>5, <2>3, <3>2
  <2>4. CASE active # r /\ w' = SetStatus(w, NotReady("Superseded", active), "none")
    <3>1. /\ w'.pc = "status" /\ w'.req = r /\ w'.target = r /\ w'.obj = w.obj
          /\ w'.verdict = NotReady("Superseded", active)
      BY <1>1, <1>2, <2>4 DEF SetStatus, Workers
    <3>2. ~ w'.verdict.ready /\ w'.verdict.reason = "Superseded"
      BY <3>1 DEF NotReady
    <3>3. ASSUME ~ Stirred(r)'
          PROVE  Elder(r)'
      <4>1. ~ EventPending(r)
        BY <1>1, <3>3 DEF Stirred, Pending, EventPending
      <4>2. cache[r] = api[r]
        BY <4>1 DEF WorkInv, Synced
      <4>3. api[r] # None
        <5>1. (w.pc \in Holding => w.obj = api[w.target] \/ Pending(w.target))'
          BY DEF WorkInv, HoldsLatest
        <5>2. w.obj = api'[r] \/ Pending(r)'
          BY <3>1, <5>1 DEF Holding
        <5> QED
          BY <1>1, <3>3, <5>2, NoneAssumption DEF Stirred
      <4>4. cache[active].created <= api[r].created
        BY <2>1, <4>2, <4>3 DEF Listed, PoolsIn
      <4> QED
        BY <1>1, <2>1, <2>4, <4>4 DEF Elder, PoolsIn
    <3>4. ~ Selected(w'.verdict) /\ w'.pc \notin Publishing
      BY <3>1, <3>2 DEF Selected, Publishing
    <3> QED
      BY <3>1, <3>3, <3>4 DEF Orderly, Selected
  <2> QED
    BY <1>1, <1>2, <1>5, <2>2, <2>3, <2>4
<1> QED
  BY <1>2, <1>4, <1>5 DEF SelectActivePool

(* The worker stays in order. *)
LEMMA OrderlyStep ==
    ASSUME TypeInv, TypeInv', WorkInv, WorkInv', OnceInv, AtHand, Orderly(w), [Next]_vars
    PROVE  Orderly(w)'
<1>1. ASSUME w'.pc \notin Publishing \cup {"status"} PROVE Orderly(w)'
  BY <1>1 DEF Orderly
<1>2. ASSUME w'.pc = "status", w'.verdict = NotReady("InvalidSpec", None) PROVE Orderly(w)'
  BY <1>2 DEF Orderly, Publishing, NotReady, Selected
<1>3. CASE Restart
  BY <1>1, <1>3, Restarted DEF Idle, Publishing
<1>4. CASE w.pc = "idle" /\ w' = w
  BY <1>1, <1>4 DEF Publishing
<1>5. CASE ~ Restart /\ w.pc # "idle" /\ w' = w
  BY <1>5, OrderlyStays
<1>6. ASSUME NEW p \in Pools, Start(p) PROVE Orderly(w)'
  BY <1>1, <1>2, <1>6, Started DEF Publishing
<1>7. CASE Worker
  <2>1. w.pc # "idle" /\ cache' = cache /\ (ReturnError \/ Finishes \/ Reports \/ Proceeds)
    BY <1>7, WorkerMoves
  <2>2. CASE w' = Idle
    BY <1>1, <2>2 DEF Idle, Publishing
  <2>3. CASE ListRemaining
    <3>1. PICK f \in FirstChoices(cache, Listed(NamespaceOf[w.req])) :
               w' = [w EXCEPT !.pc = "build", !.target = f, !.obj = cache[f]]
      BY <2>3 DEF ListRemaining
    <3>2. w'.pc = "build" /\ w'.target = f
      BY <3>1 DEF Workers, TypeInv, Fits
    <3>3. Eldest(f) /\ f \in Pools
      BY <3>1, FirstListed DEF OnceInv
    <3>4. Eldest(f)'
      BY <2>1, <3>3 DEF Eldest, PoolsIn
    <3> QED
      BY <3>2, <3>4 DEF Orderly
  <2>4. CASE ListNone
    <3>1. w'.pc = "remove"
      BY <2>4 DEF ListNone, Workers, TypeInv, Fits
    <3> QED
      BY <1>1, <3>1 DEF Publishing
  <2>5. CASE w.pc \in Publishing /\ w'.target = w.target
             /\ (w'.pc = "status" => w'.verdict.reason \notin {"InvalidSpec", "Superseded"})
    <3>1. PICK t \in Pools : t = w.target
      BY <2>5 DEF TypeInv, Fits, Publishing, Holding
    <3>2. Eldest(t)
      BY <2>5, <3>1 DEF Orderly
    <3>3. Eldest(t)'
      BY <2>1, <3>2 DEF Eldest, PoolsIn
    <3> QED
      BY <2>5, <3>1, <3>3 DEF Orderly
  <2>6. CASE SelectActivePool
    BY <2>6, SelectOrder
  <2>7. CASE w.pc = "stamp" /\ w'.pc \in {"select", "status"}
             /\ (w'.pc = "status" => w'.verdict = NotReady("InvalidSpec", None))
    BY <1>1, <1>2, <2>7 DEF Publishing
  <2>8. CASE w'.pc = "removeWrite"
    BY <1>1, <2>8 DEF Publishing
  <2> QED
    BY <2>1, <2>2, <2>3, <2>4, <2>5, <2>6, <2>7, <2>8
       DEF ReturnError, Finishes, Reports, Return, Proceeds
<1> QED
  BY <1>3, <1>4, <1>5, <1>6, <1>7, Sides, Delivered DEF Aside

(* The inductive invariants for the order of the pools hold while no name is used twice. *)
SteadyInv == TypeInv /\ WorkInv /\ TruthInv /\ OnceInv /\ AtHand /\ OrderInv

LEMMA SteadyAlways == Spec /\ []Once => []SteadyInv
<1>1. Init => OnceInv /\ AtHand /\ OrderInv
  <2> SUFFICES ASSUME Init PROVE OnceInv /\ AtHand /\ OrderInv
    OBVIOUS
  <2>1. /\ poolWatch = <<>> /\ w = Idle /\ now = 1
        /\ \A p \in Pools : api[p] = None /\ cache[p] = None /\ queue[p] = "none"
    BY DEF Init
  <2>2. Len(poolWatch) = 0 /\ DOMAIN poolWatch = {}
    BY <2>1
  <2>3. w.pc = "idle" /\ w.req = None /\ None \notin Pools
    BY <2>1, ControllerAssumption DEF Idle
  <2>4. \A p \in Pools : ~ EventPending(p) /\ ~ HasStatus(p)
    BY <2>1, <2>2 DEF EventPending, HasStatus
  <2>5. OneLife
    BY <2>1, <2>2 DEF OneLife, Copies
  <2>6. UnbornUnknown /\ DeletionIsLast /\ InOrder /\ GoneStaysGone /\ DeletedIsGone
    BY <2>1, <2>2, <2>3, <2>4 DEF UnbornUnknown, DeletionIsLast, InOrder, GoneStaysGone, DeletedIsGone
  <2>7. AtHand /\ OrderInv
    BY <2>3, <2>4 DEF AtHand, Holding, OrderInv, StatusInOrder, Resting, Orderly, Publishing
  <2> QED
    BY <2>5, <2>6, <2>7 DEF OnceInv
<1>2. ASSUME TypeInv, TypeInv', WorkInv, WorkInv', TruthInv, Once', OnceInv, AtHand, OrderInv,
             [Next]_vars
      PROVE  OnceInv' /\ AtHand' /\ OrderInv'
  BY <1>2, OnceStep, AtHandStep, StatusOrderStep, OrderlyStep DEF OrderInv
<1> QED
  BY <1>1, <1>2, TruthAlways, PTL DEF Spec, SteadyInv

(* When the operator rests, the cache holds what is stored. *)
LEMMA RestingCache ==
    ASSUME WorkInv, Settled
    PROVE  \A p \in Pools : cache[p] = api[p] /\ ~ Stirred(p) /\ ~ Reconciling(p) /\ ~ Leaving(p)
<1>1. /\ w.pc = "idle" /\ poolWatch = <<>> /\ DOMAIN <<>> = {}
      /\ \A p \in Pools : queue[p] = "none" /\ profWatch[NamespaceOf[p]] = <<>>
  BY NamespaceFacts DEF Settled
<1>2. \A p \in Pools : ~ EventPending(p)
  BY <1>1 DEF EventPending
<1> QED
  BY <1>1, <1>2 DEF WorkInv, Synced, Stirred, Pending, Reconciling, Leaving

(****************************************************************************)
(* While no pool name is used twice, the operator comes to rest with the    *)
(* oldest pool of a namespace active and every other valid pool Superseded: *)
(* whatever pools were created before or after it, edited or deleted, and   *)
(* however late their events, their patches and their retries came.  (A     *)
(* name that is used again can come to the cache as an older pool than it   *)
(* was reconciled as: that is what pool_recreate shows.)                    *)
(****************************************************************************)
THEOREM OldestIsActive == Spec /\ []Once => []SettledOldestIsActive
<1>1. ASSUME SteadyInv
      PROVE  SettledOldestIsActive
  <2> SUFFICES ASSUME Settled, NEW n \in Namespaces, NEW o \in Live(n),
                      \A q \in Live(n) \ {o} : api[o].created < api[q].created,
                      NEW p \in Live(n), validateDNSUpstreamPool(api[p].spec)
               PROVE  api[p].status.reason = "Superseded" <=> p # o
    BY DEF SettledOldestIsActive
  <2>1. /\ p \in Pools /\ NamespaceOf[p] = n /\ api[p] # None
        /\ o \in Pools /\ NamespaceOf[o] = n /\ api[o] # None
    BY DEF Live, PoolsIn
  <2>2. \A q \in Pools : cache[q] = api[q] /\ ~ Stirred(q) /\ ~ Reconciling(q) /\ ~ Leaving(q)
    BY <1>1, RestingCache DEF SteadyInv
  <2>3. HasStatus(p) /\ Truth(p, api[p].status)
    BY <1>1, <2>1, RestingStatus DEF SteadyInv
  <2>4. /\ Selected(api[p].status) => Eldest(p)
        /\ api[p].status.reason = "Superseded" => Elder(p)
    BY <1>1, <2>1, <2>2, <2>3 DEF SteadyInv, OrderInv, StatusInOrder, Resting
  <2>5. \A q \in Pools : api[q] # None => api[q].created \in Nat
    BY <1>1 DEF SteadyInv, TypeInv, TypeOK, PoolObjects
  <2>6. ASSUME api[p].status.reason = "Superseded" PROVE p # o
    <3>1. PICK q \in PoolsIn(n) \ {p} : cache[q] # None /\ cache[q].created <= api[p].created
      <4>1. w.pc = "idle"
        BY DEF Settled
      <4> QED
        BY <2>1, <2>2, <2>4, <2>6, <4>1 DEF Elder, Holding, PoolsIn
    <3>2. q \in Live(n) /\ q \in Pools /\ api[q].created <= api[p].created
      BY <2>2, <3>1 DEF Live, PoolsIn
    <3>3. api[q].created \in Nat /\ api[p].created \in Nat
      BY <2>1, <2>2, <2>5, <3>1, <3>2
    <3> QED
      BY <3>1, <3>2, <3>3
  <2>7. ASSUME p # o PROVE api[p].status.reason = "Superseded"
    <3>1. api[o].created < api[p].created /\ api[o].created \in Nat /\ api[p].created \in Nat
      BY <2>1, <2>5, <2>7
    <3>2. ~ Eldest(p)
      <4>1. CASE Eldest(p)
        <5>1. api[p].created <= api[o].created
          BY <2>1, <2>2, <4>1 DEF Eldest, PoolsIn
        <5> QED
          BY <3>1, <5>1
      <4> QED
        BY <4>1
    <3>3. api[p].status.reason # "InvalidSpec"
      BY <2>3 DEF Truth
    <3> QED
      BY <2>4, <3>2, <3>3 DEF Selected
  <2> QED
    BY <2>6, <2>7
<1> QED
  BY <1>1, SteadyAlways, PTL

-----------------------------------------------------------------------------
(****************************************************************************)
(* The gauge of the active pool.  The inductive invariant says that it      *)
(* names the eldest pool of the cache or a deletion is to be handled that   *)
(* will set it anew, and that it names a pool or the valid pools are yet to *)
(* be selected from.                                                        *)
(****************************************************************************)

(* The gauge names the eldest pool, or a pool is leaving and it will be set anew. *)
GaugeNamesEldest ==
    \A n \in Namespaces :
        metric[n] # None =>
            /\ metric[n] \in PoolsIn(n)
            /\ \/ cache[metric[n]] # None /\ Eldest(metric[n])
               \/ \E q \in PoolsIn(n) :
                     Leaving(q) \/ (w.del /\ w.req = q /\ w.pc = "list")

(* A valid pool is yet to be selected from, or the gauge names one. *)
GaugeIsSet ==
    \A p \in Pools :
        api[p] # None /\ validateDNSUpstreamPool(api[p].spec) =>
            \/ metric[NamespaceOf[p]] # None
            \/ Stirred(p)
            \/ Reconciling(p) /\ w.pc \in {"stamp", "select"}

GaugeInv == GaugeNamesEldest /\ GaugeIsSet

(* The steps that set the gauge. *)
LEMMA GaugeMoves ==
    ASSUME TypeInv, [Next]_vars, ~ Restart
    PROVE  \/ metric' = metric
           \/ Worker /\ (SelectActivePool \/ ListNone \/ ListRemaining)
<1>1. CASE Worker
  BY <1>1 DEF Worker, ensureInitialRVAnnotation, BuildConfig, UpsertConfigMap, ConfigMapWritten,
              ConfigMapNotWritten, RemoveConfigKey, ConfigKeyRemoved, ConfigKeyNotRemoved,
              setReadyCondition, PatchFails, ReadFails
<1> QED
  BY <1>1, Sides, Delivered, Started DEF Aside

(* The gauge goes on naming the eldest pool. *)
LEMMA GaugeNamesStep ==
    ASSUME TypeInv, TypeInv', OnceInv, GaugeNamesEldest, [Next]_vars
    PROVE  GaugeNamesEldest'
<1>1. metric \in [Namespaces -> Pools \cup {None}] /\ None \notin Pools
  BY ControllerAssumption DEF TypeInv, TypeOK
<1> SUFFICES ASSUME NEW n \in Namespaces, NEW m, m = metric'[n], m # None
             PROVE  /\ m \in PoolsIn(n)
                    /\ \/ cache'[m] # None /\ Eldest(m)'
                       \/ \E q \in PoolsIn(n) :
                             Leaving(q)' \/ (w'.del /\ w'.req = q /\ w'.pc = "list")
  BY DEF GaugeNamesEldest, PoolsIn, Eldest, Leaving
<1>2. ~ Restart
  BY <1>1 DEF Restart
<1>3. ASSUME NEW c \in Namespaces, NEW f \in FirstChoices(cache, Listed(c)),
             metric' = [metric EXCEPT ![c] = f], n = c, cache' = cache
      PROVE  m \in PoolsIn(n) /\ cache'[m] # None /\ Eldest(m)'
  <2>1. m = f
    BY <1>1, <1>3
  <2>2. f \in Pools /\ NamespaceOf[f] = c /\ cache[f] # None /\ Eldest(f)
    BY <1>3, FirstListed DEF OnceInv
  <2>3. Eldest(f)'
    BY <1>3, <2>2 DEF Eldest, PoolsIn
  <2> QED
    BY <1>3, <2>1, <2>2, <2>3 DEF PoolsIn
<1>4. ASSUME Worker, SelectActivePool \/ ListNone \/ ListRemaining
      PROVE  \/ m \in PoolsIn(n) /\ cache'[m] # None /\ Eldest(m)'
             \/ m = metric[n] /\ (w.pc = "list" => NamespaceOf[w.req] # n)
  <2>1. cache' = cache /\ w.req \in Pools /\ w.pc \in {"select", "list"}
    BY <1>4, WorkerMoves DEF TypeInv, Fits, SelectActivePool, ListNone, ListRemaining
  <2>2. PICK c \in Namespaces : c = NamespaceOf[w.req]
    BY <2>1, NamespaceFacts
  <2>3. CASE ListNone
    <3>1. metric' = [metric EXCEPT ![c] = None]
      BY <2>2, <2>3 DEF ListNone, clearActivePoolSelectionMetric
    <3> QED
      BY <1>1, <2>2, <3>1
  <2>4. CASE SelectActivePool
    <3>1. \/ metric' = metric
          \/ \E f \in FirstChoices(cache, Listed(c)) : metric' = [metric EXCEPT ![c] = f]
      BY <2>2, <2>4 DEF SelectActivePool, recordActivePoolSelectionMetric
    <3>2. w.pc = "select"
      BY <2>4 DEF SelectActivePool
    <3> QED
      BY <1>1, <1>3, <2>1, <3>1, <3>2
  <2>5. CASE ListRemaining
    <3>1. \E f \in FirstChoices(cache, Listed(c)) : metric' = [metric EXCEPT ![c] = f]
      BY <2>2, <2>5 DEF ListRemaining, recordActivePoolSelectionMetric
    <3> QED
      BY <1>1, <1>3, <2>1, <2>2, <3>1
  <2> QED
    BY <1>4, <2>3, <2>4, <2>5
<1>5. CASE m = metric[n] /\ ~ (Worker /\ (ListNone \/ ListRemaining) /\ NamespaceOf[w.req] = n)
  <2>1. /\ m \in PoolsIn(n) /\ m \in Pools
        /\ \/ cache[m] # None /\ Eldest(m)
           \/ \E q \in PoolsIn(n) : Leaving(q) \/ (w.del /\ w.req = q /\ w.pc = "list")
    BY <1>5 DEF GaugeNamesEldest, PoolsIn
  <2>2. CASE cache[m] # None /\ Eldest(m)
    <3>1. Eldest(m)'
      BY <1>2, <2>1, <2>2, EldestKept
    <3>2. cache'[m] = None => queue'[m] # "none"
      <4>1. CASE DeliverPool
        BY <2>1, <2>2, <4>1, Delivered
      <4> QED
        BY <1>2, <2>2, <4>1, CacheStays
    <3> QED
      BY <2>1, <3>1, <3>2 DEF Leaving
  <2>3. ASSUME NEW q \in PoolsIn(n), Leaving(q)
        PROVE  Leaving(q)' \/ (w'.del /\ w'.req = q /\ w'.pc = "list")
    BY <1>2, <2>3, LeavingKept DEF PoolsIn
  <2>4. ASSUME NEW q \in PoolsIn(n), w.del, w.req = q, w.pc = "list"
        PROVE  Leaving(q)' \/ (w'.del /\ w'.req = q /\ w'.pc = "list")
    <3>1. CASE w' = w
      BY <2>4, <3>1
    <3>2. CASE Worker
      <4>1. cache' = cache /\ (ReturnError \/ Finishes \/ Reports \/ Proceeds)
        BY <3>2, WorkerMoves
      <4>2. cache[q] = None /\ q \in Pools /\ NamespaceOf[w.req] = n
        BY <2>4 DEF OnceInv, DeletedIsGone, PoolsIn
      <4>3. ~ Finishes /\ ~ Reports /\ ~ Proceeds
        <5>1. ~ ListNone /\ ~ ListRemaining
          BY <1>5, <3>2, <4>2
        <5> QED
          BY <2>4, <5>1 DEF Finishes, Reports, Proceeds, SelectActivePool, Publishing
      <4>4. queue'[q] # "none"
        BY <2>4, <4>1, <4>3, Returned DEF ReturnError, Results
      <4> QED
        BY <4>1, <4>2, <4>4 DEF Leaving
    <3>3. ASSUME NEW r \in Pools PROVE ~ Start(r)
      BY <2>4, Started
    <3> QED
      BY <1>2, <3>1, <3>2, <3>3, Sides, Delivered DEF Aside
  <2> QED
    BY <2>1, <2>2, <2>3, <2>4
<1>6. CASE metric' = metric /\ ~ (Worker /\ (SelectActivePool \/ ListNone \/ ListRemaining))
  BY <1>5, <1>6
<1>7. CASE Worker /\ (SelectActivePool \/ ListNone \/ ListRemaining)
  <2>1. ListNone \/ ListRemaining => w.pc = "list"
    BY DEF ListNone, ListRemaining
  <2> QED
    BY <1>4, <1>5, <1>7, <2>1
<1> QED
  BY <1>2, <1>6, <1>7, GaugeMoves

(* The gauge stays set. *)
LEMMA GaugeSetStep ==
    ASSUME TypeInv, TypeInv', WorkInv, TruthInv', GaugeIsSet, [Next]_vars
    PROVE  GaugeIsSet'
<1>0. metric \in [Namespaces -> Pools \cup {None}] /\ None \notin Pools
  BY ControllerAssumption DEF TypeInv, TypeOK
<1> SUFFICES ASSUME NEW p \in Pools, api'[p] # None, validateDNSUpstreamPool(api'[p].spec),
                    ~ Stirred(p)', ~ (Reconciling(p)' /\ w'.pc \in {"stamp", "select"}),
                    NEW n \in Namespaces, n = NamespaceOf[p], metric'[n] = None
             PROVE  FALSE
  BY NamespaceFacts DEF GaugeIsSet
<1>1. ~ Restart
  <2>1. CASE Restart
    <3>1. api'[p] # None /\ api' = api /\ queue'[p] = "none"
      BY <2>1, Restarted DEF Stirred, Pending
    <3> QED
      BY <2>1, <3>1, Restarted
  <2> QED
    BY <2>1
<1>2. ASSUME NEW r \in Pools, Start(r) PROVE FALSE
  <2>1. /\ w.pc = "idle" /\ queue' = [queue EXCEPT ![r] = "none"]
        /\ w'.req = r /\ w'.pc # "idle"
        /\ UNCHANGED <<api, poolWatch, cache, profWatch, metric>>
        /\ cache[r] # None => /\ ~ w'.del /\ w'.pc \in {"stamp", "select", "status"}
                              /\ w'.pc = "status" => ~ validateDNSUpstreamPool(cache[r].spec)
    BY <1>2, Started
  <2>2. ~ EventPending(p)
    BY <2>1 DEF Stirred, Pending, EventPending
  <2>3. cache[p] = api[p] /\ api[p] # None
    BY <2>1, <2>2 DEF WorkInv, Synced
  <2>4. p # r
    BY <2>1, <2>3 DEF Reconciling
  <2>5. queue'[p] = queue[p]
    BY <2>1, <2>4 DEF TypeInv, TypeOK
  <2>6. ~ Stirred(p)
    BY <2>1, <2>2, <2>5 DEF Stirred, Pending
  <2> QED
    BY <2>1, <2>3, <2>6 DEF GaugeIsSet
<1>3. Calm
  BY <1>1, <1>2, CalmStep
<1>4. api'[p] = api[p] /\ ~ Stirred(p)
  BY <1>3 DEF Calm
<1>5. cache[p] = api[p] /\ api[p] # None
  BY <1>4 DEF WorkInv, Synced, Stirred, Pending
<1>6. p \in Listed(n)
  BY <1>5 DEF Listed, PoolsIn
<1>7. ASSUME Worker, SelectActivePool \/ ListNone \/ ListRemaining
      PROVE  metric'[n] = metric[n] /\ (w.pc = "select" => NamespaceOf[w.req] # n)
  <2>1. w.req \in Pools
    BY <1>7, WorkerMoves DEF TypeInv, Fits
  <2>2. PICK c \in Namespaces : c = NamespaceOf[w.req]
    BY <2>1, NamespaceFacts
  <2>3. CASE ListNone
    <3>1. metric' = [metric EXCEPT ![c] = None] /\ Listed(c) = {} /\ w.pc = "list"
      BY <2>2, <2>3 DEF ListNone, clearActivePoolSelectionMetric
    <3> QED
      BY <1>0, <1>6, <3>1
  <2>4. CASE SelectActivePool \/ ListRemaining
    <3>1. \/ Listed(c) = {} /\ metric' = metric
          \/ \E f \in FirstChoices(cache, Listed(c)) : metric' = [metric EXCEPT ![c] = f]
      BY <2>2, <2>4 DEF SelectActivePool, ListRemaining, recordActivePoolSelectionMetric
    <3>2. \A f \in FirstChoices(cache, Listed(c)) : f \in Pools
      BY DEF FirstChoices, Listed, PoolsIn
    <3>3. c # n
      BY <1>0, <1>6, <3>1, <3>2
    <3> QED
      BY <1>0, <2>2, <3>1, <3>3
  <2> QED
    BY <1>7, <2>3, <2>4
<1>8. metric[n] = None
  BY <1>1, <1>7, GaugeMoves
<1>9. Reconciling(p) /\ w.pc \in {"stamp", "select"}
  BY <1>4, <1>5, <1>8 DEF GaugeIsSet
<1>10. Worker
  <2>1. w' # w
    BY <1>9 DEF Reconciling
  <2> QED
    BY <1>1, <1>2, <2>1, Sides, Delivered DEF Aside
<1>11. w.pc # "idle" /\ w.req = p /\ ~ w.del /\ queue'[p] = "none"
  BY <1>9 DEF Reconciling, Stirred, Pending
<1>12. ~ ReturnError
  BY <1>11, Returned DEF ReturnError, Results
<1>13. Proceeds /\ ~ SelectActivePool
  BY <1>7, <1>9, <1>10, <1>11, <1>12, WorkerMoves DEF Finishes, Reports, SelectActivePool
<1>14. /\ w.pc = "stamp" /\ w'.pc \in {"select", "status"} /\ w'.pc # "idle"
       /\ w'.req = p /\ w'.del = w.del
       /\ w'.pc = "status" => w'.verdict = NotReady("InvalidSpec", None) /\ w'.result = "none"
  BY <1>9, <1>11, <1>13 DEF Proceeds, Publishing, ListNone, ListRemaining
<1>15. w'.pc = "status" /\ ~ w'.del
  BY <1>11, <1>14 DEF Reconciling
<1>16. (w.pc = "status" /\ ~ w.del =>
          Stirred(w.req) \/ Truth(w.req, w.verdict) \/ w.result # "none")'
  BY DEF TruthInv, Honest
<1>17. Truth(p, NotReady("InvalidSpec", None))'
  BY <1>14, <1>15, <1>16
<1>18. ~ validateDNSUpstreamPool(api'[p].spec)
  BY <1>17 DEF Truth, NotReady
<1> QED
  BY <1>18

(****************************************************************************)
(* While no pool name is used twice, the operator comes to rest with the    *)
(* gauge on the oldest pool of each namespace that has a valid pool, and on *)
(* no deleted or younger one: every deletion, also one whose list failed,   *)
(* sets it anew (recordActivePoolSelectionMetric and its clearing).  That   *)
(* no name is used twice is what keeps the eldest pool of the cache the     *)
(* eldest, which the proof rests on.                                        *)
(****************************************************************************)
THEOREM MetricIsTrue == Spec /\ []Once => []SettledMetricIsTrue
<1>1. Init => GaugeInv
  BY DEF Init, GaugeInv, GaugeNamesEldest, GaugeIsSet
<1>2. ASSUME SteadyInv, SteadyInv', GaugeInv, [Next]_vars
      PROVE  GaugeInv'
  BY <1>2, GaugeNamesStep, GaugeSetStep DEF SteadyInv, GaugeInv
<1>3. ASSUME SteadyInv, GaugeInv
      PROVE  SettledMetricIsTrue
  <2> SUFFICES ASSUME Settled, NEW n \in Namespaces
               PROVE  /\ metric[n] # None =>
                           /\ metric[n] \in Live(n)
                           /\ \A q \in Live(n) : api[metric[n]].created <= api[q].created
                      /\ (\E p \in Live(n) : validateDNSUpstreamPool(api[p].spec)) => metric[n] # None
    BY DEF SettledMetricIsTrue
  <2>1. \A q \in Pools : cache[q] = api[q] /\ ~ Stirred(q) /\ ~ Reconciling(q) /\ ~ Leaving(q)
    BY <1>3, RestingCache DEF SteadyInv
  <2>2. ASSUME metric[n] # None
        PROVE  /\ metric[n] \in Live(n)
               /\ \A q \in Live(n) : api[metric[n]].created <= api[q].created
    <3>1. w.pc = "idle"
      BY DEF Settled
    <3>2. metric[n] \in PoolsIn(n) /\ cache[metric[n]] # None /\ Eldest(metric[n])
      BY <1>3, <2>1, <2>2, <3>1 DEF GaugeInv, GaugeNamesEldest, PoolsIn
    <3> QED
      BY <2>1, <3>2 DEF Eldest, Live, PoolsIn
  <2>3. ASSUME NEW p \in Live(n), validateDNSUpstreamPool(api[p].spec)
        PROVE  metric[n] # None
    BY <1>3, <2>1, <2>3 DEF GaugeInv, GaugeIsSet, Live, PoolsIn
  <2> QED
    BY <2>2, <2>3
<1> QED
  BY <1>1, <1>2, <1>3, SteadyAlways, PTL DEF Spec

-----------------------------------------------------------------------------
(****************************************************************************)
(* The ConfigMaps.  The inductive invariant KeyInv says that a stored       *)
(* configuration has a pool whose deletion is yet to be handled to the end. *)
(****************************************************************************)

(* The cached ConfigMaps and the events on their way add up to what is stored. *)
ConfigMapsSynced ==
    \A c \in ConfigNamespaces :
        /\ cmWatch[c] = <<>> => cmCache[c] = configMap[c]
        /\ cmWatch[c] # <<>> => cmWatch[c][Len(cmWatch[c])] = configMap[c]

(* A stored configuration has a pool that is cached, queued or being handled. *)
KeyIsKept ==
    \A n \in Namespaces :
        configMap[operatorNamespace(n)] \notin {None, NoKey} =>
            \E p \in PoolsIn(n) :
                \/ cache[p] # None
                \/ queue[p] # "none"
                \/ w.req = p /\ w.pc \in {"list", "remove", "removeWrite"}

KeyInv == ConfigMapsSynced /\ AtHand /\ (PodNamespace = None => KeyIsKept)

(* The operator was not restarted. *)
Unbroken == restarts = 0

(* What a step does to the ConfigMaps. *)
LEMMA ConfigMapMoves ==
    ASSUME TypeInv, [Next]_vars
    PROVE  \/ UNCHANGED <<configMap, cmCache, cmWatch>>
           \/ Restart
           \/ \E c \in ConfigNamespaces : DeliverConfigMap(c)
           \/ /\ Worker /\ w.pc = "write" /\ w.cfg \in Configs /\ cmCache' = cmCache
              /\ ConfigNamespace \in ConfigNamespaces
              /\ StoreConfigMap(ConfigNamespace, w.cfg)
           \/ /\ Worker /\ w.pc = "removeWrite" /\ cmCache' = cmCache
              /\ ConfigNamespace \in ConfigNamespaces
              /\ StoreConfigMap(ConfigNamespace, NoKey)
<1> USE DEF environmentVars, userVars, seenVars, configMapVars
<1>1. CASE Worker
  <2>1. ConfigNamespace \in ConfigNamespaces
    BY <1>1, WorkerMoves, RequestFacts DEF TypeInv, Fits
  <2>2. CASE ConfigMapWritten \/ ConfigMapNotWritten
    BY <1>1, <2>1, <2>2 DEF ConfigMapWritten, ConfigMapNotWritten, TypeInv, Fits
  <2>3. CASE ConfigKeyRemoved \/ ConfigKeyNotRemoved
    BY <1>1, <2>1, <2>3 DEF ConfigKeyRemoved, ConfigKeyNotRemoved
  <2>4. CASE ~ (ConfigMapWritten \/ ConfigMapNotWritten) /\ ~ (ConfigKeyRemoved \/ ConfigKeyNotRemoved)
    BY <1>1, <2>4 DEF Worker, ensureInitialRVAnnotation, SelectActivePool, ListNone,
                ListRemaining, BuildConfig, UpsertConfigMap, RemoveConfigKey,
                setReadyCondition, PatchFails, ReadFails
  <2> QED
    BY <2>2, <2>3, <2>4
<1>2. CASE Users
  BY <1>2 DEF Users, CreatePool, EditPool, DeletePool, SetProfile
<1>3. CASE Deliver
  BY <1>3 DEF Deliver, DeliverPool, DeliverProfile
<1>4. CASE Timers \/ \E p \in Pools : Start(p) \/ GetFails(p)
  BY <1>4 DEF Timers, DelayOver, CircuitWindowPasses, Start, ReconcilePool, ReconcileDeletion, GetFails
<1>5. CASE UNCHANGED vars
  BY <1>5 DEF vars
<1> QED
  BY <1>1, <1>2, <1>3, <1>4, <1>5 DEF Next

(* A store keeps the ConfigMaps in step with their events. *)
LEMMA StoreSynced ==
    ASSUME TypeOK, ConfigMapsSynced, NEW c \in ConfigNamespaces, NEW v \in ConfigMapStates,
           StoreConfigMap(c, v), cmCache' = cmCache
    PROVE  ConfigMapsSynced'
<1> DEFINE s == cmWatch[c]
<1>1. /\ s \in Seq(ConfigMapStates)
      /\ configMap' = [configMap EXCEPT ![c] = v]
      /\ cmWatch' = IF v = configMap[c] THEN cmWatch ELSE [cmWatch EXCEPT ![c] = Append(s, v)]
  BY DEF StoreConfigMap, TypeOK
<1>2. CASE v = configMap[c]
  <2>1. cmWatch' = cmWatch /\ \A d \in ConfigNamespaces : configMap'[d] = configMap[d]
    BY <1>1, <1>2 DEF TypeOK
  <2> QED
    BY <2>1 DEF ConfigMapsSynced
<1>3. CASE v # configMap[c]
  <2>1. /\ configMap'[c] = v /\ cmWatch'[c] = Append(s, v)
        /\ \A d \in ConfigNamespaces : d # c => configMap'[d] = configMap[d] /\ cmWatch'[d] = cmWatch[d]
    BY <1>1, <1>3 DEF TypeOK
  <2>2. Append(s, v) # <<>> /\ Append(s, v)[Len(Append(s, v))] = v
    BY <1>1
  <2> HIDE DEF s
  <2> QED
    BY <2>1, <2>2 DEF ConfigMapsSynced
<1> QED
  BY <1>2, <1>3

LEMMA ConfigMapsSyncedStep ==
    ASSUME TypeInv, ConfigMapsSynced, [Next]_vars
    PROVE  ConfigMapsSynced'
<1>1. CASE UNCHANGED <<configMap, cmCache, cmWatch>>
  BY <1>1 DEF ConfigMapsSynced
<1>2. CASE Restart
  <2>1. cmCache' = configMap /\ configMap' = configMap /\ \A c \in ConfigNamespaces : cmWatch'[c] = <<>>
    BY <1>2 DEF Restart, configMapVars
  <2> QED
    BY <2>1 DEF ConfigMapsSynced
<1>3. ASSUME NEW c \in ConfigNamespaces, DeliverConfigMap(c)
      PROVE  ConfigMapsSynced'
  <2> DEFINE s == cmWatch[c]
  <2>1. /\ s \in Seq(ConfigMapStates) /\ s # <<>>
        /\ configMap' = configMap
        /\ cmCache' = [cmCache EXCEPT ![c] = Head(s)]
        /\ cmWatch' = [cmWatch EXCEPT ![c] = Tail(s)]
        /\ s[Len(s)] = configMap[c]
    BY <1>3 DEF DeliverConfigMap, TypeInv, TypeOK, ConfigMapsSynced
  <2>2. /\ cmWatch'[c] = Tail(s) /\ cmCache'[c] = Head(s)
        /\ \A d \in ConfigNamespaces : d # c => cmWatch'[d] = cmWatch[d] /\ cmCache'[d] = cmCache[d]
    BY <2>1 DEF TypeInv, TypeOK
  <2> HIDE DEF s
  <2>3. /\ Tail(s) = <<>> => Head(s) = s[Len(s)]
        /\ Tail(s) # <<>> => Tail(s)[Len(Tail(s))] = s[Len(s)]
    BY <2>1, TailLast
  <2> QED
    BY <2>1, <2>2, <2>3 DEF ConfigMapsSynced
<1>4. ASSUME NEW c \in ConfigNamespaces, NEW v \in ConfigMapStates, StoreConfigMap(c, v), cmCache' = cmCache
      PROVE  ConfigMapsSynced'
  BY <1>4, StoreSynced DEF TypeInv
<1>5. \A v \in Configs \cup {NoKey} : v \in ConfigMapStates
  BY DEF ConfigMapStates
<1> QED
  BY <1>1, <1>2, <1>3, <1>4, <1>5, ConfigMapMoves

(* Without lag, what the worker reads of a ConfigMap is what is stored. *)
LEMMA ReadsLatest ==
    ASSUME ConfigMapLag = FALSE, ConfigMapsSynced, NEW c \in ConfigNamespaces, Readable(c)
    PROVE  cmCache[c] = configMap[c]
BY DEF ConfigMapsSynced, Readable

(* The stored configurations keep a pool. *)
LEMMA KeyStep ==
    ASSUME ConfigMapLag = FALSE, PodNamespace = None, TypeInv, TypeInv', ConfigMapsSynced, AtHand,
           KeyIsKept, [Next]_vars, ~ Restart
    PROVE  KeyIsKept'
<1>1. \A n : operatorNamespace(n) = n
  BY DEF operatorNamespace
<1>2. configMap \in [ConfigNamespaces -> ConfigMapStates] /\ \A n \in Namespaces : n \in ConfigNamespaces
  BY <1>1 DEF TypeInv, TypeOK, ConfigNamespaces
<1> SUFFICES ASSUME NEW n \in Namespaces, configMap'[n] \notin {None, NoKey}
             PROVE  \E p \in PoolsIn(n) :
                       \/ cache'[p] # None
                       \/ queue'[p] # "none"
                       \/ w'.req = p /\ w'.pc \in {"list", "remove", "removeWrite"}
  BY <1>1 DEF KeyIsKept, PoolsIn
<1>3. ASSUME NEW p \in PoolsIn(n), cache[p] # None \/ queue[p] # "none"
      PROVE  \/ cache'[p] # None
             \/ queue'[p] # "none"
             \/ w'.req = p /\ w'.pc \in {"list", "remove", "removeWrite"}
  <2>1. p \in Pools
    BY <1>3 DEF PoolsIn
  <2>2. CASE DeliverPool
    BY <1>3, <2>1, <2>2, Delivered
  <2>3. ASSUME NEW r \in Pools, Start(r)
        PROVE  cache'[p] # None \/ queue'[p] # "none" \/ (w'.req = p /\ w'.pc = "list")
    <3>1. queue' = [queue EXCEPT ![r] = "none"] /\ queue \in [Pools -> Results] /\ cache' = cache
      BY <2>3, Started DEF TypeInv, TypeOK
    <3>2. CASE r = p
      BY <2>3, <3>1, <3>2, Started
    <3>3. CASE r # p
      BY <1>3, <2>1, <3>1, <3>3
    <3> QED
      BY <3>2, <3>3
  <2>4. CASE Worker
    BY <1>3, <2>1, <2>4, QueueKept, WorkerMoves
  <2>5. CASE Aside
    BY <1>3, <2>1, <2>5 DEF Aside
  <2> QED
    BY <2>2, <2>3, <2>4, <2>5, Sides
<1>4. CASE configMap[n] \in {None, NoKey}
  <2>1. Worker /\ w.pc = "write" /\ ConfigNamespace = n
    <3>1. configMap' # configMap
      BY <1>4
    <3>2. /\ Worker /\ w.pc \in {"write", "removeWrite"} /\ ConfigNamespace \in ConfigNamespaces
          /\ \/ w.pc = "write" /\ configMap' = [configMap EXCEPT ![ConfigNamespace] = w.cfg]
             \/ configMap' = [configMap EXCEPT ![ConfigNamespace] = NoKey]
      BY <3>1, ConfigMapMoves DEF StoreConfigMap, DeliverConfigMap
    <3> QED
      BY <1>2, <1>4, <3>2
  <2>2. w.pc \in Holding /\ NamespaceOf[w.req] = n
    BY <1>1, <2>1 DEF Holding, ConfigNamespace
  <2>3. /\ w.target \in PoolsIn(n)
        /\ cache[w.target] # None \/ queue[w.target] # "none"
    BY <2>2 DEF AtHand, TypeInv, Fits, PoolsIn
  <2> QED
    BY <1>3, <2>3
<1>5. CASE configMap[n] \notin {None, NoKey}
  <2>1. PICK p \in PoolsIn(n) :
             \/ cache[p] # None
             \/ queue[p] # "none"
             \/ w.req = p /\ w.pc \in {"list", "remove", "removeWrite"}
    BY <1>1, <1>5 DEF KeyIsKept
  <2>2. p \in Pools /\ NamespaceOf[p] = n
    BY <2>1 DEF PoolsIn
  <2>3. CASE cache[p] # None \/ queue[p] # "none"
    BY <1>3, <2>3
  <2>4. CASE w.req = p /\ w.pc \in {"list", "remove", "removeWrite"}
    <3>1. CASE w' = w
      BY <2>4, <3>1
    <3>2. ASSUME NEW r \in Pools PROVE ~ Start(r)
      BY <2>4, Started
    <3>3. CASE Worker
      <4>1. w.pc # "idle" /\ (ReturnError \/ Finishes \/ Reports \/ Proceeds)
        BY <3>3, WorkerMoves
      <4>2. ConfigNamespace = n
        BY <1>1, <2>2, <2>4 DEF ConfigNamespace
      <4>3. CASE ReturnError
        <5>1. queue'[p] # "none"
          BY <2>4, <4>1, <4>3, Returned DEF ReturnError, Results
        <5> QED
          BY <5>1
      <4>4. CASE ListRemaining
        <5>1. PICK f : f \in Listed(n)
          BY <2>2, <2>4, <4>4 DEF ListRemaining, FirstChoices
        <5> QED
          BY <1>3, <5>1 DEF Listed
      <4>5. CASE Proceeds /\ ~ ListRemaining
        <5>1. ListNone => w'.pc = "remove"
          BY DEF ListNone, TypeInv, Fits, Workers
        <5>2. w'.req = p /\ w'.pc \in {"remove", "removeWrite"}
          BY <2>4, <4>5, <5>1 DEF Proceeds, SelectActivePool, Publishing
        <5> QED
          BY <5>2
      <4>6. ~ Reports
        BY <2>4 DEF Reports
      <4>7. CASE Finishes /\ ~ ReturnError
        <5>1. w.pc \in {"remove", "removeWrite"} /\ Return("none") /\ w' = Idle
          BY <4>7 DEF Finishes, Return
        <5>2. CASE w.pc = "remove"
          <6>1. RemoveConfigKey
            BY <3>3, <4>7, <5>2 DEF Worker, ensureInitialRVAnnotation, SelectActivePool, ListNone,
               ListRemaining, BuildConfig, UpsertConfigMap, ConfigMapWritten, ConfigMapNotWritten,
               ConfigKeyRemoved, ConfigKeyNotRemoved, setReadyCondition, PatchFails, ReadFails
          <6>2. Readable(n) /\ cmCache[n] \in {None, NoKey}
            <7>1. ASSUME NEW b, w' = [w EXCEPT !.pc = "removeWrite", !.stale = b] PROVE FALSE
              <8>1. w'.pc = "removeWrite"
                BY <7>1 DEF Workers, TypeInv, Fits
              <8>2. Idle.pc = "idle"
                BY DEF Idle
              <8> QED
                BY <5>1, <8>1, <8>2
            <7> QED
              BY <4>2, <6>1, <7>1 DEF RemoveConfigKey
          <6> QED
            BY <1>2, <1>5, <6>2, ReadsLatest
        <5>3. CASE w.pc = "removeWrite"
          <6>1. ConfigKeyRemoved
            BY <3>3, <4>7, <5>3 DEF Worker, ensureInitialRVAnnotation, SelectActivePool, ListNone,
               ListRemaining, BuildConfig, UpsertConfigMap, ConfigMapWritten, ConfigMapNotWritten,
               RemoveConfigKey, ConfigKeyNotRemoved, setReadyCondition, PatchFails, ReadFails
          <6>2. configMap'[n] = NoKey
            BY <1>2, <4>2, <6>1 DEF ConfigKeyRemoved, StoreConfigMap
          <6> QED
            BY <6>2
        <5> QED
          BY <5>1, <5>2, <5>3
      <4> QED
        BY <4>1, <4>3, <4>4, <4>5, <4>6, <4>7
    <3> QED
      BY <2>1, <3>1, <3>2, <3>3, Sides, Delivered DEF Aside
  <2> QED
    BY <2>1, <2>3, <2>4
<1> QED
  BY <1>4, <1>5

(****************************************************************************)
(* While the operator is not restarted and reads its ConfigMaps without     *)
(* lag, it comes to rest with no configuration for a namespace that has no  *)
(* pool: the deletion of the last pool is handled until its key is removed, *)
(* through failed lists, failed removals and pools that come and go         *)
(* meanwhile.  (After a restart nobody handles a deletion that came before  *)
(* it, and a lagging ConfigMap hides the key from removeConfigKey.)         *)
(****************************************************************************)
THEOREM NoPoolNoKey ==
    ASSUME ConfigMapLag = FALSE
    PROVE  Spec /\ []Unbroken => []SettledNoPoolNoKey
<1>1. Init => KeyInv
  <2> SUFFICES ASSUME Init PROVE KeyInv
    OBVIOUS
  <2>1. /\ w = Idle /\ cmCache = configMap
        /\ \A c \in ConfigNamespaces : cmWatch[c] = <<>> /\ configMap[c] = None
    BY DEF Init
  <2>2. AtHand
    BY <2>1 DEF AtHand, Idle, Holding
  <2>3. ConfigMapsSynced /\ KeyIsKept
    BY <2>1 DEF ConfigMapsSynced, KeyIsKept, ConfigNamespaces
  <2> QED
    BY <2>2, <2>3 DEF KeyInv
<1>2. ASSUME TypeInv, TypeInv', KeyInv, Unbroken, Unbroken', [Next]_vars
      PROVE  KeyInv'
  <2>1. ~ Restart
    BY <1>2 DEF Unbroken, Restart
  <2>2. ConfigMapsSynced' /\ AtHand'
    BY <1>2, ConfigMapsSyncedStep, AtHandStep DEF KeyInv
  <2>3. PodNamespace = None => KeyIsKept'
    BY <1>2, <2>1, KeyStep DEF KeyInv
  <2> QED
    BY <2>2, <2>3 DEF KeyInv
<1>3. ASSUME WorkInv, KeyInv
      PROVE  SettledNoPoolNoKey
  <2> SUFFICES ASSUME Settled, PodNamespace = None, NEW n \in Namespaces, Live(n) = {},
                      configMap[operatorNamespace(n)] \notin {None, NoKey}
               PROVE  FALSE
    BY DEF SettledNoPoolNoKey
  <2>1. w.pc = "idle" /\ \A p \in Pools : queue[p] = "none"
    BY DEF Settled
  <2>2. PICK p \in PoolsIn(n) : cache[p] # None
    BY <1>3, <2>1 DEF KeyInv, KeyIsKept, PoolsIn
  <2>3. cache[p] = api[p] /\ p \in Pools
    BY <1>3, <2>2, RestingCache DEF PoolsIn
  <2> QED
    BY <2>2, <2>3 DEF Live
<1> QED
  BY <1>1, <1>2, <1>3, TruthAlways, PTL DEF Spec

-----------------------------------------------------------------------------
(****************************************************************************)
(* What is served.  The inductive invariant ServedInv says that the         *)
(* ConfigMap holds what a Ready pool that rests asks for, or a deletion is  *)
(* to be handled that will publish the pool anew or take Ready from it.     *)
(****************************************************************************)

(* No two pools were created in one second. *)
DifferentSeconds ==
    \A p, q \in Pools : p # q =>
        \A x \in Copies(p), y \in Copies(q) : x.created # y.created

(* Where the key is being removed, every pool will be looked at. *)
RemovalStirs ==
    w.pc \in {"remove", "removeWrite"} =>
        \A p \in PoolsIn(NamespaceOf[w.req]) : api[p] # None => Pending(p)

(* A pool has left, and the worker will publish p anew or take Ready from it. *)
Amends(p) ==
    \E q \in PoolsIn(NamespaceOf[p]) \ {p} :
        \/ Leaving(q)
        \/ /\ w.del /\ w.req = q
           /\ \/ w.pc = "list"
              \/ /\ w.target = p
                 /\ \/ w.pc \in Publishing
                    \/ w.pc = "status" /\ ~ w.verdict.ready

Served(p) == configMap[operatorNamespace(NamespaceOf[p])] = Wanted(p)

ReadyServed ==
    \A p \in Pools :
        Resting(p) /\ api[p].status.ready => Served(p) \/ Amends(p)

(* The worker x publishes what its pool asks for, and says Ready of what is served. *)
Serving(x) ==
    /\ x.pc \in {"upsert", "write"} => Stirred(x.target) \/ x.cfg = Wanted(x.target)
    /\ x.pc = "status" /\ ~ x.del /\ x.verdict.ready => Stirred(x.req) \/ Served(x.req)

ServedInv == DifferentSeconds /\ RemovalStirs /\ ReadyServed /\ Serving(w)

(* No two namespaces share a ConfigMap. *)
OwnConfigMaps ==
    \A m, n \in Namespaces : operatorNamespace(m) = operatorNamespace(n) => m = n

(* If time passes between two creations, the pools stay of different seconds. *)
LEMMA SecondsStep ==
    ASSUME 0 \notin Gaps, TypeInv, TypeInv', Once', OneLife, UnbornUnknown, DifferentSeconds,
           [Next]_vars
    PROVE  DifferentSeconds'
<1>1. \A q \in Pools : Copies(q) \subseteq PoolObjects
  BY CopiesType
<1>2. \A x \in PoolObjects : x.created \in Nat
  BY DEF PoolObjects
<1>3. ASSUME \A q \in Pools : Copies(q)' \subseteq Copies(q)
      PROVE  DifferentSeconds'
  BY <1>3 DEF DifferentSeconds
<1>4. CASE Quiet
  BY <1>3, <1>4 DEF Quiet, Copies
<1>5. CASE DeliverPool
  BY <1>3, <1>5, Delivered
<1>6. CASE Restart
  BY <1>3, <1>6, Restarted
<1>7. ASSUME NEW p \in Pools, NEW n \in PoolObjects \cup {None}, Births(p, n)
      PROVE  DifferentSeconds'
  <2>1. Copies(p) = {} /\ now' \in Nat /\ now \in Nat
    BY <1>7, BornOnce
  <2>2. /\ \A q \in Pools : Copies(q)' \subseteq Copies(q) \cup (IF q = p THEN {n} ELSE {})
        /\ n.created = now'
    BY <1>7, WrittenEvents DEF Births
  <2>3. Copies(p)' \subseteq {n} /\ \A q \in Pools : q # p => Copies(q)' \subseteq Copies(q)
    BY <2>1, <2>2
  <2>4. now < now'
    <3>1. PICK gap \in Gaps : now' = now + gap
      BY <1>7 DEF Births
    <3>2. gap \in Nat /\ gap # 0
      BY ControllerAssumption
    <3> QED
      BY <2>1, <3>1, <3>2
  <2>5. ASSUME NEW q \in Pools, q # p, NEW x \in Copies(q)'
        PROVE  x.created # n.created
    <3>1. x \in Copies(q) /\ x.created \in Nat
      BY <1>1, <1>2, <2>3, <2>5
    <3>2. x.created <= now
      BY <3>1 DEF OneLife
    <3> QED
      BY <2>1, <2>2, <2>4, <3>1, <3>2
  <2> SUFFICES ASSUME NEW q \in Pools, NEW r \in Pools, q # r, NEW x \in Copies(q)', NEW y \in Copies(r)'
               PROVE  x.created # y.created
    BY DEF DifferentSeconds
  <2>6. CASE q = p
    BY <2>3, <2>5, <2>6
  <2>7. CASE r = p
    BY <2>3, <2>5, <2>7
  <2>8. CASE q # p /\ r # p
    BY <2>3, <2>8 DEF DifferentSeconds
  <2> QED
    BY <2>6, <2>7, <2>8
<1>8. ASSUME NEW p \in Pools, NEW n \in PoolObjects \cup {None}, Changes(p, n)
      PROVE  DifferentSeconds'
  <2>1. /\ \A q \in Pools : Copies(q)' \subseteq Copies(q) \cup (IF q = p THEN {n} ELSE {})
        /\ n # None => n.created = api[p].created
        /\ api[p] \in Copies(p)
    BY <1>8, WrittenEvents DEF Changes, Copies
  <2>2. None \notin Copies(p)'
    BY DEF Copies
  <2>3. ASSUME NEW q \in Pools, NEW x \in Copies(q)'
        PROVE  \E z \in Copies(q) : x.created = z.created
    BY <2>1, <2>2, <2>3
  <2> QED
    BY <2>3 DEF DifferentSeconds
<1> QED
  BY <1>4, <1>5, <1>6, <1>7, <1>8, StepKinds

(* While the key is being removed, the pools that come are looked at. *)
LEMMA RemovalStep ==
    ASSUME TypeInv, TypeInv', WorkInv, RemovalStirs, [Next]_vars
    PROVE  RemovalStirs'
<1> SUFFICES ASSUME w'.pc \in {"remove", "removeWrite"}
             PROVE  \A p \in PoolsIn(NamespaceOf[w'.req]) : api'[p] # None => Pending(p)'
  BY DEF RemovalStirs, PoolsIn
<1>1. ~ Restart
  BY Restarted DEF Idle
<1>2. ASSUME NEW p \in Pools PROVE ~ Start(p)
  BY Started
<1>3. CASE UNCHANGED vars
  BY <1>3 DEF vars, apiVars, RemovalStirs, Pending, EventPending, PoolsIn
<1>4. CASE ~ UNCHANGED vars
  <2>1. Kept
    BY <1>1, <1>2, <1>4, StepKept DEF Next
  <2>2. ASSUME w'.req = w.req, w.pc \in {"remove", "removeWrite"},
               NEW p \in PoolsIn(NamespaceOf[w'.req]), api'[p] # None
        PROVE  Pending(p)'
    <3>1. p \in Pools /\ p \in PoolsIn(NamespaceOf[w.req])
      BY <2>2 DEF PoolsIn
    <3> QED
      BY <2>1, <2>2, <3>1 DEF Kept, RemovalStirs
  <2>3. CASE w' = w
    BY <2>2, <2>3
  <2>4. CASE Worker
    <3>1. Idle.pc = "idle"
      BY DEF Idle
    <3>2. Proceeds
      BY <2>4, <3>1, WorkerMoves DEF ReturnError, Finishes, Reports, Return
    <3>3. w \in Workers
      BY DEF TypeInv, Fits
    <3>4. ~ SelectActivePool /\ ~ ListRemaining
      <4>1. [w EXCEPT !.pc = "build"].pc = "build"
        BY <3>3 DEF Workers
      <4>2. \A v, r : SetStatus(w, v, r).pc = "status"
        BY <3>3 DEF Workers, SetStatus
      <4>3. \A f, o : [w EXCEPT !.pc = "build", !.target = f, !.obj = o].pc = "build"
        BY <3>3 DEF Workers
      <4>4. CASE SelectActivePool
        <5>1. w'.pc = "build" \/ w'.pc = "status"
          BY <4>1, <4>2, <4>4 DEF SelectActivePool
        <5> QED
          BY <5>1
      <4>5. CASE ListRemaining
        <5>1. PICK f : w' = [w EXCEPT !.pc = "build", !.target = f, !.obj = cache[f]]
          BY <4>5 DEF ListRemaining
        <5>2. w'.pc = "build"
          BY <4>3, <5>1
        <5> QED
          BY <5>2
      <4> QED
        BY <4>4, <4>5
    <3>5. CASE ListNone
      <4>1. Listed(NamespaceOf[w.req]) = {} /\ UNCHANGED <<api, poolWatch>> /\ w'.req = w.req
        BY <3>2, <3>5 DEF ListNone, apiVars, Proceeds
      <4>2. ASSUME NEW p \in PoolsIn(NamespaceOf[w.req]), api[p] # None
            PROVE  EventPending(p)
        BY <4>1, <4>2 DEF Listed, PoolsIn, WorkInv, Synced
      <4> QED
        BY <4>1, <4>2 DEF Pending, EventPending
    <3> QED
      BY <2>2, <3>2, <3>4, <3>5 DEF Proceeds
  <2> QED
    BY <1>1, <1>2, <2>3, <2>4, Sides, Delivered DEF Aside
<1> QED
  BY <1>3, <1>4

(* The pool at hand, if nothing stirs it after the step, is stored as before. *)
LEMMA HeldKept ==
    ASSUME TypeInv', WorkInv', Calm, NEW t \in Pools, w'.pc \in Holding, w'.target = t, ~ Stirred(t)'
    PROVE  /\ api'[t] = api[t] /\ api[t] # None /\ ~ Stirred(t) /\ w'.obj = api[t]
           /\ profile'[NamespaceOf[t]] = profile[NamespaceOf[t]]
           /\ Wanted(t)' = Wanted(t)
<1>1. api'[t] = api[t] /\ profile'[NamespaceOf[t]] = profile[NamespaceOf[t]]
  BY DEF Calm
<1>2. (w.pc \in Holding => w.obj = api[w.target] \/ Pending(w.target))'
  BY DEF WorkInv, HoldsLatest
<1>3. w'.obj = api[t]
  BY <1>1, <1>2 DEF Stirred
<1>4. w'.obj \in PoolObjects
  BY DEF TypeInv, Fits
<1>5. api[t] # None
  BY <1>3, <1>4, NoneAssumption
<1>6. ~ Stirred(t)
  BY <1>5 DEF Calm
<1>7. Wanted(t)' = Wanted(t)
  BY <1>1 DEF Wanted
<1> QED
  BY <1>1, <1>3, <1>5, <1>6, <1>7

(* The steps from the build to the status: what is published, and what is said of it. *)
LEMMA PublishMoves ==
    ASSUME ConfigMapLag = FALSE, TypeInv, ConfigMapsSynced, Worker, w.pc \in Publishing, w'.pc # "idle"
    PROVE  /\ w'.pc \in {"upsert", "write", "status"}
           /\ w'.target = w.target /\ w'.req = w.req /\ w'.del = w.del
           /\ w'.pc = "upsert" =>
                w'.cfg = [spec |-> w.obj.spec, profile |-> profCache[NamespaceOf[w.req]]]
                /\ w'.obj = w.obj
           /\ w'.pc = "write" => w.pc = "upsert" /\ w'.cfg = w.cfg
           /\ w'.pc = "status" /\ w'.verdict.ready =>
                w.pc \in {"upsert", "write"} /\ configMap'[ConfigNamespace] = w.cfg
<1> USE DEF configMapVars
<1>1. w \in Workers /\ Idle.pc = "idle" /\ ConfigNamespace \in ConfigNamespaces
  BY RequestFacts DEF TypeInv, Fits, Idle, Publishing
<1>2. /\ w'.pc \in {"upsert", "write", "status"}
      /\ w'.target = w.target /\ w'.req = w.req /\ w'.del = w.del
  <2>1. Proceeds
    BY <1>1, WorkerMoves DEF ReturnError, Finishes, Reports, Return
  <2> QED
    BY <2>1 DEF Proceeds, SelectActivePool, ListNone, ListRemaining, Publishing
<1>3. w' # Idle
  BY <1>1
<1>4. \A v, r : SetStatus(w, v, r).pc = "status" /\ SetStatus(w, v, r).verdict = v
  BY <1>1 DEF Workers, SetStatus
<1>5. Ready.ready /\ \A r, b : ~ NotReady(r, b).ready
  BY DEF Ready, NotReady
<1> SUFFICES /\ w'.pc = "upsert" =>
                   w'.cfg = [spec |-> w.obj.spec, profile |-> profCache[NamespaceOf[w.req]]]
                   /\ w'.obj = w.obj
             /\ w'.pc = "write" => w.pc = "upsert" /\ w'.cfg = w.cfg
             /\ w'.pc = "status" /\ w'.verdict.ready =>
                   w.pc \in {"upsert", "write"} /\ configMap'[ConfigNamespace] = w.cfg
  BY <1>2
<1> DEFINE Goal == /\ w'.pc = "upsert" =>
                         w'.cfg = [spec |-> w.obj.spec, profile |-> profCache[NamespaceOf[w.req]]]
                         /\ w'.obj = w.obj
                   /\ w'.pc = "write" => w.pc = "upsert" /\ w'.cfg = w.cfg
                   /\ w'.pc = "status" /\ w'.verdict.ready =>
                         w.pc \in {"upsert", "write"} /\ configMap'[ConfigNamespace] = w.cfg
<1>6. ASSUME NEW v, NEW r, w' = SetStatus(w, v, r), ~ v.ready PROVE Goal
  BY <1>4, <1>6
<1>7. CASE BuildConfig
  <2> DEFINE c == [spec |-> w.obj.spec, profile |-> profCache[NamespaceOf[w.req]]]
  <2>1. CASE w' = [w EXCEPT !.pc = "upsert", !.cfg = c]
    <3>1. w'.pc = "upsert" /\ w'.cfg = c /\ w'.obj = w.obj
      BY <1>1, <2>1 DEF Workers
    <3> QED
      BY <3>1
  <2>2. CASE \E r : w' = SetStatus(w, NotReady(r, None), "none")
    BY <1>5, <1>6, <2>2
  <2> HIDE DEF c, Goal
  <2>3. w' = [w EXCEPT !.pc = "upsert", !.cfg = c] \/ \E r : w' = SetStatus(w, NotReady(r, None), "none")
    BY <1>3, <1>7 DEF BuildConfig, ReturnError, Return, getDefaultCacheProfile, c
  <2> QED
    BY <2>1, <2>2, <2>3
<1>8. CASE UpsertConfigMap
  <2>1. w.pc = "upsert" /\ configMap' = configMap /\ Readable(ConfigNamespace)
    BY <1>8 DEF UpsertConfigMap
  <2>2. ASSUME NEW b, w' = [w EXCEPT !.pc = "write", !.stale = b] PROVE Goal
    <3>1. w'.pc = "write" /\ w'.cfg = w.cfg
      BY <1>1, <2>2 DEF Workers
    <3> QED
      BY <2>1, <3>1
  <2>3. CASE w' = SetStatus(w, NotReady("ConfigMapCircuitOpen", None), CircuitOpenResult)
    BY <1>5, <1>6, <2>3
  <2>4. CASE UpToDate(ConfigNamespace) /\ w' = SetStatus(w, Ready, "none")
    <3>1. cmCache[ConfigNamespace] = w.cfg
      BY <2>4 DEF UpToDate
    <3>2. configMap'[ConfigNamespace] = w.cfg
      BY <1>1, <2>1, <3>1, ReadsLatest
    <3>3. w'.pc = "status"
      BY <1>4, <2>4
    <3> QED
      BY <2>1, <3>2, <3>3
  <2>5. \/ w' = SetStatus(w, NotReady("ConfigMapCircuitOpen", None), CircuitOpenResult)
        \/ UpToDate(ConfigNamespace) /\ w' = SetStatus(w, Ready, "none")
        \/ \E b : w' = [w EXCEPT !.pc = "write", !.stale = b]
    BY <1>8 DEF UpsertConfigMap
  <2> QED
    BY <2>2, <2>3, <2>4, <2>5
<1>9. CASE ConfigMapWritten
  <2>1. w.pc = "write" /\ StoreConfigMap(ConfigNamespace, w.cfg) /\ w' = SetStatus(w, Ready, "none")
    BY <1>9 DEF ConfigMapWritten
  <2>2. configMap'[ConfigNamespace] = w.cfg
    BY <1>1, <2>1 DEF StoreConfigMap, TypeInv, TypeOK
  <2> QED
    BY <1>4, <2>1, <2>2
<1>10. CASE ConfigMapNotWritten \/ ReadFails
  <2>1. \E r : w' = SetStatus(w, NotReady(r, None), "backoff")
    BY <1>3, <1>10 DEF ConfigMapNotWritten, ReadFails, ReturnError, Return, Publishing
  <2> QED
    BY <1>5, <1>6, <2>1
<1>11. BuildConfig \/ UpsertConfigMap \/ ConfigMapWritten \/ ConfigMapNotWritten \/ ReadFails
  BY DEF Worker, Publishing, ensureInitialRVAnnotation, SelectActivePool, ListNone, ListRemaining,
         RemoveConfigKey, ConfigKeyRemoved, ConfigKeyNotRemoved, setReadyCondition, PatchFails
<1> QED
  BY <1>7, <1>8, <1>9, <1>10, <1>11

(* What is served to the Ready pools stays so, or amends are made. *)
LEMMA ReadyServedStep ==
    ASSUME ConfigMapLag = FALSE, OwnConfigMaps, SteadyInv, SteadyInv', ConfigMapsSynced, ServedInv,
           [Next]_vars
    PROVE  ReadyServed'
<1> USE DEF SteadyInv
<1>0. configMap \in [ConfigNamespaces -> ConfigMapStates]
  BY DEF TypeInv, TypeOK
<1> SUFFICES ASSUME NEW p \in Pools, Resting(p)', api'[p].status.ready
             PROVE  Served(p)' \/ Amends(p)'
  BY DEF ReadyServed
<1>1. /\ ~ Restart
      /\ api'[p] = api[p] /\ profile'[NamespaceOf[p]] = profile[NamespaceOf[p]]
      /\ HasStatus(p) /\ api[p] # None /\ ~ Stirred(p) /\ cache[p] = api[p]
      /\ Resting(p) \/ (Reports /\ ~ w.del /\ w.req = p /\ w.target = p)
      /\ Worker /\ Reports /\ w.target = p => api[p].status = Desired
  BY RestingBefore
<1>2. Wanted(p)' = Wanted(p)
  BY <1>1 DEF Wanted
<1>3. Desired.ready = w.verdict.ready
  BY DEF Desired
<1> DEFINE c == operatorNamespace(NamespaceOf[p])
<1>4. c \in ConfigNamespaces
  BY NamespaceFacts
<1>5. CASE Reports /\ ~ w.del /\ w.req = p /\ w.target = p
  <2>1. w.pc = "status" /\ w' # w
    <3>1. w.pc = "status" /\ w' = Idle /\ Idle.pc = "idle"
      BY <1>5 DEF Reports, Return, Idle
    <3> QED
      BY <3>1
  <2>2. Worker
    BY <1>1, <2>1, Sides, Delivered, Started DEF Aside
  <2>3. w.verdict.ready
    BY <1>1, <1>3, <1>5, <2>2
  <2>4. Served(p)
    BY <1>1, <1>5, <2>1, <2>3 DEF ServedInv, Serving
  <2>5. configMap' = configMap
    BY <1>1, <2>1, ConfigMapMoves DEF DeliverConfigMap
  <2> QED
    BY <1>2, <2>4, <2>5 DEF Served
<1>6. CASE Resting(p)
  <2>1. Eldest(p)
    BY <1>1, <1>6 DEF OrderInv, StatusInOrder, Selected
  <2>2. ASSUME NEW t \in Pools, t # p, NamespaceOf[t] = NamespaceOf[p], cache[t] # None,
               cache[t].created <= cache[p].created
        PROVE  FALSE
    <3>1. cache[p].created <= cache[t].created
      BY <1>1, <2>1, <2>2 DEF Eldest, PoolsIn
    <3>2. cache[t] \in Copies(t) /\ cache[p] \in Copies(p)
      BY <1>1, <2>2 DEF Copies
    <3>3. cache[t].created # cache[p].created
      BY <2>2, <3>2 DEF ServedInv, DifferentSeconds
    <3>4. cache[t].created \in Nat /\ cache[p].created \in Nat
      BY <1>1, <2>2, CachedLife DEF OnceInv
    <3> QED
      BY <2>2, <3>1, <3>3, <3>4
  <2>3. ASSUME NEW q \in PoolsIn(NamespaceOf[p]) \ {p}, Leaving(q)
        PROVE  Amends(p)'
    <3>1. Leaving(q)' \/ (w'.del /\ w'.req = q /\ w'.pc = "list")
      BY <1>1, <2>3, LeavingKept DEF PoolsIn
    <3> QED
      BY <2>3, <3>1 DEF Amends, PoolsIn
  <2>4. CASE Served(p)
    <3>1. CASE configMap'[c] = configMap[c]
      BY <1>2, <2>4, <3>1 DEF Served
    <3>2. CASE configMap'[c] # configMap[c]
      <4>1. /\ Worker /\ ConfigNamespace \in ConfigNamespaces
            /\ \/ w.pc = "write" /\ configMap' = [configMap EXCEPT ![ConfigNamespace] = w.cfg]
               \/ w.pc = "removeWrite" /\ configMap' = [configMap EXCEPT ![ConfigNamespace] = NoKey]
        BY <1>1, <3>2, ConfigMapMoves DEF DeliverConfigMap, StoreConfigMap
      <4>2. ConfigNamespace = c
        BY <1>0, <1>4, <3>2, <4>1
      <4>3. w.req \in Pools
        BY <4>1 DEF TypeInv, Fits
      <4>4. NamespaceOf[w.req] = NamespaceOf[p]
        BY <4>2, <4>3, NamespaceFacts DEF OwnConfigMaps, ConfigNamespace
      <4>5. CASE w.pc = "removeWrite"
        <5>1. Pending(p)
          BY <1>1, <4>4, <4>5 DEF ServedInv, RemovalStirs, PoolsIn
        <5> QED
          BY <1>1, <5>1 DEF Stirred
      <4>6. CASE w.pc = "write" /\ configMap' = [configMap EXCEPT ![ConfigNamespace] = w.cfg]
        <5>1. PICK t \in Pools : t = w.target
          BY <4>6 DEF TypeInv, Fits, Holding
        <5>2. NamespaceOf[t] = NamespaceOf[p] /\ (cache[t] # None \/ queue[t] # "none")
          BY <4>4, <4>6, <5>1 DEF AtHand, Holding
        <5>3. CASE t = p
          <6>1. w.cfg = Wanted(p)
            BY <1>1, <4>6, <5>1, <5>3 DEF ServedInv, Serving
          <6>2. configMap'[c] = w.cfg
            BY <1>0, <1>4, <4>2, <4>6
          <6> QED
            BY <1>2, <6>1, <6>2 DEF Served
        <5>4. CASE t # p /\ cache[t] # None
          <6>1. Eldest(t)
            BY <4>6, <5>1 DEF OrderInv, Orderly, Publishing
          <6>2. cache[t].created <= cache[p].created
            BY <1>1, <5>2, <5>4, <6>1 DEF Eldest, PoolsIn
          <6> QED
            BY <2>2, <5>2, <5>4, <6>2
        <5>5. CASE t # p /\ cache[t] = None
          BY <2>3, <5>2, <5>5 DEF Leaving, PoolsIn
        <5> QED
          BY <5>3, <5>4, <5>5
      <4> QED
        BY <4>1, <4>5, <4>6
    <3> QED
      BY <3>1, <3>2
  <2>5. ASSUME NEW q \in PoolsIn(NamespaceOf[p]) \ {p}, w.del, w.req = q,
               \/ w.pc = "list"
               \/ w.target = p /\ (w.pc \in Publishing \/ (w.pc = "status" /\ ~ w.verdict.ready))
        PROVE  Served(p)' \/ Amends(p)'
    <3>1. q \in Pools /\ NamespaceOf[q] = NamespaceOf[p] /\ w.pc # "idle"
      BY <2>5 DEF PoolsIn, Publishing
    <3>2. CASE w' = w
      BY <2>5, <3>2 DEF Amends, PoolsIn
    <3>3. ASSUME NEW r \in Pools PROVE ~ Start(r)
      BY <3>1, Started
    <3>4. CASE Worker
      <4>1. cache' = cache /\ (ReturnError \/ Finishes \/ Reports \/ Proceeds)
        BY <3>4, WorkerMoves
      <4>2. cache[q] = None
        BY <2>5, <3>1 DEF OnceInv, DeletedIsGone
      <4>3. CASE ReturnError
        <5>1. queue'[q] # "none"
          BY <2>5, <3>1, <4>3, Returned DEF ReturnError, Results
        <5>2. Leaving(q)'
          BY <4>1, <4>2, <5>1 DEF Leaving
        <5> QED
          BY <2>5, <5>2 DEF Amends, PoolsIn
      <4>4. ~ Finishes
        BY <2>5 DEF Finishes, Publishing
      <4>5. CASE w.pc = "list" /\ Proceeds
        <5>1. p \in Listed(NamespaceOf[w.req])
          BY <1>1, <2>5, <3>1 DEF Listed, PoolsIn
        <5>2. ListRemaining
          BY <4>5, <5>1 DEF Proceeds, SelectActivePool, ListNone, Publishing
        <5>3. PICK f \in FirstChoices(cache, Listed(NamespaceOf[w.req])) :
                   w' = [w EXCEPT !.pc = "build", !.target = f, !.obj = cache[f]]
          BY <5>2 DEF ListRemaining
        <5>4. w'.pc = "build" /\ w'.target = f /\ w'.req = w.req /\ w'.del = w.del
          BY <5>3 DEF Workers, TypeInv, Fits
        <5>5. /\ f \in Pools /\ NamespaceOf[f] = NamespaceOf[p] /\ cache[f] # None
              /\ cache[f].created <= cache[p].created
          BY <2>5, <3>1, <5>1, <5>3, FirstListed DEF OnceInv
        <5>6. f = p
          BY <2>2, <5>5
        <5> QED
          BY <2>5, <5>4, <5>6 DEF Amends, PoolsIn, Publishing
      <4>6. CASE w.target = p /\ w.pc \in Publishing /\ w'.pc # "idle"
        <5>1. /\ w'.pc \in {"upsert", "write", "status"}
              /\ w'.target = w.target /\ w'.req = w.req /\ w'.del = w.del
              /\ w'.pc = "status" /\ w'.verdict.ready =>
                   w.pc \in {"upsert", "write"} /\ configMap'[ConfigNamespace] = w.cfg
          BY <3>4, <4>6, PublishMoves
        <5>2. CASE w'.pc # "status" \/ ~ w'.verdict.ready
          <6>1. w'.pc \in Publishing \/ (w'.pc = "status" /\ ~ w'.verdict.ready)
            BY <5>1, <5>2 DEF Publishing
          <6> QED
            BY <2>5, <4>6, <5>1, <6>1 DEF Amends, PoolsIn
        <5>3. CASE w'.pc = "status" /\ w'.verdict.ready
          <6>1. w.cfg = Wanted(p)
            BY <1>1, <4>6, <5>1, <5>3 DEF ServedInv, Serving
          <6>2. ConfigNamespace = c
            BY <2>5, <3>1 DEF ConfigNamespace
          <6> QED
            BY <1>2, <5>1, <5>3, <6>1, <6>2 DEF Served
        <5> QED
          BY <5>2, <5>3
      <4>7. CASE w.target = p /\ w.pc = "status" /\ ~ w.verdict.ready
        <5>1. ~ Reports
          BY <1>1, <1>3, <3>4, <4>7
        <5>2. ~ Proceeds
          BY <4>7 DEF Proceeds, SelectActivePool, ListNone, ListRemaining, Publishing
        <5> QED
          BY <4>1, <4>3, <4>4, <5>1, <5>2
      <4>8. w.pc = "list" \/ w.pc \in Publishing => ~ Reports
        BY DEF Reports, Publishing
      <4>9. Proceeds => w'.pc # "idle"
        BY DEF Proceeds
      <4> QED
        BY <2>5, <4>1, <4>3, <4>4, <4>5, <4>6, <4>7, <4>8, <4>9
    <3> QED
      BY <1>1, <3>2, <3>3, <3>4, Sides, Delivered DEF Aside
  <2>6. CASE Amends(p)
    <3>1. PICK q \in PoolsIn(NamespaceOf[p]) \ {p} :
               \/ Leaving(q)
               \/ /\ w.del /\ w.req = q
                  /\ \/ w.pc = "list"
                     \/ /\ w.target = p
                        /\ \/ w.pc \in Publishing
                           \/ w.pc = "status" /\ ~ w.verdict.ready
      BY <2>6 DEF Amends
    <3> QED
      BY <2>3, <2>5, <3>1
  <2>7. Served(p) \/ Amends(p)
    BY <1>1, <1>6 DEF ServedInv, ReadyServed
  <2> QED
    BY <2>4, <2>6, <2>7
<1> QED
  BY <1>1, <1>5, <1>6

(* The worker goes on publishing what its pool asks for. *)
LEMMA ServingStep ==
    ASSUME ConfigMapLag = FALSE, SteadyInv, SteadyInv', ConfigMapsSynced, Serving(w), [Next]_vars
    PROVE  Serving(w)'
<1> USE DEF SteadyInv
<1>1. ASSUME w'.pc \notin {"upsert", "write", "status"} PROVE Serving(w)'
  BY <1>1 DEF Serving
<1>2. ASSUME w'.pc = "status", ~ w'.verdict.ready PROVE Serving(w)'
  BY <1>2 DEF Serving
<1>3. \A r, b : ~ NotReady(r, b).ready
  BY DEF NotReady
<1>4. CASE Restart
  BY <1>1, <1>4, Restarted DEF Idle
<1>5. ASSUME NEW p \in Pools, Start(p) PROVE Serving(w)'
  BY <1>1, <1>2, <1>3, <1>5, Started
<1>6. CASE w' = w /\ w.pc \in {"upsert", "write", "status"} /\ ~ Restart /\ ~ Worker
  <2>1. \A p \in Pools : ~ Start(p)
    BY <1>6, Started
  <2>2. Calm
    BY <1>6, <2>1, CalmStep
  <2>3. PICK t \in Pools, r \in Pools : t = w.target /\ r = w.req
    BY <1>6 DEF TypeInv, Fits, Holding
  <2>4. configMap' = configMap
    BY <1>6, <2>1, Sides, Delivered DEF Aside
  <2>5. CASE w.pc \in {"upsert", "write"}
    <3>1. ASSUME ~ Stirred(t)' PROVE w.cfg = Wanted(t)'
      <4>1. ~ Stirred(t) /\ Wanted(t)' = Wanted(t)
        BY <1>6, <2>2, <2>3, <2>5, <3>1, HeldKept DEF Holding
      <4> QED
        BY <2>3, <2>5, <4>1 DEF Serving
    <3> QED
      BY <1>6, <2>3, <2>5, <3>1 DEF Serving
  <2>6. CASE w.pc = "status" /\ ~ w.del /\ w.verdict.ready
    <3>1. t = r
      BY <2>3, <2>6 DEF TypeInv, Fits
    <3>2. ASSUME ~ Stirred(r)' PROVE Served(r)'
      <4>1. ~ Stirred(r) /\ Wanted(r)' = Wanted(r)
        BY <1>6, <2>2, <2>3, <2>6, <3>1, <3>2, HeldKept DEF Holding
      <4>2. Served(r)
        BY <2>3, <2>6, <4>1 DEF Serving
      <4> QED
        BY <2>4, <4>1, <4>2 DEF Served
    <3> QED
      BY <1>6, <2>3, <2>6, <3>2 DEF Serving
  <2>7. CASE w.pc = "status" /\ ~ (~ w.del /\ w.verdict.ready)
    BY <1>6, <2>7 DEF Serving
  <2> QED
    BY <1>6, <2>5, <2>6, <2>7
<1>7. CASE Worker
  <2>1. w.pc # "idle" /\ (ReturnError \/ Finishes \/ Reports \/ Proceeds)
    BY <1>7, WorkerMoves
  <2>2. CASE w' = Idle
    BY <1>1, <2>2 DEF Idle
  <2>3. CASE w.pc \in Publishing /\ w'.pc # "idle"
    <3>1. /\ w'.pc \in {"upsert", "write", "status"}
          /\ w'.target = w.target /\ w'.req = w.req /\ w'.del = w.del
          /\ w'.pc = "upsert" =>
               w'.cfg = [spec |-> w.obj.spec, profile |-> profCache[NamespaceOf[w.req]]]
               /\ w'.obj = w.obj
          /\ w'.pc = "write" => w.pc = "upsert" /\ w'.cfg = w.cfg
          /\ w'.pc = "status" /\ w'.verdict.ready =>
               w.pc \in {"upsert", "write"} /\ configMap'[ConfigNamespace] = w.cfg
      BY <1>7, <2>3, PublishMoves
    <3>2. PICK t \in Pools, r \in Pools : t = w.target /\ r = w.req
      BY <2>3 DEF TypeInv, Fits, Holding, Publishing
    <3>3. Calm
      BY <1>7, StepCalm
    <3>4. ASSUME ~ Stirred(t)'
          PROVE  /\ ~ Stirred(t) /\ Wanted(t)' = Wanted(t) /\ w'.obj = api[t]
                 /\ api'[t] = api[t] /\ profile'[NamespaceOf[t]] = profile[NamespaceOf[t]]
      BY <3>1, <3>2, <3>3, <3>4, HeldKept DEF Holding
    <3>5. CASE w'.pc = "upsert"
      <4>1. ASSUME ~ Stirred(t)' PROVE w'.cfg = Wanted(t)'
        <5>1. NamespaceOf[r] = NamespaceOf[t]
          BY <2>3, <3>2 DEF AtHand, Holding, Publishing
        <5>2. profCache[NamespaceOf[t]] = profile[NamespaceOf[t]]
          BY <3>4, <4>1, NamespaceFacts DEF TruthInv, ProfilesSynced, Stirred
        <5>3. w.obj = api[t]
          BY <3>1, <3>4, <3>5, <4>1
        <5>4. w'.cfg = Wanted(t)
          BY <3>1, <3>2, <3>5, <5>1, <5>2, <5>3 DEF Wanted
        <5> QED
          BY <3>4, <4>1, <5>4
      <4> QED
        BY <3>1, <3>2, <3>5, <4>1 DEF Serving
    <3>6. CASE w'.pc = "write"
      <4>1. ASSUME ~ Stirred(t)' PROVE w'.cfg = Wanted(t)'
        BY <3>1, <3>2, <3>4, <3>6, <4>1 DEF Serving
      <4> QED
        BY <3>1, <3>2, <3>6, <4>1 DEF Serving
    <3>7. CASE w'.pc = "status" /\ w'.verdict.ready /\ ~ w'.del
      <4>1. t = r
        BY <2>1, <3>1, <3>2, <3>7 DEF TypeInv, Fits
      <4>2. ASSUME ~ Stirred(t)' PROVE Served(r)'
        <5>1. w.cfg = Wanted(t)
          BY <3>1, <3>2, <3>4, <3>7, <4>2 DEF Serving
        <5>2. configMap'[operatorNamespace(NamespaceOf[r])] = Wanted(t)
          BY <3>1, <3>2, <3>7, <5>1 DEF ConfigNamespace
        <5> QED
          BY <3>4, <4>1, <4>2, <5>2 DEF Served
      <4> QED
        BY <3>1, <3>2, <3>7, <4>1, <4>2 DEF Serving
    <3>8. CASE w'.pc = "status" /\ ~ (w'.verdict.ready /\ ~ w'.del)
      BY <3>8 DEF Serving
    <3> QED
      BY <3>1, <3>5, <3>6, <3>7, <3>8
  <2>4. CASE SelectActivePool
    <3>1. w \in Workers
      BY DEF TypeInv, Fits
    <3>2. [w EXCEPT !.pc = "build"].pc = "build"
      BY <3>1 DEF Workers
    <3>3. \A v, r : SetStatus(w, v, r).pc = "status" /\ SetStatus(w, v, r).verdict = v
      BY <3>1 DEF Workers, SetStatus
    <3>4. CASE w' = [w EXCEPT !.pc = "build"]
      BY <1>1, <3>2, <3>4
    <3>5. ASSUME NEW a, w' = SetStatus(w, NotReady("Superseded", a), "none") PROVE Serving(w)'
      BY <1>2, <1>3, <3>3, <3>5
    <3> QED
      BY <2>4, <3>4, <3>5 DEF SelectActivePool
  <2>5. CASE ListNone \/ ListRemaining
    <3>1. w \in Workers
      BY DEF TypeInv, Fits
    <3>2. [w EXCEPT !.pc = "remove"].pc = "remove"
      BY <3>1 DEF Workers
    <3>3. \A f, o : [w EXCEPT !.pc = "build", !.target = f, !.obj = o].pc = "build"
      BY <3>1 DEF Workers
    <3>4. w'.pc \in {"remove", "build"}
      <4>1. CASE ListNone
        BY <3>2, <4>1 DEF ListNone
      <4>2. CASE ListRemaining
        <5>1. PICK f : w' = [w EXCEPT !.pc = "build", !.target = f, !.obj = cache[f]]
          BY <4>2 DEF ListRemaining
        <5> QED
          BY <3>3, <5>1
      <4> QED
        BY <2>5, <4>1, <4>2
    <3> QED
      BY <1>1, <3>4
  <2>6. CASE Proceeds /\ w.pc \notin Publishing /\ ~ SelectActivePool /\ ~ ListNone /\ ~ ListRemaining
    BY <1>1, <1>2, <1>3, <2>6 DEF Proceeds
  <2>7. Proceeds => w'.pc # "idle"
    BY DEF Proceeds
  <2> QED
    BY <2>1, <2>2, <2>3, <2>4, <2>5, <2>6, <2>7 DEF ReturnError, Finishes, Reports, Return
<1>8. CASE w' = w /\ w.pc \notin {"upsert", "write", "status"}
  BY <1>1, <1>8
<1> QED
  BY <1>4, <1>5, <1>6, <1>7, <1>8, Sides, Delivered DEF Aside

(****************************************************************************)
(* If each namespace has its own ConfigMap, no two pools are created in one *)
(* second, no name is used twice, and ConfigMaps are read without lag, the  *)
(* operator comes to rest with the ConfigMap of a Ready pool holding what   *)
(* the pool and its profile ask for: whatever other pools were published in *)
(* between, whichever deletion was handled late, and through failed and     *)
(* unanswered writes, an open circuit, and restarts.  (With lag it fails in *)
(* pool_stale_configmap; of two pools of one second both can be Ready; with *)
(* one ConfigMap for two namespaces the one overwrites the other.  That no  *)
(* name is used twice is what the proof rests on, by way of the order of    *)
(* the pools.)                                                              *)
(****************************************************************************)
THEOREM ReadyIsServed ==
    ASSUME ConfigMapLag = FALSE, 0 \notin Gaps, OwnConfigMaps
    PROVE  Spec /\ []Once => []SettledReadyIsServed
<1>1. Init => ConfigMapsSynced /\ ServedInv
  <2> SUFFICES ASSUME Init PROVE ConfigMapsSynced /\ ServedInv
    OBVIOUS
  <2>1. /\ w = Idle /\ cmCache = configMap /\ poolWatch = <<>>
        /\ \A c \in ConfigNamespaces : cmWatch[c] = <<>>
        /\ \A p \in Pools : api[p] = None /\ cache[p] = None
    BY DEF Init
  <2>2. ConfigMapsSynced /\ ReadyServed
    BY <2>1 DEF ConfigMapsSynced, ReadyServed, Resting, HasStatus
  <2>3. RemovalStirs /\ Serving(w)
    BY <2>1 DEF Idle, RemovalStirs, Serving
  <2>4. DifferentSeconds
    <3>1. Len(poolWatch) = 0
      BY <2>1
    <3>2. \A p \in Pools : Copies(p) = {}
      BY <2>1, <3>1 DEF Copies
    <3> QED
      BY <3>2 DEF DifferentSeconds
  <2> QED
    BY <2>2, <2>3, <2>4 DEF ServedInv
<1>2. ASSUME SteadyInv, SteadyInv', Once', ConfigMapsSynced, ServedInv, [Next]_vars
      PROVE  ConfigMapsSynced' /\ ServedInv'
  <2>1. ConfigMapsSynced'
    BY <1>2, ConfigMapsSyncedStep DEF SteadyInv
  <2>2. DifferentSeconds' /\ RemovalStirs'
    BY <1>2, SecondsStep, RemovalStep DEF SteadyInv, OnceInv, ServedInv
  <2>3. ReadyServed' /\ Serving(w)'
    BY <1>2, ReadyServedStep, ServingStep DEF ServedInv
  <2> QED
    BY <2>1, <2>2, <2>3 DEF ServedInv
<1>3. ASSUME SteadyInv, ServedInv
      PROVE  SettledReadyIsServed
  <2> SUFFICES ASSUME Settled, NEW p \in Pools, IsReady(p)
               PROVE  Served(p)
    BY DEF SettledReadyIsServed, Served
  <2>1. \A q \in Pools : ~ Stirred(q) /\ ~ Reconciling(q) /\ ~ Leaving(q)
    BY <1>3, RestingCache DEF SteadyInv
  <2>2. Resting(p) /\ api[p].status.ready
    BY <2>1 DEF Resting, HasStatus, IsReady
  <2>3. ~ Amends(p)
    <3>1. w.pc = "idle"
      BY DEF Settled
    <3> QED
      BY <2>1, <3>1 DEF Amends, Publishing, PoolsIn
  <2> QED
    BY <1>3, <2>2, <2>3 DEF ServedInv, ReadyServed
<1> QED
  BY <1>1, <1>2, <1>3, SteadyAlways, PTL DEF Spec

-----------------------------------------------------------------------------
(****************************************************************************)
(* The pool that a Superseded pool names.  The inductive invariant says     *)
(* that it leads the cache, or led it and is gone for good: the order of    *)
(* the pools never turns, so nothing has to correct the message.            *)
(****************************************************************************)

(* Pool t is in the cache and none there is older, or it was stored and is gone. *)
Lead(t) ==
    /\ t \in Pools
    /\ Eldest(t)
    /\ cache[t] = None => api[t] = None /\ ~ EventPending(t) /\ lives[t] # 0

(* Whoever is named as the active pool leads. *)
NamesLead ==
    /\ \A p \in Pools :
          Resting(p) /\ api[p].status.reason = "Superseded" => Lead(api[p].status.by)
    /\ w.pc = "status" /\ w.verdict.reason = "Superseded" => Lead(w.verdict.by)

(* A stored pool that the cache does not show is no older than any it shows. *)
LEMMA UnseenIsYounger ==
    ASSUME TypeInv, WorkInv, OnceInv, NEW t \in Pools, cache[t] # None,
           NEW q \in Pools, api[q] # None, cache[q] = None
    PROVE  cache[t].created <= api[q].created
<1>1. DOMAIN poolWatch = 1 .. Len(poolWatch) /\ Len(poolWatch) \in Nat
  BY DEF TypeInv, TypeOK
<1> DEFINE T == { k \in 1 .. Len(poolWatch) : poolWatch[k].pool = q }
           R == OpToRel(<, Nat)
<1>2. T # {} /\ T \subseteq Nat
  BY <1>1 DEF WorkInv, Synced, EventPending
<1>3. IsWellFoundedOn(R, Nat)
  BY NatLessThanWellFounded
<1>4. \A x, y \in Nat : x < y => <<x, y>> \in R
  BY DEF OpToRel
<1>5. \A k \in 1 .. Len(poolWatch) : k \in T <=> poolWatch[k].pool = q
  OBVIOUS
<1>6. T \subseteq 1 .. Len(poolWatch)
  OBVIOUS
<1> HIDE DEF T, R
<1>7. PICK i \in T : \A l \in T : ~ (<<l, i>> \in R)
  BY <1>2, <1>3, WFMin
<1>8. i \in 1 .. Len(poolWatch) /\ i \in Nat /\ poolWatch[i].pool = q
  BY <1>1, <1>5, <1>6, <1>7
<1>9. \A k \in 1 .. i - 1 : k \in 1 .. Len(poolWatch) /\ k \in Nat /\ k < i
  BY <1>1, <1>8
<1>10. \A k \in 1 .. i - 1 : poolWatch[k].pool # q
  BY <1>4, <1>5, <1>7, <1>8, <1>9
<1>11. poolWatch[i].obj # None
  <2>1. CASE poolWatch[i].obj = None
    <3>1. IsLastEvent(q, i)
      BY <1>1, <1>8, <2>1 DEF IsLastEvent, OnceInv, DeletionIsLast
    <3> QED
      BY <1>8, <2>1, <3>1 DEF WorkInv, Synced
  <2> QED
    BY <2>1
<1>12. Newcomer(i)
  BY <1>8, <1>10, <1>11 DEF Newcomer
<1>13. cache[t].created <= poolWatch[i].obj.created
  BY <1>8, <1>12 DEF OnceInv, InOrder
<1>14. poolWatch[i].obj \in Copies(q) /\ api[q] \in Copies(q)
  BY <1>8, <1>11 DEF Copies
<1>15. poolWatch[i].obj.created = api[q].created
  BY <1>14 DEF OnceInv, OneLife
<1> QED
  BY <1>13, <1>15

(* The leading pool stays the leading pool, through restarts too, until it is gone. *)
LEMMA LeadKept ==
    ASSUME TypeInv, TypeInv', WorkInv, WorkInv', OnceInv, Once', [Next]_vars,
           NEW t \in Pools, Lead(t)
    PROVE  Lead(t)'
<1>1. CASE cache[t] = None
  <2>1. api[t] = None /\ ~ EventPending(t) /\ lives[t] # 0
    BY <1>1 DEF Lead
  <2>2. cache'[t] = None /\ api'[t] = None /\ ~ EventPending(t)' /\ lives'[t] # 0
    <3>1. CASE Quiet
      BY <1>1, <2>1, <3>1 DEF Quiet, EventPending
    <3>2. CASE DeliverPool
      BY <1>1, <2>1, <3>2, Delivered
    <3>3. CASE Restart
      BY <2>1, <3>3, Restarted
    <3>4. ASSUME NEW p \in Pools, NEW n \in PoolObjects \cup {None}, Births(p, n)
          PROVE  cache'[t] = None /\ api'[t] = None /\ ~ EventPending(t)' /\ lives'[t] # 0
      <4>1. p # t
        BY <2>1, <3>4, BornOnce DEF OnceInv
      <4>2. api'[t] = api[t] /\ (EventPending(t)' <=> EventPending(t)) /\ cache' = cache
        <5>1. Writes(p, n) /\ cache' = cache
          BY <3>4 DEF Births, Writes
        <5> QED
          BY <4>1, <5>1, WrittenEvents
      <4>3. lives'[t] = lives[t]
        BY <3>4, <4>1 DEF Births, TypeInv, TypeOK
      <4> QED
        BY <1>1, <2>1, <4>2, <4>3
    <3>5. ASSUME NEW p \in Pools, NEW n \in PoolObjects \cup {None}, Changes(p, n)
          PROVE  cache'[t] = None /\ api'[t] = None /\ ~ EventPending(t)' /\ lives'[t] # 0
      <4>1. p # t /\ lives' = lives /\ cache' = cache
        BY <2>1, <3>5 DEF Changes, Writes
      <4>2. api'[t] = api[t] /\ (EventPending(t)' <=> EventPending(t))
        BY <3>5, <4>1, WrittenEvents DEF Changes
      <4> QED
        BY <1>1, <2>1, <4>1, <4>2
    <3> QED
      BY <3>1, <3>2, <3>3, <3>4, <3>5, StepKinds
  <2> QED
    BY <2>2 DEF Lead, Eldest
<1>2. lives[t] # 0 \/ cache[t] = None
  BY DEF OnceInv, UnbornUnknown
<1>3. CASE cache[t] # None /\ Restart
  <2>1. /\ cache' = api /\ api' = api /\ lives' = lives /\ ~ EventPending(t)'
    BY <1>3, Restarted
  <2>2. ASSUME api[t] # None, NEW q \in PoolsIn(NamespaceOf[t]), api[q] # None
        PROVE  api[t].created <= api[q].created
    <3>1. q \in Pools
      BY DEF PoolsIn
    <3>2. \A r \in Pools : api[r] # None /\ cache[r] # None => api[r].created = cache[r].created
      BY CachedLife DEF OnceInv, Copies
    <3>3. CASE cache[q] # None
      <4>1. cache[t].created <= cache[q].created
        BY <1>3, <3>3 DEF Lead, Eldest
      <4> QED
        BY <1>3, <2>2, <3>1, <3>2, <3>3, <4>1
    <3>4. CASE cache[q] = None
      <4>1. cache[t].created <= api[q].created
        BY <1>3, <2>2, <3>1, <3>4, UnseenIsYounger
      <4> QED
        BY <1>3, <2>2, <3>2, <4>1
    <3> QED
      BY <3>3, <3>4
  <2>3. Eldest(t)'
    BY <2>1, <2>2 DEF Eldest, PoolsIn
  <2> QED
    BY <1>2, <1>3, <2>1, <2>3 DEF Lead
<1>4. CASE cache[t] # None /\ ~ Restart
  <2>1. Eldest(t)'
    BY <1>4, EldestKept DEF Lead
  <2>2. ASSUME cache'[t] = None
        PROVE  api'[t] = None /\ ~ EventPending(t)' /\ lives'[t] # 0
    <3>1. DeliverPool
      BY <1>4, <2>2, CacheStays
    <3>2. PICK p \in Pools, n \in PoolObjects \cup {None} :
             /\ Len(poolWatch) \in Nat \ {0}
             /\ Len(poolWatch') = Len(poolWatch) - 1
             /\ \A i \in 1 .. Len(poolWatch') : i + 1 \in 1 .. Len(poolWatch) /\ poolWatch'[i] = poolWatch[i + 1]
             /\ poolWatch[1].pool = p /\ poolWatch[1].obj = n
             /\ cache'[p] = n
             /\ \A q \in Pools : q # p => cache'[q] = cache[q]
             /\ lives' = lives
      BY <3>1, Delivered
    <3>3. p = t /\ n = None
      BY <1>4, <2>2, <3>2
    <3>4. \A j \in 1 .. Len(poolWatch) : 1 < j => poolWatch[j].pool # t
      <4>1. 1 \in 1 .. Len(poolWatch)
        BY <3>2
      <4> QED
        BY <3>2, <3>3, <4>1 DEF OnceInv, DeletionIsLast
    <3>5. ~ EventPending(t)'
      <4>1. DOMAIN poolWatch' = 1 .. Len(poolWatch')
        BY DEF TypeInv, TypeOK
      <4>2. \A i \in 1 .. Len(poolWatch') : poolWatch'[i].pool # t
        BY <3>2, <3>4
      <4> QED
        BY <4>1, <4>2 DEF EventPending
    <3>6. cache'[t] = api'[t]
      BY <3>5 DEF WorkInv, Synced
    <3> QED
      BY <1>2, <1>4, <2>2, <3>2, <3>5, <3>6
  <2> QED
    BY <2>1, <2>2 DEF Lead
<1> QED
  BY <1>1, <1>3, <1>4

(* Whoever is named as the active pool leads after every step. *)
LEMMA NamesLeadStep ==
    ASSUME TypeInv, TypeInv', WorkInv, WorkInv', OnceInv, Once', NamesLead, [Next]_vars
    PROVE  NamesLead'
<1>1. ASSUME NEW t, Lead(t) PROVE Lead(t)'
  <2>1. t \in Pools
    BY <1>1 DEF Lead
  <2> QED
    BY <1>1, <2>1, LeadKept
<1>2. Worker \/ w.pc = "idle" \/ w' = w \/ w' = Idle
  BY Sides, Delivered, Started, Restarted DEF Aside
<1>3. ASSUME NEW p \in Pools, Resting(p)', api'[p].status.reason = "Superseded"
      PROVE  Lead(api[p].status.by)'
  <2>1. /\ ~ Restart /\ api'[p] = api[p]
        /\ Resting(p) \/ (Reports /\ ~ w.del /\ w.req = p /\ w.target = p)
        /\ Worker /\ Reports /\ w.target = p => api[p].status = Desired
    BY <1>3, RestingBefore
  <2>2. CASE Resting(p)
    <3>1. PICK t : t = api[p].status.by
      OBVIOUS
    <3>2. Lead(t)
      BY <1>3, <2>1, <2>2, <3>1 DEF NamesLead
    <3> QED
      BY <1>1, <2>1, <3>1, <3>2 DEF Lead, Eldest
  <2>3. CASE Reports /\ ~ w.del /\ w.req = p /\ w.target = p
    <3>1. w.pc = "status" /\ w' = Idle /\ Idle.pc = "idle"
      BY <2>3 DEF Reports, Return, Idle
    <3>2. Worker
      <4>1. ~ Restart /\ w' # w
        BY <2>1, <3>1
      <4> QED
        BY <3>1, <4>1, Sides, Delivered, Started DEF Aside
    <3>3. api[p].status.reason = w.verdict.reason /\ api[p].status.by = w.verdict.by
      BY <2>1, <2>3, <3>2 DEF Desired
    <3>4. PICK t : t = w.verdict.by
      OBVIOUS
    <3>5. Lead(t)
      BY <1>3, <2>1, <3>1, <3>3, <3>4 DEF NamesLead
    <3> QED
      BY <1>1, <2>1, <3>3, <3>4, <3>5 DEF Lead, Eldest
  <2> QED
    BY <2>1, <2>2, <2>3
<1>4. ASSUME w'.pc = "status", w'.verdict.reason = "Superseded"
      PROVE  Lead(w.verdict.by)'
  <2>1. Idle.pc = "idle" /\ NotReady("InvalidSpec", None).reason = "InvalidSpec"
    BY DEF Idle, NotReady
  <2>2. CASE w' = w
    <3>1. PICK t : t = w.verdict.by
      OBVIOUS
    <3>2. Lead(t)
      BY <1>4, <2>2, <3>1 DEF NamesLead
    <3> QED
      BY <1>1, <2>2, <3>1, <3>2 DEF Lead, Eldest
  <2>3. ASSUME NEW p \in Pools, Start(p)
        PROVE  FALSE
    <3>1. w'.pc = "status" => w'.verdict = NotReady("InvalidSpec", None)
      BY <2>3, Started
    <3> QED
      BY <1>4, <2>1, <3>1
  <2>4. CASE SelectActivePool
    <3>1. /\ w \in Workers /\ w.pc = "select" /\ w.req \in Pools
      BY <2>4 DEF SelectActivePool, TypeInv, Fits, Holding
    <3>2. PICK n : n = NamespaceOf[w.req]
      OBVIOUS
    <3>3. \/ w' = [w EXCEPT !.pc = "build"]
          \/ \E f \in FirstChoices(cache, Listed(n)) :
                w' = SetStatus(w, NotReady("Superseded", f), "none")
      BY <2>4, <3>2 DEF SelectActivePool
    <3>4. w' # [w EXCEPT !.pc = "build"]
      BY <1>4, <3>1 DEF Workers
    <3>5. PICK f \in FirstChoices(cache, Listed(n)) :
               w' = SetStatus(w, NotReady("Superseded", f), "none")
      BY <3>3, <3>4
    <3>6. w'.verdict.by = f
      BY <3>1, <3>5 DEF SetStatus, NotReady, Workers
    <3>7. f \in Pools /\ cache[f] # None /\ Eldest(f)
      BY FirstListed DEF OnceInv
    <3>8. Lead(f)
      BY <3>7 DEF Lead
    <3> QED
      BY <1>1, <3>6, <3>8 DEF Lead, Eldest
  <2>5. CASE Worker /\ ~ SelectActivePool
    <3>1. w' = Idle \/ Proceeds
      BY <2>5, WorkerMoves DEF ReturnError, Finishes, Reports, Return
    <3>2. CASE ListNone \/ ListRemaining
      <4>1. w \in Workers
        BY DEF TypeInv, Fits
      <4>2. w'.pc \in {"remove", "build"}
        BY <3>2, <4>1 DEF ListNone, ListRemaining, Workers
      <4> QED
        BY <1>4, <4>2
    <3> QED
      BY <1>4, <2>1, <2>5, <3>1, <3>2 DEF Proceeds
  <2>6. CASE Restart
    BY <1>4, <2>1, <2>6, Restarted
  <2> QED
    BY <2>2, <2>3, <2>4, <2>5, <2>6, Sides, Delivered DEF Aside
<1> QED
  BY <1>3, <1>4 DEF NamesLead

(****************************************************************************)
(* If no two pools are created in one second and no name is used twice,     *)
(* the operator comes to rest with every Superseded pool naming the active  *)
(* pool or one that is gone, for any number of pools: with three and more   *)
(* nothing reconciles the others when the active pool changes, so the       *)
(* message of setReadyCondition is only as good as the order of the pools   *)
(* is stable.  (Within one second it turns when the stamps arrive:          *)
(* pool_same_second; with a name that is used again it turns too.)          *)
(****************************************************************************)
THEOREM SupersededByActive ==
    ASSUME 0 \notin Gaps
    PROVE  Spec /\ []Once => []SettledSupersededByActive
<1>1. Init => DifferentSeconds /\ NamesLead
  <2> SUFFICES ASSUME Init PROVE DifferentSeconds /\ NamesLead
    OBVIOUS
  <2>1. /\ w = Idle /\ poolWatch = <<>>
        /\ \A p \in Pools : api[p] = None /\ cache[p] = None
    BY DEF Init
  <2>2. Len(poolWatch) = 0 /\ w.pc = "idle"
    BY <2>1 DEF Idle
  <2>3. \A p \in Pools : Copies(p) = {} /\ ~ Resting(p)
    BY <2>1, <2>2 DEF Copies, Resting, HasStatus
  <2> QED
    BY <2>2, <2>3 DEF DifferentSeconds, NamesLead
<1>2. ASSUME SteadyInv, SteadyInv', Once', DifferentSeconds, NamesLead, [Next]_vars
      PROVE  DifferentSeconds' /\ NamesLead'
  BY <1>2, SecondsStep, NamesLeadStep DEF SteadyInv, OnceInv
<1>3. ASSUME SteadyInv, DifferentSeconds, NamesLead
      PROVE  SettledSupersededByActive
  <2> SUFFICES ASSUME Settled, NEW p \in Pools, api[p] # None,
                      api[p].status.reason = "Superseded", api[api[p].status.by] # None,
                      api[api[p].status.by].status.reason = "Superseded"
               PROVE  FALSE
    BY DEF SettledSupersededByActive
  <2>1. \A q \in Pools : cache[q] = api[q] /\ ~ Stirred(q) /\ ~ Reconciling(q) /\ ~ Leaving(q)
    BY <1>3, RestingCache DEF SteadyInv
  <2>2. \A q \in Pools : api[q] # None => Resting(q)
    BY <1>3, <2>1, RestingStatus DEF SteadyInv, Resting
  <2>3. PICK b : b = api[p].status.by
    OBVIOUS
  <2>4. Lead(b)
    BY <1>3, <2>2, <2>3 DEF NamesLead
  <2>5. b \in Pools /\ api[b] # None /\ cache[b] = api[b] /\ Eldest(b)
    BY <2>1, <2>3, <2>4 DEF Lead
  <2>6. Elder(b)
    BY <1>3, <2>2, <2>3, <2>5 DEF SteadyInv, OrderInv, StatusInOrder
  <2>7. PICK q \in PoolsIn(NamespaceOf[b]) \ {b} : cache[q] # None /\ cache[q].created <= api[b].created
    <3>1. w.pc = "idle"
      BY DEF Settled
    <3> QED
      BY <2>1, <2>6, <3>1 DEF Elder, Holding, PoolsIn
  <2>8. q \in Pools /\ api[q] # None /\ cache[q] = api[q]
    BY <2>1, <2>7 DEF PoolsIn
  <2>9. api[b].created <= api[q].created /\ api[q].created <= api[b].created
    BY <2>5, <2>7, <2>8 DEF Eldest
  <2>10. api[q].created \in Nat /\ api[b].created \in Nat
    BY <1>3, <2>5, <2>8 DEF SteadyInv, TypeInv, TypeOK, PoolObjects
  <2>11. api[q].created # api[b].created
    BY <1>3, <2>5, <2>7, <2>8 DEF DifferentSeconds, Copies
  <2> QED
    BY <2>9, <2>10, <2>11
<1> QED
  BY <1>1, <1>2, <1>3, SteadyAlways, PTL DEF Spec
=============================================================================
