----------------------- MODULE UpstreamPoolWorkProofs -----------------------
(****************************************************************************)
(* What UpstreamPoolController gets done, for every set of pools and all    *)
(* bounds on lag, faults and restarts: no work is lost (NoLostWork), and    *)
(* when the operator rests, the status of a pool is true                    *)
(* (SettledReadyWasPublished, SettledSolePoolReady).                        *)
(*                                                                          *)
(* The first inductive invariant, WorkInv, says why a stale cache does no   *)
(* harm: an object that the cache, or the worker, has an old copy of has an *)
(* event on its way or its key in the queue.  The second, TruthInv, says    *)
(* the same of a status that is not true of the stored pool.                *)
(****************************************************************************)
EXTENDS UpstreamPoolControllerProofs

(* The last event of pool p is number i. *)
IsLastEvent(p, i) ==
    /\ poolWatch[i].pool = p
    /\ \A j \in 1 .. Len(poolWatch) : j > i => poolWatch[j].pool # p

(* The cache and the events on their way add up to what is stored. *)
Synced ==
    \A p \in Pools :
        /\ EventPending(p) \/ cache[p] = api[p]
        /\ \A i \in 1 .. Len(poolWatch) :
              IsLastEvent(p, i) => poolWatch[i].obj = api[p]

(* Something is left that will make the worker look at pool p again. *)
Pending(p) == EventPending(p) \/ queue[p] # "none"

(* The worker's copy is the stored pool, or the pool will be looked at again. *)
HoldsLatest ==
    w.pc \in Holding => w.obj = api[w.target] \/ Pending(w.target)

(* The pool p is not stamped or its status is not about its spec. *)
Needs(p) ==
    /\ api[p] # None
    /\ api[p].irv = 0 \/ api[p].status = None \/ api[p].status.gen # api[p].gen

(* The inductive invariant behind NoLostWork. *)
WorkInv == Synced /\ HoldsLatest /\ NoLostWork

(* A step that keeps Synced, the events on their way, and adds one for what it changes. *)
Watched ==
    /\ Synced'
    /\ \A p \in Pools : EventPending(p) => EventPending(p)'
    /\ \A p \in Pools : api'[p] # api[p] => EventPending(p)'

(* A step after which what was pending is, and what it changed is as well. *)
Kept ==
    \A p \in Pools :
        /\ Pending(p) => Pending(p)'
        /\ api'[p] # api[p] => Pending(p)'

-----------------------------------------------------------------------------
(* The domain of poolWatch is what IsLastEvent counts over. *)
LEMMA EventFacts ==
    ASSUME TypeOK, TypeOK', NEW p
    PROVE  /\ EventPending(p) <=> \E i \in 1 .. Len(poolWatch) : poolWatch[i].pool = p
           /\ EventPending(p)' <=> \E i \in 1 .. Len(poolWatch') : poolWatch'[i].pool = p
BY DEF TypeOK, EventPending

(* A write to a pool keeps Synced: its event, if any, is the pool's last. *)
LEMMA WriteSynced ==
    ASSUME TypeOK, Synced, NEW p \in Pools, NEW o \in PoolObjects \cup {None},
           ApiWrite(p, o), cache' = cache, TypeOK'
    PROVE  Watched
<1> DEFINE new == api'[p]
<1>1. /\ api' = [api EXCEPT ![p] = new]
      /\ poolWatch' = IF new = api[p] THEN poolWatch
                      ELSE Append(poolWatch, [pool |-> p, obj |-> new])
  BY DEF ApiWrite, TypeOK
<1>2. poolWatch \in Seq(PoolEvents)
  BY DEF TypeOK
<1> HIDE DEF new
<1>3. CASE new = api[p]
  <2>1. api' = api /\ poolWatch' = poolWatch
    BY <1>1, <1>3 DEF TypeOK
  <2> QED
    BY <2>1 DEF Watched, Synced, EventPending, IsLastEvent
<1>4. CASE new # api[p]
  <2>1. poolWatch' = Append(poolWatch, [pool |-> p, obj |-> new])
    BY <1>1, <1>4
  <2>2. /\ Len(poolWatch') = Len(poolWatch) + 1
        /\ Len(poolWatch) \in Nat
        /\ \A i \in 1 .. Len(poolWatch) : poolWatch'[i] = poolWatch[i]
        /\ poolWatch'[Len(poolWatch) + 1] = [pool |-> p, obj |-> new]
    BY <1>2, <2>1
  <2>3. \A q \in Pools : EventPending(q) => EventPending(q)'
    BY <2>2, EventFacts
  <2>4. EventPending(p)'
    BY <2>2, EventFacts
  <2>5. \A q \in Pools : q # p => api'[q] = api[q]
    BY <1>1 DEF TypeOK
  <2>6. ASSUME NEW q \in Pools, NEW i \in 1 .. Len(poolWatch'), IsLastEvent(q, i)'
        PROVE  poolWatch'[i].obj = api'[q]
    <3>1. CASE i = Len(poolWatch) + 1
      BY <2>2, <2>6, <3>1 DEF IsLastEvent, new
    <3>2. CASE i # Len(poolWatch) + 1
      <4>1. i \in 1 .. Len(poolWatch)
        BY <2>2, <3>2
      <4>2. q # p
        BY <2>2, <2>6, <4>1 DEF IsLastEvent
      <4>3. IsLastEvent(q, i)
        BY <2>2, <2>6, <4>1 DEF IsLastEvent
      <4> QED
        BY <2>2, <2>5, <4>1, <4>2, <4>3 DEF Synced
    <3> QED
      BY <3>1, <3>2
  <2>7. \A q \in Pools : EventPending(q)' \/ cache'[q] = api'[q]
    BY <2>3, <2>4, <2>5 DEF Synced
  <2>8. Synced'
    BY <2>6, <2>7 DEF Synced
  <2> QED
    BY <2>3, <2>4, <2>5, <2>8 DEF Watched
<1> QED
  BY <1>3, <1>4

(* A delivery keeps Synced: the cache takes over the event it consumes. *)
LEMMA DeliverSynced ==
    ASSUME TypeOK, TypeOK', Synced, DeliverPool
    PROVE  Synced' /\ Kept
<1> DEFINE e == Head(poolWatch)
<1>1. /\ poolWatch \in Seq(PoolEvents) /\ poolWatch # <<>>
      /\ poolWatch' = Tail(poolWatch)
      /\ cache' = [cache EXCEPT ![e.pool] = e.obj]
      /\ api' = api
      /\ queue' = Enqueue(queue, e.pool, "ready")
  BY DEF DeliverPool, TypeOK
<1>2. /\ Len(poolWatch) \in Nat \ {0}
      /\ Len(poolWatch') = Len(poolWatch) - 1
      /\ \A i \in 1 .. Len(poolWatch) - 1 : poolWatch'[i] = poolWatch[i + 1]
      /\ e = poolWatch[1]
      /\ e \in PoolEvents
  BY <1>1
<1>3. e.pool \in Pools
  BY <1>2 DEF PoolEvents
<1> HIDE DEF e
<1>4. ASSUME NEW q \in Pools, EventPending(q), q # e.pool
      PROVE  EventPending(q)'
  <2>1. PICK i \in 1 .. Len(poolWatch) : poolWatch[i].pool = q
    BY <1>4, EventFacts
  <2>2. i # 1
    BY <1>2, <1>4, <2>1
  <2>3. i - 1 \in 1 .. Len(poolWatch') /\ poolWatch'[i - 1] = poolWatch[i]
    BY <1>2, <2>1, <2>2
  <2> QED
    BY <2>1, <2>3, EventFacts
<1>5. ASSUME NEW q \in Pools, ~ EventPending(q)'
      PROVE  cache'[q] = api'[q]
  <2>1. CASE q = e.pool
    <3>1. ASSUME NEW j \in 1 .. Len(poolWatch), j > 1
          PROVE  poolWatch[j].pool # q
      <4>1. j - 1 \in 1 .. Len(poolWatch') /\ poolWatch'[j - 1] = poolWatch[j]
        BY <1>2, <3>1
      <4> QED
        BY <1>5, <4>1, EventFacts
    <3>2. 1 \in 1 .. Len(poolWatch) /\ IsLastEvent(q, 1)
      BY <1>2, <2>1, <3>1 DEF IsLastEvent
    <3>3. e.obj = api[q]
      BY <1>2, <3>2 DEF Synced
    <3> QED
      BY <1>1, <1>3, <2>1, <3>3 DEF TypeOK
  <2>2. CASE q # e.pool
    BY <1>1, <1>3, <1>4, <1>5, <2>2 DEF Synced, TypeOK
  <2> QED
    BY <2>1, <2>2
<1>6. ASSUME NEW q \in Pools, NEW i \in 1 .. Len(poolWatch'), IsLastEvent(q, i)'
      PROVE  poolWatch'[i].obj = api'[q]
  <2>1. i + 1 \in 1 .. Len(poolWatch) /\ poolWatch'[i] = poolWatch[i + 1]
    BY <1>2
  <2>2. ASSUME NEW j \in 1 .. Len(poolWatch), j > i + 1
        PROVE  poolWatch[j].pool # q
    <3>1. j - 1 \in 1 .. Len(poolWatch') /\ j - 1 > i /\ poolWatch'[j - 1] = poolWatch[j]
      BY <1>2, <2>2
    <3> QED
      BY <1>6, <3>1 DEF IsLastEvent
  <2>3. IsLastEvent(q, i + 1)
    BY <1>6, <2>1, <2>2 DEF IsLastEvent
  <2> QED
    BY <1>1, <2>1, <2>3 DEF Synced
<1>7. Synced'
  BY <1>5, <1>6 DEF Synced
<1>8. ASSUME NEW q \in Pools, Pending(q)
      PROVE  Pending(q)'
  <2>1. queue \in [Pools -> Results] /\ "ready" \in Results
    BY DEF TypeOK, Results
  <2>2. /\ queue[q] # "none" => queue'[q] # "none"
        /\ queue'[e.pool] # "none"
    BY <1>1, <1>3, <2>1, EnqueueFacts
  <2> QED
    BY <1>4, <1>8, <2>2 DEF Pending
<1> QED
  BY <1>1, <1>7, <1>8 DEF Kept

-----------------------------------------------------------------------------
(* A step that neither writes pools nor delivers their events. *)
LEMMA UnwrittenWatched ==
    ASSUME Synced, UNCHANGED <<api, poolWatch, cache>>
    PROVE  Watched
BY DEF Watched, Synced, EventPending, IsLastEvent

(* Watched steps that lose no key of the queue keep what is pending. *)
LEMMA WatchedKept ==
    ASSUME Watched, \A p \in Pools : queue[p] # "none" => queue'[p] # "none"
    PROVE  Kept
BY DEF Watched, Kept, Pending

(* No work is lost by a step that keeps what is pending, unless a reconcile ends. *)
LEMMA KeptWork ==
    ASSUME NoLostWork, Kept,
           \A p \in Pools : Reconciling(p) => Reconciling(p)' \/ Pending(p)' \/ ~ Needs(p)'
    PROVE  NoLostWork'
<1> SUFFICES ASSUME NEW p \in Pools, Needs(p)'
             PROVE  Pending(p)' \/ Reconciling(p)'
  BY DEF NoLostWork, Needs, Pending
<1>1. CASE api'[p] # api[p]
  BY <1>1 DEF Kept
<1>2. CASE api'[p] = api[p]
  <2>1. Needs(p)
    BY <1>2 DEF Needs
  <2>2. Pending(p) \/ Reconciling(p)
    BY <2>1 DEF NoLostWork, Needs, Pending
  <2> QED
    BY <2>2 DEF Kept
<1> QED
  BY <1>1, <1>2

(* A step of others, while the worker stays where it is. *)
LEMMA OtherStep ==
    ASSUME TypeInv, WorkInv, Synced', Kept, w' = w
    PROVE  WorkInv'
<1>1. NoLostWork'
  BY KeptWork DEF WorkInv, Reconciling
<1>2. HoldsLatest'
  BY DEF WorkInv, HoldsLatest, Kept, TypeInv, Fits, Holding
<1> QED
  BY <1>1, <1>2 DEF WorkInv

(* A step of the worker from one call to the next, with the same pool at hand. *)
LEMMA WorkerStep ==
    ASSUME TypeInv, WorkInv, UNCHANGED <<api, poolWatch, cache, queue>>,
           w.pc # "idle", w'.pc # "idle", w'.pc \in Holding => w.pc \in Holding,
           w'.req = w.req, w'.del = w.del, w'.target = w.target, w'.obj = w.obj
    PROVE  WorkInv'
<1>1. Watched
  BY UnwrittenWatched DEF WorkInv
<1>2. Kept
  BY <1>1, WatchedKept
<1>3. NoLostWork'
  BY <1>2, KeptWork DEF WorkInv, Reconciling
<1>4. HoldsLatest'
  BY <1>2 DEF WorkInv, HoldsLatest, Kept, TypeInv, Fits, Holding
<1> QED
  BY <1>1, <1>3, <1>4 DEF WorkInv, Watched

(* Reconcile returns and nothing is owed to its pool, or its key comes back. *)
LEMMA ReturnStep ==
    ASSUME TypeInv, WorkInv, w.pc # "idle", Watched, NEW how \in Results, Return(how),
           NEW r \in Pools, w.req = r,
           \/ how # "none"
           \/ w.del
           \/ Pending(r)
           \/ EventPending(r)'
           \/ ~ Needs(r)'
    PROVE  WorkInv'
<1>1. w.req \in Pools /\ queue \in [Pools -> Results]
  BY DEF TypeInv, Fits, TypeOK
<1>2. /\ w' = Idle
      /\ \A p \in Pools : queue[p] # "none" => queue'[p] # "none"
      /\ how # "none" => queue'[w.req] # "none"
  BY <1>1, EnqueueFacts DEF Return
<1>3. Kept
  BY <1>2, WatchedKept
<1>4. ASSUME NEW p \in Pools, Reconciling(p)
      PROVE  Pending(p)' \/ ~ Needs(p)'
  <2>1. ~ w.del /\ p = w.req
    BY <1>4 DEF Reconciling
  <2>2. Pending(p) => Pending(p)'
    BY <1>3 DEF Kept
  <2> QED
    BY <1>1, <1>2, <2>1, <2>2 DEF Pending
<1>5. NoLostWork'
  BY <1>3, <1>4, KeptWork DEF WorkInv
<1>6. HoldsLatest'
  BY <1>2 DEF HoldsLatest, Idle, Holding
<1> QED
  BY <1>5, <1>6 DEF WorkInv, Watched

(* Reconcile returns an error. *)
LEMMA ErrorStep ==
    ASSUME TypeInv, WorkInv, w.pc # "idle", Watched, ReturnError
    PROVE  WorkInv'
<1>1. w.req \in Pools
  BY DEF TypeInv, Fits
<1> QED
  BY <1>1, ReturnStep DEF ReturnError, Results

-----------------------------------------------------------------------------
(* The users' operations lose no work: each write has its event. *)
LEMMA UsersWork == ASSUME TypeInv, TypeInv', WorkInv, Users PROVE WorkInv'
<1> USE DEF TypeInv, userVars, seenVars, breakerVars, configMapVars, apiVars
<1>1. ASSUME Watched, queue' = queue, w' = w
      PROVE  WorkInv'
  BY <1>1, WatchedKept, OtherStep DEF Watched
<1>2. ASSUME NEW p \in Pools, NEW o \in PoolObjects \cup {None}, ApiWrite(p, o),
             cache' = cache, queue' = queue, w' = w
      PROVE  WorkInv'
  BY <1>1, <1>2, WriteSynced DEF WorkInv
<1>3. ASSUME NEW p \in Pools, NEW s \in Specs, NEW gap \in Gaps, CreatePool(p, s, gap)
      PROVE  WorkInv'
  <2>1. now + gap \in Nat
    BY ControllerAssumption DEF TypeOK
  <2>2. [created |-> now + gap, rv |-> 1, irv |-> 0, gen |-> 1, spec |-> s,
         status |-> None] \in PoolObjects
    BY <2>1 DEF PoolObjects
  <2> QED
    BY <1>2, <1>3, <2>2 DEF CreatePool
<1>4. ASSUME NEW p \in Pools, NEW s \in Specs, EditPool(p, s)
      PROVE  WorkInv'
  <2>1. api[p] \in PoolObjects
    BY <1>4 DEF EditPool, TypeOK
  <2>2. [api[p] EXCEPT !.spec = s, !.gen = @ + 1] \in PoolObjects
    BY <2>1, EditedPool
  <2> QED
    BY <1>2, <1>4, <2>2 DEF EditPool
<1>5. ASSUME NEW p \in Pools, DeletePool(p)
      PROVE  WorkInv'
  BY <1>2, <1>5 DEF DeletePool
<1>6. ASSUME NEW n \in Namespaces, NEW v \in Profiles \cup {None}, SetProfile(n, v)
      PROVE  WorkInv'
  BY <1>1, <1>6, UnwrittenWatched DEF SetProfile, WorkInv
<1> QED
  BY <1>3, <1>4, <1>5, <1>6 DEF Users

(* Informers, timers, a failing first Get and a restart lose no work. *)
LEMMA SystemWork ==
    ASSUME TypeInv, TypeInv', WorkInv,
           Deliver \/ Timers \/ Restart \/ \E p \in Pools : GetFails(p)
    PROVE  WorkInv'
<1> USE DEF TypeInv, userVars, seenVars, breakerVars, configMapVars, apiVars
<1>1. ASSUME UNCHANGED <<api, poolWatch, cache, w>>,
             \A p \in Pools : queue[p] # "none" => queue'[p] # "none"
      PROVE  WorkInv'
  <2>1. Watched
    BY <1>1, UnwrittenWatched DEF WorkInv
  <2>2. Kept
    BY <1>1, <2>1, WatchedKept
  <2> QED
    BY <1>1, <2>1, <2>2, OtherStep DEF Watched
<1>2. CASE DeliverPool
  BY <1>2, DeliverSynced, OtherStep DEF WorkInv, DeliverPool
<1>3. ASSUME NEW n \in Namespaces, DeliverProfile(n)
      PROVE  WorkInv'
  BY <1>1, <1>3 DEF DeliverProfile
<1>4. ASSUME NEW c \in ConfigNamespaces, DeliverConfigMap(c)
      PROVE  WorkInv'
  BY <1>1, <1>4 DEF DeliverConfigMap
<1>5. ASSUME NEW p \in Pools, DelayOver(p) \/ GetFails(p)
      PROVE  WorkInv'
  <2>1. \A q \in Pools : queue[q] # "none" => queue'[q] # "none"
    BY <1>5 DEF DelayOver, GetFails, TypeOK
  <2> QED
    BY <1>1, <1>5, <2>1 DEF DelayOver, GetFails, environmentVars
<1>6. ASSUME NEW c \in ConfigNamespaces, CircuitWindowPasses(c)
      PROVE  WorkInv'
  BY <1>1, <1>6 DEF CircuitWindowPasses
<1>7. CASE Restart
  <2>1. /\ api' = api /\ cache' = api /\ poolWatch' = <<>> /\ w' = Idle
        /\ \A p \in Pools : api[p] # None => queue'[p] # "none"
    BY <1>7 DEF Restart
  <2>2. Synced'
    BY <2>1 DEF Synced
  <2>3. HoldsLatest'
    BY <2>1 DEF HoldsLatest, Idle, Holding
  <2>4. NoLostWork'
    BY <2>1 DEF NoLostWork
  <2> QED
    BY <2>2, <2>3, <2>4 DEF WorkInv
<1> QED
  BY <1>2, <1>3, <1>4, <1>5, <1>6, <1>7 DEF Deliver, Timers

(****************************************************************************)
(* Taking a key loses no work: the reconcile is of that pool, or the cache  *)
(* has no such pool, and then none is stored or its event is on its way.    *)
(****************************************************************************)
LEMMA StartWork ==
    ASSUME TypeInv, TypeInv', WorkInv, NEW p \in Pools, Start(p)
    PROVE  WorkInv'
<1> USE DEF TypeInv, environmentVars, userVars, seenVars, breakerVars, configMapVars, apiVars
<1>1. /\ UNCHANGED <<api, poolWatch, cache>>
      /\ w.pc = "idle"
      /\ queue' = [queue EXCEPT ![p] = "none"]
  BY DEF Start, ReconcilePool, ReconcileDeletion, TakeKey
<1>2. Watched
  BY <1>1, UnwrittenWatched DEF WorkInv
<1>3. \A q \in Pools \ {p} : queue'[q] = queue[q]
  BY <1>1 DEF TypeOK
<1>4. ASSUME NEW q \in Pools, q # p, Needs(q)'
      PROVE  Pending(q)'
  <2>1. Needs(q)
    BY <1>1, <1>4 DEF Needs
  <2>2. Pending(q)
    BY <1>1, <2>1 DEF WorkInv, NoLostWork, Needs, Reconciling, Pending
  <2> QED
    BY <1>2, <1>3, <1>4, <2>2 DEF Watched, Pending
<1>5. EventPending(p)' \/ cache[p] = api[p]
  BY <1>2 DEF WorkInv, Synced, Watched
<1>6. CASE ReconcilePool(p)
  <2> DEFINE x == [Idle EXCEPT !.req = p, !.target = p, !.obj = cache[p]]
  <2>1. cache[p] \in PoolObjects /\ Idle \in Workers
    BY <1>6, IdleFits DEF ReconcilePool, TypeOK, Fits
  <2>2. /\ x \in Workers /\ x.req = p /\ x.target = p /\ x.obj = cache[p] /\ ~ x.del
    BY <2>1 DEF Idle, Workers
  <2>3. w' = IF cache[p].irv # 0 THEN Validated(x) ELSE [x EXCEPT !.pc = "stamp"]
    BY <1>6 DEF ReconcilePool
  <2> HIDE DEF x
  <2>4. /\ w'.pc \in {"stamp", "select", "status"} /\ w'.req = p /\ ~ w'.del
        /\ w'.target = p /\ w'.obj = cache[p]
    <3>1. CASE cache[p].irv # 0
      BY <2>1, <2>2, <2>3, <3>1, ValidatedFits
    <3>2. CASE cache[p].irv = 0
      BY <2>2, <2>3, <3>2 DEF Workers, Steps
    <3> QED
      BY <3>1, <3>2
  <2>5. HoldsLatest'
    BY <1>1, <1>5, <2>4 DEF HoldsLatest, Pending
  <2>6. Reconciling(p)'
    BY <2>4 DEF Reconciling
  <2>7. NoLostWork'
    BY <1>4, <2>6 DEF NoLostWork, Needs, Pending
  <2> QED
    BY <1>2, <2>5, <2>7 DEF WorkInv, Watched
<1>7. CASE ReconcileDeletion(p)
  <2>1. cache[p] = None /\ w'.pc = "list"
    BY <1>7 DEF ReconcileDeletion, Idle
  <2>2. HoldsLatest'
    BY <2>1 DEF HoldsLatest, Holding
  <2>3. Needs(p)' => Pending(p)'
    BY <1>1, <1>5, <2>1 DEF Needs, Pending
  <2>4. NoLostWork'
    BY <1>4, <2>3 DEF NoLostWork, Needs, Pending
  <2> QED
    BY <1>2, <2>2, <2>4 DEF WorkInv, Watched
<1> QED
  BY <1>6, <1>7 DEF Start

(* setReadyCondition leaves the pool and the request at hand as they are. *)
LEMMA SetStatusKeeps ==
    ASSUME NEW x \in Workers, NEW v, NEW result
    PROVE  /\ SetStatus(x, v, result).pc = "status"
           /\ SetStatus(x, v, result).req = x.req
           /\ SetStatus(x, v, result).del = x.del
           /\ SetStatus(x, v, result).target = x.target
           /\ SetStatus(x, v, result).obj = x.obj
BY DEF SetStatus, Workers

(* Selecting a pool loses no work. *)
LEMMA SelectWork ==
    ASSUME TypeInv, TypeInv', WorkInv, SelectActivePool \/ ListNone \/ ListRemaining
    PROVE  WorkInv'
<1> USE DEF environmentVars, userVars, seenVars, apiVars
<1>1. w \in Workers /\ w.pc \in {"select", "list"} /\ w.req \in Pools
  BY DEF SelectActivePool, ListNone, ListRemaining, TypeInv, Fits
<1>2. UNCHANGED <<api, poolWatch, cache, queue>>
  BY DEF SelectActivePool, ListNone, ListRemaining
<1>3. CASE SelectActivePool
  <2>1. \/ w' = [w EXCEPT !.pc = "build"]
        \/ \E active : w' = SetStatus(w, NotReady("Superseded", active), "none")
    BY <1>3 DEF SelectActivePool
  <2>2. /\ w'.pc \in {"build", "status"} /\ w'.req = w.req /\ w'.del = w.del
        /\ w'.target = w.target /\ w'.obj = w.obj
    <3>1. CASE w' = [w EXCEPT !.pc = "build"]
      BY <1>1, <3>1 DEF Workers, Steps
    <3> QED
      BY <1>1, <2>1, <3>1, SetStatusKeeps
  <2>3. w.pc = "select"
    BY <1>3 DEF SelectActivePool
  <2> QED
    BY <1>2, <2>2, <2>3, WorkerStep DEF Holding
<1>4. CASE ListNone
  <2>1. w' = [w EXCEPT !.pc = "remove"]
    BY <1>4 DEF ListNone
  <2>2. /\ w'.pc = "remove" /\ w'.req = w.req /\ w'.del = w.del
        /\ w'.target = w.target /\ w'.obj = w.obj
    BY <1>1, <2>1 DEF Workers, Steps
  <2> QED
    BY <1>1, <1>2, <2>2, WorkerStep DEF Holding
<1>5. CASE ListRemaining
  <2>1. PICK first \in FirstChoices(cache, Listed(NamespaceOf[w.req])) :
             w' = [w EXCEPT !.pc = "build", !.target = first, !.obj = cache[first]]
    BY <1>5 DEF ListRemaining
  <2>2. first \in Pools
    BY <2>1 DEF FirstChoices, Listed, PoolsIn
  <2>3. /\ w'.pc = "build" /\ w'.target = first /\ w'.obj = cache[first]
    BY <1>1, <2>1 DEF Workers, Steps
  <2>4. Watched
    BY <1>2, UnwrittenWatched DEF WorkInv
  <2>5. HoldsLatest'
    BY <1>2, <2>2, <2>3, <2>4 DEF WorkInv, Synced, Watched, HoldsLatest, Pending
  <2>6. \A p \in Pools : ~ Reconciling(p)
    BY <1>5 DEF ListRemaining, TypeInv, Fits, Reconciling
  <2>7. NoLostWork'
    BY <1>2, <2>4, <2>6, WatchedKept, KeptWork DEF WorkInv
  <2> QED
    BY <2>4, <2>5, <2>7 DEF WorkInv, Watched
<1> QED
  BY <1>3, <1>4, <1>5

(* Building and publishing the configuration loses no work. *)
LEMMA PublishWork ==
    ASSUME TypeInv, TypeInv', WorkInv,
           \/ BuildConfig \/ ReadFails
           \/ UpsertConfigMap \/ ConfigMapWritten \/ ConfigMapNotWritten
    PROVE  WorkInv'
<1> USE DEF environmentVars, userVars, seenVars, apiVars
<1>1. w \in Workers /\ w.pc # "idle" /\ w.req \in Pools
  BY DEF BuildConfig, ReadFails, UpsertConfigMap, ConfigMapWritten, ConfigMapNotWritten,
         TypeInv, Fits
<1>2. UNCHANGED <<api, poolWatch, cache>>
  BY DEF BuildConfig, ReadFails, UpsertConfigMap, ConfigMapWritten, ConfigMapNotWritten
<1>3. Watched
  BY <1>2, UnwrittenWatched DEF WorkInv
<1>4. CASE ReturnError
  BY <1>1, <1>3, <1>4, ErrorStep
<1>5. ASSUME w.pc \in Holding, queue' = queue,
             \/ \E v, result : w' = SetStatus(w, v, result)
             \/ \E cfg : w' = [w EXCEPT !.pc = "upsert", !.cfg = cfg]
             \/ \E stale : w' = [w EXCEPT !.pc = "write", !.stale = stale]
      PROVE  WorkInv'
  <2>1. /\ w'.pc \in Holding /\ w'.req = w.req /\ w'.del = w.del
        /\ w'.target = w.target /\ w'.obj = w.obj
    <3>1. CASE \E v, result : w' = SetStatus(w, v, result)
      BY <1>1, <3>1, SetStatusKeeps DEF Holding
    <3>2. CASE \E cfg : w' = [w EXCEPT !.pc = "upsert", !.cfg = cfg]
      BY <1>1, <3>2 DEF Workers, Steps, Holding
    <3>3. CASE \E stale : w' = [w EXCEPT !.pc = "write", !.stale = stale]
      BY <1>1, <3>3 DEF Workers, Steps, Holding
    <3> QED
      BY <1>5, <3>1, <3>2, <3>3
  <2>2. w'.pc # "idle"
    BY <2>1 DEF Holding
  <2> QED
    BY <1>1, <1>2, <1>5, <2>1, <2>2, WorkerStep
<1>6. CASE BuildConfig
  BY <1>4, <1>5, <1>6 DEF BuildConfig, Holding
<1>7. CASE ReadFails
  BY <1>4, <1>5, <1>7 DEF ReadFails, Holding
<1>8. CASE UpsertConfigMap
  BY <1>5, <1>8 DEF UpsertConfigMap, Holding
<1>9. CASE ConfigMapWritten
  BY <1>5, <1>9 DEF ConfigMapWritten, Holding
<1>10. CASE ConfigMapNotWritten
  BY <1>4, <1>5, <1>10 DEF ConfigMapNotWritten, Holding
<1> QED
  BY <1>6, <1>7, <1>8, <1>9, <1>10

(* Removing the key loses no work: it is done for a pool that is gone. *)
LEMMA RemoveWork ==
    ASSUME TypeInv, TypeInv', WorkInv,
           RemoveConfigKey \/ ConfigKeyRemoved \/ ConfigKeyNotRemoved
    PROVE  WorkInv'
<1> USE DEF environmentVars, userVars, seenVars, apiVars
<1>1. /\ w \in Workers /\ w.pc \in {"remove", "removeWrite"} /\ w.req \in Pools /\ w.del
      /\ UNCHANGED <<api, poolWatch, cache>>
  BY DEF RemoveConfigKey, ConfigKeyRemoved, ConfigKeyNotRemoved, TypeInv, Fits
<1>2. Watched
  BY <1>1, UnwrittenWatched DEF WorkInv
<1>3. CASE Return("none") \/ ReturnError
  BY <1>1, <1>2, <1>3, ReturnStep DEF ReturnError, Results
<1>4. ASSUME NEW stale, queue' = queue, w' = [w EXCEPT !.pc = "removeWrite", !.stale = stale]
      PROVE  WorkInv'
  <2>1. /\ w'.pc = "removeWrite" /\ w'.req = w.req /\ w'.del = w.del
        /\ w'.target = w.target /\ w'.obj = w.obj
    BY <1>1, <1>4 DEF Workers, Steps
  <2> QED
    BY <1>1, <1>4, <2>1, WorkerStep DEF Holding
<1> QED
  BY <1>3, <1>4 DEF RemoveConfigKey, ConfigKeyRemoved, ConfigKeyNotRemoved

(* The patches of a pool have their event, if they change it. *)
LEMMA PatchWatched ==
    ASSUME TypeInv, TypeInv', WorkInv, cache' = cache, w.pc \in {"stamp", "status"},
           \/ UNCHANGED apiVars
           \/ /\ w.pc = "stamp" /\ api[w.target] # None
              /\ ApiWrite(w.target, [api[w.target] EXCEPT !.irv = w.obj.rv])
           \/ w.pc = "status" /\ api[w.target] # None /\ PatchStatus
    PROVE  Watched
<1>1. CASE UNCHANGED apiVars
  BY <1>1, UnwrittenWatched DEF WorkInv, apiVars
<1>2. ASSUME api[w.target] # None, NEW o \in PoolObjects, ApiWrite(w.target, o)
      PROVE  Watched
  BY <1>2, PatchedObjects, WriteSynced DEF WorkInv, TypeInv
<1>3. CASE /\ w.pc = "stamp" /\ api[w.target] # None
           /\ ApiWrite(w.target, [api[w.target] EXCEPT !.irv = w.obj.rv])
  BY <1>2, <1>3, PatchedObjects
<1>4. CASE w.pc = "status" /\ api[w.target] # None /\ PatchStatus
  <2>1. CASE Desired = w.obj.status
    BY <1>2, <1>4, <2>1, PatchedObjects DEF PatchStatus
  <2>2. CASE Desired # w.obj.status
    BY <1>2, <1>4, <2>2, PatchedObjects DEF PatchStatus
  <2> QED
    BY <2>1, <2>2
<1> QED
  BY <1>1, <1>3, <1>4

(****************************************************************************)
(* The status patch settles its pool if the worker's copy was the stored    *)
(* one: the pool is stamped and its status is about its generation.         *)
(****************************************************************************)
LEMMA PatchSettles ==
    ASSUME TypeInv, w.pc = "status", ~ w.del, NEW r \in Pools, w.req = r,
           api[r] # None, w.obj = api[r], PatchStatus
    PROVE  ~ Needs(r)'
<1>1. /\ w.target = r /\ w.obj \in PoolObjects /\ w.obj.irv # 0
      /\ w.verdict \in Verdicts
      /\ api \in [Pools -> PoolObjects \cup {None}]
  BY DEF TypeInv, Fits, Holding, TypeOK
<1>2. /\ Desired \in Statuses /\ Desired.gen = w.obj.gen
      /\ [api[r] EXCEPT !.status = Desired] \in PoolObjects
  BY <1>1, PatchedObjects DEF Desired
<1>3. Desired # None
  BY <1>2, NoneAssumption
<1>4. CASE Desired = w.obj.status
  <2>1. ApiWrite(r, api[r])
    BY <1>1, <1>4 DEF PatchStatus
  <2>2. api' = api
    BY <1>1, <2>1 DEF ApiWrite
  <2> QED
    BY <1>1, <1>2, <1>3, <1>4, <2>2 DEF Needs
<1>5. CASE Desired # w.obj.status
  <2> DEFINE o == [api[r] EXCEPT !.status = Desired]
  <2>1. ApiWrite(r, o)
    BY <1>1, <1>5 DEF PatchStatus
  <2>2. o.irv = api[r].irv /\ o.gen = api[r].gen /\ o.status = Desired
    BY <1>1 DEF PoolObjects
  <2> HIDE DEF o
  <2>3. api'[r] = o
    BY <1>1, <2>1, <2>2 DEF ApiWrite
  <2> QED
    BY <1>1, <1>2, <1>3, <2>2, <2>3 DEF Needs
<1> QED
  BY <1>4, <1>5

(* The patches, done or failing, lose no work. *)
LEMMA PatchWork ==
    ASSUME TypeInv, TypeInv', WorkInv,
           ensureInitialRVAnnotation \/ setReadyCondition \/ PatchFails
    PROVE  WorkInv'
<1> USE DEF environmentVars, userVars, seenVars
<1>1. /\ w \in Workers /\ w.pc \in {"stamp", "status"} /\ w.req \in Pools
      /\ w.target \in Pools /\ w.obj \in PoolObjects /\ cache' = cache
  BY DEF ensureInitialRVAnnotation, setReadyCondition, PatchFails, TypeInv, Fits, Holding
<1>2. Watched
  BY <1>1, PatchWatched DEF ensureInitialRVAnnotation, setReadyCondition, PatchFails
<1>3. CASE ReturnError
  BY <1>1, <1>2, <1>3, ErrorStep
<1>4. CASE ensureInitialRVAnnotation /\ api[w.target] # None
  <2> DEFINE x == [w EXCEPT !.obj = api'[w.target]]
  <2>1. /\ w.pc = "stamp" /\ w' = Validated(x) /\ queue' = queue
        /\ ApiWrite(w.target, [api[w.target] EXCEPT !.irv = w.obj.rv])
    BY <1>4 DEF ensureInitialRVAnnotation
  <2>2. /\ ~ w.del /\ w.target = w.req
        /\ [api[w.target] EXCEPT !.irv = w.obj.rv] \in PoolObjects
        /\ [api[w.target] EXCEPT !.irv = w.obj.rv].irv # 0
    BY <1>1, <1>4, <2>1, PatchedObjects DEF TypeInv, Fits
  <2>3. api'[w.target] \in PoolObjects /\ api'[w.target].irv # 0
    <3> DEFINE o == [api[w.target] EXCEPT !.irv = w.obj.rv]
    <3>1. ApiWrite(w.target, o) /\ o \in PoolObjects /\ o.irv # 0
      BY <2>1, <2>2
    <3> HIDE DEF o
    <3>2. api'[w.target] = o
      BY <1>1, <3>1 DEF ApiWrite, TypeInv, TypeOK
    <3> QED
      BY <3>1, <3>2
  <2>4. /\ x \in Workers /\ x.req = w.req /\ x.target = w.target /\ ~ x.del
        /\ x.obj = api'[w.target]
    BY <1>1, <2>2, <2>3 DEF Workers
  <2> HIDE DEF x
  <2>5. /\ w'.pc \in {"select", "status"} /\ w'.req = w.req /\ ~ w'.del
        /\ w'.target = w.target /\ w'.obj = api'[w.target]
    BY <1>1, <2>1, <2>2, <2>3, <2>4, ValidatedFits
  <2>6. HoldsLatest'
    BY <2>5 DEF HoldsLatest
  <2>7. \A p \in Pools : Reconciling(p) => Reconciling(p)'
    BY <2>5 DEF Reconciling
  <2>8. NoLostWork'
    BY <1>2, <2>1, <2>7, WatchedKept, KeptWork DEF WorkInv
  <2> QED
    BY <1>2, <2>6, <2>8 DEF WorkInv, Watched
<1>5. CASE setReadyCondition /\ api[w.target] # None
  <2>1. PICK how \in Results : how = w.result
    BY <1>1 DEF Workers, Results
  <2>2. w.pc = "status" /\ PatchStatus /\ Return(how)
    BY <1>5, <2>1 DEF setReadyCondition
  <2>3. PICK r \in Pools : r = w.req
    BY <1>1
  <2>4. CASE w.del
    BY <1>1, <1>2, <2>2, <2>3, <2>4, ReturnStep
  <2>5. CASE ~ w.del
    <3>1. w.target = r
      BY <2>2, <2>3, <2>5 DEF TypeInv, Fits
    <3>2. Pending(r) \/ w.obj = api[r]
      BY <2>2, <3>1 DEF WorkInv, HoldsLatest, Holding
    <3>3. Pending(r) \/ ~ Needs(r)'
      BY <1>5, <2>2, <2>3, <2>5, <3>1, <3>2, PatchSettles
    <3> QED
      BY <1>1, <1>2, <2>2, <2>3, <3>3, ReturnStep
  <2> QED
    BY <2>4, <2>5
<1> QED
  BY <1>3, <1>4, <1>5 DEF ensureInitialRVAnnotation, setReadyCondition, PatchFails

-----------------------------------------------------------------------------
(* WorkInv holds in every state. *)
LEMMA WorkAlways == Spec => []WorkInv
<1>1. Init => WorkInv
  <2> SUFFICES ASSUME Init PROVE WorkInv
    OBVIOUS
  <2>1. /\ cache = api /\ poolWatch = <<>> /\ w = Idle
        /\ \A p \in Pools : api[p] = None
    BY DEF Init
  <2>2. Synced /\ NoLostWork
    BY <2>1 DEF Synced, NoLostWork
  <2>3. HoldsLatest
    BY <2>1 DEF HoldsLatest, Idle, Holding
  <2> QED
    BY <2>2, <2>3 DEF WorkInv
<1>2. ASSUME TypeInv, TypeInv', WorkInv, [Next]_vars
      PROVE  WorkInv'
  <2>1. CASE UNCHANGED vars
    <3>1. UNCHANGED <<api, poolWatch, cache, queue, w>>
      BY <2>1 DEF vars, apiVars, seenVars
    <3>2. Watched
      BY <1>2, <3>1, UnwrittenWatched DEF WorkInv
    <3> QED
      BY <1>2, <3>1, <3>2, WatchedKept, OtherStep DEF Watched
  <2>2. CASE Worker
    BY <1>2, <2>2, SelectWork, PublishWork, RemoveWork, PatchWork DEF Worker
  <2> QED
    BY <1>2, <2>1, <2>2, UsersWork, SystemWork, StartWork DEF Next
<1>3. Spec => []TypeInv
  BY TypeCorrect DEF TypeInv
<1> QED
  BY <1>1, <1>2, <1>3, PTL DEF Spec

(****************************************************************************)
(* No work is lost: whatever the informers' lag, lost answers, failing      *)
(* calls, conflicts and restarts, a pool that is not stamped or whose       *)
(* status is about another generation has an event, a request, a retry or   *)
(* a running reconcile left.                                                *)
(****************************************************************************)
THEOREM WorkIsNotLost == Spec => []NoLostWork
<1>1. WorkInv => NoLostWork
  BY DEF WorkInv
<1> QED
  BY <1>1, WorkAlways, PTL

-----------------------------------------------------------------------------
(****************************************************************************)
(* What the status of a pool says when the operator rests.  The inductive   *)
(* invariant says that the status of a pool, or the verdict the worker is   *)
(* about to write, is true of what is stored, unless something is left that *)
(* will make the worker look at the pool again.                             *)
(****************************************************************************)

(* Something is left for pool p, or an event of the profile that will enqueue it. *)
Stirred(p) == Pending(p) \/ profWatch[NamespaceOf[p]] # <<>>

(****************************************************************************)
(* Another pool of p's namespace is in the cache, or its key is in the      *)
(* queue, or the worker handles its deletion and p may be the pool that it  *)
(* goes on with.                                                            *)
(****************************************************************************)
Superseding(p) ==
    \E q \in PoolsIn(NamespaceOf[p]) \ {p} :
        \/ cache[q] # None
        \/ queue[q] # "none"
        \/ /\ w.del /\ w.req = q
           /\ w.pc = "list" \/ (w.pc \in Holding /\ w.target = p)

(* The verdict, or the status, v is true of pool p as it is stored. *)
Truth(p, v) ==
    /\ v.ready => Wanted(p) \in published[operatorNamespace(NamespaceOf[p])]
    /\ ~ v.ready => v.reason \in BuildFailures \cup {"InvalidSpec", "Superseded"}
    /\ v.reason = "InvalidSpec" => ~ validateDNSUpstreamPool(api[p].spec)
    /\ v.reason \in BuildFailures => BuildResult[api[p].spec] # "ok"
    /\ v.reason = "Superseded" => Superseding(p)

(* The cached cache profile and the events on their way add up to what is stored. *)
ProfilesSynced ==
    \A n \in Namespaces :
        /\ profWatch[n] = <<>> => profCache[n] = profile[n]
        /\ profWatch[n] # <<>> => profWatch[n][Len(profWatch[n])] = profile[n]

(* A configuration that is stored, cached or on its way to the cache was published. *)
ConfigMapsKnown ==
    \A c \in ConfigNamespaces : \A v \in Configs :
        (\/ v = configMap[c]
         \/ v = cmCache[c]
         \/ \E i \in 1 .. Len(cmWatch[c]) : v = cmWatch[c][i])
        => v \in published[c]

HasStatus(p) == api[p] # None /\ api[p].status # None

StatusTrue ==
    \A p \in Pools :
        HasStatus(p) => Truth(p, api[p].status) \/ Stirred(p) \/ Reconciling(p)

(* The worker x, reconciling its request, is about to publish or to say what is true. *)
Honest(x) ==
    /\ x.pc \in {"upsert", "write"} /\ ~ x.del => Stirred(x.req) \/ x.cfg = Wanted(x.req)
    /\ x.pc = "status" /\ ~ x.del =>
          Stirred(x.req) \/ Truth(x.req, x.verdict) \/ x.result # "none"
    /\ x.pc = "status" /\ x.del => x.verdict.reason # "Superseded"

(* The inductive invariant behind the properties of the resting operator. *)
TruthInv == ProfilesSynced /\ ConfigMapsKnown /\ StatusTrue /\ Honest(w)

-----------------------------------------------------------------------------
(* The worker and the timers leave the cache profiles and their events alone. *)
LEMMA ProfilesAlone ==
    ASSUME Worker \/ Timers \/ \E p \in Pools : Start(p) \/ GetFails(p)
    PROVE  UNCHANGED <<profile, profCache, profWatch>>
<1> USE DEF environmentVars, userVars, seenVars
<1>1. CASE Worker
  BY <1>1 DEF Worker, ensureInitialRVAnnotation, SelectActivePool, ListNone, ListRemaining,
              BuildConfig, UpsertConfigMap, ConfigMapWritten, ConfigMapNotWritten,
              RemoveConfigKey, ConfigKeyRemoved, ConfigKeyNotRemoved, setReadyCondition,
              PatchFails, ReadFails
<1>2. CASE Timers
  BY <1>2 DEF Timers, DelayOver, CircuitWindowPasses
<1>3. CASE \E p \in Pools : Start(p) \/ GetFails(p)
  BY <1>3 DEF Start, ReconcilePool, ReconcileDeletion, GetFails
<1> QED
  BY <1>1, <1>2, <1>3

(* Without its head, a sequence has the same last element, or is empty. *)
LEMMA TailLast ==
    ASSUME NEW S, NEW s \in Seq(S), s # <<>>
    PROVE  /\ Tail(s) = <<>> => Head(s) = s[Len(s)]
           /\ Tail(s) # <<>> => Tail(s)[Len(Tail(s))] = s[Len(s)]
<1>1. /\ Len(s) \in Nat \ {0} /\ Tail(s) \in Seq(S) /\ Len(Tail(s)) = Len(s) - 1
      /\ Head(s) = s[1]
      /\ \A i \in 1 .. Len(s) - 1 : Tail(s)[i] = s[i + 1]
  OBVIOUS
<1>2. CASE Tail(s) = <<>>
  <2>1. Len(<<>>) = 0
    OBVIOUS
  <2>2. Len(Tail(s)) = 0
    BY <1>2, <2>1, Zenon
  <2>3. Len(s) = 1
    <3> DEFINE m == Len(s)
               k == Len(Tail(s))
    <3>1. m \in Nat /\ k = m - 1 /\ k = 0
      BY <1>1, <2>2
    <3> HIDE DEF m, k
    <3>2. m = 1
      BY <3>1
    <3> QED
      BY <3>2 DEF m
  <2> QED
    BY <1>1, <1>2, <2>3
<1>3. CASE Tail(s) # <<>>
  <2>1. Len(Tail(s)) # 0
    BY <1>1, <1>3
  <2>2. Len(s) - 1 \in 1 .. Len(s) - 1 /\ (Len(s) - 1) + 1 = Len(s)
    BY <1>1, <2>1
  <2> QED
    BY <1>1, <1>3, <2>2
<1> QED
  BY <1>2, <1>3

(* Every step keeps ProfilesSynced. *)
LEMMA ProfilesStep ==
    ASSUME TypeOK, ProfilesSynced, Next
    PROVE  ProfilesSynced'
<1> USE DEF userVars, seenVars
<1>1. ASSUME UNCHANGED <<profile, profCache, profWatch>>
      PROVE  ProfilesSynced'
  BY <1>1 DEF ProfilesSynced
<1>2. ASSUME NEW n \in Namespaces, NEW v \in Profiles \cup {None}, SetProfile(n, v)
      PROVE  ProfilesSynced'
  <2>1. /\ profWatch[n] \in Seq(Profiles \cup {None})
        /\ profile' = [profile EXCEPT ![n] = v]
        /\ profWatch' = [profWatch EXCEPT ![n] = Append(profWatch[n], v)]
        /\ profCache' = profCache
    BY <1>2 DEF SetProfile, TypeOK
  <2>2. LET s == Append(profWatch[n], v) IN s # <<>> /\ s[Len(s)] = v
    BY <2>1
  <2> QED
    BY <2>1, <2>2 DEF ProfilesSynced, TypeOK
<1>3. ASSUME NEW n \in Namespaces, DeliverProfile(n)
      PROVE  ProfilesSynced'
  <2> DEFINE s == profWatch[n]
  <2>1. /\ s \in Seq(Profiles \cup {None}) /\ s # <<>>
        /\ profile' = profile
        /\ profCache' = [profCache EXCEPT ![n] = Head(s)]
        /\ profWatch' = [profWatch EXCEPT ![n] = Tail(s)]
        /\ s[Len(s)] = profile[n]
    BY <1>3 DEF DeliverProfile, TypeOK, ProfilesSynced
  <2>2. profWatch'[n] = Tail(s) /\ profCache'[n] = Head(s)
    BY <2>1 DEF TypeOK
  <2> HIDE DEF s
  <2>3. /\ Tail(s) = <<>> => Head(s) = s[Len(s)]
        /\ Tail(s) # <<>> => Tail(s)[Len(Tail(s))] = s[Len(s)]
    BY <2>1, TailLast
  <2>4. \A m \in Namespaces : m # n => profWatch'[m] = profWatch[m] /\ profCache'[m] = profCache[m]
    BY <2>1 DEF TypeOK
  <2> QED
    BY <2>1, <2>2, <2>3, <2>4 DEF ProfilesSynced
<1>4. CASE Restart
  BY <1>4 DEF Restart, ProfilesSynced, TypeOK
<1>5. CASE Users
  BY <1>1, <1>2, <1>5 DEF Users, CreatePool, EditPool, DeletePool
<1>6. CASE Deliver
  BY <1>1, <1>3, <1>6 DEF Deliver, DeliverPool, DeliverConfigMap
<1> QED
  BY <1>1, <1>4, <1>5, <1>6, ProfilesAlone DEF Next

(* A store, of a configuration or of the ConfigMap without key, keeps ConfigMapsKnown. *)
LEMMA StoreKnown ==
    ASSUME TypeOK, ConfigMapsKnown, cmCache' = cmCache, NEW c \in ConfigNamespaces,
           NEW v \in Configs \cup {NoKey}, StoreConfigMap(c, v)
    PROVE  ConfigMapsKnown' /\ \A d \in ConfigNamespaces : published[d] \subseteq published'[d]
<1> DEFINE s == cmWatch[c]
<1>1. /\ s \in Seq(ConfigMapStates) /\ v \in ConfigMapStates
      /\ configMap' = [configMap EXCEPT ![c] = v]
      /\ cmWatch' = IF v = configMap[c] THEN cmWatch ELSE [cmWatch EXCEPT ![c] = Append(s, v)]
      /\ published' = [published EXCEPT ![c] = published[c] \cup ({v} \ {NoKey})]
  BY DEF StoreConfigMap, TypeOK, ConfigMapStates
<1>2. /\ published'[c] = published[c] \cup ({v} \ {NoKey})
      /\ configMap'[c] = v
      /\ cmWatch'[c] = s \/ cmWatch'[c] = Append(s, v)
      /\ \A d \in ConfigNamespaces : d # c =>
            /\ published'[d] = published[d] /\ configMap'[d] = configMap[d]
            /\ cmWatch'[d] = cmWatch[d]
  BY <1>1 DEF TypeOK
<1>3. ASSUME NEW i \in 1 .. Len(cmWatch'[c])
      PROVE  (\E j \in 1 .. Len(s) : cmWatch'[c][i] = s[j]) \/ cmWatch'[c][i] = v
  BY <1>1, <1>2
<1>4. ASSUME NEW x \in Configs,
             \/ x = configMap'[c] \/ x = cmCache'[c]
             \/ \E i \in 1 .. Len(cmWatch'[c]) : x = cmWatch'[c][i]
      PROVE  x \in published'[c]
  <2>1. x = v => x \in published'[c]
    BY <1>2, NoneAssumption
  <2>2. x = cmCache[c] \/ (\E j \in 1 .. Len(s) : x = s[j]) => x \in published[c]
    BY DEF ConfigMapsKnown
  <2> QED
    BY <1>2, <1>3, <1>4, <2>1, <2>2
<1>5. ASSUME NEW d \in ConfigNamespaces, d # c, NEW x \in Configs,
             \/ x = configMap'[d] \/ x = cmCache'[d]
             \/ \E i \in 1 .. Len(cmWatch'[d]) : x = cmWatch'[d][i]
      PROVE  x \in published'[d]
  BY <1>2, <1>5 DEF ConfigMapsKnown
<1>6. ConfigMapsKnown'
  BY <1>4, <1>5 DEF ConfigMapsKnown
<1> QED
  BY <1>2, <1>6

(* Every step keeps ConfigMapsKnown, and what was published stays published. *)
LEMMA ConfigMapsStep ==
    ASSUME TypeInv, ConfigMapsKnown, Next
    PROVE  /\ ConfigMapsKnown'
           /\ \A c \in ConfigNamespaces : published[c] \subseteq published'[c]
<1> DEFINE Goal == /\ ConfigMapsKnown'
                   /\ \A c \in ConfigNamespaces : published[c] \subseteq published'[c]
<1> USE DEF environmentVars, userVars, seenVars, configMapVars
<1>1. ASSUME UNCHANGED <<configMapVars, cmCache>>
      PROVE  Goal
  BY <1>1 DEF ConfigMapsKnown
<1>2. ASSUME w.pc # "idle", NEW v \in Configs \cup {NoKey}, cmCache' = cmCache,
             StoreConfigMap(ConfigNamespace, v)
      PROVE  Goal
  <2>1. ConfigNamespace \in ConfigNamespaces
    BY <1>2, RequestFacts DEF TypeInv, Fits
  <2> QED
    BY <1>2, <2>1, StoreKnown DEF TypeInv
<1>3. ASSUME NEW c \in ConfigNamespaces, DeliverConfigMap(c)
      PROVE  Goal
  <2> DEFINE s == cmWatch[c]
  <2>1. /\ s \in Seq(ConfigMapStates) /\ s # <<>>
        /\ configMap' = configMap /\ published' = published
        /\ cmCache' = [cmCache EXCEPT ![c] = Head(s)]
        /\ cmWatch' = [cmWatch EXCEPT ![c] = Tail(s)]
    BY <1>3 DEF DeliverConfigMap, TypeInv, TypeOK
  <2>2. /\ cmCache'[c] = s[1] /\ cmWatch'[c] = Tail(s) /\ 1 \in 1 .. Len(s)
        /\ \A i \in 1 .. Len(Tail(s)) : i + 1 \in 1 .. Len(s) /\ Tail(s)[i] = s[i + 1]
    BY <2>1 DEF TypeInv, TypeOK
  <2>3. \A d \in ConfigNamespaces : d # c => cmCache'[d] = cmCache[d] /\ cmWatch'[d] = cmWatch[d]
    BY <2>1 DEF TypeInv, TypeOK
  <2>4. \A x \in Configs : (\E j \in 1 .. Len(s) : x = s[j]) => x \in published[c]
    BY DEF ConfigMapsKnown
  <2> HIDE DEF s
  <2>5. ASSUME NEW d \in ConfigNamespaces, NEW x \in Configs,
               \/ x = configMap'[d] \/ x = cmCache'[d]
               \/ \E i \in 1 .. Len(cmWatch'[d]) : x = cmWatch'[d][i]
        PROVE  x \in published'[d]
    <3>1. CASE d = c
      BY <2>1, <2>2, <2>4, <2>5, <3>1 DEF ConfigMapsKnown
    <3>2. CASE d # c
      BY <2>1, <2>3, <2>5, <3>2 DEF ConfigMapsKnown
    <3> QED
      BY <3>1, <3>2
  <2> QED
    BY <2>1, <2>5 DEF ConfigMapsKnown
<1>4. CASE Restart
  <2>1. /\ configMap' = configMap /\ published' = published /\ cmCache' = configMap
        /\ \A c \in ConfigNamespaces : cmWatch'[c] = <<>>
    BY <1>4 DEF Restart
  <2> QED
    BY <2>1 DEF ConfigMapsKnown
<1>5. CASE Users
  BY <1>1, <1>5 DEF Users, CreatePool, EditPool, DeletePool, SetProfile
<1>6. CASE Deliver
  BY <1>1, <1>3, <1>6 DEF Deliver, DeliverPool, DeliverProfile
<1>7. CASE Timers
  BY <1>1, <1>7 DEF Timers, DelayOver, CircuitWindowPasses
<1>8. CASE \E p \in Pools : Start(p) \/ GetFails(p)
  BY <1>1, <1>8 DEF Start, ReconcilePool, ReconcileDeletion, GetFails
<1>9. CASE ConfigMapWritten \/ ConfigMapNotWritten
  <2>1. w.pc \in {"upsert", "write"} /\ w.cfg \in Configs /\ cmCache' = cmCache
    BY <1>9 DEF ConfigMapWritten, ConfigMapNotWritten, TypeInv, Fits
  <2> QED
    BY <1>1, <1>2, <1>9, <2>1 DEF ConfigMapWritten, ConfigMapNotWritten
<1>10. CASE ConfigKeyRemoved \/ ConfigKeyNotRemoved
  BY <1>1, <1>2, <1>10 DEF ConfigKeyRemoved, ConfigKeyNotRemoved
<1>11. CASE Worker /\ ~ (ConfigMapWritten \/ ConfigMapNotWritten)
                   /\ ~ (ConfigKeyRemoved \/ ConfigKeyNotRemoved)
  BY <1>1, <1>11 DEF Worker, ensureInitialRVAnnotation, SelectActivePool, ListNone,
              ListRemaining, BuildConfig, UpsertConfigMap, RemoveConfigKey,
              setReadyCondition, PatchFails, ReadFails
<1> QED
  BY <1>4, <1>5, <1>6, <1>7, <1>8, <1>9, <1>10, <1>11 DEF Next

-----------------------------------------------------------------------------
(* Only taking a key and a restart take a key from the queue. *)
LEMMA QueueKept ==
    ASSUME TypeInv, Worker \/ Users \/ Deliver \/ Timers \/ \E p \in Pools : GetFails(p)
    PROVE  \A q \in Pools : queue[q] # "none" => queue'[q] # "none"
<1> DEFINE Goal == \A q \in Pools : queue[q] # "none" => queue'[q] # "none"
<1> USE DEF TypeInv, userVars, seenVars
<1>1. CASE queue' = queue
  BY <1>1
<1>2. ASSUME NEW p \in Pools, NEW how \in Results, queue' = Enqueue(queue, p, how)
      PROVE  Goal
  BY <1>2, EnqueueFacts DEF TypeOK
<1>3. ASSUME w.pc # "idle", NEW how \in Results, Return(how)
      PROVE  Goal
  BY <1>2, <1>3 DEF Return, Fits
<1>4. ASSUME w.pc # "idle", ReturnError
      PROVE  Goal
  BY <1>3, <1>4 DEF ReturnError, Results
<1>5. CASE Worker
  <2>1. w.pc # "idle"
    BY <1>5 DEF Worker, ensureInitialRVAnnotation, SelectActivePool, ListNone, ListRemaining,
                BuildConfig, UpsertConfigMap, ConfigMapWritten, ConfigMapNotWritten,
                RemoveConfigKey, ConfigKeyRemoved, ConfigKeyNotRemoved, setReadyCondition,
                PatchFails, ReadFails
  <2>2. "none" \in Results /\ w.result \in Results
    BY DEF Fits, Workers, Results
  <2>3. queue' = queue \/ ReturnError \/ Return("none") \/ Return(w.result)
    BY <1>5 DEF Worker, ensureInitialRVAnnotation, SelectActivePool, ListNone, ListRemaining,
                BuildConfig, UpsertConfigMap, ConfigMapWritten, ConfigMapNotWritten,
                RemoveConfigKey, ConfigKeyRemoved, ConfigKeyNotRemoved, setReadyCondition,
                PatchFails, ReadFails
  <2>4. CASE Return(w.result)
    BY <1>2, <2>1, <2>2, <2>4 DEF Return, Fits
  <2> QED
    BY <1>1, <1>3, <1>4, <2>1, <2>2, <2>3, <2>4
<1>6. CASE Users
  BY <1>1, <1>6 DEF Users, CreatePool, EditPool, DeletePool, SetProfile
<1>7. CASE DeliverPool
  <2>1. Head(poolWatch) \in PoolEvents
    BY <1>7 DEF DeliverPool, TypeOK
  <2>2. Head(poolWatch).pool \in Pools /\ "ready" \in Results
    BY <2>1 DEF PoolEvents, Results
  <2> QED
    BY <1>2, <1>7, <2>2 DEF DeliverPool
<1>8. ASSUME NEW n \in Namespaces, DeliverProfile(n)
      PROVE  Goal
  BY <1>8 DEF DeliverProfile
<1>9. CASE Timers
  BY <1>9 DEF Timers, DelayOver, CircuitWindowPasses, TypeOK
<1>10. ASSUME NEW p \in Pools, GetFails(p)
       PROVE  Goal
  BY <1>10 DEF GetFails, TypeOK
<1> QED
  BY <1>1, <1>5, <1>6, <1>7, <1>8, <1>9, <1>10 DEF Deliver, DeliverConfigMap

(* But for these, every step keeps what is pending and adds what it changes. *)
LEMMA StepKept ==
    ASSUME TypeInv, TypeInv', WorkInv,
           Worker \/ Users \/ Deliver \/ Timers \/ \E p \in Pools : GetFails(p)
    PROVE  Kept
<1> USE DEF environmentVars, userVars, seenVars, apiVars
<1>1. \A q \in Pools : queue[q] # "none" => queue'[q] # "none"
  BY QueueKept
<1>2. CASE UNCHANGED <<api, poolWatch, cache>>
  BY <1>1, <1>2, UnwrittenWatched, WatchedKept DEF WorkInv
<1>3. ASSUME NEW p \in Pools, NEW o \in PoolObjects \cup {None}, ApiWrite(p, o), cache' = cache
      PROVE  Kept
  BY <1>1, <1>3, WriteSynced, WatchedKept DEF WorkInv, TypeInv
<1>4. CASE Users
  <2>1. ASSUME NEW p \in Pools, NEW s \in Specs, NEW gap \in Gaps, CreatePool(p, s, gap)
        PROVE  Kept
    <3>1. now + gap \in Nat
      BY ControllerAssumption DEF TypeInv, TypeOK
    <3>2. [created |-> now + gap, rv |-> 1, irv |-> 0, gen |-> 1, spec |-> s,
           status |-> None] \in PoolObjects
      BY <3>1 DEF PoolObjects
    <3> QED
      BY <1>3, <2>1, <3>2 DEF CreatePool
  <2>2. ASSUME NEW p \in Pools, NEW s \in Specs, EditPool(p, s)
        PROVE  Kept
    <3>1. api[p] \in PoolObjects
      BY <2>2 DEF EditPool, TypeInv, TypeOK
    <3>2. [api[p] EXCEPT !.spec = s, !.gen = @ + 1] \in PoolObjects
      BY <3>1, EditedPool
    <3> QED
      BY <1>3, <2>2, <3>2 DEF EditPool
  <2>3. ASSUME NEW p \in Pools, DeletePool(p)
        PROVE  Kept
    BY <1>3, <2>3 DEF DeletePool
  <2>4. ASSUME NEW n \in Namespaces, NEW v \in Profiles \cup {None}, SetProfile(n, v)
        PROVE  Kept
    BY <1>2, <2>4 DEF SetProfile
  <2> QED
    BY <1>4, <2>1, <2>2, <2>3, <2>4 DEF Users
<1>5. CASE Deliver
  BY <1>2, <1>5, DeliverSynced DEF Deliver, DeliverProfile, DeliverConfigMap, WorkInv, TypeInv
<1>6. CASE Timers \/ \E p \in Pools : GetFails(p)
  BY <1>2, <1>6 DEF Timers, DelayOver, CircuitWindowPasses, GetFails
<1>7. CASE ensureInitialRVAnnotation \/ setReadyCondition \/ PatchFails
  <2>1. w.pc \in {"stamp", "status"} /\ cache' = cache
    BY <1>7 DEF ensureInitialRVAnnotation, setReadyCondition, PatchFails
  <2>2. Watched
    BY <1>7, <2>1, PatchWatched DEF ensureInitialRVAnnotation, setReadyCondition, PatchFails
  <2> QED
    BY <1>1, <2>2, WatchedKept
<1>8. CASE Worker /\ ~ (ensureInitialRVAnnotation \/ setReadyCondition \/ PatchFails)
  BY <1>2, <1>8 DEF Worker, SelectActivePool, ListNone, ListRemaining, BuildConfig,
                UpsertConfigMap, ConfigMapWritten, ConfigMapNotWritten,
                RemoveConfigKey, ConfigKeyRemoved, ConfigKeyNotRemoved, ReadFails
<1> QED
  BY <1>4, <1>5, <1>6, <1>7, <1>8

-----------------------------------------------------------------------------
(* What stirs a pool that exists keeps stirring it, and so does what changes it. *)
Calm ==
    \A p \in Pools :
        /\ Stirred(p) => Stirred(p)' \/ api[p] = None
        /\ api'[p] # api[p] => Stirred(p)'
        /\ profile'[NamespaceOf[p]] # profile[NamespaceOf[p]] => Stirred(p)'

(* But for taking a key and a restart, every step is calm. *)
LEMMA StepCalm ==
    ASSUME TypeInv, TypeInv', WorkInv,
           Worker \/ Users \/ Deliver \/ Timers \/ \E p \in Pools : GetFails(p)
    PROVE  Calm
<1>1. Kept
  BY StepKept
<1>2. \A p \in Pools : NamespaceOf[p] \in Namespaces
  BY ControllerAssumption
<1>3. CASE UNCHANGED <<profile, profWatch>>
  BY <1>1, <1>3 DEF Kept, Calm, Stirred
<1>4. ASSUME NEW n \in Namespaces, NEW v \in Profiles \cup {None}, SetProfile(n, v)
      PROVE  Calm
  <2>1. /\ profWatch[n] \in Seq(Profiles \cup {None})
        /\ profile' = [profile EXCEPT ![n] = v]
        /\ profWatch' = [profWatch EXCEPT ![n] = Append(profWatch[n], v)]
    BY <1>4 DEF SetProfile, TypeInv, TypeOK
  <2>2. Append(profWatch[n], v) # <<>>
    BY <2>1
  <2>3. /\ profWatch'[n] # <<>>
        /\ \A m \in Namespaces : m # n => profWatch'[m] = profWatch[m] /\ profile'[m] = profile[m]
    BY <2>1, <2>2 DEF TypeInv, TypeOK
  <2> QED
    BY <1>1, <1>2, <2>3 DEF Kept, Calm, Stirred
<1>5. ASSUME NEW n \in Namespaces, DeliverProfile(n)
      PROVE  Calm
  <2>1. /\ profile' = profile
        /\ \A m \in Namespaces : m # n => profWatch'[m] = profWatch[m]
        /\ \A p \in Pools : p \in Listed(n) => queue'[p] = "ready"
    BY <1>5 DEF DeliverProfile, mapCacheProfileToPools, TypeInv, TypeOK, userVars
  <2>2. ASSUME NEW p \in Pools, NamespaceOf[p] = n, api[p] # None
        PROVE  Pending(p)'
    <3>1. EventPending(p) \/ cache[p] = api[p]
      BY DEF WorkInv, Synced
    <3>2. CASE EventPending(p)
      BY <1>1, <3>2 DEF Kept, Pending
    <3>3. CASE cache[p] = api[p]
      BY <2>1, <2>2, <3>3 DEF Listed, PoolsIn, Pending
    <3> QED
      BY <3>1, <3>2, <3>3
  <2> QED
    BY <1>1, <1>2, <2>1, <2>2 DEF Kept, Calm, Stirred
<1>6. CASE Worker \/ Timers \/ \E p \in Pools : GetFails(p)
  BY <1>3, <1>6, ProfilesAlone
<1>7. CASE Users
  BY <1>3, <1>4, <1>7 DEF Users, CreatePool, EditPool, DeletePool
<1>8. CASE Deliver
  BY <1>3, <1>5, <1>8 DEF Deliver, DeliverPool, DeliverConfigMap, userVars
<1> QED
  BY <1>6, <1>7, <1>8

(* What was published stays published. *)
PublishedGrows == \A c \in ConfigNamespaces : published[c] \subseteq published'[c]

(* The namespace of a pool and of its ConfigMap. *)
LEMMA NamespaceFacts ==
    ASSUME NEW p \in Pools
    PROVE  /\ NamespaceOf[p] \in Namespaces
           /\ operatorNamespace(NamespaceOf[p]) \in ConfigNamespaces
BY ControllerAssumption DEF ConfigNamespaces

(* What was true of a pool is, as long as the pool and its profile stay the same. *)
LEMMA TruthKept ==
    ASSUME NEW p \in Pools, NEW v, Truth(p, v), api'[p] = api[p],
           profile'[NamespaceOf[p]] = profile[NamespaceOf[p]], PublishedGrows,
           v.reason = "Superseded" => Superseding(p)'
    PROVE  /\ v.ready => Wanted(p)' \in published'[operatorNamespace(NamespaceOf[p])]
           /\ ~ v.ready => v.reason \in BuildFailures \cup {"InvalidSpec", "Superseded"}
           /\ v.reason = "InvalidSpec" => ~ validateDNSUpstreamPool(api'[p].spec)
           /\ v.reason \in BuildFailures => BuildResult[api'[p].spec] # "ok"
           /\ v.reason = "Superseded" => Superseding(p)'
<1>1. Wanted(p)' = Wanted(p)
  BY DEF Wanted
<1>2. v.ready => Wanted(p)' \in published'[operatorNamespace(NamespaceOf[p])]
  BY <1>1, NamespaceFacts DEF Truth, PublishedGrows
<1>3. /\ ~ v.ready => v.reason \in BuildFailures \cup {"InvalidSpec", "Superseded"}
      /\ v.reason = "InvalidSpec" => ~ validateDNSUpstreamPool(api'[p].spec)
      /\ v.reason \in BuildFailures => BuildResult[api'[p].spec] # "ok"
  BY DEF Truth
<1> QED
  BY <1>2, <1>3

(* The statuses stay true, if the one that a reconcile leaves behind is. *)
LEMMA StatusStep ==
    ASSUME TypeInv, StatusTrue, Calm, PublishedGrows,
           \A p \in Pools :
              /\ HasStatus(p) /\ api'[p] = api[p]
              /\ api[p].status.reason = "Superseded" /\ Superseding(p)
              => Superseding(p)' \/ Stirred(p)',
           \A p \in Pools :
              HasStatus(p) /\ api'[p] = api[p] /\ Reconciling(p)
              => \/ Reconciling(p)' \/ Stirred(p)'
                 \/ Truth(p, api[p].status) /\ (api[p].status.reason = "Superseded" => Superseding(p)')
    PROVE  StatusTrue'
<1> SUFFICES ASSUME NEW p \in Pools, HasStatus(p)', ~ Stirred(p)', ~ Reconciling(p)'
             PROVE  Truth(p, api[p].status)'
  BY DEF StatusTrue
<1>1. api'[p] = api[p] /\ profile'[NamespaceOf[p]] = profile[NamespaceOf[p]]
  BY DEF Calm
<1>2. HasStatus(p) /\ api[p] # None
  BY <1>1 DEF HasStatus
<1>3. ~ Stirred(p)
  BY <1>2 DEF Calm
<1>4. Truth(p, api[p].status) \/ Reconciling(p)
  BY <1>2, <1>3 DEF StatusTrue
<1>5. /\ Truth(p, api[p].status)
      /\ api[p].status.reason = "Superseded" => Superseding(p)'
  <2>1. CASE Reconciling(p)
    BY <1>1, <1>2, <2>1
  <2>2. CASE ~ Reconciling(p)
    BY <1>1, <1>2, <1>4, <2>2 DEF Truth
  <2> QED
    BY <2>1, <2>2
<1> QED
  BY <1>1, <1>5, TruthKept DEF Truth

(* The worker stays honest while others move. *)
LEMMA OtherHonest ==
    ASSUME TypeInv, TypeInv', HoldsLatest, HoldsLatest', Honest(w), Calm, PublishedGrows, w' = w,
           \A p \in Pools : Superseding(p) => Superseding(p)' \/ Stirred(p)'
    PROVE  Honest(w)'
<1> SUFFICES ASSUME w.pc \in {"upsert", "write", "status"}, ~ w.del
             PROVE  Honest(w)'
  BY DEF Honest
<1>1. w.req \in Pools /\ w.target = w.req /\ w.pc \in Holding
  BY DEF TypeInv, Fits, Holding
<1>2. PICK r \in Pools : r = w.req
  BY <1>1
<1>3. CASE Stirred(r)'
  BY <1>2, <1>3 DEF Honest
<1>4. CASE ~ Stirred(r)'
  <2>1. api'[r] = api[r] /\ profile'[NamespaceOf[r]] = profile[NamespaceOf[r]]
    BY <1>4 DEF Calm
  <2>2. api[r] # None
    <3>1. CASE api[r] = None
      <4>1. Pending(r)'
        BY <1>1, <1>2, <2>1, <3>1, NoneAssumption DEF HoldsLatest, TypeInv, Fits
      <4> QED
        BY <1>4, <4>1 DEF Stirred
    <3> QED
      BY <3>1
  <2>3. ~ Stirred(r)
    BY <1>4, <2>2 DEF Calm
  <2>4. CASE w.pc = "status"
    <3>1. Truth(r, w.verdict) \/ w.result # "none"
      BY <1>2, <2>3, <2>4 DEF Honest
    <3>2. Truth(r, w.verdict) /\ w.verdict.reason = "Superseded" => Superseding(r)'
      BY <1>4 DEF Truth
    <3>3. Truth(r, w.verdict) => Truth(w.req, w.verdict)'
      BY <1>2, <2>1, <3>2, TruthKept DEF Truth
    <3> QED
      BY <1>2, <2>4, <3>1, <3>3 DEF Honest
  <2>5. CASE w.pc \in {"upsert", "write"}
    <3>1. w.cfg = Wanted(r) /\ Wanted(r)' = Wanted(r)
      BY <1>2, <2>1, <2>3, <2>5 DEF Honest, Wanted
    <3>2. w'.cfg = Wanted(w.req)'
      BY <1>2, <3>1 DEF Wanted
    <3> QED
      BY <2>5, <3>2 DEF Honest
  <2> QED
    BY <2>4, <2>5
<1> QED
  BY <1>3, <1>4

-----------------------------------------------------------------------------
(* The users, the informers and the timers leave true what was. *)
LEMMA OtherTruth ==
    ASSUME TypeInv, TypeInv', WorkInv, WorkInv', StatusTrue, Honest(w), PublishedGrows,
           Users \/ Deliver \/ Timers \/ \E p \in Pools : GetFails(p)
    PROVE  StatusTrue' /\ Honest(w)'
<1>1. Calm
  BY StepCalm
<1>2. \A q \in Pools : queue[q] # "none" => queue'[q] # "none"
  BY QueueKept
<1>3. w' = w
  BY DEF Users, CreatePool, EditPool, DeletePool, SetProfile, Deliver, DeliverPool,
         DeliverProfile, DeliverConfigMap, Timers, DelayOver, CircuitWindowPasses, GetFails
<1>4. \A q \in Pools : cache'[q] = cache[q] \/ queue'[q] # "none"
  <2>1. CASE DeliverPool
    <3>1. Head(poolWatch) \in PoolEvents
      BY <2>1 DEF DeliverPool, TypeInv, TypeOK
    <3>2. PICK e \in Pools : e = Head(poolWatch).pool
      BY <3>1 DEF PoolEvents
    <3>3. queue' = Enqueue(queue, e, "ready") /\ "ready" \in Results
          /\ queue \in [Pools -> Results]
      BY <2>1, <3>2 DEF DeliverPool, Results, TypeInv, TypeOK
    <3>4. queue'[e] # "none"
      BY <3>3, EnqueueFacts
    <3>5. \A q \in Pools : q # e => cache'[q] = cache[q]
      BY <2>1, <3>2 DEF DeliverPool, TypeInv, TypeOK
    <3> QED
      BY <3>4, <3>5
  <2>2. CASE ~ DeliverPool
    <3>1. cache' = cache
      BY <2>2 DEF Users, CreatePool, EditPool, DeletePool, SetProfile, Deliver,
                  DeliverProfile, DeliverConfigMap, Timers, DelayOver, CircuitWindowPasses,
                  GetFails, environmentVars, seenVars
    <3> QED
      BY <3>1
  <2> QED
    BY <2>1, <2>2
<1>5. \A p \in Pools : Superseding(p) => Superseding(p)'
  BY <1>2, <1>3, <1>4 DEF Superseding, PoolsIn
<1>6. \A p \in Pools : Reconciling(p) => Reconciling(p)'
  BY <1>3 DEF Reconciling
<1>7. StatusTrue'
  BY <1>1, <1>5, <1>6, StatusStep
<1>8. Honest(w)'
  BY <1>1, <1>3, <1>5, OtherHonest DEF WorkInv
<1> QED
  BY <1>7, <1>8

(* After a restart every pool is looked at again. *)
LEMMA RestartTruth ==
    ASSUME TypeInv, Restart
    PROVE  StatusTrue' /\ Honest(w)'
<1>1. /\ api' = api /\ w' = Idle
      /\ \A p \in Pools : api[p] # None => queue'[p] = "ready"
  BY DEF Restart
<1>2. StatusTrue'
  BY <1>1 DEF StatusTrue, HasStatus, Stirred, Pending
<1>3. Honest(w)'
  BY <1>1 DEF Honest, Idle
<1> QED
  BY <1>2, <1>3

(* What Validated makes of the worker: it goes on, or it will report the invalid spec. *)
LEMMA ValidatedSays ==
    ASSUME NEW x \in Workers, Validated(x).pc = "status"
    PROVE  /\ ~ validateDNSUpstreamPool(x.obj.spec)
           /\ Validated(x).verdict = NotReady("InvalidSpec", None)
<1>1. CASE validateDNSUpstreamPool(x.obj.spec)
  BY <1>1 DEF Validated, Workers
<1>2. CASE ~ validateDNSUpstreamPool(x.obj.spec)
  BY <1>2 DEF Validated, SetStatus, Workers
<1> QED
  BY <1>1, <1>2

(* Taking a key leaves true what was. *)
LEMMA StartTruth ==
    ASSUME TypeInv, TypeInv', WorkInv, StatusTrue, PublishedGrows,
           NEW p \in Pools, Start(p)
    PROVE  StatusTrue' /\ Honest(w)'
<1> USE DEF environmentVars, userVars, seenVars, apiVars
<1>1. /\ UNCHANGED <<api, poolWatch, cache, profile, profWatch>>
      /\ w.pc = "idle"
      /\ queue' = [queue EXCEPT ![p] = "none"]
  BY DEF Start, ReconcilePool, ReconcileDeletion, TakeKey
<1>2. \A q \in Pools \ {p} : queue'[q] = queue[q]
  BY <1>1 DEF TypeInv, TypeOK
<1>3. EventPending(p) \/ cache[p] = api[p]
  BY DEF WorkInv, Synced
<1>4. \A q \in Pools : EventPending(q)' <=> EventPending(q)
  BY <1>1 DEF EventPending
<1>5. ASSUME Reconciling(p)' \/ (HasStatus(p) => EventPending(p)),
             cache[p] = None => w'.del /\ w'.req = p /\ w'.pc = "list"
      PROVE  StatusTrue'
  <2> SUFFICES ASSUME NEW q \in Pools, HasStatus(q)', ~ Stirred(q)', ~ Reconciling(q)'
               PROVE  Truth(q, api[q].status)'
    BY DEF StatusTrue
  <2>1. HasStatus(q)
    BY <1>1 DEF HasStatus
  <2>2. q # p
    BY <1>4, <1>5, <2>1 DEF Stirred, Pending
  <2>3. ~ Stirred(q) /\ ~ Reconciling(q)
    BY <1>1, <1>2, <1>4, <2>2 DEF Stirred, Pending, Reconciling
  <2>4. Truth(q, api[q].status)
    BY <2>1, <2>3 DEF StatusTrue
  <2>5. Superseding(q) => Superseding(q)'
    <3> SUFFICES ASSUME Superseding(q) PROVE Superseding(q)'
      OBVIOUS
    <3>1. PICK o \in PoolsIn(NamespaceOf[q]) \ {q} :
               cache[o] # None \/ queue[o] # "none"
      BY <1>1, IdleFits DEF Superseding, Holding
    <3>2. o \in Pools
      BY <3>1 DEF PoolsIn
    <3>3. \/ cache'[o] # None \/ queue'[o] # "none"
          \/ w'.del /\ w'.req = o /\ w'.pc = "list"
      BY <1>1, <1>2, <1>5, <3>1, <3>2
    <3> QED
      BY <3>1, <3>3 DEF Superseding, PoolsIn
  <2>6. api[q].status.reason = "Superseded" => Superseding(q)'
    BY <2>4, <2>5 DEF Truth
  <2> QED
    BY <1>1, <2>4, <2>6, TruthKept DEF Truth
<1>6. CASE ReconcilePool(p)
  <2> DEFINE x == [Idle EXCEPT !.req = p, !.target = p, !.obj = cache[p]]
  <2>1. cache[p] \in PoolObjects /\ cache[p] # None /\ Idle \in Workers
    BY <1>6, IdleFits DEF ReconcilePool, TypeInv, TypeOK, Fits
  <2>2. x \in Workers /\ x.req = p /\ x.target = p /\ x.obj = cache[p] /\ ~ x.del
    BY <2>1 DEF Idle, Workers
  <2>3. w' = IF cache[p].irv # 0 THEN Validated(x) ELSE [x EXCEPT !.pc = "stamp"]
    BY <1>6 DEF ReconcilePool
  <2> HIDE DEF x
  <2>4. /\ w'.pc \in {"stamp", "select", "status"} /\ w'.req = p /\ ~ w'.del
        /\ w'.pc = "status" => w' = Validated(x)
    <3>1. CASE cache[p].irv # 0
      BY <2>1, <2>2, <2>3, <3>1, ValidatedFits
    <3>2. CASE cache[p].irv = 0
      BY <2>2, <2>3, <3>2 DEF Workers, Steps
    <3> QED
      BY <3>1, <3>2
  <2>5. Reconciling(p)'
    BY <2>4 DEF Reconciling
  <2>6. ASSUME w'.pc = "status", ~ EventPending(p)
        PROVE  Truth(p, NotReady("InvalidSpec", None))'
    <3>1. ~ validateDNSUpstreamPool(api'[p].spec)
      BY <1>1, <1>3, <2>2, <2>4, <2>6, ValidatedSays
    <3> QED
      BY <3>1 DEF Truth, NotReady, BuildFailures
  <2>7. w'.pc = "status" => w'.verdict = NotReady("InvalidSpec", None)
    BY <2>2, <2>4, ValidatedSays
  <2>8. Honest(w)'
    BY <1>4, <2>4, <2>6, <2>7 DEF Honest, Stirred, Pending
  <2> QED
    BY <1>5, <2>1, <2>5, <2>8
<1>7. CASE ReconcileDeletion(p)
  <2>1. cache[p] = None /\ w'.pc = "list" /\ w'.req = p /\ w'.del
    BY <1>7 DEF ReconcileDeletion, Idle
  <2>2. HasStatus(p) => EventPending(p)
    BY <1>3, <2>1 DEF HasStatus
  <2>3. Honest(w)'
    BY <2>1 DEF Honest
  <2> QED
    BY <1>5, <2>1, <2>2, <2>3
<1> QED
  BY <1>6, <1>7 DEF Start

-----------------------------------------------------------------------------
(* A step of the worker keeps Superseding, unless it ends the handling of a deletion. *)
LEMMA SupersedingStep ==
    ASSUME NEW p \in Pools, Superseding(p), cache' = cache,
           \A q \in Pools : queue[q] # "none" => queue'[q] # "none",
           \/ ~ w.del
           \/ w.pc \notin Holding \cup {"list"}
           \/ w.pc \in Holding /\ w'.pc \in Holding /\ w'.del /\ w'.req = w.req
              /\ w'.target = w.target
           \/ queue'[w.req] # "none"
    PROVE  Superseding(p)'
<1>1. PICK q \in PoolsIn(NamespaceOf[p]) \ {p} :
           \/ cache[q] # None
           \/ queue[q] # "none"
           \/ /\ w.del /\ w.req = q
              /\ w.pc = "list" \/ (w.pc \in Holding /\ w.target = p)
  BY DEF Superseding
<1>2. q \in Pools
  BY <1>1 DEF PoolsIn
<1>3. \/ cache'[q] # None
      \/ queue'[q] # "none"
      \/ w'.del /\ w'.req = q /\ w'.pc \in Holding /\ w'.target = p
  BY <1>1, <1>2 DEF Holding
<1> QED
  BY <1>1, <1>3 DEF Superseding, PoolsIn

(* The worker goes on with the same pool and what it has to say is true. *)
LEMMA GoesOn ==
    ASSUME TypeInv, TypeInv', WorkInv, StatusTrue, PublishedGrows, Worker, cache' = cache,
           w.pc \in Holding, w'.pc \in Holding, w'.del = w.del, w'.req = w.req,
           w'.target = w.target
    PROVE  StatusTrue'
<1>1. Calm
  BY StepCalm
<1>2. \A q \in Pools : queue[q] # "none" => queue'[q] # "none"
  BY QueueKept
<1>3. w.del \in BOOLEAN
  BY DEF TypeInv, Fits, Workers
<1>4. \A p \in Pools : Superseding(p) => Superseding(p)'
  BY <1>2, <1>3, SupersedingStep
<1>5. \A p \in Pools : Reconciling(p) => Reconciling(p)'
  BY DEF Reconciling, Holding
<1> QED
  BY <1>1, <1>4, <1>5, StatusStep

(* A reconcile that fails puts its key back. *)
LEMMA ErrorTruth ==
    ASSUME TypeInv, TypeInv', WorkInv, StatusTrue, PublishedGrows, Worker, cache' = cache,
           w.pc # "idle", ReturnError
    PROVE  StatusTrue' /\ Honest(w)'
<1>1. Calm
  BY StepCalm
<1>2. \A q \in Pools : queue[q] # "none" => queue'[q] # "none"
  BY QueueKept
<1>3. PICK r \in Pools : r = w.req
  BY DEF TypeInv, Fits
<1>4. w' = Idle /\ queue'[r] # "none"
  <2>1. queue' = Enqueue(queue, r, "backoff") /\ "backoff" \in Results
        /\ queue \in [Pools -> Results]
    BY <1>3 DEF ReturnError, Return, Results, TypeInv, TypeOK
  <2> QED
    BY <2>1, EnqueueFacts DEF ReturnError, Return
<1>5. \A p \in Pools : Superseding(p) => Superseding(p)'
  BY <1>2, <1>3, <1>4, SupersedingStep
<1>6. \A p \in Pools : Reconciling(p) => Stirred(p)'
  BY <1>3, <1>4 DEF Reconciling, Stirred, Pending
<1>7. StatusTrue'
  BY <1>1, <1>5, <1>6, StatusStep
<1>8. Honest(w)'
  BY <1>4 DEF Honest, Idle
<1> QED
  BY <1>7, <1>8

(* Selecting the pool: superseded is what the cache shows another pool for. *)
LEMMA SelectTruth ==
    ASSUME TypeInv, TypeInv', WorkInv, StatusTrue, PublishedGrows, Worker, SelectActivePool
    PROVE  StatusTrue' /\ Honest(w)'
<1> USE DEF environmentVars, userVars, seenVars
<1>1. /\ w \in Workers /\ w.pc = "select" /\ ~ w.del /\ w.target = w.req /\ cache' = cache
      /\ w.req \in Pools
  BY DEF SelectActivePool, TypeInv, Fits
<1>2. PICK r \in Pools : r = w.req
  BY <1>1
<1>3. CASE w' = [w EXCEPT !.pc = "build"]
  <2>1. /\ w'.pc = "build" /\ w'.req = w.req /\ w'.del = w.del /\ w'.target = w.target
    BY <1>1, <1>3 DEF Workers, Steps
  <2>2. Honest(w)'
    BY <2>1 DEF Honest
  <2> QED
    BY <1>1, <2>1, <2>2, GoesOn DEF Holding
<1>4. ASSUME NEW active \in Listed(NamespaceOf[w.req]), active # w.target,
             w' = SetStatus(w, NotReady("Superseded", active), "none")
      PROVE  StatusTrue' /\ Honest(w)'
  <2>1. /\ w'.pc = "status" /\ w'.req = w.req /\ w'.del = w.del /\ w'.target = w.target
        /\ w'.verdict = NotReady("Superseded", active)
    BY <1>1, <1>4 DEF SetStatus, Workers
  <2>2. Superseding(r)'
    BY <1>1, <1>2, <1>4 DEF Superseding, Listed, PoolsIn
  <2>3. Truth(r, w.verdict)'
    BY <2>1, <2>2 DEF Truth, NotReady, BuildFailures
  <2>4. Honest(w)'
    BY <1>1, <1>2, <2>1, <2>3 DEF Honest
  <2> QED
    BY <1>1, <2>1, <2>4, GoesOn DEF Holding
<1> QED
  BY <1>3, <1>4 DEF SelectActivePool, FirstChoices

(* The deletion of a pool: another one remains, or the pool that does is stirred. *)
LEMMA ListTruth ==
    ASSUME TypeInv, TypeInv', WorkInv, StatusTrue, PublishedGrows, Worker,
           ListNone \/ ListRemaining
    PROVE  StatusTrue' /\ Honest(w)'
<1> USE DEF environmentVars, userVars, seenVars, apiVars
<1>1. /\ w \in Workers /\ w.pc = "list" /\ w.del /\ w.req \in Pools
      /\ UNCHANGED <<cache, api, poolWatch, queue>>
  BY DEF ListNone, ListRemaining, TypeInv, Fits
<1>2. Calm
  BY StepCalm
<1>3. PICK r \in Pools : r = w.req
  BY <1>1
<1>4. \A p \in Pools : ~ Reconciling(p)
  BY <1>1 DEF Reconciling
<1>5. ASSUME NEW p \in Pools, Superseding(p), p \notin PoolsIn(NamespaceOf[r])
      PROVE  Superseding(p)'
  <2>1. PICK q \in PoolsIn(NamespaceOf[p]) \ {p} :
             cache[q] # None \/ queue[q] # "none" \/ q = r
    BY <1>3, <1>5 DEF Superseding
  <2>2. q # r
    BY <1>5, <2>1 DEF PoolsIn
  <2> QED
    BY <1>1, <2>1, <2>2 DEF Superseding, PoolsIn
<1>6. CASE ListNone
  <2>1. w'.pc = "remove"
    BY <1>1, <1>6 DEF ListNone, Workers, Steps
  <2>2. ASSUME NEW p \in Pools, HasStatus(p), p \in PoolsIn(NamespaceOf[r])
        PROVE  Stirred(p)'
    <3>1. cache[p] = None
      BY <1>3, <1>6, <2>2 DEF ListNone, Listed
    <3>2. EventPending(p)
      BY <2>2, <3>1 DEF HasStatus, WorkInv, Synced
    <3> QED
      BY <1>1, <3>2 DEF EventPending, Pending, Stirred
  <2>3. Honest(w)'
    BY <2>1 DEF Honest
  <2> QED
    BY <1>2, <1>4, <1>5, <2>2, <2>3, StatusStep
<1>7. CASE ListRemaining
  <2>1. PICK first \in Listed(NamespaceOf[r]) :
             w' = [w EXCEPT !.pc = "build", !.target = first, !.obj = cache[first]]
    BY <1>3, <1>7 DEF ListRemaining, FirstChoices
  <2>2. w'.pc = "build" /\ w'.target = first /\ w'.req = r /\ w'.del
    BY <1>1, <1>3, <2>1 DEF Workers, Steps
  <2>3. ASSUME NEW p \in Pools, Superseding(p), p \in PoolsIn(NamespaceOf[r])
        PROVE  Superseding(p)'
    <3>1. NamespaceOf[p] = NamespaceOf[r] /\ first \in PoolsIn(NamespaceOf[p])
          /\ cache'[first] # None
      BY <1>1, <2>1, <2>3 DEF PoolsIn, Listed
    <3>2. CASE first # p
      BY <3>1, <3>2 DEF Superseding, PoolsIn
    <3>3. CASE first = p
      <4>1. PICK q \in PoolsIn(NamespaceOf[p]) \ {p} :
                 cache[q] # None \/ queue[q] # "none" \/ q = r
        BY <1>3, <2>3 DEF Superseding
      <4> QED
        BY <1>1, <2>2, <3>3, <4>1 DEF Superseding, PoolsIn, Holding
    <3> QED
      BY <3>2, <3>3
  <2>4. Honest(w)'
    BY <2>2 DEF Honest
  <2> QED
    BY <1>2, <1>4, <1>5, <2>3, <2>4, StatusStep
<1> QED
  BY <1>6, <1>7

(* What setReadyCondition is called with, and what else SetStatus leaves alone. *)
LEMMA SetStatusSays ==
    ASSUME NEW x \in Workers, NEW v, NEW result
    PROVE  /\ SetStatus(x, v, result).verdict = v
           /\ SetStatus(x, v, result).result = result
BY DEF SetStatus, Workers

(* Building: the configuration is the one the pool asks for, the failure one of its spec. *)
LEMMA BuildTruth ==
    ASSUME TypeInv, TypeInv', WorkInv, TruthInv, PublishedGrows, Worker,
           BuildConfig \/ (ReadFails /\ w.pc = "build")
    PROVE  StatusTrue' /\ Honest(w)'
<1> USE DEF environmentVars, userVars, seenVars, apiVars
<1>1. /\ w \in Workers /\ w.pc = "build" /\ w.req \in Pools /\ w.target \in Pools
      /\ w.obj \in PoolObjects /\ w.del \in BOOLEAN
      /\ ~ w.del => w.target = w.req
      /\ UNCHANGED <<cache, api, poolWatch, profile, profWatch>>
  BY DEF BuildConfig, ReadFails, TypeInv, Fits, Holding, Workers
<1>2. PICK r \in Pools : r = w.req
  BY <1>1
<1>3. CASE ReturnError
  BY <1>1, <1>3, ErrorTruth DEF TruthInv
<1>4. ASSUME queue' = queue, w'.pc \in Holding, w'.del = w.del, w'.req = w.req,
             w'.target = w.target, Honest(w)'
      PROVE  StatusTrue' /\ Honest(w)'
  BY <1>1, <1>4, GoesOn DEF TruthInv, Holding
<1>5. ASSUME ~ w.del, queue' = queue
      PROVE  Stirred(r)' \/ (w.obj = api'[r] /\ profCache[NamespaceOf[r]] = profile'[NamespaceOf[r]])
  <2>1. Pending(r) \/ w.obj = api[r]
    BY <1>1, <1>2, <1>5 DEF WorkInv, HoldsLatest, Holding
  <2>2. profWatch[NamespaceOf[r]] # <<>> \/ profCache[NamespaceOf[r]] = profile[NamespaceOf[r]]
    BY NamespaceFacts DEF TruthInv, ProfilesSynced
  <2> QED
    BY <1>1, <1>5, <2>1, <2>2 DEF Stirred, Pending, EventPending
<1>6. ASSUME NEW v, NEW result, w' = SetStatus(w, v, result), queue' = queue,
             v.reason # "Superseded",
             \/ result # "none"
             \/ v = NotReady(BuildResult[w.obj.spec], None) /\ BuildResult[w.obj.spec] # "ok"
      PROVE  StatusTrue' /\ Honest(w)'
  <2>1. /\ w'.pc = "status" /\ w'.req = w.req /\ w'.del = w.del /\ w'.target = w.target
        /\ w'.verdict = v /\ w'.result = result
    BY <1>1, <1>6, SetStatusKeeps, SetStatusSays
  <2>2. ASSUME ~ w.del, ~ Stirred(r)', result = "none"
        PROVE  Truth(r, w.verdict)'
    <3>1. w.obj.spec = api'[r].spec /\ w.obj.spec \in Specs
      BY <1>1, <1>5, <1>6, <2>2 DEF PoolObjects
    <3>2. BuildResult[w.obj.spec] \in BuildFailures
      BY <1>6, <2>2, <3>1, ControllerAssumption
    <3>3. v.ready = FALSE /\ v.reason = BuildResult[w.obj.spec]
      BY <1>6, <2>2 DEF NotReady
    <3> QED
      BY <1>6, <2>1, <2>2, <3>1, <3>2, <3>3 DEF Truth, BuildFailures
  <2>3. Honest(w)'
    BY <1>1, <1>2, <1>6, <2>1, <2>2 DEF Honest
  <2> QED
    BY <1>4, <1>6, <2>1, <2>3 DEF Holding
<1>7. CASE BuildConfig
  <2>1. ASSUME w' = [w EXCEPT !.pc = "upsert",
                              !.cfg = [spec |-> w.obj.spec,
                                       profile |-> profCache[NamespaceOf[w.req]]]],
               queue' = queue
        PROVE  StatusTrue' /\ Honest(w)'
    <3>1. /\ w'.pc = "upsert" /\ w'.req = w.req /\ w'.del = w.del /\ w'.target = w.target
          /\ w'.cfg = [spec |-> w.obj.spec, profile |-> profCache[NamespaceOf[w.req]]]
      BY <1>1, <2>1 DEF Workers, Steps
    <3>2. ~ w.del => Stirred(r)' \/ w'.cfg = Wanted(r)'
      BY <1>2, <1>5, <2>1, <3>1 DEF Wanted
    <3>3. Honest(w)'
      BY <1>1, <1>2, <3>1, <3>2 DEF Honest
    <3> QED
      BY <1>4, <2>1, <3>1, <3>3 DEF Holding
  <2>2. ASSUME BuildResult[w.obj.spec] # "ok", queue' = queue,
               w' = SetStatus(w, NotReady(BuildResult[w.obj.spec], None), "none")
        PROVE  StatusTrue' /\ Honest(w)'
    <3>1. w.obj.spec \in Specs
      BY <1>1 DEF PoolObjects
    <3>2. BuildResult[w.obj.spec] \in BuildFailures
      BY <2>2, <3>1, ControllerAssumption
    <3>3. NotReady(BuildResult[w.obj.spec], None).reason # "Superseded"
      BY <3>2 DEF NotReady, BuildFailures
    <3> QED
      BY <1>6, <2>2, <3>3
  <2> QED
    BY <1>3, <1>7, <2>1, <2>2 DEF BuildConfig, Outcome, getDefaultCacheProfile
<1>8. CASE ReadFails /\ w.pc = "build"
  <2>1. NotReady("ProfileLookupFailed", None).reason # "Superseded"
    BY DEF NotReady
  <2>2. ReturnError \/ (w' = SetStatus(w, NotReady("ProfileLookupFailed", None), "backoff")
                        /\ queue' = queue)
    BY <1>8 DEF ReadFails
  <2> QED
    BY <1>3, <1>6, <2>1, <2>2
<1> QED
  BY <1>7, <1>8

(* Publishing: Ready is said of what is published, and a failure brings the key back. *)
LEMMA PublishTruth ==
    ASSUME TypeInv, TypeInv', WorkInv, TruthInv, PublishedGrows, Worker,
           UpsertConfigMap \/ ConfigMapWritten \/ ConfigMapNotWritten
    PROVE  StatusTrue' /\ Honest(w)'
<1> USE DEF environmentVars, userVars, seenVars, apiVars
<1>1. /\ w \in Workers /\ w.pc \in {"upsert", "write"} /\ w.req \in Pools
      /\ w.target \in Pools /\ w.del \in BOOLEAN /\ w.cfg \in Configs
      /\ ~ w.del => w.target = w.req
      /\ UNCHANGED <<cache, api, poolWatch, profile, profWatch>>
  BY DEF UpsertConfigMap, ConfigMapWritten, ConfigMapNotWritten, TypeInv, Fits, Holding, Workers
<1>2. PICK r \in Pools : r = w.req
  BY <1>1
<1>3. CASE ReturnError
  BY <1>1, <1>3, ErrorTruth DEF TruthInv
<1>4. ASSUME queue' = queue, w'.pc \in Holding, w'.del = w.del, w'.req = w.req,
             w'.target = w.target, Honest(w)'
      PROVE  StatusTrue' /\ Honest(w)'
  BY <1>1, <1>4, GoesOn DEF TruthInv, Holding
<1>5. ASSUME ~ w.del, queue' = queue
      PROVE  Stirred(r)' \/ w.cfg = Wanted(r)'
  BY <1>1, <1>2, <1>5 DEF TruthInv, Honest, Wanted, Stirred, Pending, EventPending
<1>6. ASSUME NEW v, NEW result, w' = SetStatus(w, v, result), queue' = queue,
             v.reason # "Superseded",
             \/ result # "none"
             \/ w.del
             \/ v = Ready /\ w.cfg \in published'[ConfigNamespace]
      PROVE  StatusTrue' /\ Honest(w)'
  <2>1. /\ w'.pc = "status" /\ w'.req = w.req /\ w'.del = w.del /\ w'.target = w.target
        /\ w'.verdict = v /\ w'.result = result
    BY <1>1, <1>6, SetStatusKeeps, SetStatusSays
  <2>2. ASSUME ~ w.del, ~ Stirred(r)', result = "none"
        PROVE  Truth(r, w.verdict)'
    <3>1. Wanted(r)' \in published'[operatorNamespace(NamespaceOf[r])]
      BY <1>2, <1>5, <1>6, <2>2 DEF ConfigNamespace
    <3>2. v.ready = TRUE /\ v.reason = "Ready"
      BY <1>6, <2>2 DEF Ready
    <3> QED
      BY <2>1, <3>1, <3>2 DEF Truth, BuildFailures
  <2>3. Honest(w)'
    BY <1>1, <1>2, <1>6, <2>1, <2>2 DEF Honest
  <2> QED
    BY <1>4, <1>6, <2>1, <2>3 DEF Holding
<1>7. /\ Ready.reason # "Superseded"
      /\ NotReady("ConfigMapCircuitOpen", None).reason # "Superseded"
      /\ NotReady("ConfigMapUpdateFailed", None).reason # "Superseded"
  BY DEF Ready, NotReady
<1>8. CASE UpsertConfigMap
  <2>1. ASSUME w' = SetStatus(w, NotReady("ConfigMapCircuitOpen", None), CircuitOpenResult)
        PROVE  StatusTrue' /\ Honest(w)'
    <3>1. w.del \/ CircuitOpenResult # "none"
      BY DEF CircuitOpenResult
    <3> QED
      BY <1>6, <1>7, <1>8, <2>1, <3>1 DEF UpsertConfigMap
  <2>2. ASSUME UpToDate(ConfigNamespace), w' = SetStatus(w, Ready, "none")
        PROVE  StatusTrue' /\ Honest(w)'
    <3>1. ConfigNamespace \in ConfigNamespaces
      BY <1>1, RequestFacts
    <3>2. w.cfg \in published[ConfigNamespace]
      BY <1>1, <2>2, <3>1 DEF TruthInv, ConfigMapsKnown, UpToDate
    <3>3. w.cfg \in published'[ConfigNamespace]
      BY <3>1, <3>2 DEF PublishedGrows
    <3> QED
      BY <1>6, <1>7, <1>8, <2>2, <3>3 DEF UpsertConfigMap
  <2>3. ASSUME NEW stale, w' = [w EXCEPT !.pc = "write", !.stale = stale]
        PROVE  StatusTrue' /\ Honest(w)'
    <3>1. /\ w'.pc = "write" /\ w'.req = w.req /\ w'.del = w.del /\ w'.target = w.target
          /\ w'.cfg = w.cfg
      BY <1>1, <2>3 DEF Workers, Steps
    <3>2. ~ w.del => Stirred(r)' \/ w'.cfg = Wanted(r)'
      BY <1>5, <1>8, <3>1 DEF UpsertConfigMap
    <3>3. Honest(w)'
      BY <1>1, <1>2, <3>1, <3>2 DEF Honest
    <3> QED
      BY <1>4, <1>8, <3>1, <3>3 DEF UpsertConfigMap, Holding
  <2> QED
    BY <1>8, <2>1, <2>2, <2>3 DEF UpsertConfigMap
<1>9. CASE ConfigMapWritten
  <2>1. ConfigNamespace \in ConfigNamespaces /\ w.cfg # NoKey
    BY <1>1, RequestFacts, NoneAssumption
  <2>2. w.cfg \in published'[ConfigNamespace]
    BY <1>9, <2>1 DEF ConfigMapWritten, StoreConfigMap, TypeInv, TypeOK
  <2> QED
    BY <1>6, <1>7, <1>9, <2>2 DEF ConfigMapWritten
<1>10. CASE ConfigMapNotWritten
  <2>1. ReturnError \/ (w' = SetStatus(w, NotReady("ConfigMapUpdateFailed", None), "backoff")
                        /\ queue' = queue)
    BY <1>10 DEF ConfigMapNotWritten
  <2> QED
    BY <1>3, <1>6, <1>7, <2>1
<1> QED
  BY <1>8, <1>9, <1>10

(* Removing the key, and a failing read, say nothing of any pool. *)
LEMMA RemoveTruth ==
    ASSUME TypeInv, TypeInv', WorkInv, StatusTrue, PublishedGrows, Worker,
           \/ RemoveConfigKey \/ ConfigKeyRemoved \/ ConfigKeyNotRemoved
           \/ ReadFails /\ w.pc # "build"
    PROVE  StatusTrue' /\ Honest(w)'
<1> USE DEF environmentVars, userVars, seenVars
<1>1. /\ w \in Workers /\ w.pc # "idle" /\ w.req \in Pools /\ cache' = cache
  BY DEF RemoveConfigKey, ConfigKeyRemoved, ConfigKeyNotRemoved, ReadFails, TypeInv, Fits
<1>2. CASE ReturnError
  BY <1>1, <1>2, ErrorTruth
<1>3. ASSUME w.pc \in {"remove", "removeWrite"}, w'.pc \in {"idle", "removeWrite"}
      PROVE  StatusTrue' /\ Honest(w)'
  <2>1. Calm
    BY StepCalm
  <2>2. \A q \in Pools : queue[q] # "none" => queue'[q] # "none"
    BY QueueKept
  <2>3. w.del
    BY <1>3 DEF TypeInv, Fits
  <2>4. w.pc \notin Holding \cup {"list"}
    BY <1>3 DEF Holding
  <2>5. \A p \in Pools : Superseding(p) => Superseding(p)'
    BY <1>1, <2>2, <2>4, SupersedingStep
  <2>6. \A p \in Pools : ~ Reconciling(p)
    BY <2>3 DEF Reconciling
  <2>7. StatusTrue'
    BY <2>1, <2>5, <2>6, StatusStep
  <2>8. Honest(w)'
    BY <1>3 DEF Honest
  <2> QED
    BY <2>7, <2>8
<1>4. ASSUME NEW stale, w' = [w EXCEPT !.pc = "removeWrite", !.stale = stale]
      PROVE  w'.pc = "removeWrite"
  BY <1>1, <1>4 DEF Workers, Steps
<1>5. Return("none") => w'.pc = "idle"
  BY DEF Return, Idle
<1>6. CASE RemoveConfigKey \/ ConfigKeyRemoved
  BY <1>3, <1>4, <1>5, <1>6 DEF RemoveConfigKey, ConfigKeyRemoved
<1>7. CASE ConfigKeyNotRemoved \/ (ReadFails /\ w.pc # "build")
  BY <1>2, <1>7 DEF ConfigKeyNotRemoved, ReadFails
<1> QED
  BY <1>6, <1>7

(****************************************************************************)
(* The status patch of a pool that the worker's copy is of changes the pool *)
(* unless the pool has that status: an empty patch is not a lost one.       *)
(****************************************************************************)
LEMMA PatchLands ==
    ASSUME TypeInv, w.pc = "status", NEW t \in Pools, w.target = t, api[t] # None,
           PatchStatus, w.obj = api[t], api'[t] = api[t]
    PROVE  api[t].status = Desired
<1> SUFFICES ASSUME Desired # w.obj.status PROVE FALSE
  OBVIOUS
<1> DEFINE o == [api[t] EXCEPT !.status = Desired]
<1>1. /\ api \in [Pools -> PoolObjects \cup {None}] /\ api[t] \in PoolObjects
      /\ o \in PoolObjects /\ ApiWrite(t, o)
  BY PatchedObjects DEF TypeInv, TypeOK, PatchStatus
<1>2. o.status = Desired /\ o # api[t]
  BY <1>1 DEF PoolObjects
<1> HIDE DEF o
<1>3. api'[t] = o \/ api'[t] = [o EXCEPT !.rv = revision + 1]
  BY <1>1 DEF ApiWrite
<1>4. api'[t].status = Desired
  BY <1>1, <1>2, <1>3 DEF PoolObjects
<1> QED
  BY <1>4

(* The patches: what the worker says of a pool becomes its status, or the pool is stirred. *)
LEMMA PatchTruth ==
    ASSUME TypeInv, TypeInv', WorkInv, TruthInv, PublishedGrows, Worker,
           ensureInitialRVAnnotation \/ setReadyCondition \/ PatchFails
    PROVE  StatusTrue' /\ Honest(w)'
<1> USE DEF environmentVars, userVars, seenVars
<1>1. /\ w \in Workers /\ w.pc \in {"stamp", "status"} /\ w.req \in Pools
      /\ w.target \in Pools /\ w.obj \in PoolObjects /\ w.del \in BOOLEAN /\ cache' = cache
      /\ w.result \in Results
  BY DEF ensureInitialRVAnnotation, setReadyCondition, PatchFails, TypeInv, Fits, Holding,
         Workers, Results
<1>2. CASE ReturnError
  BY <1>1, <1>2, ErrorTruth DEF TruthInv
<1>3. Calm
  BY StepCalm
<1>4. \A q \in Pools : queue[q] # "none" => queue'[q] # "none"
  BY QueueKept
<1>5. CASE ensureInitialRVAnnotation /\ api[w.target] # None
  <2> DEFINE x == [w EXCEPT !.obj = api'[w.target]]
  <2>1. /\ w.pc = "stamp" /\ w' = Validated(x)
        /\ ApiWrite(w.target, [api[w.target] EXCEPT !.irv = w.obj.rv])
    BY <1>5 DEF ensureInitialRVAnnotation
  <2>2. /\ ~ w.del /\ w.target = w.req
        /\ [api[w.target] EXCEPT !.irv = w.obj.rv] \in PoolObjects
        /\ [api[w.target] EXCEPT !.irv = w.obj.rv].irv # 0
    BY <1>1, <1>5, <2>1, PatchedObjects DEF TypeInv, Fits
  <2>3. api'[w.target] \in PoolObjects /\ api'[w.target].irv # 0
    <3> DEFINE o == [api[w.target] EXCEPT !.irv = w.obj.rv]
    <3>1. ApiWrite(w.target, o) /\ o \in PoolObjects /\ o.irv # 0
      BY <2>1, <2>2
    <3> HIDE DEF o
    <3>2. api'[w.target] = o
      BY <1>1, <3>1 DEF ApiWrite, TypeInv, TypeOK
    <3> QED
      BY <3>1, <3>2
  <2>4. /\ x \in Workers /\ x.req = w.req /\ x.target = w.target /\ x.del = w.del
        /\ x.obj = api'[w.target]
    BY <1>1, <2>2, <2>3 DEF Workers
  <2> HIDE DEF x
  <2>5. /\ w'.pc \in {"select", "status"} /\ w'.req = w.req /\ w'.del = w.del
        /\ w'.target = w.target
    BY <1>1, <2>1, <2>2, <2>3, <2>4, ValidatedFits
  <2>6. PICK r \in Pools : r = w.req
    BY <1>1
  <2>7. ASSUME w'.pc = "status"
        PROVE  Truth(r, w.verdict)'
    <3>1. ~ validateDNSUpstreamPool(api'[r].spec) /\ w'.verdict = NotReady("InvalidSpec", None)
      BY <2>1, <2>2, <2>4, <2>6, <2>7, ValidatedSays
    <3> QED
      BY <3>1 DEF Truth, NotReady, BuildFailures
  <2>8. Honest(w)'
    BY <2>2, <2>5, <2>6, <2>7 DEF Honest
  <2> QED
    BY <1>1, <2>1, <2>2, <2>5, <2>8, GoesOn DEF TruthInv, Holding
<1>6. CASE setReadyCondition /\ api[w.target] # None
  <2>1. PICK how \in Results : how = w.result
    BY <1>1
  <2>2. w.pc = "status" /\ PatchStatus /\ Return(how)
    BY <1>6, <2>1 DEF setReadyCondition
  <2>3. PICK r \in Pools, t \in Pools : r = w.req /\ t = w.target
    BY <1>1
  <2>4. w' = Idle /\ (how # "none" => queue'[r] # "none")
    BY <2>2, <2>3, EnqueueFacts DEF Return, TypeInv, TypeOK
  <2>5. api[t] # None /\ (Pending(t) \/ w.obj = api[t])
    BY <1>6, <2>2, <2>3 DEF WorkInv, HoldsLatest, Holding
  <2>6. Pending(t) => Stirred(t)'
    BY <1>3, <2>5 DEF Calm, Stirred
  <2>7. api'[t] = api[t] => Stirred(t)' \/ api[t].status = Desired
    BY <2>2, <2>3, <2>5, <2>6, PatchLands
  <2>8. /\ Desired.ready = w.verdict.ready /\ Desired.reason = w.verdict.reason
    BY DEF Desired
  <2>9. ASSUME NEW p \in Pools, api'[p] = api[p], api[p].status.reason = "Superseded",
               Superseding(p)
        PROVE  Superseding(p)' \/ Stirred(p)'
    <3>1. CASE ~ w.del
      BY <1>1, <1>4, <2>9, <3>1, SupersedingStep
    <3>2. CASE w.del
      <4>1. w.verdict.reason # "Superseded"
        BY <2>2, <3>2 DEF TruthInv, Honest
      <4>2. CASE p = t
        BY <2>7, <2>8, <2>9, <4>1, <4>2
      <4>3. CASE p # t
        <5>1. PICK q \in PoolsIn(NamespaceOf[p]) \ {p} : cache[q] # None \/ queue[q] # "none"
          BY <2>2, <2>3, <2>9, <4>3 DEF Superseding
        <5>2. q \in Pools
          BY <5>1 DEF PoolsIn
        <5> QED
          BY <1>1, <1>4, <5>1, <5>2 DEF Superseding, PoolsIn
      <4> QED
        BY <4>2, <4>3
    <3> QED
      BY <3>1, <3>2
  <2>10. ASSUME NEW p \in Pools, HasStatus(p), api'[p] = api[p], Reconciling(p), ~ Stirred(p)'
         PROVE  /\ Truth(p, api[p].status)
                /\ api[p].status.reason = "Superseded" => Superseding(p)'
    <3>1. p = r /\ ~ w.del /\ p = t
      BY <2>3, <2>10 DEF Reconciling, TypeInv, Fits
    <3>2. ~ Stirred(p) /\ how = "none"
      BY <1>3, <2>4, <2>10, <3>1 DEF Calm, HasStatus, Stirred, Pending
    <3>3. Truth(p, w.verdict)
      BY <2>1, <2>2, <2>3, <3>1, <3>2 DEF TruthInv, Honest
    <3>4. api[p].status.ready = w.verdict.ready /\ api[p].status.reason = w.verdict.reason
      BY <2>7, <2>8, <2>10, <3>1
    <3>5. Truth(p, api[p].status)
      BY <3>3, <3>4 DEF Truth
    <3>6. api[p].status.reason = "Superseded" => Superseding(p)
      BY <3>5 DEF Truth
    <3> QED
      BY <2>9, <2>10, <3>5, <3>6
  <2>11. StatusTrue'
    BY <1>3, <2>9, <2>10, StatusStep DEF TruthInv
  <2>12. Honest(w)'
    BY <2>4 DEF Honest, Idle
  <2> QED
    BY <2>11, <2>12
<1> QED
  BY <1>2, <1>5, <1>6 DEF ensureInitialRVAnnotation, setReadyCondition, PatchFails

-----------------------------------------------------------------------------
(* TruthInv holds in every state, with the invariants it needs. *)
LEMMA TruthAlways == Spec => [](TypeInv /\ WorkInv /\ TruthInv)
<1>1. Init => TruthInv
  <2> SUFFICES ASSUME Init PROVE TruthInv
    OBVIOUS
  <2>1. /\ profCache = profile /\ cmCache = configMap /\ w = Idle
        /\ \A n \in Namespaces : profWatch[n] = <<>>
        /\ \A c \in ConfigNamespaces : configMap[c] = None /\ cmWatch[c] = <<>>
        /\ \A p \in Pools : api[p] = None
    BY DEF Init
  <2>2. ProfilesSynced /\ StatusTrue
    BY <2>1 DEF ProfilesSynced, StatusTrue, HasStatus
  <2>3. ConfigMapsKnown
    BY <2>1, NoneAssumption DEF ConfigMapsKnown
  <2>4. Honest(w)
    BY <2>1 DEF Honest, Idle
  <2> QED
    BY <2>2, <2>3, <2>4 DEF TruthInv
<1>2. ASSUME TypeInv, TypeInv', WorkInv, WorkInv', TruthInv, [Next]_vars
      PROVE  TruthInv'
  <2>1. CASE UNCHANGED vars
    <3>1. UNCHANGED <<api, poolWatch, cache, queue, w, profile, profCache, profWatch,
                      configMap, cmCache, cmWatch, published>>
      BY <2>1 DEF vars, apiVars, seenVars, userVars, configMapVars
    <3>2. ProfilesSynced' /\ ConfigMapsKnown'
      BY <1>2, <3>1 DEF TruthInv, ProfilesSynced, ConfigMapsKnown
    <3>3. /\ \A p \in Pools : Stirred(p)' <=> Stirred(p)
          /\ \A p \in Pools : Reconciling(p)' <=> Reconciling(p)
          /\ \A p \in Pools : Superseding(p)' <=> Superseding(p)
      BY <3>1 DEF Stirred, Pending, EventPending, Reconciling, Superseding, PoolsIn
    <3>4. Calm /\ PublishedGrows
      BY <3>1, <3>3 DEF Calm, PublishedGrows
    <3>5. StatusTrue'
      BY <1>2, <3>3, <3>4, StatusStep DEF TruthInv
    <3>6. Honest(w)'
      BY <1>2, <3>1, <3>3, <3>4, OtherHonest DEF TruthInv, WorkInv
    <3> QED
      BY <3>2, <3>5, <3>6 DEF TruthInv
  <2>2. CASE Next
    <3>1. ProfilesSynced'
      BY <1>2, <2>2, ProfilesStep DEF TypeInv, TruthInv
    <3>2. ConfigMapsKnown' /\ PublishedGrows
      BY <1>2, <2>2, ConfigMapsStep DEF TruthInv, PublishedGrows
    <3>3. ASSUME Worker
          PROVE  StatusTrue' /\ Honest(w)'
      BY <1>2, <3>2, <3>3, SelectTruth, ListTruth, BuildTruth, PublishTruth, RemoveTruth,
         PatchTruth DEF Worker, TruthInv
    <3>4. ASSUME Restart
          PROVE  StatusTrue' /\ Honest(w)'
      BY <1>2, <3>4, RestartTruth
    <3>5. ASSUME NEW p \in Pools, Start(p)
          PROVE  StatusTrue' /\ Honest(w)'
      BY <1>2, <3>2, <3>5, StartTruth DEF TruthInv
    <3>6. ASSUME Users \/ Deliver \/ Timers \/ \E p \in Pools : GetFails(p)
          PROVE  StatusTrue' /\ Honest(w)'
      BY <1>2, <3>2, <3>6, OtherTruth DEF TruthInv
    <3>7. StatusTrue' /\ Honest(w)'
      BY <2>2, <3>3, <3>4, <3>5, <3>6 DEF Next
    <3> QED
      BY <3>1, <3>2, <3>7 DEF TruthInv
  <2> QED
    BY <1>2, <2>1, <2>2
<1>3. Spec => []TypeInv
  BY TypeCorrect DEF TypeInv
<1>4. Spec => []WorkInv
  BY WorkAlways
<1> QED
  BY <1>1, <1>2, <1>3, <1>4, PTL DEF Spec

(* When the operator rests, every status is there and is true. *)
LEMMA RestingStatus ==
    ASSUME WorkInv, TruthInv, Settled, NEW p \in Pools, api[p] # None
    PROVE  HasStatus(p) /\ Truth(p, api[p].status)
<1>1. /\ w.pc = "idle" /\ queue[p] = "none" /\ poolWatch = <<>>
      /\ profWatch[NamespaceOf[p]] = <<>>
  BY NamespaceFacts DEF Settled
<1>2. ~ Stirred(p) /\ ~ Reconciling(p)
  BY <1>1 DEF Stirred, Pending, EventPending, Reconciling
<1>3. HasStatus(p)
  BY <1>2 DEF WorkInv, NoLostWork, HasStatus, Stirred, Pending
<1> QED
  BY <1>2, <1>3 DEF TruthInv, StatusTrue

(****************************************************************************)
(* When the operator rests, Ready=True means that the pool's present spec   *)
(* with the present cache profile was published, for every number of pools, *)
(* namespaces and profiles and whatever the caches' lag, the faults and the *)
(* restarts were.                                                           *)
(****************************************************************************)
THEOREM ReadyWasPublished == Spec => []SettledReadyWasPublished
<1>1. ASSUME WorkInv, TruthInv
      PROVE  SettledReadyWasPublished
  BY <1>1, RestingStatus DEF SettledReadyWasPublished, IsReady, Truth
<1> QED
  BY <1>1, TruthAlways, PTL

(****************************************************************************)
(* When the operator rests, a good pool that is alone in its namespace is   *)
(* Ready: a status that is not Ready blames the spec, or a pool that is     *)
(* still in the cache and hence still stored.                               *)
(****************************************************************************)
THEOREM SolePoolIsReady == Spec => []SettledSolePoolReady
<1>1. ASSUME TypeInv, WorkInv, TruthInv
      PROVE  SettledSolePoolReady
  <2> SUFFICES ASSUME Settled, NEW n \in Namespaces, NEW p \in Live(n), Live(n) = {p},
                      Good(api[p].spec), ~ IsReady(p)
               PROVE  FALSE
    BY DEF SettledSolePoolReady
  <2>1. p \in Pools /\ NamespaceOf[p] = n /\ api[p] # None
    BY DEF Live, PoolsIn
  <2>2. HasStatus(p) /\ Truth(p, api[p].status)
    BY <1>1, <2>1, RestingStatus
  <2>3. Superseding(p)
    BY <2>1, <2>2 DEF IsReady, HasStatus, Truth, Good, BuildFailures
  <2>4. PICK q \in PoolsIn(n) \ {p} : cache[q] # None
    BY <2>1, <2>3 DEF Superseding, Settled, Holding, PoolsIn
  <2>5. q \in Pools /\ cache[q] = api[q]
    BY <1>1, <2>4 DEF WorkInv, Synced, Settled, EventPending, PoolsIn
  <2>6. q \in Live(n)
    BY <2>4, <2>5 DEF Live
  <2> QED
    BY <2>4, <2>6
<1> QED
  BY <1>1, TruthAlways, PTL
=============================================================================
