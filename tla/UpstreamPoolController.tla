----------------------- MODULE UpstreamPoolController -----------------------
(****************************************************************************)
(* The DNSUpstreamPool controller: it selects one pool per namespace,       *)
(* builds the engine configuration from that pool and the namespace's       *)
(* default cache profile, and publishes it in a ConfigMap.                  *)
(*                                                                          *)
(* The controller reads from informer caches that lag the API server and    *)
(* writes to the API server.  Its one worker takes keys from a queue that   *)
(* watch events, retries and timers fill.  Each read of a cache and each    *)
(* call of the API server is a step of its own, so that deliveries, users,  *)
(* faults and restarts interleave with a reconcile at all these points.     *)
(*                                                                          *)
(* A resource version only matters while a pool carries no stamp, so it is  *)
(* counted over the writes to such pools and kept as it was afterwards.     *)
(****************************************************************************)
EXTENDS PoolSelection, Sequences

CONSTANTS
    Namespaces,         \* namespaces that hold pools
    NamespaceOf,        \* the namespace of each pool
    PodNamespace,       \* POD_NAMESPACE, None when it is not set
    WebhookEnabled,     \* whether the uniqueness webhook is deployed
    Specs,              \* pool specs that the CRD schema admits
    ValidSpecs,         \* those that validateDNSUpstreamPool accepts
    BuildResult,        \* what generating, rendering, marshalling and sizing say
    Profiles,           \* contents of the default DNSCacheProfile
    None,               \* an absent object or value
    NoKey,              \* a ConfigMap without the key config.json
    Gaps,               \* seconds that may pass between two pool creations
    MaxLives,           \* bound: how often a pool of one name is created
    MaxLag,             \* bound: pool events on their way when a reconcile starts
    ConfigMapLag,       \* FALSE: ConfigMap events arrive before the next read
    MaxOps,             \* bound: user operations
    MaxFaults,          \* bound: failing reads and API calls
    MaxRestarts         \* bound: operator restarts

BuildFailures ==
    {"ConfigGenerationFailed", "ValidationFailed", "MarshalFailed", "ConfigTooLarge"}

ASSUME ControllerAssumption ==
    /\ NamespaceOf \in [Pools -> Namespaces]
    /\ WebhookEnabled \in BOOLEAN
    /\ ConfigMapLag \in BOOLEAN
    /\ ValidSpecs \subseteq Specs
    /\ BuildResult \in [Specs -> BuildFailures \cup {"ok"}]
    /\ Gaps \subseteq Nat
    /\ MaxLives \in Nat
    /\ MaxLag \in Nat
    /\ MaxOps \in Nat
    /\ MaxFaults \in Nat
    /\ MaxRestarts \in Nat
    /\ None \notin Pools

configMapUpdateFailureThreshold == 3

(* operatorNamespace: where the ConfigMap for namespace n lives. *)
operatorNamespace(n) == IF PodNamespace # None THEN PodNamespace ELSE n

ConfigNamespaces == { operatorNamespace(n) : n \in Namespaces }

VARIABLES
    \* the API server
    api,            \* the stored object of each pool, or None
    profile,        \* the default cache profile of each namespace, or None
    configMap,      \* the agent ConfigMap: None, NoKey or its configuration
    revision,       \* the last resource version given to an unstamped pool
    now,            \* the clock that stamps creationTimestamp, in seconds
    \* the informers: what the operator sees, and the events on their way
    cache, poolWatch,
    profCache, profWatch,
    cmCache, cmWatch,
    \* the operator's memory, lost by a restart
    queue,          \* of each pool: none, after (30s), backoff or ready
    w,              \* the worker: where it is in Reconcile, and its variables
    failures,       \* configMapFailureCounts
    circuitOpen,    \* configMapCircuitOpenUntil lies in the future
    metric,         \* activePoolMetricState
    \* history and bounds
    published,      \* every configuration a ConfigMap ever held
    lives, ops, faults, restarts

apiVars == <<api, revision, poolWatch>>
userVars == <<profile, now, lives, ops>>
seenVars == <<cache, profCache, cmCache>>
breakerVars == <<failures, circuitOpen>>
configMapVars == <<configMap, cmWatch, published>>
vars == <<apiVars, userVars, seenVars, breakerVars, configMapVars,
          profWatch, queue, w, metric, faults, restarts>>

-----------------------------------------------------------------------------
(* Types. *)
Reasons ==
    BuildFailures \cup {"Ready", "InvalidSpec", "Superseded", "ProfileLookupFailed",
                        "ConfigMapUpdateFailed", "ConfigMapCircuitOpen"}

(* The arguments of setReadyCondition: status, reason, pool in the message. *)
Verdicts == [ready : BOOLEAN, reason : Reasons, by : Pools \cup {None}]

(* The Ready condition of a pool, with the generation it observed. *)
Statuses == [ready : BOOLEAN, reason : Reasons, by : Pools \cup {None}, gen : Nat]

PoolObjects ==
    [created : Nat, rv : Nat \ {0}, irv : Nat, gen : Nat, spec : Specs,
     status : Statuses \cup {None}]

PoolEvents == [pool : Pools, obj : PoolObjects \cup {None}]

Configs == [spec : Specs, profile : Profiles \cup {None}]

ConfigMapStates == Configs \cup {None, NoKey}

(* No condition, pool or configuration is taken for an absent one. *)
ASSUME NoneAssumption ==
    /\ None \notin Statuses
    /\ None \notin PoolObjects
    /\ None \notin Configs
    /\ NoKey \notin Configs

Results == {"none", "after", "backoff", "ready"}

(* Where the worker is: the read or call it makes next. *)
Steps == {"idle", "stamp", "select", "build", "upsert", "write", "status",
          "list", "remove", "removeWrite"}

Workers ==
    [pc : Steps, req : Pools \cup {None}, del : BOOLEAN, target : Pools \cup {None},
     obj : PoolObjects \cup {None}, cfg : Configs \cup {None}, stale : BOOLEAN,
     verdict : Verdicts \cup {None}, result : {"none", "after", "backoff"}]

(* The worker between two reconciles. *)
Idle == [pc |-> "idle", req |-> None, del |-> FALSE, target |-> None, obj |-> None,
         cfg |-> None, stale |-> FALSE, verdict |-> None, result |-> "none"]

TypeOK ==
    /\ api \in [Pools -> PoolObjects \cup {None}]
    /\ profile \in [Namespaces -> Profiles \cup {None}]
    /\ configMap \in [ConfigNamespaces -> ConfigMapStates]
    /\ revision \in Nat
    /\ now \in Nat
    /\ cache \in [Pools -> PoolObjects \cup {None}]
    /\ poolWatch \in Seq(PoolEvents)
    /\ profCache \in [Namespaces -> Profiles \cup {None}]
    /\ profWatch \in [Namespaces -> Seq(Profiles \cup {None})]
    /\ cmCache \in [ConfigNamespaces -> ConfigMapStates]
    /\ cmWatch \in [ConfigNamespaces -> Seq(ConfigMapStates)]
    /\ queue \in [Pools -> Results]
    /\ w \in Workers
    /\ failures \in [ConfigNamespaces -> 0 .. configMapUpdateFailureThreshold - 1]
    /\ circuitOpen \in [ConfigNamespaces -> BOOLEAN]
    /\ metric \in [Namespaces -> Pools \cup {None}]
    /\ published \in [ConfigNamespaces -> SUBSET Configs]
    /\ lives \in [Pools -> 0 .. MaxLives]
    /\ ops \in 0 .. MaxOps
    /\ faults \in 0 .. MaxFaults
    /\ restarts \in 0 .. MaxRestarts

Init ==
    /\ api = [p \in Pools |-> None]
    /\ profile = [n \in Namespaces |-> None]
    /\ configMap = [c \in ConfigNamespaces |-> None]
    /\ revision = 0
    /\ now = 1
    /\ cache = api
    /\ poolWatch = <<>>
    /\ profCache = profile
    /\ profWatch = [n \in Namespaces |-> <<>>]
    /\ cmCache = configMap
    /\ cmWatch = [c \in ConfigNamespaces |-> <<>>]
    /\ queue = [p \in Pools |-> "none"]
    /\ w = Idle
    /\ failures = [c \in ConfigNamespaces |-> 0]
    /\ circuitOpen = [c \in ConfigNamespaces |-> FALSE]
    /\ metric = [n \in Namespaces |-> None]
    /\ published = [c \in ConfigNamespaces |-> {}]
    /\ lives = [p \in Pools |-> 0]
    /\ ops = 0
    /\ faults = 0
    /\ restarts = 0

-----------------------------------------------------------------------------
(* The API server and the users. *)

PoolsIn(n) == { p \in Pools : NamespaceOf[p] = n }

(* A write that makes pool p the object o; one that changes nothing makes no event. *)
ApiWrite(p, o) ==
    LET counted == o # None /\ o # api[p] /\ o.irv = 0
        new == IF counted THEN [o EXCEPT !.rv = revision + 1] ELSE o
    IN  /\ api' = [api EXCEPT ![p] = new]
        /\ revision' = IF counted THEN revision + 1 ELSE revision
        /\ poolWatch' = IF new = api[p] THEN poolWatch
                        ELSE Append(poolWatch, [pool |-> p, obj |-> new])

UserOperation == ops < MaxOps /\ ops' = ops + 1

(* The uniqueness webhook admits a pool when its cache lists none in n. *)
Handle(n) == \A q \in PoolsIn(n) : cache[q] = None

CreatePool(p, s, gap) ==
    /\ UserOperation
    /\ api[p] = None
    /\ lives[p] < MaxLives
    /\ WebhookEnabled => Handle(NamespaceOf[p])
    /\ now' = now + gap
    /\ lives' = [lives EXCEPT ![p] = @ + 1]
    /\ ApiWrite(p, [created |-> now + gap, rv |-> 1, irv |-> 0, gen |-> 1,
                    spec |-> s, status |-> None])
    /\ UNCHANGED <<profile, seenVars, breakerVars, configMapVars, profWatch, queue, w,
                   metric, faults, restarts>>

EditPool(p, s) ==
    /\ UserOperation
    /\ api[p] # None
    /\ api[p].spec # s
    /\ ApiWrite(p, [api[p] EXCEPT !.spec = s, !.gen = @ + 1])
    /\ UNCHANGED <<profile, now, lives, seenVars, breakerVars, configMapVars, profWatch,
                   queue, w, metric, faults, restarts>>

DeletePool(p) ==
    /\ UserOperation
    /\ api[p] # None
    /\ ApiWrite(p, None)
    /\ UNCHANGED <<profile, now, lives, seenVars, breakerVars, configMapVars, profWatch,
                   queue, w, metric, faults, restarts>>

SetProfile(n, v) ==
    /\ UserOperation
    /\ profile[n] # v
    /\ profile' = [profile EXCEPT ![n] = v]
    /\ profWatch' = [profWatch EXCEPT ![n] = Append(@, v)]
    /\ UNCHANGED <<apiVars, now, lives, seenVars, breakerVars, configMapVars, queue, w,
                   metric, faults, restarts>>

-----------------------------------------------------------------------------
(* The work queue, the informers and the timers. *)

(* A key has one entry in the queue; the earliest time asked for wins. *)
Enqueue(q, p, how) ==
    IF \/ q[p] = "none"
       \/ q[p] = "after" /\ how # "none"
       \/ q[p] = "backoff" /\ how = "ready"
    THEN [q EXCEPT ![p] = how]
    ELSE q

(* Faulty variant: an event that leaves the generation as it was enqueues nothing. *)
BugOnlyNewGenerations ==
    /\ poolWatch # <<>>
    /\ LET e == Head(poolWatch)
           same == e.obj # None /\ cache[e.pool] # None /\ e.obj.gen = cache[e.pool].gen
       IN  /\ cache' = [cache EXCEPT ![e.pool] = e.obj]
           /\ queue' = IF same THEN queue ELSE Enqueue(queue, e.pool, "ready")
    /\ poolWatch' = Tail(poolWatch)
    /\ UNCHANGED <<api, revision, userVars, profCache, cmCache, breakerVars, configMapVars,
                   profWatch, w, metric, faults, restarts>>

(* A pool event, of its status too: the cache is updated and the pool's key enqueued. *)
DeliverPool ==
    /\ poolWatch # <<>>
    /\ LET e == Head(poolWatch)
       IN  /\ cache' = [cache EXCEPT ![e.pool] = e.obj]
           /\ queue' = Enqueue(queue, e.pool, "ready")
    /\ poolWatch' = Tail(poolWatch)
    /\ UNCHANGED <<api, revision, userVars, profCache, cmCache, breakerVars, configMapVars,
                   profWatch, w, metric, faults, restarts>>

(* The pools that List returns for namespace n. *)
Listed(n) == { p \in PoolsIn(n) : cache[p] # None }

(* Faulty variant: only the pools that the last event left unprocessed. *)
BugMapToQueuedPools(n) == { p \in Listed(n) : queue[p] # "none" }

(* The keys a cache profile event of namespace n enqueues. *)
mapCacheProfileToPools(n) == Listed(n)

DeliverProfile(n) ==
    /\ profWatch[n] # <<>>
    /\ profCache' = [profCache EXCEPT ![n] = Head(profWatch[n])]
    /\ profWatch' = [profWatch EXCEPT ![n] = Tail(@)]
    /\ queue' = [p \in Pools |-> IF p \in mapCacheProfileToPools(n) THEN "ready"
                                                                    ELSE queue[p]]
    /\ UNCHANGED <<apiVars, userVars, cache, cmCache, breakerVars, configMapVars, w,
                   metric, faults, restarts>>

(* The controller caches ConfigMaps but does not watch them. *)
DeliverConfigMap(c) ==
    /\ cmWatch[c] # <<>>
    /\ cmCache' = [cmCache EXCEPT ![c] = Head(cmWatch[c])]
    /\ cmWatch' = [cmWatch EXCEPT ![c] = Tail(@)]
    /\ UNCHANGED <<apiVars, userVars, cache, profCache, breakerVars, configMap, published,
                   profWatch, queue, w, metric, faults, restarts>>

(****************************************************************************)
(* A delay that the queue imposes is over.  A request put off for 30 s was  *)
(* put off after the circuit opened, so it comes due after the window.      *)
(****************************************************************************)
DelayOver(p) ==
    /\ \/ queue[p] = "backoff"
       \/ queue[p] = "after" /\ ~ circuitOpen[operatorNamespace(NamespaceOf[p])]
    /\ queue' = [queue EXCEPT ![p] = "ready"]
    /\ UNCHANGED <<apiVars, userVars, seenVars, breakerVars, configMapVars, profWatch, w,
                   metric, faults, restarts>>

(****************************************************************************)
(* 30 seconds after it opened, the circuit of c closes.  The requests that  *)
(* were put off meanwhile come due from now on, also if it opens again.     *)
(****************************************************************************)
CircuitWindowPasses(c) ==
    /\ circuitOpen[c]
    /\ circuitOpen' = [circuitOpen EXCEPT ![c] = FALSE]
    /\ queue' = [p \in Pools |->
                    IF queue[p] = "after" /\ operatorNamespace(NamespaceOf[p]) = c
                    THEN "backoff" ELSE queue[p]]
    /\ UNCHANGED <<apiVars, userVars, seenVars, failures, configMapVars, profWatch, w,
                   metric, faults, restarts>>

(****************************************************************************)
(* The operator stops, at any point, and starts again: its memory is gone,  *)
(* the caches are read anew and every pool there is gets enqueued.          *)
(****************************************************************************)
Restart ==
    /\ restarts < MaxRestarts
    /\ restarts' = restarts + 1
    /\ cache' = api
    /\ poolWatch' = <<>>
    /\ profCache' = profile
    /\ profWatch' = [n \in Namespaces |-> <<>>]
    /\ cmCache' = configMap
    /\ cmWatch' = [c \in ConfigNamespaces |-> <<>>]
    /\ queue' = [p \in Pools |-> IF api[p] # None THEN "ready" ELSE "none"]
    /\ w' = Idle
    /\ failures' = [c \in ConfigNamespaces |-> 0]
    /\ circuitOpen' = [c \in ConfigNamespaces |-> FALSE]
    /\ metric' = [n \in Namespaces |-> None]
    /\ UNCHANGED <<api, revision, userVars, configMap, published, faults>>

-----------------------------------------------------------------------------
(* Reconcile: the worker's steps. *)

(* What the worker's reads and calls leave alone. *)
environmentVars == <<userVars, seenVars, profWatch, restarts>>

(* The ConfigMap that the request at hand is about. *)
ConfigNamespace == operatorNamespace(NamespaceOf[w.req])

(* The two kinds of verdict that setReadyCondition is called with. *)
Ready == [ready |-> TRUE, reason |-> "Ready", by |-> None]
NotReady(reason, by) == [ready |-> FALSE, reason |-> reason, by |-> by]

(* The worker x, about to call setReadyCondition and then to return result. *)
SetStatus(x, verdict, result) ==
    [x EXCEPT !.pc = "status", !.cfg = None, !.stale = FALSE, !.result = result,
              !.verdict = verdict]

(* Reconcile returns; how says whether and when the key comes back. *)
Return(how) ==
    /\ w' = Idle
    /\ queue' = Enqueue(queue, w.req, how)

(* Faulty variant: the error is logged and not returned. *)
BugErrorSwallowed == Return("none")

(* Reconcile returns an error: the key comes back after a backoff. *)
ReturnError == Return("backoff")

(* The checks of addresses, transports, ports, TLS names, weights and duplicates. *)
validateDNSUpstreamPool(s) == s \in ValidSpecs

(* The worker x with its pool read, after validateDNSUpstreamPool. *)
Validated(x) ==
    IF validateDNSUpstreamPool(x.obj.spec)
    THEN [x EXCEPT !.pc = "select"]
    ELSE SetStatus(x, NotReady("InvalidSpec", None), "none")

(* The worker takes the key p from the queue. *)
TakeKey(p) ==
    /\ w.pc = "idle"
    /\ queue[p] = "ready"
    /\ Len(poolWatch) <= MaxLag
    /\ queue' = [queue EXCEPT ![p] = "none"]

(* Get finds the pool: stamp it, or go on if it carries the annotation. *)
ReconcilePool(p) ==
    /\ TakeKey(p)
    /\ cache[p] # None
    /\ LET x == [Idle EXCEPT !.req = p, !.target = p, !.obj = cache[p]]
       IN  w' = IF cache[p].irv # 0 THEN Validated(x) ELSE [x EXCEPT !.pc = "stamp"]
    /\ UNCHANGED <<environmentVars, apiVars, breakerVars, configMapVars, metric, faults>>

(* Get answers NotFound: reconcileAfterPoolDeletion. *)
ReconcileDeletion(p) ==
    /\ TakeKey(p)
    /\ cache[p] = None
    /\ w' = [Idle EXCEPT !.pc = "list", !.req = p, !.del = TRUE]
    /\ UNCHANGED <<environmentVars, apiVars, breakerVars, configMapVars, metric, faults>>

(****************************************************************************)
(* ensureInitialRVAnnotation: the merge patch names the pool and nothing    *)
(* else, so it lands on whatever object has that name now, and the answer   *)
(* replaces the worker's copy.                                              *)
(****************************************************************************)
ensureInitialRVAnnotation ==
    /\ w.pc = "stamp"
    /\ \/ /\ api[w.target] # None
          /\ ApiWrite(w.target, [api[w.target] EXCEPT !.irv = w.obj.rv])
          /\ w' = Validated([w EXCEPT !.obj = api'[w.target]])
          /\ queue' = queue
       \/ /\ api[w.target] = None
          /\ ReturnError
          /\ UNCHANGED apiVars
    /\ UNCHANGED <<environmentVars, breakerVars, configMapVars, metric, faults>>

(* The gauge names pool p as the active one of namespace n, and no other. *)
recordActivePoolSelectionMetric(n, p) == metric' = [metric EXCEPT ![n] = p]

(* The gauge names no pool of namespace n. *)
clearActivePoolSelectionMetric(n) == metric' = [metric EXCEPT ![n] = None]

(* selectActivePoolName and the metric; a pool that is not the active one is done. *)
SelectActivePool ==
    /\ w.pc = "select"
    /\ LET n == NamespaceOf[w.req]
       IN  \/ /\ Listed(n) = {}
              /\ w' = [w EXCEPT !.pc = "build"]
              /\ metric' = metric
           \/ \E active \in FirstChoices(cache, Listed(n)) :
                /\ recordActivePoolSelectionMetric(n, active)
                /\ w' = IF Cardinality(Listed(n)) > 1 /\ active # w.target
                        THEN SetStatus(w, NotReady("Superseded", active), "none")
                        ELSE [w EXCEPT !.pc = "build"]
    /\ UNCHANGED <<environmentVars, apiVars, breakerVars, configMapVars, queue, faults>>

(* Faulty variant: the metric is not cleared. *)
BugMetricNotCleared ==
    /\ w.pc = "list"
    /\ Listed(NamespaceOf[w.req]) = {}
    /\ w' = [w EXCEPT !.pc = "remove"]
    /\ UNCHANGED <<environmentVars, apiVars, breakerVars, configMapVars, queue, metric, faults>>

(* With no pool left, the metric is cleared and the key is to be removed. *)
ListNone ==
    /\ w.pc = "list"
    /\ Listed(NamespaceOf[w.req]) = {}
    /\ clearActivePoolSelectionMetric(NamespaceOf[w.req])
    /\ w' = [w EXCEPT !.pc = "remove"]
    /\ UNCHANGED <<environmentVars, apiVars, breakerVars, configMapVars, queue, faults>>

(* reconcileAfterPoolDeletion lists what remains and takes the first pool. *)
ListRemaining ==
    /\ w.pc = "list"
    /\ LET n == NamespaceOf[w.req]
       IN  \E first \in FirstChoices(cache, Listed(n)) :
             /\ recordActivePoolSelectionMetric(n, first)
             /\ w' = [w EXCEPT !.pc = "build", !.target = first, !.obj = cache[first]]
    /\ UNCHANGED <<environmentVars, apiVars, breakerVars, configMapVars, queue, faults>>

(* Faulty variant: the engine's renderer is not asked. *)
BugNotRendered(s) == IF BuildResult[s] = "ValidationFailed" THEN "ok" ELSE BuildResult[s]

(* What Generate, Render, MarshalIndent and validateConfigMapPayloadSize say of a spec. *)
Outcome(s) == BuildResult[s]

(* The cache profile "default" of namespace n, None when there is none. *)
getDefaultCacheProfile(n) == profCache[n]

(****************************************************************************)
(* getDefaultCacheProfile, Generate, Render, MarshalIndent and the size     *)
(* check.  After a deletion only an oversized configuration is reported in  *)
(* the pool's status; the other failures are returned.                      *)
(****************************************************************************)
BuildConfig ==
    /\ w.pc = "build"
    /\ LET r == Outcome(w.obj.spec)
       IN  \/ /\ r = "ok"
              /\ w' = [w EXCEPT !.pc = "upsert",
                                !.cfg = [spec |-> w.obj.spec,
                                         profile |-> getDefaultCacheProfile(NamespaceOf[w.req])]]
              /\ queue' = queue
           \/ /\ r # "ok"
              /\ ~ w.del \/ r = "ConfigTooLarge"
              /\ w' = SetStatus(w, NotReady(r, None), "none")
              /\ queue' = queue
           \/ /\ r # "ok"
              /\ w.del /\ r # "ConfigTooLarge"
              /\ ReturnError
    /\ UNCHANGED <<environmentVars, apiVars, breakerVars, configMapVars, metric, faults>>

(* Faulty variant: no RequeueAfter. *)
BugNotRequeued == "none"

(* What Reconcile returns when the circuit is open; after a deletion, nil. *)
CircuitOpenResult == IF w.del THEN "none" ELSE "after"

(* Faulty variant: any configuration in the ConfigMap will do. *)
BugAnyKey(c) == cmCache[c] \notin {None, NoKey}

(* CreateOrUpdate's mutation changes nothing: compared with the cached ConfigMap. *)
UpToDate(c) == cmCache[c] = w.cfg

(* What the worker may read of the ConfigMap c: without lag, only its latest state. *)
Readable(c) == ConfigMapLag \/ cmWatch[c] = <<>>

(* Faulty variant: a success does not touch the count. *)
BugNoReset(c) == failures' = failures

(* A success starts the count anew; the circuit is closed then. *)
resetConfigMapUpdateFailures(c) == failures' = [failures EXCEPT ![c] = 0]

(****************************************************************************)
(* upsertConfigMapWithCircuitBreaker up to the call of the API server: the  *)
(* open circuit, the no-op, and the create or update to be sent.  In the    *)
(* model only this worker writes the ConfigMap, so the copy it read is      *)
(* stale exactly if events of the ConfigMap were still on their way.        *)
(****************************************************************************)
UpsertConfigMap ==
    /\ w.pc = "upsert"
    /\ LET c == ConfigNamespace
       IN  /\ Readable(c)
           /\ \/ /\ circuitOpen[c]
                 /\ w' = SetStatus(w, NotReady("ConfigMapCircuitOpen", None), CircuitOpenResult)
                 /\ failures' = failures
              \/ /\ ~ circuitOpen[c]
                 /\ UpToDate(c)
                 /\ w' = SetStatus(w, Ready, "none")
                 /\ resetConfigMapUpdateFailures(c)
              \/ /\ ~ circuitOpen[c]
                 /\ ~ UpToDate(c)
                 /\ w' = [w EXCEPT !.pc = "write", !.stale = cmWatch[c] # <<>>]
                 /\ failures' = failures
    /\ UNCHANGED <<environmentVars, apiVars, circuitOpen, configMapVars, queue, metric, faults>>

(* The API server stores v in the ConfigMap c. *)
StoreConfigMap(c, v) ==
    /\ configMap' = [configMap EXCEPT ![c] = v]
    /\ cmWatch' = IF v = configMap[c] THEN cmWatch ELSE [cmWatch EXCEPT ![c] = Append(@, v)]
    /\ published' = [published EXCEPT ![c] = @ \cup ({v} \ {NoKey})]

ConfigMapWritten ==
    /\ w.pc = "write"
    /\ ~ w.stale
    /\ StoreConfigMap(ConfigNamespace, w.cfg)
    /\ resetConfigMapUpdateFailures(ConfigNamespace)
    /\ w' = SetStatus(w, Ready, "none")
    /\ UNCHANGED <<environmentVars, apiVars, circuitOpen, queue, metric, faults>>

(* A call that fails: the copy it was made from is stale, or a fault. *)
CallFails ==
    \/ w.stale /\ faults' = faults
    \/ faults < MaxFaults /\ faults' = faults + 1

(* Faulty variant: the count is kept when the circuit opens. *)
BugCountKept(c) ==
    /\ failures' = [failures EXCEPT ![c] = @ + 1]
    /\ circuitOpen' = [circuitOpen EXCEPT ![c] = failures[c] + 1 >= configMapUpdateFailureThreshold]

(* The third failure in a row opens the circuit and starts a new count. *)
recordConfigMapUpdateFailure(c) ==
    LET next == failures[c] + 1
    IN  IF next >= configMapUpdateFailureThreshold
        THEN /\ circuitOpen' = [circuitOpen EXCEPT ![c] = TRUE]
             /\ failures' = [failures EXCEPT ![c] = 0]
        ELSE /\ failures' = [failures EXCEPT ![c] = next]
             /\ circuitOpen' = circuitOpen

(****************************************************************************)
(* CreateOrUpdate fails in its Get, or in the create or update, or the      *)
(* answer is lost after the API server stored it.  The breaker counts it;   *)
(* the error is returned, with a status unless a deletion is being handled. *)
(****************************************************************************)
ConfigMapNotWritten ==
    /\ w.pc = "write" \/ (w.pc = "upsert" /\ ~ circuitOpen[ConfigNamespace])
    /\ CallFails
    /\ \/ UNCHANGED configMapVars
       \/ w.pc = "write" /\ ~ w.stale /\ StoreConfigMap(ConfigNamespace, w.cfg)
    /\ recordConfigMapUpdateFailure(ConfigNamespace)
    /\ IF w.del
       THEN ReturnError
       ELSE /\ w' = SetStatus(w, NotReady("ConfigMapUpdateFailed", None), "backoff")
            /\ queue' = queue
    /\ UNCHANGED <<environmentVars, apiVars, metric>>

(* removeConfigKey up to the call: nothing to do unless the cached copy has the key. *)
RemoveConfigKey ==
    /\ w.pc = "remove"
    /\ LET c == ConfigNamespace
       IN  /\ Readable(c)
           /\ \/ /\ cmCache[c] \in {None, NoKey}
                 /\ Return("none")
              \/ /\ cmCache[c] \notin {None, NoKey}
                 /\ w' = [w EXCEPT !.pc = "removeWrite", !.stale = cmWatch[c] # <<>>]
                 /\ queue' = queue
    /\ UNCHANGED <<environmentVars, apiVars, breakerVars, configMapVars, metric, faults>>

(* Faulty variant: the copy without the key is not sent. *)
BugKeyKept ==
    /\ w.pc = "removeWrite"
    /\ ~ w.stale
    /\ Return("none")
    /\ UNCHANGED <<environmentVars, apiVars, breakerVars, configMapVars, metric, faults>>

ConfigKeyRemoved ==
    /\ w.pc = "removeWrite"
    /\ ~ w.stale
    /\ StoreConfigMap(ConfigNamespace, NoKey)
    /\ Return("none")
    /\ UNCHANGED <<environmentVars, apiVars, breakerVars, metric, faults>>

(* The removal fails, or its answer is lost; the breaker has no part in it. *)
ConfigKeyNotRemoved ==
    /\ w.pc = "removeWrite"
    /\ CallFails
    /\ \/ UNCHANGED configMapVars
       \/ ~ w.stale /\ StoreConfigMap(ConfigNamespace, NoKey)
    /\ ReturnError
    /\ UNCHANGED <<environmentVars, apiVars, breakerVars, metric>>

(* Faulty variant: an existing condition keeps its ObservedGeneration. *)
BugGenerationKept ==
    [ready |-> w.verdict.ready, reason |-> w.verdict.reason, by |-> w.verdict.by,
     gen |-> IF w.obj.status = None THEN w.obj.gen ELSE w.obj.status.gen]

(* The Ready condition that setReadyCondition wants the pool to have. *)
Desired == [ready |-> w.verdict.ready, reason |-> w.verdict.reason, by |-> w.verdict.by,
            gen |-> w.obj.gen]

(* Faulty variant: a patch that always changes the object, as a timestamp in it would. *)
BugStatusAlwaysChanges ==
    /\ api' = api
    /\ revision' = revision
    /\ poolWatch' = Append(poolWatch, [pool |-> w.target, obj |-> api[w.target]])

(****************************************************************************)
(* setReadyCondition sends the difference between the worker's copy and the *)
(* condition it wants.  Equal to the copy, the patch is empty and changes   *)
(* nothing; otherwise it replaces the condition of the pool of that name.   *)
(****************************************************************************)
PatchStatus ==
    ApiWrite(w.target, IF Desired = w.obj.status THEN api[w.target]
                       ELSE [api[w.target] EXCEPT !.status = Desired])

setReadyCondition ==
    /\ w.pc = "status"
    /\ \/ /\ api[w.target] # None
          /\ PatchStatus
          /\ Return(w.result)
       \/ /\ api[w.target] = None
          /\ UNCHANGED apiVars
          /\ ReturnError
    /\ UNCHANGED <<environmentVars, breakerVars, configMapVars, metric, faults>>

(* A patch of the annotation or of the status fails, or its answer is lost. *)
PatchFails ==
    /\ faults < MaxFaults
    /\ faults' = faults + 1
    /\ \/ w.pc \in {"stamp", "status"} /\ UNCHANGED apiVars
       \/ /\ w.pc = "stamp"
          /\ api[w.target] # None
          /\ ApiWrite(w.target, [api[w.target] EXCEPT !.irv = w.obj.rv])
       \/ w.pc = "status" /\ api[w.target] # None /\ PatchStatus
    /\ ReturnError
    /\ UNCHANGED <<environmentVars, breakerVars, configMapVars, metric>>

(* A Get or a List fails; Reconcile reports only the lookup of the profile. *)
ReadFails ==
    /\ faults < MaxFaults
    /\ faults' = faults + 1
    /\ \/ w.pc \in {"select", "list", "remove"} /\ ReturnError
       \/ w.pc = "build" /\ w.del /\ ReturnError
       \/ /\ w.pc = "build"
          /\ ~ w.del
          /\ w' = SetStatus(w, NotReady("ProfileLookupFailed", None), "backoff")
          /\ queue' = queue
    /\ UNCHANGED <<environmentVars, apiVars, breakerVars, configMapVars, metric>>

(* The first Get of Reconcile fails. *)
GetFails(p) ==
    /\ w.pc = "idle"
    /\ queue[p] = "ready"
    /\ faults < MaxFaults
    /\ faults' = faults + 1
    /\ queue' = [queue EXCEPT ![p] = "backoff"]
    /\ UNCHANGED <<environmentVars, apiVars, breakerVars, configMapVars, w, metric>>

-----------------------------------------------------------------------------
Users ==
    \/ \E p \in Pools, s \in Specs, gap \in Gaps : CreatePool(p, s, gap)
    \/ \E p \in Pools, s \in Specs : EditPool(p, s)
    \/ \E p \in Pools : DeletePool(p)
    \/ \E n \in Namespaces, v \in Profiles \cup {None} : SetProfile(n, v)

Deliver ==
    \/ DeliverPool
    \/ \E n \in Namespaces : DeliverProfile(n)
    \/ \E c \in ConfigNamespaces : DeliverConfigMap(c)

Timers ==
    \/ \E p \in Pools : DelayOver(p)
    \/ \E c \in ConfigNamespaces : CircuitWindowPasses(c)

Start(p) == ReconcilePool(p) \/ ReconcileDeletion(p)

Worker ==
    \/ ensureInitialRVAnnotation
    \/ SelectActivePool
    \/ ListNone
    \/ ListRemaining
    \/ BuildConfig
    \/ UpsertConfigMap
    \/ ConfigMapWritten
    \/ ConfigMapNotWritten
    \/ RemoveConfigKey
    \/ ConfigKeyRemoved
    \/ ConfigKeyNotRemoved
    \/ setReadyCondition
    \/ PatchFails
    \/ ReadFails

Next ==
    \/ Users
    \/ Deliver
    \/ Timers
    \/ \E p \in Pools : Start(p) \/ GetFails(p)
    \/ Worker
    \/ Restart

Spec == Init /\ [][Next]_vars

(****************************************************************************)
(* The worker goes on while it has something to do, watch events arrive,    *)
(* delays end, and the queue serves every key that stays in it.             *)
(****************************************************************************)
Fairness ==
    /\ WF_vars(Worker)
    /\ WF_vars(DeliverPool)
    /\ \A n \in Namespaces : WF_vars(DeliverProfile(n))
    /\ \A c \in ConfigNamespaces :
          WF_vars(DeliverConfigMap(c)) /\ WF_vars(CircuitWindowPasses(c))
    /\ \A p \in Pools : WF_vars(DelayOver(p)) /\ SF_vars(Start(p))

FairSpec == Spec /\ Fairness

-----------------------------------------------------------------------------
(* Properties. *)

(* An event of pool p is on its way to the cache. *)
EventPending(p) == \E i \in DOMAIN poolWatch : poolWatch[i].pool = p

(* The worker is in a reconcile of pool p that found the pool. *)
Reconciling(p) == w.pc # "idle" /\ ~ w.del /\ w.req = p

(* Nothing is under way: no event, no request, no retry, no timer, no reconcile. *)
Settled ==
    /\ w.pc = "idle"
    /\ \A p \in Pools : queue[p] = "none"
    /\ poolWatch = <<>>
    /\ \A n \in Namespaces : profWatch[n] = <<>>
    /\ \A c \in ConfigNamespaces : cmWatch[c] = <<>>

(* The pools of namespace n that exist. *)
Live(n) == { p \in PoolsIn(n) : api[p] # None }

(* The configuration that pool p asks for now. *)
Wanted(p) == [spec |-> api[p].spec, profile |-> profile[NamespaceOf[p]]]

IsReady(p) == api[p] # None /\ api[p].status # None /\ api[p].status.ready

(* A spec that passes validateDNSUpstreamPool and builds. *)
Good(s) == validateDNSUpstreamPool(s) /\ BuildResult[s] = "ok"

(****************************************************************************)
(* Reconcile is level triggered: as long as a pool lacks its stamp, or its  *)
(* status is about another generation than its spec, some event, request,   *)
(* retry or running reconcile for that very pool is left, whatever was      *)
(* lost, retried, stale or interrupted before.                              *)
(****************************************************************************)
NoLostWork ==
    \A p \in Pools :
        /\ api[p] # None
        /\ api[p].irv = 0 \/ api[p].status = None \/ api[p].status.gen # api[p].gen
        => EventPending(p) \/ queue[p] # "none" \/ Reconciling(p)

(****************************************************************************)
(* The agents are never handed a configuration that their engine's renderer *)
(* refuses or that is too large: what upsertConfigMap sends was built by    *)
(* all of Generate, Render, MarshalIndent and validateConfigMapPayloadSize. *)
(****************************************************************************)
PublishedRenders ==
    \A c \in ConfigNamespaces : \A f \in published[c] : BuildResult[f.spec] = "ok"

(****************************************************************************)
(* When the operator rests, Ready=True means that the pool's present spec,  *)
(* with the present cache profile, was published: an edit, a re-creation,   *)
(* a profile change or a status patch on the wrong object never leaves a    *)
(* Ready behind that was earned by another configuration.                   *)
(****************************************************************************)
SettledReadyWasPublished ==
    Settled =>
        \A p \in Pools : IsReady(p) =>
            Wanted(p) \in published[operatorNamespace(NamespaceOf[p])]

(****************************************************************************)
(* When the operator rests, no pool is Ready that validation refuses:       *)
(* reconcileAfterPoolDeletion does not validate the pool it promotes, and   *)
(* sets it Ready if it builds; it takes the event of that very status patch *)
(* for Reconcile, which validates, to come and take it back.                *)
(****************************************************************************)
SettledReadyIsValid ==
    Settled => \A p \in Pools : IsReady(p) => validateDNSUpstreamPool(api[p].spec)

(****************************************************************************)
(* When the operator rests, a good pool that is alone in its namespace is   *)
(* Ready: no failed write, open circuit, restart, superseding pool since    *)
(* deleted, or swallowed event leaves it behind.                            *)
(****************************************************************************)
SettledSolePoolReady ==
    Settled =>
        \A n \in Namespaces : \A p \in Live(n) :
            Live(n) = {p} /\ Good(api[p].spec) => IsReady(p)

(****************************************************************************)
(* When the operator rests, a Ready pool's configuration is what the        *)
(* ConfigMap holds ("updates ConfigMap when pool upstreams change").        *)
(****************************************************************************)
SettledReadyIsServed ==
    Settled =>
        \A p \in Pools :
            IsReady(p) => configMap[operatorNamespace(NamespaceOf[p])] = Wanted(p)

(****************************************************************************)
(* When the operator rests, the oldest pool of a namespace is not marked    *)
(* Superseded and every other valid pool is ("uses the oldest pool as       *)
(* active when multiple pools exist").                                      *)
(****************************************************************************)
SettledOldestIsActive ==
    Settled =>
        \A n \in Namespaces : \A o \in Live(n) :
            (\A q \in Live(n) \ {o} : api[o].created < api[q].created) =>
                \A p \in Live(n) :
                    validateDNSUpstreamPool(api[p].spec) =>
                        (api[p].status.reason = "Superseded" <=> p # o)

(****************************************************************************)
(* When the operator rests, a pool that is marked Superseded by a pool that *)
(* "is active in this namespace" (the message of the condition) is          *)
(* superseded by one that is itself not superseded.                         *)
(****************************************************************************)
SettledSupersededByActive ==
    Settled =>
        \A p \in Pools :
            /\ api[p] # None
            /\ api[p].status.reason = "Superseded"
            /\ api[api[p].status.by] # None
            => api[api[p].status.by].status.reason # "Superseded"

(****************************************************************************)
(* When the operator rests, the gauge astradns_active_pool_selected names   *)
(* the oldest pool of the namespace or no pool, and it names one if some    *)
(* pool is valid.                                                           *)
(****************************************************************************)
SettledMetricIsTrue ==
    Settled =>
        \A n \in Namespaces :
            /\ metric[n] # None =>
                 /\ metric[n] \in Live(n)
                 /\ \A q \in Live(n) : api[metric[n]].created <= api[q].created
            /\ (\E p \in Live(n) : validateDNSUpstreamPool(api[p].spec)) => metric[n] # None

(****************************************************************************)
(* When the operator rests, a namespace without pools has no configuration  *)
(* in its own ConfigMap ("removes rendered key when a pool is deleted").    *)
(****************************************************************************)
SettledNoPoolNoKey ==
    Settled /\ PodNamespace = None =>
        \A n \in Namespaces :
            Live(n) = {} => configMap[operatorNamespace(n)] \in {None, NoKey}

(****************************************************************************)
(* When the operator rests, the ConfigMap of a Ready pool holds a           *)
(* configuration ("The rendered JSON is written to the                      *)
(* `astradns-agent-config` ConfigMap in the operator namespace",            *)
(* README.md), whatever happened to pools of other namespaces that share    *)
(* it.                                                                      *)
(****************************************************************************)
SettledReadyHasConfig ==
    Settled =>
        \A p \in Pools :
            IsReady(p) => configMap[operatorNamespace(NamespaceOf[p])] \notin {None, NoKey}

(****************************************************************************)
(* The key of a deleted pool that is retried without end: the pool that     *)
(* reconcileAfterPoolDeletion promotes in its stead does not generate, does *)
(* not render or does not marshal, and the error is returned every time.    *)
(****************************************************************************)
RetriedForEver(p) ==
    /\ api[p] = None
    /\ \E q \in FirstChoices(api, Live(NamespaceOf[p])) :
          BuildResult[api[q].spec] \notin {"ok", "ConfigTooLarge"}

(****************************************************************************)
(* Once the users, the faults and the restarts are over, the operator comes *)
(* to rest: its own status patches do not keep waking it up, conflicts and  *)
(* the open circuit end, and every event is handled and every retry ends,   *)
(* save those for a deleted pool whose successor the engine refuses.  Such  *)
(* retries go on without end, but they write nothing and wake nothing.      *)
(****************************************************************************)
ComesToRest ==
    <>[](/\ poolWatch = <<>>
         /\ \A n \in Namespaces : profWatch[n] = <<>>
         /\ \A c \in ConfigNamespaces : cmWatch[c] = <<>>
         /\ \A p \in Pools : RetriedForEver(p) \/ (queue[p] = "none" /\ w.req # p))

(* The failures in a row that a count and a deadline stand for. *)
Streak ==
    [c \in ConfigNamespaces |->
        IF circuitOpen[c] THEN configMapUpdateFailureThreshold ELSE failures[c]]

Breaker ==
    INSTANCE CircuitBreaker WITH
        Namespaces <- ConfigNamespaces,
        Threshold <- configMapUpdateFailureThreshold,
        streak <- Streak,
        store <- configMap

(****************************************************************************)
(* The failure counts and open circuits of the reconciler, with the writes  *)
(* of Reconcile and reconcileAfterPoolDeletion between them, implement the  *)
(* breaker: after three failed writes in a row neither path publishes until *)
(* the window has passed, through conflicts, lost answers and restarts.     *)
(****************************************************************************)
ImplementsBreaker == Breaker!Spec
=============================================================================
