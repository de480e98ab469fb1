-------------------- MODULE UpstreamPoolControllerProofs --------------------
(****************************************************************************)
(* Invariants of UpstreamPoolController, for every set of pools, namespaces *)
(* and specs and all bounds: its types, that only configurations that build *)
(* are published, and that it implements CircuitBreaker.                    *)
(****************************************************************************)
EXTENDS UpstreamPoolController, TLAPS

(* The steps at which the worker holds a copy of a pool. *)
Holding == {"stamp", "select", "build", "upsert", "write", "status"}

(* What the worker's variables hold at each step, x being the worker. *)
Fits(x) ==
    /\ x \in Workers
    /\ x.pc # "idle" => x.req \in Pools
    /\ x.pc \in {"list", "remove", "removeWrite"} => x.del
    /\ x.pc \in {"stamp", "select"} => ~ x.del
    /\ x.pc # "idle" /\ ~ x.del => x.target = x.req
    /\ x.pc \in Holding => x.target \in Pools /\ x.obj \in PoolObjects
    /\ x.pc \in {"upsert", "write"} => x.cfg \in Configs /\ BuildResult[x.cfg.spec] = "ok"
    /\ x.pc = "status" => x.verdict \in Verdicts
    /\ x.pc \in Holding \ {"stamp"} /\ ~ x.del => x.obj.irv # 0

(* The inductive invariant behind the types. *)
TypeInv == TypeOK /\ Fits(w)

-----------------------------------------------------------------------------
(* A key asked for is in the queue, and no key is lost from it (Enqueue).   *)
LEMMA EnqueueFacts ==
    ASSUME NEW q \in [Pools -> Results], NEW p \in Pools, NEW how \in Results
    PROVE  /\ Enqueue(q, p, how) \in [Pools -> Results]
           /\ \A x \in Pools : q[x] # "none" => Enqueue(q, p, how)[x] # "none"
           /\ how # "none" => Enqueue(q, p, how)[p] # "none"
BY DEF Enqueue, Results

(* A write to a pool keeps the types of what the API server stores.         *)
LEMMA ApiWriteType ==
    ASSUME TypeOK, NEW p \in Pools, NEW o \in PoolObjects \cup {None}, ApiWrite(p, o)
    PROVE  /\ api' \in [Pools -> PoolObjects \cup {None}]
           /\ revision' \in Nat
           /\ poolWatch' \in Seq(PoolEvents)
<1> DEFINE counted == o # None /\ o # api[p] /\ o.irv = 0
           new == IF counted THEN [o EXCEPT !.rv = revision + 1] ELSE o
<1>0. revision \in Nat
  BY DEF TypeOK
<1>1. new \in PoolObjects \cup {None}
  <2>1. CASE counted
    <3>1. o \in PoolObjects
      BY <2>1
    <3>2. [o EXCEPT !.rv = revision + 1] \in PoolObjects
      BY <1>0, <3>1 DEF PoolObjects
    <3> QED
      BY <2>1, <3>2
  <2>2. CASE ~ counted
    BY <2>2
  <2> QED
    BY <2>1, <2>2
<1>2. [pool |-> p, obj |-> new] \in PoolEvents
  BY <1>1 DEF PoolEvents
<1> HIDE DEF new
<1>3. /\ api' = [api EXCEPT ![p] = new]
      /\ poolWatch' = IF new = api[p] THEN poolWatch
                      ELSE Append(poolWatch, [pool |-> p, obj |-> new])
  BY DEF ApiWrite, new
<1>4. revision' \in Nat
  BY DEF ApiWrite, TypeOK
<1> QED
  BY <1>1, <1>2, <1>3, <1>4 DEF TypeOK

(* The idle worker fits. *)
LEMMA IdleFits == Fits(Idle)
BY DEF Fits, Idle, Workers, Steps, Holding

(* The verdicts that Reconcile passes to setReadyCondition. *)
LEMMA VerdictFacts ==
    /\ Ready \in Verdicts
    /\ \A reason \in Reasons, by \in Pools \cup {None} : NotReady(reason, by) \in Verdicts
BY DEF Ready, NotReady, Verdicts, Reasons

(* A worker with a pool at hand that goes on to setReadyCondition fits. *)
LEMMA SetStatusFits ==
    ASSUME NEW x \in Workers, x.req \in Pools, x.target \in Pools, x.obj \in PoolObjects,
           ~ x.del => x.target = x.req /\ x.obj.irv # 0,
           NEW v \in Verdicts, NEW result \in {"none", "after", "backoff"}
    PROVE  /\ Fits(SetStatus(x, v, result))
           /\ SetStatus(x, v, result).pc = "status"
           /\ SetStatus(x, v, result).req = x.req
           /\ SetStatus(x, v, result).del = x.del
           /\ SetStatus(x, v, result).target = x.target
           /\ SetStatus(x, v, result).obj = x.obj
<1> DEFINE y == SetStatus(x, v, result)
<1>1. /\ y \in Workers /\ y.pc = "status" /\ y.req = x.req /\ y.del = x.del
      /\ y.target = x.target /\ y.obj = x.obj /\ y.verdict = v
  BY DEF SetStatus, Workers, Steps
<1> HIDE DEF y
<1>2. Fits(y)
  BY <1>1 DEF Fits, Holding
<1> QED
  BY <1>1, <1>2 DEF y

(* After validateDNSUpstreamPool the worker selects, or reports the spec. *)
LEMMA ValidatedFits ==
    ASSUME NEW x \in Workers, x.req \in Pools, x.target = x.req, ~ x.del,
           x.obj \in PoolObjects, x.obj.irv # 0
    PROVE  /\ Fits(Validated(x))
           /\ Validated(x).pc \in {"select", "status"}
           /\ Validated(x).req = x.req
           /\ Validated(x).del = x.del
           /\ Validated(x).target = x.target
           /\ Validated(x).obj = x.obj
<1>1. CASE x.obj.spec \in ValidSpecs
  <2> DEFINE y == [x EXCEPT !.pc = "select"]
  <2>1. Validated(x) = y
    BY <1>1 DEF Validated, validateDNSUpstreamPool
  <2>2. /\ y \in Workers /\ y.pc = "select" /\ y.req = x.req /\ y.del = x.del
        /\ y.target = x.target /\ y.obj = x.obj
    BY DEF Workers, Steps
  <2> HIDE DEF y
  <2>3. Fits(y)
    BY <2>2 DEF Fits, Holding
  <2> QED
    BY <2>1, <2>2, <2>3
<1>2. CASE x.obj.spec \notin ValidSpecs
  <2>1. Validated(x) = SetStatus(x, NotReady("InvalidSpec", None), "none")
    BY <1>2 DEF Validated, validateDNSUpstreamPool
  <2>2. NotReady("InvalidSpec", None) \in Verdicts
    BY VerdictFacts DEF Reasons
  <2> QED
    BY <2>1, <2>2, SetStatusFits
<1> QED
  BY <1>1, <1>2

(* A pool object with its spec replaced and its generation raised. *)
LEMMA EditedPool ==
    ASSUME NEW o \in PoolObjects, NEW s \in Specs
    PROVE  [o EXCEPT !.spec = s, !.gen = @ + 1] \in PoolObjects
<1>1. o.gen + 1 \in Nat
  BY DEF PoolObjects
<1>2. [o EXCEPT !.spec = s, !.gen = o.gen + 1] \in PoolObjects
  BY <1>1 DEF PoolObjects
<1>3. [o EXCEPT !.spec = s, !.gen = @ + 1] = [o EXCEPT !.spec = s, !.gen = o.gen + 1]
  BY DEF PoolObjects
<1> QED
  BY <1>2, <1>3

(* Init has the types. *)
LEMMA InitType == ASSUME Init PROVE TypeInv
<1> USE ControllerAssumption
<1>1. TypeOK
  BY DEF Init, TypeOK, Idle, Workers, Results, Steps, ConfigMapStates,
         configMapUpdateFailureThreshold
<1>2. Fits(w)
  BY IdleFits DEF Init
<1> QED
  BY <1>1, <1>2 DEF TypeInv

(* The users' operations keep the types. *)
LEMMA UsersType == ASSUME TypeInv, Users PROVE TypeInv'
<1> USE ControllerAssumption
<1> USE DEF TypeInv, userVars, seenVars, breakerVars, configMapVars, apiVars
<1>1. ASSUME NEW p \in Pools, NEW s \in Specs, NEW gap \in Gaps, CreatePool(p, s, gap)
      PROVE  TypeInv'
  <2>1. now + gap \in Nat
    BY DEF TypeOK
  <2>2. [created |-> now + gap, rv |-> 1, irv |-> 0, gen |-> 1, spec |-> s,
         status |-> None] \in PoolObjects
    BY <2>1 DEF PoolObjects
  <2>3. /\ api' \in [Pools -> PoolObjects \cup {None}]
        /\ revision' \in Nat
        /\ poolWatch' \in Seq(PoolEvents)
    BY <1>1, <2>2, ApiWriteType DEF CreatePool
  <2>4. ops' \in 0 .. MaxOps /\ lives' \in [Pools -> 0 .. MaxLives]
    BY <1>1 DEF CreatePool, UserOperation, TypeOK
  <2>5. /\ now' = now + gap
        /\ UNCHANGED <<profile, seenVars, breakerVars, configMapVars, profWatch, queue, w,
                       metric, faults, restarts>>
    BY <1>1 DEF CreatePool
  <2>6. TypeOK'
    BY <2>1, <2>3, <2>4, <2>5 DEF TypeOK
  <2> QED
    BY <2>5, <2>6
<1>2. ASSUME NEW p \in Pools, NEW s \in Specs, EditPool(p, s)
      PROVE  TypeInv'
  <2>1. api[p] \in PoolObjects
    BY <1>2 DEF EditPool, TypeOK
  <2>2. [api[p] EXCEPT !.spec = s, !.gen = @ + 1] \in PoolObjects
    BY <2>1, EditedPool
  <2>3. /\ api' \in [Pools -> PoolObjects \cup {None}]
        /\ revision' \in Nat
        /\ poolWatch' \in Seq(PoolEvents)
    BY <1>2, <2>2, ApiWriteType DEF EditPool
  <2>4. ops' \in 0 .. MaxOps
    BY <1>2 DEF EditPool, UserOperation, TypeOK
  <2>5. UNCHANGED <<profile, now, lives, seenVars, breakerVars, configMapVars, profWatch,
                    queue, w, metric, faults, restarts>>
    BY <1>2 DEF EditPool
  <2>6. TypeOK'
    BY <2>3, <2>4, <2>5 DEF TypeOK
  <2> QED
    BY <2>5, <2>6
<1>3. ASSUME NEW p \in Pools, DeletePool(p)
      PROVE  TypeInv'
  <2>1. /\ api' \in [Pools -> PoolObjects \cup {None}]
        /\ revision' \in Nat
        /\ poolWatch' \in Seq(PoolEvents)
    BY <1>3, ApiWriteType DEF DeletePool
  <2>2. TypeOK'
    BY <1>3, <2>1 DEF DeletePool, UserOperation, TypeOK
  <2> QED
    BY <1>3, <2>2 DEF DeletePool
<1>4. ASSUME NEW n \in Namespaces, NEW v \in Profiles \cup {None}, SetProfile(n, v)
      PROVE  TypeInv'
  <2>1. TypeOK'
    BY <1>4 DEF SetProfile, UserOperation, TypeOK
  <2> QED
    BY <1>4, <2>1 DEF SetProfile
<1> QED
  BY <1>1, <1>2, <1>3, <1>4 DEF Users

(* Informers, timers, a failing first Get and a restart keep the types. *)
LEMMA SystemType ==
    ASSUME TypeInv, Deliver \/ Timers \/ Restart \/ \E p \in Pools : GetFails(p)
    PROVE  TypeInv'
<1> USE ControllerAssumption
<1> USE DEF TypeInv, userVars, seenVars, breakerVars, configMapVars, apiVars
<1>1. CASE DeliverPool
  <2>1. /\ Head(poolWatch) \in PoolEvents
        /\ Tail(poolWatch) \in Seq(PoolEvents)
    BY <1>1 DEF DeliverPool, TypeOK
  <2>2. /\ Head(poolWatch).pool \in Pools
        /\ Head(poolWatch).obj \in PoolObjects \cup {None}
    BY <2>1 DEF PoolEvents
  <2>3. queue' \in [Pools -> Results]
    BY <1>1, <2>2, EnqueueFacts DEF DeliverPool, TypeOK, Results
  <2>4. TypeOK'
    BY <1>1, <2>1, <2>2, <2>3 DEF DeliverPool, TypeOK
  <2> QED
    BY <1>1, <2>4 DEF DeliverPool
<1>2. ASSUME NEW n \in Namespaces, DeliverProfile(n)
      PROVE  TypeInv'
  <2>1. /\ Head(profWatch[n]) \in Profiles \cup {None}
        /\ Tail(profWatch[n]) \in Seq(Profiles \cup {None})
    BY <1>2 DEF DeliverProfile, TypeOK
  <2>2. queue' \in [Pools -> Results]
    BY <1>2 DEF DeliverProfile, TypeOK, Results
  <2>3. TypeOK'
    BY <1>2, <2>1, <2>2 DEF DeliverProfile, TypeOK
  <2> QED
    BY <1>2, <2>3 DEF DeliverProfile
<1>3. ASSUME NEW c \in ConfigNamespaces, DeliverConfigMap(c)
      PROVE  TypeInv'
  <2>1. /\ Head(cmWatch[c]) \in ConfigMapStates
        /\ Tail(cmWatch[c]) \in Seq(ConfigMapStates)
    BY <1>3 DEF DeliverConfigMap, TypeOK
  <2>2. TypeOK'
    BY <1>3, <2>1 DEF DeliverConfigMap, TypeOK
  <2> QED
    BY <1>3, <2>2 DEF DeliverConfigMap
<1>4. ASSUME NEW p \in Pools, DelayOver(p)
      PROVE  TypeInv'
  BY <1>4 DEF DelayOver, TypeOK, Results
<1>5. ASSUME NEW c \in ConfigNamespaces, CircuitWindowPasses(c)
      PROVE  TypeInv'
  BY <1>5 DEF CircuitWindowPasses, TypeOK, Results
<1>6. CASE Restart
  <2>1. w' = Idle /\ Fits(w')
    BY <1>6, IdleFits DEF Restart
  <2>2. TypeOK'
    BY <1>6, <2>1 DEF Restart, TypeOK, Results, Fits, configMapUpdateFailureThreshold
  <2> QED
    BY <2>1, <2>2
<1>7. ASSUME NEW p \in Pools, GetFails(p)
      PROVE  TypeInv'
  BY <1>7 DEF GetFails, environmentVars, TypeOK, Results
<1> QED
  BY <1>1, <1>2, <1>3, <1>4, <1>5, <1>6, <1>7 DEF Deliver, Timers

-----------------------------------------------------------------------------
(* The request at hand has a namespace, and that has a ConfigMap. *)
LEMMA RequestFacts ==
    ASSUME w.req \in Pools
    PROVE  /\ NamespaceOf[w.req] \in Namespaces
           /\ ConfigNamespace \in ConfigNamespaces
BY ControllerAssumption DEF ConfigNamespace, ConfigNamespaces

(* Reconcile returns: the worker is idle and the queue keeps its type. *)
LEMMA ReturnType ==
    ASSUME TypeOK, w.req \in Pools, NEW how \in Results, Return(how)
    PROVE  w' = Idle /\ Fits(w') /\ queue' \in [Pools -> Results]
BY IdleFits, EnqueueFacts DEF Return, TypeOK

(* What the API server stores in a ConfigMap has its type. *)
LEMMA StoreType ==
    ASSUME TypeOK, NEW c \in ConfigNamespaces, NEW v \in Configs \cup {NoKey},
           StoreConfigMap(c, v)
    PROVE  /\ configMap' \in [ConfigNamespaces -> ConfigMapStates]
           /\ cmWatch' \in [ConfigNamespaces -> Seq(ConfigMapStates)]
           /\ published' \in [ConfigNamespaces -> SUBSET Configs]
<1>1. v \in ConfigMapStates
  BY DEF ConfigMapStates
<1>2. Append(cmWatch[c], v) \in Seq(ConfigMapStates)
  BY <1>1 DEF TypeOK
<1> QED
  BY <1>1, <1>2 DEF StoreConfigMap, TypeOK

(* The failure count stays below the threshold. *)
LEMMA FailureType ==
    ASSUME TypeOK, NEW c \in ConfigNamespaces, recordConfigMapUpdateFailure(c)
    PROVE  /\ failures' \in [ConfigNamespaces -> 0 .. configMapUpdateFailureThreshold - 1]
           /\ circuitOpen' \in [ConfigNamespaces -> BOOLEAN]
<1> DEFINE next == failures[c] + 1
<1>1. /\ failures \in [ConfigNamespaces -> 0 .. 2]
      /\ circuitOpen \in [ConfigNamespaces -> BOOLEAN]
  BY DEF TypeOK, configMapUpdateFailureThreshold
<1>2. CASE next >= 3
  <2>1. /\ circuitOpen' = [circuitOpen EXCEPT ![c] = TRUE]
        /\ failures' = [failures EXCEPT ![c] = 0]
    BY <1>2 DEF recordConfigMapUpdateFailure, configMapUpdateFailureThreshold
  <2> QED
    BY <1>1, <2>1 DEF configMapUpdateFailureThreshold
<1>3. CASE ~ (next >= 3)
  <2>1. circuitOpen' = circuitOpen /\ failures' = [failures EXCEPT ![c] = next]
    BY <1>3 DEF recordConfigMapUpdateFailure, configMapUpdateFailureThreshold
  <2>2. next \in 0 .. 2
    BY <1>1, <1>3
  <2> QED
    BY <1>1, <2>1, <2>2 DEF configMapUpdateFailureThreshold
<1> QED
  BY <1>2, <1>3

(* The steps with which a reconcile starts keep the types. *)
LEMMA StartType == ASSUME TypeInv, NEW p \in Pools, Start(p) PROVE TypeInv'
<1> USE DEF TypeInv, environmentVars, userVars, seenVars, breakerVars, configMapVars, apiVars
<1>1. Idle \in Workers
  BY IdleFits DEF Fits
<1>2. queue' \in [Pools -> Results]
  BY DEF Start, ReconcilePool, ReconcileDeletion, TakeKey, TypeOK, Results
<1>3. CASE ReconcilePool(p)
  <2> DEFINE x == [Idle EXCEPT !.req = p, !.target = p, !.obj = cache[p]]
  <2>1. cache[p] \in PoolObjects
    BY <1>3 DEF ReconcilePool, TypeOK
  <2>2. /\ x \in Workers /\ x.req = p /\ x.target = p /\ x.obj = cache[p]
        /\ ~ x.del
    BY <1>1, <2>1 DEF Idle, Workers
  <2>3. w' = IF cache[p].irv # 0 THEN Validated(x) ELSE [x EXCEPT !.pc = "stamp"]
    BY <1>3 DEF ReconcilePool
  <2>4. CASE cache[p].irv # 0
    <3> HIDE DEF x
    <3>1. Fits(Validated(x))
      BY <2>1, <2>2, <2>4, ValidatedFits
    <3> QED
      BY <1>2, <1>3, <2>3, <2>4, <3>1 DEF ReconcilePool, TypeOK, Fits
  <2>5. CASE cache[p].irv = 0
    <3> DEFINE y == [x EXCEPT !.pc = "stamp"]
    <3>1. /\ y \in Workers /\ y.pc = "stamp" /\ y.req = p /\ y.target = p
          /\ y.obj = cache[p] /\ ~ y.del
      <4> HIDE DEF x
      <4> QED
        BY <2>2 DEF Workers, Steps
    <3> HIDE DEF y
    <3>2. Fits(y)
      BY <2>1, <3>1 DEF Fits, Holding
    <3>3. w' = y
      BY <2>3, <2>5 DEF y
    <3> QED
      BY <1>2, <1>3, <3>2, <3>3 DEF ReconcilePool, TypeOK, Fits
  <2> QED
    BY <2>4, <2>5
<1>4. CASE ReconcileDeletion(p)
  <2> DEFINE y == [Idle EXCEPT !.pc = "list", !.req = p, !.del = TRUE]
  <2>1. y \in Workers /\ y.pc = "list" /\ y.req = p /\ y.del
    BY <1>1 DEF Idle, Workers, Steps
  <2>2. w' = y
    BY <1>4 DEF ReconcileDeletion
  <2> HIDE DEF y
  <2>3. Fits(y)
    BY <2>1 DEF Fits, Holding
  <2> QED
    BY <1>2, <1>4, <2>2, <2>3 DEF ReconcileDeletion, TypeOK, Fits
<1> QED
  BY <1>3, <1>4 DEF Start

(* The selection, in Reconcile and after a deletion, keeps the types. *)
LEMMA SelectType ==
    ASSUME TypeInv, SelectActivePool \/ ListNone \/ ListRemaining
    PROVE  TypeInv'
<1> USE DEF TypeInv, environmentVars, userVars, seenVars, breakerVars, configMapVars, apiVars
<1>1. w \in Workers
  BY DEF TypeOK
<1>2. CASE SelectActivePool
  <2>1. /\ w.pc = "select" /\ w.req \in Pools /\ w.target \in Pools /\ w.obj \in PoolObjects
        /\ ~ w.del /\ w.target = w.req /\ w.obj.irv # 0
    BY <1>2 DEF SelectActivePool, Fits, Holding
  <2> DEFINE y == [w EXCEPT !.pc = "build"]
  <2>2. Fits(y)
    <3>1. /\ y \in Workers /\ y.pc = "build" /\ y.req = w.req /\ y.target = w.target
          /\ y.obj = w.obj /\ y.del = w.del
      BY <1>1 DEF Workers, Steps
    <3> HIDE DEF y
    <3> QED
      BY <2>1, <3>1 DEF Fits, Holding
  <2>3. ASSUME NEW active \in Pools
        PROVE  Fits(SetStatus(w, NotReady("Superseded", active), "none"))
    <3>1. NotReady("Superseded", active) \in Verdicts
      BY VerdictFacts DEF Reasons
    <3> QED
      BY <1>1, <2>1, <3>1, SetStatusFits
  <2>4. Fits(w') /\ metric' \in [Namespaces -> Pools \cup {None}]
    <3> HIDE DEF y
    <3>1. \A active \in FirstChoices(cache, Listed(NamespaceOf[w.req])) : active \in Pools
      BY DEF FirstChoices, Listed, PoolsIn
    <3>2. metric \in [Namespaces -> Pools \cup {None}]
      BY DEF TypeOK
    <3>3. \/ w' = y /\ metric' = metric
          \/ \E active \in Pools :
               /\ metric' = [metric EXCEPT ![NamespaceOf[w.req]] = active]
               /\ \/ w' = SetStatus(w, NotReady("Superseded", active), "none")
                  \/ w' = y
      BY <1>2, <3>1 DEF SelectActivePool, recordActivePoolSelectionMetric, y
    <3> QED
      BY <2>2, <2>3, <3>2, <3>3
  <2> QED
    BY <1>2, <2>4 DEF SelectActivePool, TypeOK, Fits
<1>3. CASE ListNone
  <2>1. w.pc = "list" /\ w.req \in Pools /\ w.del
    BY <1>3 DEF ListNone, Fits
  <2> DEFINE y == [w EXCEPT !.pc = "remove"]
  <2>2. y \in Workers /\ y.pc = "remove" /\ y.req = w.req /\ y.del = w.del
    BY <1>1 DEF Workers, Steps
  <2>3. w' = y
    BY <1>3 DEF ListNone
  <2> HIDE DEF y
  <2>4. Fits(y)
    BY <2>1, <2>2 DEF Fits, Holding
  <2> QED
    BY <1>3, <2>3, <2>4 DEF ListNone, clearActivePoolSelectionMetric, TypeOK, Fits
<1>4. CASE ListRemaining
  <2>1. w.pc = "list" /\ w.req \in Pools /\ w.del
    BY <1>4 DEF ListRemaining, Fits
  <2>2. PICK first \in FirstChoices(cache, Listed(NamespaceOf[w.req])) :
             /\ metric' = [metric EXCEPT ![NamespaceOf[w.req]] = first]
             /\ w' = [w EXCEPT !.pc = "build", !.target = first, !.obj = cache[first]]
    BY <1>4 DEF ListRemaining, recordActivePoolSelectionMetric
  <2>3. first \in Pools /\ cache[first] \in PoolObjects
    BY <2>2 DEF FirstChoices, Listed, PoolsIn, TypeOK
  <2> DEFINE y == [w EXCEPT !.pc = "build", !.target = first, !.obj = cache[first]]
  <2>4. /\ y \in Workers /\ y.pc = "build" /\ y.req = w.req /\ y.del = w.del
        /\ y.target = first /\ y.obj = cache[first]
    BY <1>1, <2>3 DEF Workers, Steps
  <2>5. w' = y
    BY <2>2
  <2> HIDE DEF y
  <2>6. Fits(y)
    BY <2>1, <2>3, <2>4 DEF Fits, Holding
  <2>7. metric' \in [Namespaces -> Pools \cup {None}]
    BY <2>2, <2>3 DEF TypeOK
  <2> QED
    BY <1>4, <2>5, <2>6, <2>7 DEF ListRemaining, TypeOK, Fits
<1> QED
  BY <1>2, <1>3, <1>4

(* Building the configuration, and failing to read for it, keep the types. *)
LEMMA BuildType == ASSUME TypeInv, BuildConfig \/ ReadFails PROVE TypeInv'
<1> USE ControllerAssumption
<1> USE DEF TypeInv, environmentVars, userVars, seenVars, breakerVars, configMapVars, apiVars
<1>1. w \in Workers /\ w.pc # "idle" /\ w.req \in Pools
  BY DEF BuildConfig, ReadFails, TypeOK, Fits
<1>2. w.pc = "build" => /\ w.target \in Pools /\ w.obj \in PoolObjects
                        /\ ~ w.del => w.target = w.req /\ w.obj.irv # 0
  BY DEF Fits, Holding
<1>3. ASSUME NEW reason \in Reasons, NEW result \in {"none", "after", "backoff"},
             w.pc = "build"
      PROVE  Fits(SetStatus(w, NotReady(reason, None), result))
  <2>1. NotReady(reason, None) \in Verdicts
    BY VerdictFacts
  <2> QED
    BY <1>1, <1>2, <1>3, <2>1, SetStatusFits
<1>4. ReturnError => Fits(w') /\ queue' \in [Pools -> Results]
  BY <1>1, ReturnType DEF ReturnError, Results
<1>5. queue \in [Pools -> Results]
  BY DEF TypeOK
<1>6. CASE BuildConfig
  <2> DEFINE cfg == [spec |-> w.obj.spec, profile |-> profCache[NamespaceOf[w.req]]]
             y == [w EXCEPT !.pc = "upsert", !.cfg = cfg]
  <2>1. w.pc = "build" /\ w.obj.spec \in Specs
    BY <1>2, <1>6 DEF BuildConfig, PoolObjects
  <2>2. BuildResult[w.obj.spec] \in BuildFailures \cup {"ok"}
    BY <2>1
  <2>3. cfg \in Configs /\ cfg.spec = w.obj.spec
    BY <1>1, <2>1, RequestFacts DEF Configs, TypeOK
  <2>4. ASSUME BuildResult[w.obj.spec] = "ok"
        PROVE  Fits(y)
    <3> HIDE DEF cfg
    <3>1. /\ y \in Workers /\ y.pc = "upsert" /\ y.req = w.req /\ y.del = w.del
          /\ y.target = w.target /\ y.obj = w.obj /\ y.cfg = cfg
      BY <1>1, <2>3 DEF Workers, Steps
    <3> HIDE DEF y
    <3> QED
      BY <1>1, <1>2, <2>1, <2>3, <2>4, <3>1 DEF Fits, Holding
  <2>5. ASSUME BuildResult[w.obj.spec] # "ok"
        PROVE  Fits(SetStatus(w, NotReady(BuildResult[w.obj.spec], None), "none"))
    BY <1>3, <2>1, <2>2, <2>5 DEF Reasons
  <2>6. Fits(w') /\ queue' \in [Pools -> Results]
    <3> HIDE DEF y
    <3>1. \/ BuildResult[w.obj.spec] = "ok" /\ w' = y /\ queue' = queue
          \/ /\ BuildResult[w.obj.spec] # "ok"
             /\ w' = SetStatus(w, NotReady(BuildResult[w.obj.spec], None), "none")
             /\ queue' = queue
          \/ ReturnError
      BY <1>6 DEF BuildConfig, Outcome, getDefaultCacheProfile, y
    <3> QED
      BY <1>4, <1>5, <2>4, <2>5, <3>1
  <2> QED
    BY <1>6, <2>6 DEF BuildConfig, TypeOK, Fits
<1>7. CASE ReadFails
  <2>1. faults' \in 0 .. MaxFaults
    BY <1>7 DEF ReadFails, TypeOK
  <2>2. w.pc = "build" => Fits(SetStatus(w, NotReady("ProfileLookupFailed", None), "backoff"))
    BY <1>3 DEF Reasons
  <2>3. Fits(w') /\ queue' \in [Pools -> Results]
    BY <1>4, <1>5, <1>7, <2>2 DEF ReadFails
  <2> QED
    BY <1>7, <2>1, <2>3 DEF ReadFails, TypeOK, Fits
<1> QED
  BY <1>6, <1>7

(* Writing the configuration keeps the types. *)
LEMMA WriteType ==
    ASSUME TypeInv, UpsertConfigMap \/ ConfigMapWritten \/ ConfigMapNotWritten
    PROVE  TypeInv'
<1> USE DEF TypeInv, environmentVars, userVars, seenVars, breakerVars, configMapVars, apiVars
<1>1. /\ w \in Workers /\ w.pc \in {"upsert", "write"} /\ w.req \in Pools
      /\ w.target \in Pools /\ w.obj \in PoolObjects
      /\ ~ w.del => w.target = w.req /\ w.obj.irv # 0
      /\ w.cfg \in Configs /\ BuildResult[w.cfg.spec] = "ok"
  BY DEF UpsertConfigMap, ConfigMapWritten, ConfigMapNotWritten, TypeOK, Fits, Holding
<1>2. ConfigNamespace \in ConfigNamespaces
  BY <1>1, RequestFacts
<1>3. ASSUME NEW v \in Verdicts, NEW result \in {"none", "after", "backoff"}
      PROVE  Fits(SetStatus(w, v, result))
  BY <1>1, SetStatusFits
<1>4. Fits(SetStatus(w, Ready, "none"))
  BY <1>3, VerdictFacts
<1>5. queue \in [Pools -> Results]
  BY DEF TypeOK
<1>6. [failures EXCEPT ![ConfigNamespace] = 0]
        \in [ConfigNamespaces -> 0 .. configMapUpdateFailureThreshold - 1]
  BY <1>2 DEF TypeOK, configMapUpdateFailureThreshold
<1>7. CASE UpsertConfigMap
  <2> DEFINE y == [w EXCEPT !.pc = "write", !.stale = cmWatch[ConfigNamespace] # <<>>]
  <2>1. Fits(y)
    <3>1. /\ y \in Workers /\ y.pc = "write" /\ y.req = w.req /\ y.del = w.del
          /\ y.target = w.target /\ y.obj = w.obj /\ y.cfg = w.cfg
      BY <1>1 DEF Workers, Steps
    <3> HIDE DEF y
    <3> QED
      BY <1>1, <3>1 DEF Fits, Holding
  <2>2. Fits(SetStatus(w, NotReady("ConfigMapCircuitOpen", None), CircuitOpenResult))
    <3>1. NotReady("ConfigMapCircuitOpen", None) \in Verdicts
      BY VerdictFacts DEF Reasons
    <3>2. CircuitOpenResult \in {"none", "after", "backoff"}
      BY DEF CircuitOpenResult
    <3> QED
      BY <1>3, <3>1, <3>2
  <2>3. Fits(w') /\ failures' \in [ConfigNamespaces -> 0 .. configMapUpdateFailureThreshold - 1]
    <3> HIDE DEF y
    <3>1. \/ /\ w' = SetStatus(w, NotReady("ConfigMapCircuitOpen", None), CircuitOpenResult)
             /\ failures' = failures
          \/ /\ w' = SetStatus(w, Ready, "none")
             /\ failures' = [failures EXCEPT ![ConfigNamespace] = 0]
          \/ w' = y /\ failures' = failures
      BY <1>7 DEF UpsertConfigMap, resetConfigMapUpdateFailures, y
    <3>2. failures \in [ConfigNamespaces -> 0 .. configMapUpdateFailureThreshold - 1]
      BY DEF TypeOK
    <3> QED
      BY <1>4, <1>6, <2>1, <2>2, <3>1, <3>2
  <2> QED
    BY <1>7, <2>3 DEF UpsertConfigMap, TypeOK, Fits
<1>8. CASE ConfigMapWritten
  <2>1. /\ configMap' \in [ConfigNamespaces -> ConfigMapStates]
        /\ cmWatch' \in [ConfigNamespaces -> Seq(ConfigMapStates)]
        /\ published' \in [ConfigNamespaces -> SUBSET Configs]
    BY <1>1, <1>2, <1>8, StoreType DEF ConfigMapWritten
  <2> QED
    BY <1>4, <1>6, <1>8, <2>1 DEF ConfigMapWritten, resetConfigMapUpdateFailures, TypeOK, Fits
<1>9. CASE ConfigMapNotWritten
  <2>1. /\ configMap' \in [ConfigNamespaces -> ConfigMapStates]
        /\ cmWatch' \in [ConfigNamespaces -> Seq(ConfigMapStates)]
        /\ published' \in [ConfigNamespaces -> SUBSET Configs]
    <3>1. CASE StoreConfigMap(ConfigNamespace, w.cfg)
      BY <1>1, <1>2, <3>1, StoreType
    <3>2. CASE UNCHANGED configMapVars
      BY <3>2 DEF TypeOK
    <3> QED
      BY <1>9, <3>1, <3>2 DEF ConfigMapNotWritten
  <2>2. /\ failures' \in [ConfigNamespaces -> 0 .. configMapUpdateFailureThreshold - 1]
        /\ circuitOpen' \in [ConfigNamespaces -> BOOLEAN]
    BY <1>2, <1>9, FailureType DEF ConfigMapNotWritten
  <2>3. faults' \in 0 .. MaxFaults
    BY <1>9, ControllerAssumption DEF ConfigMapNotWritten, CallFails, TypeOK
  <2>4. Fits(w') /\ queue' \in [Pools -> Results]
    <3>1. NotReady("ConfigMapUpdateFailed", None) \in Verdicts
      BY VerdictFacts DEF Reasons
    <3>2. Fits(SetStatus(w, NotReady("ConfigMapUpdateFailed", None), "backoff"))
      BY <1>3, <3>1
    <3>3. ReturnError => Fits(w') /\ queue' \in [Pools -> Results]
      BY <1>1, ReturnType DEF ReturnError, Results
    <3> QED
      BY <1>5, <1>9, <3>2, <3>3 DEF ConfigMapNotWritten
  <2> QED
    BY <1>9, <2>1, <2>2, <2>3, <2>4 DEF ConfigMapNotWritten, TypeOK, Fits
<1> QED
  BY <1>7, <1>8, <1>9

(* Removing the key keeps the types. *)
LEMMA RemoveType ==
    ASSUME TypeInv, RemoveConfigKey \/ ConfigKeyRemoved \/ ConfigKeyNotRemoved
    PROVE  TypeInv'
<1> USE DEF TypeInv, environmentVars, userVars, seenVars, breakerVars, configMapVars, apiVars
<1>1. w \in Workers /\ w.pc \in {"remove", "removeWrite"} /\ w.req \in Pools /\ w.del
  BY DEF RemoveConfigKey, ConfigKeyRemoved, ConfigKeyNotRemoved, TypeOK, Fits
<1>2. ConfigNamespace \in ConfigNamespaces
  BY <1>1, RequestFacts
<1>3. Return("none") \/ ReturnError => Fits(w') /\ queue' \in [Pools -> Results]
  BY <1>1, ReturnType DEF ReturnError, Results
<1>4. StoreConfigMap(ConfigNamespace, NoKey) \/ UNCHANGED configMapVars =>
        /\ configMap' \in [ConfigNamespaces -> ConfigMapStates]
        /\ cmWatch' \in [ConfigNamespaces -> Seq(ConfigMapStates)]
        /\ published' \in [ConfigNamespaces -> SUBSET Configs]
  <2>1. CASE StoreConfigMap(ConfigNamespace, NoKey)
    BY <1>2, <2>1, StoreType
  <2>2. CASE UNCHANGED configMapVars
    BY <2>2 DEF TypeOK
  <2> QED
    BY <2>1, <2>2
<1>5. CASE RemoveConfigKey
  <2> DEFINE y == [w EXCEPT !.pc = "removeWrite", !.stale = cmWatch[ConfigNamespace] # <<>>]
  <2>1. Fits(y)
    <3>1. y \in Workers /\ y.pc = "removeWrite" /\ y.req = w.req /\ y.del = w.del
      BY <1>1 DEF Workers, Steps
    <3> HIDE DEF y
    <3> QED
      BY <1>1, <3>1 DEF Fits, Holding
  <2>2. Fits(w') /\ queue' \in [Pools -> Results]
    <3> HIDE DEF y
    <3>1. Return("none") \/ (w' = y /\ queue' = queue)
      BY <1>5 DEF RemoveConfigKey, y
    <3>2. queue \in [Pools -> Results]
      BY DEF TypeOK
    <3> QED
      BY <1>3, <2>1, <3>1, <3>2
  <2> QED
    BY <1>5, <2>2 DEF RemoveConfigKey, TypeOK, Fits
<1>6. CASE ConfigKeyRemoved
  BY <1>3, <1>4, <1>6 DEF ConfigKeyRemoved, TypeOK, Fits
<1>7. CASE ConfigKeyNotRemoved
  <2>1. faults' \in 0 .. MaxFaults
    BY <1>7, ControllerAssumption DEF ConfigKeyNotRemoved, CallFails, TypeOK
  <2>2. StoreConfigMap(ConfigNamespace, NoKey) \/ UNCHANGED configMapVars
    BY <1>7 DEF ConfigKeyNotRemoved
  <2> QED
    BY <1>3, <1>4, <1>7, <2>1, <2>2 DEF ConfigKeyNotRemoved, TypeOK, Fits
<1> QED
  BY <1>5, <1>6, <1>7

(* The two patches write pool objects: the annotation, the status. *)
LEMMA PatchedObjects ==
    ASSUME TypeInv, w.pc \in {"stamp", "status"}, api[w.target] # None
    PROVE  /\ w.target \in Pools
           /\ api[w.target] \in PoolObjects
           /\ w.pc = "stamp" =>
                /\ [api[w.target] EXCEPT !.irv = w.obj.rv] \in PoolObjects
                /\ [api[w.target] EXCEPT !.irv = w.obj.rv].irv # 0
           /\ w.pc = "status" =>
                /\ Desired \in Statuses
                /\ [api[w.target] EXCEPT !.status = Desired] \in PoolObjects
<1>1. w.target \in Pools /\ w.obj \in PoolObjects /\ api[w.target] \in PoolObjects
  BY DEF TypeInv, Fits, Holding, TypeOK
<1>2. w.obj.rv \in Nat \ {0} /\ w.obj.gen \in Nat
  BY <1>1 DEF PoolObjects
<1>3. ASSUME NEW o \in PoolObjects
      PROVE  /\ [o EXCEPT !.irv = w.obj.rv] \in PoolObjects
             /\ [o EXCEPT !.irv = w.obj.rv].irv # 0
  BY <1>2 DEF PoolObjects
<1>4. ASSUME w.pc = "status"
      PROVE  Desired \in Statuses
  <2>1. w.verdict \in Verdicts
    BY <1>4 DEF TypeInv, Fits
  <2> QED
    BY <1>2, <2>1 DEF Desired, Statuses, Verdicts
<1>5. ASSUME NEW o \in PoolObjects, NEW t \in Statuses
      PROVE  [o EXCEPT !.status = t] \in PoolObjects
  BY DEF PoolObjects
<1> QED
  BY <1>1, <1>3, <1>4, <1>5

(* The patches of pools keep the types. *)
LEMMA PatchType ==
    ASSUME TypeInv, ensureInitialRVAnnotation \/ setReadyCondition \/ PatchFails
    PROVE  TypeInv'
<1> USE DEF TypeInv, environmentVars, userVars, seenVars, breakerVars, configMapVars
<1>1. /\ w \in Workers /\ w.pc \in {"stamp", "status"} /\ w.req \in Pools
      /\ w.target \in Pools /\ w.obj \in PoolObjects
      /\ w.pc = "stamp" => ~ w.del /\ w.target = w.req
  BY DEF ensureInitialRVAnnotation, setReadyCondition, PatchFails, TypeOK, Fits, Holding
<1>2. ASSUME NEW how \in Results, Return(how)
      PROVE  Fits(w') /\ queue' \in [Pools -> Results]
  BY <1>1, <1>2, ReturnType
<1>3. w.result \in Results
  BY <1>1 DEF Workers, Results
<1> DEFINE Stored == /\ api' \in [Pools -> PoolObjects \cup {None}]
                     /\ revision' \in Nat
                     /\ poolWatch' \in Seq(PoolEvents)
<1>4. UNCHANGED apiVars => Stored
  BY DEF apiVars, TypeOK
<1>5. w.pc = "stamp" /\ api[w.target] # None
        /\ ApiWrite(w.target, [api[w.target] EXCEPT !.irv = w.obj.rv]) => Stored
  BY <1>1, PatchedObjects, ApiWriteType
<1>6. w.pc = "status" /\ api[w.target] # None /\ PatchStatus => Stored
  <2> SUFFICES ASSUME w.pc = "status", api[w.target] # None, PatchStatus PROVE Stored
    OBVIOUS
  <2>1. CASE Desired = w.obj.status
    <3>1. ApiWrite(w.target, api[w.target])
      BY <2>1 DEF PatchStatus
    <3> QED
      BY <1>1, <3>1, PatchedObjects, ApiWriteType
  <2>2. CASE Desired # w.obj.status
    <3>1. ApiWrite(w.target, [api[w.target] EXCEPT !.status = Desired])
      BY <2>2 DEF PatchStatus
    <3> QED
      BY <1>1, <3>1, PatchedObjects, ApiWriteType
  <2> QED
    BY <2>1, <2>2
<1>7. CASE ensureInitialRVAnnotation
  <2>1. CASE api[w.target] # None
    <3> DEFINE o == [api[w.target] EXCEPT !.irv = w.obj.rv]
               x == [w EXCEPT !.obj = api'[w.target]]
    <3>1. /\ w.pc = "stamp" /\ ApiWrite(w.target, o) /\ w' = Validated(x) /\ queue' = queue
      BY <1>7, <2>1 DEF ensureInitialRVAnnotation
    <3>2. o \in PoolObjects /\ o.irv # 0
      BY <2>1, <3>1, PatchedObjects
    <3>3. api'[w.target] = o
      <4> HIDE DEF o
      <4> QED
        BY <1>1, <3>1, <3>2 DEF ApiWrite, TypeOK
    <3>4. /\ x \in Workers /\ x.req = w.req /\ x.target = w.target /\ ~ x.del
          /\ x.obj \in PoolObjects /\ x.obj.irv # 0
      <4> HIDE DEF o
      <4> QED
        BY <1>1, <3>1, <3>2, <3>3 DEF Workers
    <3> HIDE DEF x
    <3>5. Fits(Validated(x))
      BY <1>1, <3>1, <3>4, ValidatedFits
    <3>6. Stored
      BY <1>5, <2>1, <3>1
    <3> QED
      BY <1>7, <3>1, <3>5, <3>6 DEF ensureInitialRVAnnotation, TypeOK, Fits
  <2>2. CASE api[w.target] = None
    <3>1. Fits(w') /\ queue' \in [Pools -> Results]
      BY <1>2, <1>7, <2>2 DEF ensureInitialRVAnnotation, ReturnError, Results
    <3>2. Stored
      BY <1>4, <1>7, <2>2 DEF ensureInitialRVAnnotation
    <3> QED
      BY <1>7, <3>1, <3>2 DEF ensureInitialRVAnnotation, TypeOK, Fits
  <2> QED
    BY <2>1, <2>2
<1>8. CASE setReadyCondition
  <2>1. Fits(w') /\ queue' \in [Pools -> Results]
    BY <1>2, <1>3, <1>8 DEF setReadyCondition, ReturnError, Results
  <2>2. Stored
    BY <1>4, <1>6, <1>8 DEF setReadyCondition
  <2> QED
    BY <1>8, <2>1, <2>2 DEF setReadyCondition, TypeOK, Fits
<1>9. CASE PatchFails
  <2>1. Fits(w') /\ queue' \in [Pools -> Results]
    BY <1>2, <1>9 DEF PatchFails, ReturnError, Results
  <2>2. Stored
    BY <1>4, <1>5, <1>6, <1>9 DEF PatchFails
  <2>3. faults' \in 0 .. MaxFaults
    BY <1>9, ControllerAssumption DEF PatchFails, TypeOK
  <2> QED
    BY <1>9, <2>1, <2>2, <2>3 DEF PatchFails, TypeOK, Fits
<1> QED
  BY <1>7, <1>8, <1>9

(* Every step keeps the types. *)
LEMMA NextType == ASSUME TypeInv, [Next]_vars PROVE TypeInv'
<1>1. CASE UNCHANGED vars
  BY <1>1 DEF vars, TypeInv, TypeOK, userVars, seenVars, breakerVars, configMapVars, apiVars
<1>2. CASE Worker
  BY <1>2, SelectType, BuildType, WriteType, RemoveType, PatchType DEF Worker
<1> QED
  BY <1>1, <1>2, UsersType, SystemType, StartType DEF Next

(****************************************************************************)
(* Every state of the controller has its type: in particular the breaker's  *)
(* failure count stays below the threshold, and at each step of Reconcile   *)
(* the worker has read what the step uses.                                  *)
(****************************************************************************)
THEOREM TypeCorrect == Spec => [](TypeOK /\ Fits(w))
<1>1. Init => TypeInv
  BY InitType
<1>2. TypeInv /\ [Next]_vars => TypeInv'
  BY NextType
<1> QED
  BY <1>1, <1>2, PTL DEF Spec, TypeInv

(****************************************************************************)
(* Only configurations that build are published: whatever is stored in a    *)
(* ConfigMap is w.cfg at the step "write", and Fits says that it built.     *)
(****************************************************************************)
THEOREM OnlyRenderedPublished == Spec => []PublishedRenders
<1> USE DEF userVars, seenVars, breakerVars, configMapVars, apiVars, environmentVars
<1>1. Init => PublishedRenders
  BY DEF Init, PublishedRenders
<1>2. ASSUME TypeInv, PublishedRenders, [Next]_vars
      PROVE  PublishedRenders'
  <2>1. ASSUME UNCHANGED published
        PROVE  PublishedRenders'
    BY <1>2, <2>1 DEF PublishedRenders
  <2>2. ASSUME NEW v, StoreConfigMap(ConfigNamespace, v),
               w.pc # "idle", v = NoKey \/ BuildResult[v.spec] = "ok"
        PROVE  PublishedRenders'
    <3>1. ConfigNamespace \in ConfigNamespaces
      BY <1>2, <2>2, RequestFacts DEF TypeInv, Fits
    <3>2. \A c \in ConfigNamespaces : \A f \in published'[c] :
             f \in published[c] \/ (f = v /\ f # NoKey)
      BY <1>2, <2>2, <3>1 DEF StoreConfigMap, TypeInv, TypeOK
    <3> QED
      BY <1>2, <2>2, <3>2 DEF PublishedRenders
  <2>3. CASE ConfigMapWritten
    <3>1. BuildResult[w.cfg.spec] = "ok"
      BY <1>2, <2>3 DEF ConfigMapWritten, TypeInv, Fits
    <3> QED
      BY <2>2, <2>3, <3>1 DEF ConfigMapWritten
  <2>4. CASE ConfigMapNotWritten
    <3>1. BuildResult[w.cfg.spec] = "ok"
      BY <1>2, <2>4 DEF ConfigMapNotWritten, TypeInv, Fits
    <3> QED
      BY <2>1, <2>2, <2>4, <3>1 DEF ConfigMapNotWritten
  <2>5. CASE ConfigKeyRemoved
    BY <2>2, <2>5 DEF ConfigKeyRemoved
  <2>6. CASE ConfigKeyNotRemoved
    BY <2>1, <2>2, <2>6 DEF ConfigKeyNotRemoved
  <2>7. CASE Users
    BY <2>1, <2>7 DEF Users, CreatePool, EditPool, DeletePool, SetProfile
  <2>8. CASE Deliver \/ Timers \/ Restart \/ \E p \in Pools : Start(p) \/ GetFails(p)
    BY <2>1, <2>8 DEF Deliver, DeliverPool, DeliverProfile, DeliverConfigMap, Timers,
       DelayOver, CircuitWindowPasses, Restart, Start, ReconcilePool, ReconcileDeletion,
       GetFails
  <2>9. CASE \/ ensureInitialRVAnnotation \/ SelectActivePool \/ ListNone \/ ListRemaining
             \/ BuildConfig \/ UpsertConfigMap \/ RemoveConfigKey \/ setReadyCondition
             \/ PatchFails \/ ReadFails \/ UNCHANGED vars
    BY <2>1, <2>9 DEF ensureInitialRVAnnotation, SelectActivePool, ListNone, ListRemaining,
       BuildConfig, UpsertConfigMap, RemoveConfigKey, setReadyCondition, PatchFails,
       ReadFails, vars
  <2> QED
    BY <1>2, <2>3, <2>4, <2>5, <2>6, <2>7, <2>8, <2>9 DEF Next, Worker
<1>3. Spec => []TypeInv
  BY TypeCorrect DEF TypeInv
<1> QED
  BY <1>1, <1>2, <1>3, PTL DEF Spec

-----------------------------------------------------------------------------
(****************************************************************************)
(* An open circuit has no failures counted, so that the early return of     *)
(* recordConfigMapUpdateFailure for an open circuit is never taken, and a   *)
(* worker about to write found the circuit closed and it still is.          *)
(****************************************************************************)
BreakerInv ==
    /\ \A c \in ConfigNamespaces : circuitOpen[c] => failures[c] = 0
    /\ w.pc = "write" => ~ circuitOpen[ConfigNamespace]

-----------------------------------------------------------------------------
(* A step that leaves the breaker and the ConfigMaps alone, and does not    *)
(* bring the worker to the write of the ConfigMap, is none of the breaker.  *)
LEMMA QuietStep ==
    ASSUME TypeInv, BreakerInv, UNCHANGED <<failures, circuitOpen, configMap>>,
           w' = w \/ w'.pc # "write"
    PROVE  BreakerInv' /\ UNCHANGED <<Streak, configMap>>
BY DEF BreakerInv, Streak, ConfigNamespace

(* Where Reconcile goes after the validation of the pool: not to the write. *)
LEMMA NotToWrite ==
    ASSUME NEW x \in Workers, NEW v, NEW result
    PROVE  /\ SetStatus(x, v, result).pc # "write"
           /\ Validated(x).pc # "write"
           /\ Idle.pc # "write"
BY DEF SetStatus, Validated, Workers, Idle

(* Users and informers, the ends of delays, and the start of a reconcile. *)
LEMMA EnvironmentQuiet ==
    ASSUME TypeInv, BreakerInv,
           \/ Users \/ Deliver
           \/ \E p \in Pools : DelayOver(p) \/ Start(p) \/ GetFails(p)
           \/ UNCHANGED vars
    PROVE  BreakerInv' /\ UNCHANGED <<Streak, configMap>>
<1> USE DEF environmentVars, userVars, seenVars, breakerVars, configMapVars, apiVars
<1>1. CASE Users
  <2>1. UNCHANGED <<failures, circuitOpen, configMap, w>>
    BY <1>1 DEF Users, CreatePool, EditPool, DeletePool, SetProfile
  <2> QED
    BY <2>1, QuietStep
<1>2. CASE Deliver
  <2>1. UNCHANGED <<failures, circuitOpen, configMap, w>>
    BY <1>2 DEF Deliver, DeliverPool, DeliverProfile, DeliverConfigMap
  <2> QED
    BY <2>1, QuietStep
<1>3. ASSUME NEW p \in Pools, DelayOver(p) \/ GetFails(p)
      PROVE  BreakerInv' /\ UNCHANGED <<Streak, configMap>>
  <2>1. UNCHANGED <<failures, circuitOpen, configMap, w>>
    BY <1>3 DEF DelayOver, GetFails
  <2> QED
    BY <2>1, QuietStep
<1>4. ASSUME NEW p \in Pools, ReconcilePool(p)
      PROVE  BreakerInv' /\ UNCHANGED <<Streak, configMap>>
  <2> DEFINE x == [Idle EXCEPT !.req = p, !.target = p, !.obj = cache[p]]
  <2>1. x \in Workers
    <3>1. cache[p] \in PoolObjects
      BY <1>4 DEF ReconcilePool, TypeInv, TypeOK
    <3> QED
      BY <3>1 DEF Idle, Workers, Steps
  <2>2. w' = Validated(x) \/ w' = [x EXCEPT !.pc = "stamp"]
    BY <1>4 DEF ReconcilePool
  <2> HIDE DEF x
  <2>3. w'.pc # "write"
    BY <2>1, <2>2, NotToWrite DEF Workers
  <2>4. UNCHANGED <<failures, circuitOpen, configMap>>
    BY <1>4 DEF ReconcilePool
  <2> QED
    BY <2>3, <2>4, QuietStep
<1>5. ASSUME NEW p \in Pools, ReconcileDeletion(p)
      PROVE  BreakerInv' /\ UNCHANGED <<Streak, configMap>>
  <2>1. UNCHANGED <<failures, circuitOpen, configMap>> /\ w'.pc # "write"
    BY <1>5 DEF ReconcileDeletion, Idle
  <2> QED
    BY <2>1, QuietStep
<1>6. CASE UNCHANGED vars
  <2>1. UNCHANGED <<failures, circuitOpen, configMap, w>>
    BY <1>6 DEF vars
  <2> QED
    BY <2>1, QuietStep
<1> QED
  BY <1>1, <1>2, <1>3, <1>4, <1>5, <1>6 DEF Start

(* The steps of a reconcile that neither write the ConfigMap nor the counts. *)
LEMMA WorkerQuiet ==
    ASSUME TypeInv, BreakerInv,
           \/ ensureInitialRVAnnotation \/ SelectActivePool \/ ListNone \/ ListRemaining
           \/ BuildConfig \/ RemoveConfigKey \/ setReadyCondition \/ PatchFails \/ ReadFails
    PROVE  BreakerInv' /\ UNCHANGED <<Streak, configMap>>
<1> USE DEF environmentVars, userVars, seenVars, breakerVars, configMapVars, apiVars
<1>1. w \in Workers
  BY DEF TypeInv, TypeOK
<1>2. UNCHANGED <<failures, circuitOpen, configMap>>
  BY DEF ensureInitialRVAnnotation, SelectActivePool, ListNone, ListRemaining, BuildConfig,
         RemoveConfigKey, setReadyCondition, PatchFails, ReadFails
<1>3. ASSUME NEW how, Return(how)
      PROVE  w'.pc # "write"
  BY <1>1, <1>3, NotToWrite DEF Return
<1>4. ASSUME NEW v, NEW result, w' = SetStatus(w, v, result)
      PROVE  w'.pc # "write"
  BY <1>1, <1>4, NotToWrite
<1>5. CASE ensureInitialRVAnnotation
  <2>1. CASE api[w.target] # None
    <3> DEFINE o == [api[w.target] EXCEPT !.irv = w.obj.rv]
               x == [w EXCEPT !.obj = api'[w.target]]
    <3>1. w.pc = "stamp" /\ ApiWrite(w.target, o) /\ w' = Validated(x)
      BY <1>5, <2>1 DEF ensureInitialRVAnnotation
    <3>2. w.target \in Pools /\ o \in PoolObjects
      BY <2>1, <3>1, PatchedObjects
    <3>3. api'[w.target] \in PoolObjects \cup {None}
      BY <3>1, <3>2, ApiWriteType DEF TypeInv
    <3>4. x \in Workers
      BY <1>1, <3>3 DEF Workers
    <3> QED
      BY <1>2, <3>1, <3>4, NotToWrite, QuietStep
  <2>2. CASE api[w.target] = None
    BY <1>2, <1>3, <1>5, <2>2, QuietStep DEF ensureInitialRVAnnotation, ReturnError
  <2> QED
    BY <2>1, <2>2
<1>6. CASE SelectActivePool \/ ListNone \/ ListRemaining
  <2>1. ASSUME NEW y, w' = [w EXCEPT !.pc = "build", !.target = y, !.obj = cache[y]]
        PROVE  w'.pc # "write"
    BY <1>1, <2>1 DEF Workers
  <2>2. w' = [w EXCEPT !.pc = "build"] \/ w' = [w EXCEPT !.pc = "remove"] => w'.pc # "write"
    BY <1>1 DEF Workers
  <2>3. w'.pc # "write"
    BY <1>4, <1>6, <2>1, <2>2 DEF SelectActivePool, ListNone, ListRemaining
  <2> QED
    BY <1>2, <2>3, QuietStep
<1>7. CASE BuildConfig
  <2>1. ASSUME NEW cfg, w' = [w EXCEPT !.pc = "upsert", !.cfg = cfg]
        PROVE  w'.pc # "write"
    BY <1>1, <2>1 DEF Workers
  <2>2. w'.pc # "write"
    BY <1>3, <1>4, <1>7, <2>1 DEF BuildConfig, ReturnError
  <2> QED
    BY <1>2, <2>2, QuietStep
<1>8. CASE RemoveConfigKey
  <2>1. ASSUME NEW t, w' = [w EXCEPT !.pc = "removeWrite", !.stale = t]
        PROVE  w'.pc # "write"
    BY <1>1, <2>1 DEF Workers
  <2>2. w'.pc # "write"
    BY <1>3, <1>8, <2>1 DEF RemoveConfigKey
  <2> QED
    BY <1>2, <2>2, QuietStep
<1>9. CASE setReadyCondition \/ PatchFails \/ ReadFails
  <2>1. w'.pc # "write"
    BY <1>3, <1>4, <1>9 DEF setReadyCondition, PatchFails, ReadFails, ReturnError
  <2> QED
    BY <1>2, <2>1, QuietStep
<1> QED
  BY <1>5, <1>6, <1>7, <1>8, <1>9

-----------------------------------------------------------------------------
(* One step of the abstract breaker, or none. *)
BreakerStep == Breaker!Next \/ UNCHANGED <<Streak, configMap>>

(* The streak has its type. *)
LEMMA StreakFacts ==
    ASSUME TypeInv
    PROVE  /\ Streak \in [ConfigNamespaces -> 0 .. 3]
           /\ \A c \in ConfigNamespaces : circuitOpen[c] => Streak[c] = 3
           /\ \A c \in ConfigNamespaces : ~ circuitOpen[c] => Streak[c] = failures[c]
           /\ \A c \in ConfigNamespaces : failures[c] \in 0 .. 2
BY DEF Streak, TypeInv, TypeOK, configMapUpdateFailureThreshold

(* A success starts the streak anew. *)
LEMMA StreakReset ==
    ASSUME TypeInv, BreakerInv, NEW c \in ConfigNamespaces, ~ circuitOpen[c],
           resetConfigMapUpdateFailures(c), circuitOpen' = circuitOpen
    PROVE  /\ Streak' = [Streak EXCEPT ![c] = 0]
           /\ \A d \in ConfigNamespaces : circuitOpen'[d] => failures'[d] = 0
BY DEF Streak, resetConfigMapUpdateFailures, BreakerInv, TypeInv, TypeOK

(* A failure makes the streak longer by one, also when it opens the circuit. *)
LEMMA StreakGrows ==
    ASSUME TypeInv, BreakerInv, NEW c \in ConfigNamespaces, ~ circuitOpen[c],
           recordConfigMapUpdateFailure(c)
    PROVE  /\ Streak' = [Streak EXCEPT ![c] = @ + 1]
           /\ \A d \in ConfigNamespaces : circuitOpen'[d] => failures'[d] = 0
<1> DEFINE next == failures[c] + 1
<1>1. /\ failures \in [ConfigNamespaces -> 0 .. 2]
      /\ circuitOpen \in [ConfigNamespaces -> BOOLEAN]
  BY DEF TypeInv, TypeOK, configMapUpdateFailureThreshold
<1>2. Streak = [d \in ConfigNamespaces |-> IF circuitOpen[d] THEN 3 ELSE failures[d]]
  BY DEF Streak, configMapUpdateFailureThreshold
<1>3. Streak' = [d \in ConfigNamespaces |-> IF circuitOpen'[d] THEN 3 ELSE failures'[d]]
  BY DEF Streak, configMapUpdateFailureThreshold
<1>4. \A d \in ConfigNamespaces : circuitOpen[d] => failures[d] = 0
  BY DEF BreakerInv
<1>5. CASE next >= 3
  <2>1. /\ circuitOpen' = [circuitOpen EXCEPT ![c] = TRUE]
        /\ failures' = [failures EXCEPT ![c] = 0]
    BY <1>5 DEF recordConfigMapUpdateFailure, configMapUpdateFailureThreshold
  <2>2. failures[c] + 1 = 3
    BY <1>1, <1>5
  <2> QED
    BY <1>1, <1>2, <1>3, <1>4, <2>1, <2>2
<1>6. CASE ~ (next >= 3)
  <2>1. circuitOpen' = circuitOpen /\ failures' = [failures EXCEPT ![c] = failures[c] + 1]
    BY <1>6 DEF recordConfigMapUpdateFailure, configMapUpdateFailureThreshold
  <2> QED
    BY <1>1, <1>2, <1>3, <1>4, <2>1
<1> QED
  BY <1>5, <1>6

(* The worker at the steps around the ConfigMap. *)
LEMMA AtConfigMap ==
    ASSUME TypeInv, w.pc \in {"upsert", "write", "removeWrite"}
    PROVE  /\ w \in Workers
           /\ ConfigNamespace \in ConfigNamespaces
           /\ w.pc # "removeWrite" => w.cfg \in Configs
BY RequestFacts DEF TypeInv, TypeOK, Fits

(* upsertConfigMapWithCircuitBreaker before its call: the circuit is asked. *)
LEMMA UpsertBreaker ==
    ASSUME TypeInv, BreakerInv, UpsertConfigMap
    PROVE  BreakerInv' /\ BreakerStep
<1> DEFINE c == ConfigNamespace
<1>1. w.pc = "upsert" /\ w \in Workers /\ c \in ConfigNamespaces
  BY AtConfigMap DEF UpsertConfigMap
<1>2. UNCHANGED <<circuitOpen, configMap>>
  BY DEF UpsertConfigMap, configMapVars
<1>3. CASE circuitOpen[c]
  <2>1. failures' = failures /\ w'.pc # "write"
    BY <1>1, <1>3, NotToWrite DEF UpsertConfigMap
  <2> QED
    BY <1>2, <2>1, QuietStep DEF BreakerStep
<1>4. CASE ~ circuitOpen[c] /\ UpToDate(c)
  <2>1. resetConfigMapUpdateFailures(c) /\ w'.pc # "write"
    BY <1>1, <1>4, NotToWrite DEF UpsertConfigMap
  <2>2. /\ Streak' = [Streak EXCEPT ![c] = 0]
        /\ \A d \in ConfigNamespaces : circuitOpen'[d] => failures'[d] = 0
    BY <1>1, <1>2, <1>4, <2>1, StreakReset
  <2>3. Streak[c] < 3
    BY <1>1, <1>4, StreakFacts
  <2>4. Breaker!Succeed(c)
    BY <1>2, <2>2, <2>3 DEF Breaker!Succeed, Breaker!Try, configMapUpdateFailureThreshold
  <2> QED
    BY <1>1, <2>1, <2>2, <2>4 DEF BreakerInv, BreakerStep, Breaker!Next
<1>5. CASE ~ circuitOpen[c] /\ ~ UpToDate(c)
  <2>1. /\ failures' = failures
        /\ w' = [w EXCEPT !.pc = "write", !.stale = cmWatch[c] # <<>>]
    BY <1>5 DEF UpsertConfigMap
  <2>2. w'.req = w.req
    BY <1>1, <2>1 DEF Workers
  <2>3. BreakerInv'
    BY <1>2, <1>5, <2>1, <2>2 DEF BreakerInv, ConfigNamespace
  <2>4. UNCHANGED <<Streak, configMap>>
    BY <1>2, <2>1 DEF Streak
  <2> QED
    BY <2>3, <2>4 DEF BreakerStep
<1> QED
  BY <1>3, <1>4, <1>5

(* The create or update succeeds: the circuit is still closed. *)
LEMMA WrittenBreaker ==
    ASSUME TypeInv, BreakerInv, ConfigMapWritten
    PROVE  BreakerInv' /\ BreakerStep
<1> DEFINE c == ConfigNamespace
<1>1. /\ w.pc = "write" /\ w \in Workers /\ c \in ConfigNamespaces /\ w.cfg \in Configs
      /\ ~ circuitOpen[c]
  BY AtConfigMap DEF ConfigMapWritten, BreakerInv
<1>2. /\ resetConfigMapUpdateFailures(c) /\ circuitOpen' = circuitOpen
      /\ configMap' = [configMap EXCEPT ![c] = w.cfg]
      /\ w' = SetStatus(w, Ready, "none")
  BY DEF ConfigMapWritten, StoreConfigMap
<1>3. /\ Streak' = [Streak EXCEPT ![c] = 0]
      /\ \A d \in ConfigNamespaces : circuitOpen'[d] => failures'[d] = 0
  BY <1>1, <1>2, StreakReset
<1>4. w'.pc # "write"
  BY <1>1, <1>2, NotToWrite
<1>5. Streak[c] < 3
  BY <1>1, StreakFacts
<1>6. Breaker!Succeed(c)
  BY <1>1, <1>2, <1>3, <1>5 DEF Breaker!Succeed, Breaker!Try, configMapUpdateFailureThreshold
<1> QED
  BY <1>1, <1>3, <1>4, <1>6 DEF BreakerInv, BreakerStep, Breaker!Next

(* CreateOrUpdate fails, what it sent stored or not: one more failure. *)
LEMMA NotWrittenBreaker ==
    ASSUME TypeInv, BreakerInv, ConfigMapNotWritten
    PROVE  BreakerInv' /\ BreakerStep
<1> DEFINE c == ConfigNamespace
<1>1. /\ w.pc \in {"upsert", "write"} /\ w \in Workers /\ c \in ConfigNamespaces /\ w.cfg \in Configs
      /\ ~ circuitOpen[c]
  BY AtConfigMap DEF ConfigMapNotWritten, BreakerInv
<1>2. configMap' = configMap \/ configMap' = [configMap EXCEPT ![c] = w.cfg]
  BY DEF ConfigMapNotWritten, StoreConfigMap, configMapVars
<1>3. /\ Streak' = [Streak EXCEPT ![c] = @ + 1]
      /\ \A d \in ConfigNamespaces : circuitOpen'[d] => failures'[d] = 0
  BY <1>1, StreakGrows DEF ConfigMapNotWritten
<1>4. w'.pc # "write"
  <2>1. \/ w' = Idle
        \/ w' = SetStatus(w, NotReady("ConfigMapUpdateFailed", None), "backoff")
    BY DEF ConfigMapNotWritten, ReturnError, Return
  <2> QED
    BY <1>1, <2>1, NotToWrite
<1>5. Streak[c] < 3
  BY <1>1, StreakFacts
<1>6. Breaker!Fail(c)
  BY <1>1, <1>2, <1>3, <1>5 DEF Breaker!Fail, Breaker!Try, configMapUpdateFailureThreshold
<1> QED
  BY <1>1, <1>3, <1>4, <1>6 DEF BreakerInv, BreakerStep, Breaker!Next

(* removeConfigKey, the end of the window, and a restart. *)
LEMMA OtherBreaker ==
    ASSUME TypeInv, BreakerInv,
           \/ ConfigKeyRemoved \/ ConfigKeyNotRemoved \/ Restart
           \/ \E c \in ConfigNamespaces : CircuitWindowPasses(c)
    PROVE  BreakerInv' /\ BreakerStep
<1>1. CASE ConfigKeyRemoved \/ ConfigKeyNotRemoved
  <2>1. ConfigNamespace \in ConfigNamespaces
    BY <1>1, AtConfigMap DEF ConfigKeyRemoved, ConfigKeyNotRemoved
  <2>2. /\ UNCHANGED <<failures, circuitOpen>> /\ w' = Idle
        /\ \/ configMap' = configMap
           \/ configMap' = [configMap EXCEPT ![ConfigNamespace] = NoKey]
    BY <1>1 DEF ConfigKeyRemoved, ConfigKeyNotRemoved, StoreConfigMap, Return, ReturnError,
                breakerVars, configMapVars
  <2>3. BreakerInv' /\ Streak' = Streak
    BY <2>2 DEF BreakerInv, Streak, Idle
  <2> QED
    BY <2>1, <2>2, <2>3 DEF BreakerStep, Breaker!Next, Breaker!RemoveKey
<1>2. CASE Restart
  <2>1. /\ failures' = [c \in ConfigNamespaces |-> 0]
        /\ circuitOpen' = [c \in ConfigNamespaces |-> FALSE]
        /\ configMap' = configMap /\ w' = Idle
    BY <1>2 DEF Restart
  <2>2. BreakerInv'
    BY <2>1 DEF BreakerInv, Idle
  <2>3. Streak' = [c \in ConfigNamespaces |-> 0]
    BY <2>1 DEF Streak
  <2> QED
    BY <2>1, <2>2, <2>3 DEF BreakerStep, Breaker!Next, Breaker!Restart
<1>3. ASSUME NEW c \in ConfigNamespaces, CircuitWindowPasses(c)
      PROVE  BreakerInv' /\ BreakerStep
  <2>1. /\ circuitOpen[c] /\ circuitOpen' = [circuitOpen EXCEPT ![c] = FALSE]
        /\ UNCHANGED <<failures, configMap, w>>
    BY <1>3 DEF CircuitWindowPasses, configMapVars
  <2>2. circuitOpen \in [ConfigNamespaces -> BOOLEAN] /\ failures[c] = 0
    BY <2>1 DEF TypeInv, TypeOK, BreakerInv
  <2>3. \A d \in ConfigNamespaces : circuitOpen'[d] => circuitOpen[d]
    BY <2>1, <2>2
  <2>4. BreakerInv'
    <3>1. w.pc = "write" => ConfigNamespace \in ConfigNamespaces
      BY AtConfigMap
    <3> QED
      BY <2>1, <2>3, <3>1 DEF BreakerInv, ConfigNamespace
  <2>5. Streak' = [Streak EXCEPT ![c] = 0]
    BY <2>1, <2>2 DEF Streak
  <2>6. Streak[c] = 3
    BY <2>1, StreakFacts
  <2> QED
    BY <2>1, <2>4, <2>5, <2>6 DEF BreakerStep, Breaker!Next, Breaker!WindowPasses,
       configMapUpdateFailureThreshold
<1> QED
  BY <1>1, <1>2, <1>3

(* Every step is one of the breaker's, or none. *)
LEMMA NextBreaker ==
    ASSUME TypeInv, BreakerInv, [Next]_vars
    PROVE  BreakerInv' /\ BreakerStep
<1>1. CASE \/ Users \/ Deliver
           \/ \E p \in Pools : DelayOver(p) \/ Start(p) \/ GetFails(p)
           \/ UNCHANGED vars
  BY <1>1, EnvironmentQuiet DEF BreakerStep
<1>2. CASE \/ ensureInitialRVAnnotation \/ SelectActivePool \/ ListNone \/ ListRemaining
           \/ BuildConfig \/ RemoveConfigKey \/ setReadyCondition \/ PatchFails \/ ReadFails
  BY <1>2, WorkerQuiet DEF BreakerStep
<1>3. CASE \/ ConfigKeyRemoved \/ ConfigKeyNotRemoved \/ Restart
           \/ \E c \in ConfigNamespaces : CircuitWindowPasses(c)
  BY <1>3, OtherBreaker
<1> QED
  BY <1>1, <1>2, <1>3, UpsertBreaker, WrittenBreaker, NotWrittenBreaker
     DEF Next, Timers, Worker

(****************************************************************************)
(* The controller implements the circuit breaker: after three failed writes *)
(* in a row no configuration reaches the ConfigMap of the namespace before  *)
(* the window has passed or the operator has restarted.  The write of a     *)
(* reconcile that found the circuit closed is covered by BreakerInv.        *)
(****************************************************************************)
THEOREM BreakerImplemented == Spec => ImplementsBreaker
<1>1. Init => BreakerInv /\ Breaker!Init
  BY DEF Init, BreakerInv, Breaker!Init, Streak, Idle
<1>2. TypeInv /\ BreakerInv /\ [Next]_vars => BreakerInv' /\ BreakerStep
  BY NextBreaker
<1>3. BreakerStep => [Breaker!Next]_<<Streak, configMap>>
  BY DEF BreakerStep
<1>4. Spec => []TypeInv
  BY TypeCorrect DEF TypeInv
<1> QED
  BY <1>1, <1>2, <1>3, <1>4, PTL DEF Spec, ImplementsBreaker, Breaker!Spec
=============================================================================
