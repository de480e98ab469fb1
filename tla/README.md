# A verification of the AstraDNS operator

TLA+ models of the control plane in this repository, checked with TLC on small
instances, and theorems about them checked with TLAPS for every instance.
`PROJECT.json` lists the runs, the source lines behind each definition, the
faulty variant that each property is known to catch, the hazards and the
findings. File names without a directory are in `controllers/`.

## The system

The operator is one process (`cmd/main.go`) that runs three controllers and,
optionally, an admission webhook, on one set of informer caches.

| Component | State it keeps | Operations | Interacts through |
|---|---|---|---|
| DNSUpstreamPool controller (`dnsupstreampool_controller.go`) | breaker counts and deadlines per namespace, the active-pool metric; durable: the pools' stamp annotation and Ready condition, the agent ConfigMap | Reconcile, reconcileAfterPoolDeletion, mapCacheProfileToPools | watches pools and profiles; reads pools, profiles and ConfigMaps from caches; writes pools and the ConfigMap |
| Pool selection (`sortPoolsForSelection`) | none | order pools by time, stamp, name | called by both paths of Reconcile |
| Uniqueness webhook (`dnsupstreampool_webhook.go`) | none | Handle | lists pools from the same cache |
| DNSCacheProfile controller (`dnscacheprofile_controller.go`) | the profiles' Active condition | validate, set the condition | its status writes are profile events for the other controllers; the pool controller generates from the profile whatever the condition says |
| ExternalDNSPolicy controller (`externaldnspolicy_controller.go`) | finalizers, annotations on namespaces, the Validated condition and the count of namespaces | validate references, enforce, clear | watches policies, pools, profiles, namespaces; writes policies and namespaces |
| Engine configuration (`pkg/engineconfig`) | none | Generate, Render for unbound, coredns, powerdns | called by the pool controller, after its own validateDNSUpstreamPool |
| CoreDNS patch job, Helm chart, CRDs | the Corefile and its backup | a shell script at install and upgrade | |
| The agent (not in this repository) | | reads the ConfigMap | |

What is hard in it:

- Every read is of a cache that lags, and every write goes to the API server.
  Patches carry no resource version, so they land on whatever has the name.
- Keys coalesce in the queue; a deletion and a re-creation are one entry.
- Reconcile makes up to three API calls. Any of them can fail, conflict, or
  succeed and lose its answer, and the process can stop between them.
- Two paths publish (Reconcile, and the reconcile of a deleted pool), with
  different checks, different error handling and different requeueing.
- The order that selects the active pool mixes three rules.
- The controllers' own patches wake them up again; a policy's annotation also
  wakes every other policy that selects the namespace.
- A merge patch is the difference to a copy: of a stale copy it can be empty, or
  mix what two writers meant.
- The same defaults are written down five times (validation, generator and three
  renderers) and must agree.

What makes each part correct:

- Pool controller: no pool is forgotten; only configurations that render are
  published; Ready means valid and published; one pool per namespace is active, and it is
  the oldest; the metric and the ConfigMap follow the last deletion; it comes to
  rest.
- Selection: a function of the pools, and the oldest.
- Webhook: at most one pool per namespace.
- Breaker: after three failed writes in a row, none until the window has passed.
- Policies: Validated means enforced, so that a namespace has one owner; a policy
  that nothing stands against gets there; a deleted policy goes and leaves no
  annotation; the controller comes to rest.
- Profiles: Active says what the generator makes of the profile.
- Engine configuration: whatever validation accepts generates, without two
  upstreams that are one server, and in order; what a renderer checks is what is
  published (Render's text is dropped, only `config.json` is written).

## The modules

| Module | What it is |
|---|---|
| `PoolSelection` | the comparator `Before`, the orders the sort can leave, the pools it can put first |
| `PoolSort` | sort.Slice (an insertion sort below 13 items) on that comparator, one swap per step |
| `UpstreamPoolController` | the pool controller with the API server, the informers, the work queue, the users and the webhook around it; EXTENDS `PoolSelection` |
| `CircuitBreaker` | what the breaker around the ConfigMaps promises: the abstract specification that the pool controller implements |
| `ExternalDNSPolicyController` | the policy controller with the API server, namespaces, pools and profiles around it |
| `EngineConfig` | validateDNSUpstreamPool and Generate as operators; composes the renderers |
| `UnboundRenderer`, `CoreDNSRenderer`, `PowerDNSRenderer` | the defaults of each renderer and what it can serve |
| `CacheProfileController` | the profile controller beside a pool; EXTENDS `EngineConfig` |
| `MCPoolSort`, `MCUpstreamPool`, `MCExternalDNSPolicy`, `MCEngineConfig` | instances for TLC; `MCUpstreamPool` composes the pool controller with `EngineConfig` and the Unbound renderer, whose word on what is valid and what builds it assumes and TLC evaluates |
| `UpstreamPoolControllerProofs` | types, `PublishedRenders` and `ImplementsBreaker` |
| `UpstreamPoolWorkProofs` | `NoLostWork`, `SettledReadyWasPublished`, `SettledSolePoolReady`; EXTENDS the former |
| `UpstreamPoolSteadyProofs` | `SettledReadyIsValid`, and `SettledOldestIsActive`, `SettledMetricIsTrue`, `SettledNoPoolNoKey`, `SettledReadyIsServed` and `SettledSupersededByActive`, each under its hypotheses; EXTENDS the former |
| `PoolSortProofs` | the three properties of the sort |
| `EngineConfigProofs` | what Generate and the renderers make of a valid pool, as theorems about the operators |
| `CacheProfileProofs` | types, `SettledActiveIsTrue`, `ValidPoolGenerates` and `ValidPoolInOrder` of `CacheProfileController`, with those theorems |
| `PolicyProofs` | types and `NoLostWork` of the policy controller |
| `PolicyRestProofs` | `SettledValidatedIsEnforced`, `SettledFreePolicyValidated` and `ClearedBeforeGone`; EXTENDS the former |

### How UpstreamPoolController corresponds to the code

**State.** `api`, `profile` and `configMap` are what the API server stores.
A pool is its creation second, its resource version, its stamp (`irv`), its
generation, its spec and its Ready condition. `cache`, `profCache` and `cmCache`
are the informers' stores; `poolWatch`, `profWatch` and `cmWatch` the events on
their way, in order. `queue` holds at most one entry per key: due (`ready`),
waiting for the rate limiter (`backoff`) or for RequeueAfter (`after`).
`failures`, `circuitOpen` and `metric` are the reconciler's maps. `w` is the one
worker (MaxConcurrentReconciles is 1): where it is in Reconcile and the local
variables that it carries on: the request, whether it handles a deletion, the
pool at hand and its copy, the configuration, the verdict for
setReadyCondition and the result to return.

**Steps.** A step ends where Reconcile reads a cache or calls the API server,
so whatever else happens can happen there:

| Step | Code |
|---|---|
| `ReconcilePool`, `ReconcileDeletion`, `GetFails` | the first Get |
| `ensureInitialRVAnnotation`, then `Validated` | the stamp, validateDNSUpstreamPool |
| `SelectActivePool` | selectActivePoolName, the metric, Superseded |
| `ListNone`, `ListRemaining` | the List of reconcileAfterPoolDeletion |
| `BuildConfig`, `ReadFails` | profile, Generate, Render, MarshalIndent, size |
| `UpsertConfigMap`, `ConfigMapWritten`, `ConfigMapNotWritten` | breaker and CreateOrUpdate |
| `RemoveConfigKey`, `ConfigKeyRemoved`, `ConfigKeyNotRemoved` | removeConfigKey |
| `setReadyCondition`, `PatchFails` | the status patch |

A failed call is either refused or stored with its answer lost; CreateOrUpdate can
also fail in its Get, and the breaker counts that like a failed write. A ConfigMap
update made from a stale copy conflicts.

**Around it.** `CreatePool`, `EditPool`, `DeletePool` and `SetProfile` are the
users. `DeliverPool`, `DeliverProfile` and `DeliverConfigMap` are the informers;
updating the store and enqueueing are one step (in the code the handler follows
the store, which only adds reconciles that find nothing new). `DelayOver` and
`CircuitWindowPasses` are time. `Restart` stops the operator at any point and
starts it again with fresh caches and every pool enqueued; time during which it
is down is time in which it takes no step.

**Abstractions.** What validateDNSUpstreamPool accepts (`ValidSpecs`) and what
building yields (`BuildResult`) are functions of the spec, given as constants;
`MCUpstreamPool` says in an ASSUME that they are what `EngineConfig` says. The profile is not checked when a
configuration is built, so it does not enter.
A configuration is the pair of the spec and the profile it was built from:
Generate is a function of them. A Ready condition has its status, reason and
generation, and of the message the superseding pool; other wording, transition
times and events are left out. Resource versions are counted over writes to
pools that carry no stamp, the only ones that are read. Relists of a watch,
10-hour resyncs, two leaders at once and the profile controller's status writes
(a profile event with the same content) are left out: each only adds
deliveries, except two leaders, which the lease excludes.

The ConfigMap starts absent and only the worker writes it, as where the operator is
deployed from `config/`. The chart renders the same ConfigMap with `config.json: "{}"`
(`deploy/helm/astradns/templates/configmap.yaml`), and an upgrade can put that over
what was published; nothing watches the ConfigMap, so a Ready pool stays Ready until
something else has it reconciled. This second writer is not modelled, so
`SettledReadyIsServed`, `SettledReadyHasConfig` and `SettledNoPoolNoKey` say nothing
about it.

### The breaker

The code keeps a count and a deadline per namespace of the ConfigMap;
`CircuitBreaker` knows only the failures in a row. The refinement mapping `Streak`
is the count, or the threshold while the circuit is open. The abstract breaker
leaves open whether a write that failed was stored, because its answer can be
lost, and lets the key be removed at any time, because removeConfigKey does not
ask the breaker.

### How ExternalDNSPolicyController corresponds to the code

**State.** `api` holds the policies (which one of its name, generation, spec,
finalizer, whether it is being deleted, status), `nsApi` the annotations of the
namespaces, `refs` the pools and profiles that exist. Each has its cache and its
events on their way. A UID is the name of a policy and which one of that name it
is. `w` is the worker with its request, its copy of the policy, the copies of
namespaces it has listed or read, the selected namespaces still to be enforced,
the count and the verdict.

| Step | Code |
|---|---|
| `ReconcileNothing`, `ReconcilePolicy`, `GetFails` | the first Get, and which way it goes |
| `AddFinalizer`, `RemoveFinalizer` | the two patches of the finalizer |
| `GetUpstreamPool`, `GetCacheProfile`, `ReferenceUnreadable` | validateReferences |
| `ListNamespaces` | listManagedPolicyNamespaces, of enforcePolicy and of clearPolicyEnforcement |
| `RemoveAnnotations` | removeNamespacePolicyAnnotations, one namespace at a time |
| `GetNamespace`, `AnnotateNamespace` | the loop of enforcePolicy, in any order; updateNamespacePolicyAnnotations |
| `setValidatedCondition` | the status patch |
| `CallFails`, `NamespaceUnreadable` | a call refused, or stored with its answer lost; a failing read |

Patches are JSON merge patches (`MergePatch`), field by field, from the copy that
was read; `annotations: null` (line 499) takes everything. `DeliverNamespace` and
`DeliverRef` enqueue what mapNamespaceToPolicies, mapUpstreamPoolToPolicies and
mapCacheProfileToPolicies list from the cache.

**Abstractions.** A spec that is not well formed carries its first flaw, because
validateReferences stops there. A conflict names the namespace and the owner of
the copy. A namespace that is deleted is gone at once (while it terminates it can
still be annotated, which changes nothing that lasts). Pools and profiles exist or
do not: their other events only add reconciles. The status's observedGeneration is
that of the condition. `staleList` is a history variable: managed namespaces were
once listed while events of namespaces were on their way.

### How the profile controller and the engine configuration correspond

`CacheProfileController` has one profile, because profiles do not depend on each
other: Get and validation are one step, the status patch the next, with its lost
answers, re-creations and restarts. Beside it stands the spec of a pool, so that
what Generate makes of the two can be compared with what the controllers said.

`EngineConfig` has each function of `defaultgen.go` and validateDNSUpstreamPool as
an operator of the same name; `portOfTransport` is the validator's own
defaultUpstreamPortForTransport. sort.SliceStable is given by what it promises:
an upstream ends up at its `Rank`, the number of those that come before it, where
of two that neither precedes the other the earlier one in the spec comes first. Go's string functions, the address parsers and the
template library's validation are parameters; `MCEngineConfig` lists the strings
that occur with what Go makes of them. The pool
controller asks Render for its error and drops the text, so of a renderer the model
has what its answer depends on: the normalised configuration; the listen
address and port, constants of the code, are left out. The CRD schemas refuse or
fill in part of what these checks are about. The chart can be installed without
its CRDs, so the checks are taken by themselves.

## What the runs show

The pool runs have two pools (one where one is enough), in one namespace (in two for `pool_shared`). Two are
enough for superseding, promotion, re-creation and every interleaving of a
reconcile with another pool; what needs three, the comparator, has `PoolSort`
with three, the fewest for which it can fail to be transitive. The number of
user operations is what bounds a run: three or four reach create, edit, delete
and create again of both pools. `MaxLag` bounds the pool events on their way when
a reconcile starts, because two pools that patch each other's view could queue
up events without end. Deadlock is not checked: an operator at rest has nothing
to do, and the runs end when the users' operations are used up. Properties that
begin with Settled are about states in which no event, request, retry, timer or
reconcile is left, so that nothing would ever repair what they find.

| Run | Shows |
|---|---|
| `sort` | the sort ends in a sorted order from every input of three pools, also where the comparator is not transitive (two of three same-second pools stamped: then the order of the list decides who is first); where all or none are stamped, the first is the oldest |
| `pool_races` | with same-second pools, re-creations, edits and every cache lagging: no work is lost, Ready was published, a good pool that is alone is Ready, and the breaker does what `CircuitBreaker` says |
| `pool_steady` | with pools of different seconds that are created once and a ConfigMap cache that keeps up, bad specs and profile changes: the oldest is active and the others are Superseded, no pool is superseded by a superseded one, what is Ready is in the ConfigMap, no invalid pool stays Ready, the metric is true, the key goes with the last pool, nothing that does not render is published |
| `pool_progress` | with a fault and a restart at any point: no work is lost, and the operator comes to rest but for the retries that `RetriedForEver` names |
| `policy_races` | two policies, two namespaces, edits, deletions, re-creations, a failing call, lagging caches: Validated means enforced, a policy that nothing stands against is Validated, and no annotation of a policy that is gone is left unless managed namespaces were listed from a lagging cache |
| `policy_progress` | with a fault and a restart at any point: no policy is forgotten, one that is being deleted goes, and the operator comes to rest |
| `engine_config` | some 300 pools beside each of five profiles, and a profile that is edited, deleted, created again, with a fault and a restart: the properties of profiles and of engine configurations above |

The assumptions of `pool_steady` and the exception of `policy_races` are not
conveniences. Each one that is dropped breaks a property, and the run that shows
it is a finding:

| Run | What the code does |
|---|---|
| `pool_same_second` | two pools of one second, admitted by a webhook whose cache lags, supersede each other for good; nothing is published |
| `pool_recreate` | a deletion and a re-creation share a queue entry; the pool that is now the oldest stays Superseded |
| `pool_stale_configmap` | edits X, Y, X with a lagging ConfigMap cache: Ready, and the ConfigMap holds Y |
| `pool_shared` | with POD_NAMESPACE, as deployed, deleting the last pool of one namespace takes the key from the Ready pool of another |
| `policy_orphan` | a policy is deleted before its annotation is in the cache: the annotation stays, and every other policy is refused the namespace |

**Bounds of `pool_progress`.** Liveness, a fault and a restart at any point leave
little room for users. So the run does not begin with an empty cluster but with an
operator that starts again (`StartsWithPools` in `MCUpstreamPool`): it had stamped `a`
before it stopped, and `b` was created meanwhile, or there is no `b`. One of the two
builds and the engine refuses the other, and one more operation creates, edits or
deletes a pool. This reaches the deletion of a pool whose successor the engine refuses,
and, through a write with a lost answer and the lagging copy, an open circuit.

**Bounds of the policy runs.** Two policies are what a conflict needs, two
namespaces what partial enforcement needs; three operations reach two claims and
the edit or deletion of one, or a deletion and a re-creation. The policies of
`policy_races` are interchangeable in every definition, so it is checked up to
their symmetry. `policy_progress` has one namespace and specs with and without a
profile, and no symmetry, because it checks liveness. `MaxLag` bounds the events
on their way when a reconcile starts, as above; one is enough for a list to miss
an annotation. `SettledFreePolicyValidated` excepts a policy of which a reference
could not be read twice: validateReferences reports that error and does not return
it, so what brings the worker back is the event of the status patch, and a second
failure with the same message makes an empty patch and no event. With the one
fault of `policy_races` the exception never applies.

**Bounds of `engine_config`.** The pool and the profile meet in Generate only, so
the constraint `HistoryBesideOnePool` explores the history of the profile beside
one pool, and beside each other pool no profile and each profile as created (some
20,000 states). `MCStrings` are the strings that occur. The pools are all pairs of
spellings of transport, port and TLS name that the code tells apart, and three
upstreams with all mixes of weights and preferences that are set, unset, or equal
to the default: with three, stability and order are both at stake. The profiles
have TTL ranges that are in order only with, or only without, the defaults.

**Fairness.** `ComesToRest` assumes that the worker goes on (weak fairness of
its steps: a goroutine that is runnable runs), that watch events arrive, that
delays end, and strong fairness of taking each key (the queue is first in, first
out, so a key that is there again and again is taken). Faults are bounded: a
call that fails for ever is retried for ever. So is one thing more, and the pool
controller's `ComesToRest` excepts it: reconcileAfterPoolDeletion returns an error, each
time, while the pool that it would promote does not generate, render or marshal (lines
362 to 375), where Reconcile reports the same in the status and is done. The property
says that these retries are all that is left, and that they write nothing; the pool in
question stays Superseded meanwhile. The policy controller's
`ComesToRest` and `DeletedPolicyGoes` assume the same of its worker, its informers
and its queue. That `ComesToRest` excepts a policy that is in conflict on two
namespaces: its message names the one that the Go map yields first, so its status
can change, and wake it, for ever.

## What is proved

For every set of pools, policies, namespaces, specs and profiles, whatever the
bounds. The assumptions are the ASSUMEs of the modules, which TLC evaluates on
each instance: sets and numbers are what they are said to be, pools and namespaces
are finitely many, names are ordered without ties, and `None` and `NoKey` are no
pool, object, condition, configuration or reference. `EngineConfig` also assumes a little of Go's strings
(`StringAssumption`): trimming twice trims no more, the keywords are trimmed and in
lower case, a DNS-1123 name has no blanks around it and no dot at its end, and an
address without a dot at its end is an address or has no blanks around it.

### Pool controller

- `TypeCorrect`: `TypeOK`, by the invariant `TypeInv`, which adds to the types
  what the worker's variables hold at each step (`Fits`): the pool at hand is
  that of the request unless a deletion is handled, a copy past the stamp is
  stamped, a configuration about to be sent was built.
- `OnlyRenderedPublished`: `PublishedRenders`, from `Fits`: whatever is stored is
  the worker's configuration at the step that sends it.
- `WorkIsNotLost`: `NoLostWork`. It is not inductive: a reconcile may end with a
  status computed from an old copy, and then something must bring the worker
  back. `WorkInv` adds that the cache and the events on their way add up to what
  is stored (`Synced`), and that the worker's copy is what is stored or the pool
  is pending (`HoldsLatest`). Then a patch either settles the pool or leaves it
  pending, an error puts the key back, and a key that finds no pool in the cache
  either has none to find or has an event on its way.
- `ReadyWasPublished`, `SolePoolIsReady`: what a pool's status says at rest is true.
  `NoLostWork` speaks of the generation of a status, not of what it says, and a
  profile changes without any generation. `TruthInv` says that a status, and the
  verdict that the worker is about to write, is true of the stored pool (`Truth`)
  unless the pool is pending or an event of its profile is on its way (`Stirred`).
  Three things need an argument. An empty status patch makes no event, so a verdict
  must be true already where it changes nothing (`PatchLands`). A profile event
  enqueues only the pools of the cache, but a stored pool that is not there has an
  event of its own (`StepCalm`). And Superseded is true as long as another pool of the
  namespace is in the cache, its key is queued, or the worker handles its deletion and
  may go on with this pool (`Superseding`): no step lets go of a superseded pool
  without one of these or without stirring it. `ConfigMapsKnown` covers the
  no-op of CreateOrUpdate: a cached configuration, however old, was published.
- `BreakerImplemented`: `ImplementsBreaker`. The initial states map to initial
  states, and every step is a step of `CircuitBreaker` or leaves it alone. That
  needs `BreakerInv`: an open circuit has the count 0 (so the early return of
  recordConfigMapUpdateFailure for an open circuit is never taken, and the end
  of the window takes the streak from the threshold to 0), and a worker about to
  write found the circuit closed and it still is, because only this worker opens
  circuits.

### Pool controller: what needs hypotheses

`UpstreamPoolSteadyProofs` is about what `pool_steady` checks. Its theorems hold for
any pools and namespaces, any lag of the pool and profile caches and any faults, under
hypotheses that are part of their statements:

| Theorem | Property | Hypotheses | Without them |
|---|---|---|---|
| `OldestIsActive` | `SettledOldestIsActive` | `Once` | fails: `pool_recreate` |
| `MetricIsTrue` | `SettledMetricIsTrue` | `Once` | used by the proof; TLC found no failure with two pools that live twice |
| `SupersededByActive` | `SettledSupersededByActive` | `Once`, 0 not in `Gaps` | fails: `pool_same_second`, and with a name that is used again |
| `ReadyIsServed` | `SettledReadyIsServed` | `Once`, 0 not in `Gaps`, `OwnConfigMaps`, no `ConfigMapLag` | fails with lag (`pool_stale_configmap`), in one second (two Ready pools) and with a shared ConfigMap (the situation of `pool_shared`); `Once` is used by the proof |
| `NoPoolNoKey` | `SettledNoPoolNoKey` | `Unbroken`, no `ConfigMapLag` | fails with a restart after the deletion, and with lag, which hides the key |

`Once` (no pool name is used twice) and `Unbroken` (no restart) are about a behaviour,
so they are to the left of the implication: `Spec /\ []Once => []...`. In
`pool_steady` both hold by its bounds, `MaxLives = 1` and `MaxRestarts = 0`. A gap of
0 in `Gaps` is two creations within one second.

`ReadyIsValid` (`SettledReadyIsValid`) needs none of them. The deletion path sets a
pool Ready that it has not validated; `ValidInv` says that a reconcile which found its
pool is past validation with a valid copy only, and that a resting Ready pool is valid:
the patch of the deletion path changes the status, and is an event of the pool, or
finds it as it was.

- The order of the pools. None of these is inductive: they speak of statuses at rest,
  which earlier reconciles wrote from earlier caches. `OnceInv` says what a name that is
  used once gives: all copies of a pool are of one life (`OneLife`), and pools reach the
  cache in the order of their creation (`InOrder`), because the watch delivers in order.
  So who is the eldest of the cache stays it until it leaves (`EldestKept`), although
  the comparator is not transitive: whatever the sort puts first is no younger than any
  other (`FirstIsEldest`). `OrderInv` then says that a resting status which was given
  after the selection is of the eldest pool, and that a Superseded pool has an elder
  one in the cache, or one that is leaving, or one whose deletion the worker handles
  and may end with promoting it (`Elder`).
- The gauge. `GaugeInv`: it names the eldest pool or a deletion that will set it anew is
  to be handled; it names a pool wherever a valid one has passed the selection.
- The key. `KeyInv`: a namespace without pools whose key is still there has a deletion
  in the queue, or in the worker before its last write. Without restarts somebody always
  does: a pool leaves the cache and its key enters the queue in one step. This proof
  needs no `Once`.
- What is served. `ServedInv`: a Ready pool that rests is served, or a deletion is to be
  handled that will publish it anew or take Ready from it (`Amends`); and while the key
  is being removed, every stored pool is pending (`RemovalStirs`), so the removal is
  repaired.
- The message. `NamesLead`: the pool that is named leads the cache, through restarts too
  (a stored pool that the cache does not show is no older than any it shows,
  `UnseenIsYounger`), or it is gone for good. With `DifferentSeconds` a pool that leads has
  no elder one and so is not Superseded. This covers three and more pools, which no
  run does.

### Selection

- `SortTypeCorrect`, `SortEndsSorted`: a swap keeps the slice an arrangement of the
  pools, and the items left of the one being inserted are in order but for the
  place where it stands. No transitivity is used, because the comparator has none.
- `UniformSelection`: where all pools or none carry the stamp, the comparator is a
  strict total order, so the first of a slice in which every neighbour is in order
  comes before all others, and every order the sort can leave has it first.

### Engine configuration and cache profiles

- `ValidGeneratesWell`, `ValidInOrder`: whatever validateDNSUpstreamPool accepts
  generates, with each upstream once, in its order, with ports, threads and TLS
  names as they should be. The ranks of the upstreams are a permutation because
  `Earlier` is a strict total order on positions, so no induction over the list is
  needed; the endpoint of a generated upstream is the key by which validation found
  the upstreams distinct.
- `ValidCheckedAsGenerated`: a renderer's defaults change nothing of what Generate
  has filled in, so what Render checked is what is published. Here only the addresses
  need to be valid. It is `CheckedIsPublished` for every pool and profile.
- `ValidPoolsGenerate`, `ValidPoolsAreInOrder`: the first two as invariants of
  `CacheProfileController`.
- `ProfileTypeCorrect`; `ActiveConditionIsTrue`: `SettledActiveIsTrue`, by
  `ActiveInv`: the cache and the events add up to what is stored, and if no event
  and no key is left, the worker's copy is what is stored, or there is no worker
  and the condition is that of the stored spec.

### Policy controller

- `PolicyTypeCorrect`: `TypeOK`, again with what the worker holds at each step.
- `PolicyWorkIsNotLost`: `NoLostWork`, along the argument of the pool controller.
  Here the finalizer can be put on another policy than the one that was read, and a
  deletion is waited for; `DeletingHasFinalizer` says that what is waited for is
  there.
- `ValidatedIsEnforced`, `FreePolicyIsValidated`: what a policy's status says at rest
  is true. Neither is inductive, nor is `WorkInv` enough: it speaks of the generation
  of a status and not of what the status says. `RestInv` is about all that can wake a
  policy: it is `Stirred` when it is pending, or when an event is on its way of a
  namespace that it selects or of a pool or profile that it refers to. Then the
  caches of namespaces and references add up with their events as well
  (`NamespacesSynced`, `RefsSynced`); a status is true unless the policy is stirred
  or being reconciled (`StatusesTrue`); and what the worker has found out so far -
  which references exist, which namespaces carry the policy, how many - is true
  unless its policy is stirred (`WorkerTrue`). The core of the proof is that no step
  disturbs a policy without stirring it (`Calm`): whoever writes to a namespace,
  the worker itself included, makes an event, and its delivery enqueues every policy
  of the cache that selects it. So a reconcile that ends unstirred has seen what is
  stored, and its own patches have changed nothing. `FaultsCounted` says when a
  reference that could not be read is reported for the second time; this proof is
  where the exception of `SettledFreePolicyValidated` came from.
- `GoneIsCleared`: `ClearedBeforeGone`, at every moment and not only at rest. What makes
  it hard is that the finalizer is added to, and taken from, whatever has the name, on
  the word of a cached copy that may be of an earlier life of it. `HeldInv` orders the
  copies: one with the finalizer is of the stored policy, or it is a relict, and then all
  that comes before it in the cache and in the events waits for deletion
  (`MarkedIsHeld`); while a policy is held, what follows a copy that waits for deletion
  does so too (`GoingStays`). So a reconcile that annotates has a policy which is held by
  the finalizer, and one that takes the finalizer away has the copy of that very policy
  (`WorkerHolds`): a policy created anew under the name never loses its finalizer to
  the deletion of the one before it, and is never annotated for without it. `ClearInv`
  adds that a namespace carries only policies that are held, and that a reconcile which
  clears has copies of all namespaces that carry its policy, if its list was fresh.

### Corner cases that the proofs brought up

- A reference of a policy that cannot be read twice in a row, see above: the policy
  stays refused until something else wakes it.
- validateDNSUpstreamPool accepts a TLS server name that is an IPv4 address, because
  that is a DNS-1123 name. So it is not true, and not claimed, that a generated TLS
  name is never an address; what is proved is that an encrypted upstream known by a
  host name has one, and that a plain one has none.
- An address that is not valid, such as `host .`, would be trimmed again by the
  renderers, which would then check another TLS name than the one that is published;
  validation refuses it, which is why `ValidCheckedAsGenerated` asks for valid
  addresses.
- The stamp can be overwritten. ensureInitialRVAnnotation looks for it on a cached copy
  and patches without a resource version: a pool that is created and edited, and
  reconciled from the copy of the edit before its first stamp is in the cache, gets the
  later resource version, and comes later among the pools of its second. The comment at
  `dnsupstreampool_controller.go:551` says "written once and never updated". TLC
  finds this in the model with one pool, two operations and `MaxLag = 2`; the runs have
  `MaxLag = 1` and do not reach it, the theorems for any lag include it.

### Only model-checked

`ComesToRest` of both controllers and `DeletedPolicyGoes`: liveness under fairness is
out of the prover's reach. `SettledReadyHasConfig` and `SettledNoOrphan` are checked by
runs that expect their violation only. Every invariant and the refinement of the runs
that pass is stated by a theorem, `CheckedIsPublished` by the one about the operators.

## Not modelled

- The CoreDNS patch job (`deploy/helm/astradns/templates/coredns-patch-job.yaml`)
  is a shell script that edits text with grep, sed and awk. What it does is what
  its patterns match, and a model would have to assume just that. Read by hand: the
  patterns of lines 132 and 136 are in single quotes with two backslashes before
  the dot, which asks for a literal backslash, while
  `docs/production/coredns-integration.md:92` says that the job rewrites the
  forward target; and a second run replaces the backup by the patched file.
- The Helm chart and the kustomize manifests are declarative; what they fix
  (POD_NAMESPACE, one worker, leader election, the webhook) are constants here.
- The CRD schemas are generated; see above for what they admit. No controller
  reads a policy's splitHorizon.
- The engine templates and their validation are in another repository.
- Of `cmd/main.go` only a start with new reconcilers is modelled; flags,
  certificates and probes are plumbing.

## Where the project stands

1. Pool controller, selection, webhook, breaker, policies, profiles, engine
   configuration, two namespaces with one ConfigMap: modelled and checked.
2. Every safety property of the runs that pass is proved for all values of the
   constants, those of `pool_steady` under hypotheses that a run or an experiment shows
   to be needed, or that the proof uses, as said above.
3. Left: whether `MetricIsTrue` and `ReadyIsServed` need `Once`; three pools in a run of
   the pool controller, which the proofs cover and the bounds do not.
