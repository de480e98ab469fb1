--------------------- MODULE ExternalDNSPolicyController ---------------------
(****************************************************************************)
(* The ExternalDNSPolicy controller: a policy claims the namespaces that it *)
(* selects by annotating them with its UID and the names of its upstream    *)
(* pool and cache profile; a finalizer lets it clear them before it goes.   *)
(*                                                                          *)
(* Reads are of informer caches that lag; writes are JSON merge patches     *)
(* without a resource version: the difference between the copy that was     *)
(* read and the copy that is wanted, merged into whatever is stored under   *)
(* the name by then.  Each read and each call is a step of its own.         *)
(****************************************************************************)
EXTENDS Integers, Sequences, FiniteSets

CONSTANTS
    Policies,           \* names of policies
    Namespaces,         \* names of namespaces that policies select
    UpstreamPools,      \* names of pools beside the policies
    CacheProfiles,      \* names of cache profiles beside the policies
    Specs,              \* policy specs that the CRD schema admits
    None,               \* an absent object or value
    MaxLives,           \* bound: how often a policy of one name is created
    MaxLag,             \* bound: events on their way when a reconcile starts
    MaxOps,             \* bound: user operations
    MaxFaults,          \* bound: failing reads and API calls
    MaxRestarts         \* bound: operator restarts

Refs == UpstreamPools \cup CacheProfiles

(****************************************************************************)
(* What a spec says: the selected namespaces, the pool and the profile it   *)
(* refers to, and the first field that is not well formed, if any.          *)
(****************************************************************************)
PolicySpecs ==
    [selector : SUBSET Namespaces \ {{}}, pool : UpstreamPools,
     profile : CacheProfiles \cup {None},
     flaw : {None, "selector", "upstreamPoolRef", "cacheProfileRef"}]

ASSUME PolicyAssumption ==
    /\ Specs \subseteq PolicySpecs
    /\ IsFiniteSet(Namespaces)
    /\ MaxLives \in Nat
    /\ MaxLag \in Nat
    /\ MaxOps \in Nat
    /\ MaxFaults \in Nat
    /\ MaxRestarts \in Nat

VARIABLES
    \* the API server
    api,            \* the stored object of each policy, or None
    nsApi,          \* the annotations of each namespace, or None
    refs,           \* the pools and profiles that exist
    \* the informers: what the operator sees, and the events on their way
    cache, watch,
    nsCache, nsWatch,
    refCache, refWatch,
    \* the operator's memory, lost by a restart
    queue,          \* of each policy: none, backoff or ready
    w,              \* the worker: where it is in Reconcile, and its variables
    \* history and bounds
    staleList,      \* managed namespaces were once listed from a lagging cache
    lives, ops, faults, restarts

apiVars == <<api, watch>>
nsVars == <<nsApi, nsWatch>>
refVars == <<refs, refWatch>>
seenVars == <<cache, nsCache, refCache>>
boundVars == <<lives, ops, restarts>>
vars == <<apiVars, nsVars, refVars, seenVars, queue, w, staleList, boundVars, faults>>

-----------------------------------------------------------------------------
(* Types. *)

(* A UID: the name of the policy, and which policy of that name it is. *)
UIDs == [policy : Policies, life : Nat]

(* The four annotations of a policy, and whether the namespace has others. *)
Annotations ==
    [uid : UIDs \cup {None}, name : Policies \cup {None},
     pool : UpstreamPools \cup {None}, profile : CacheProfiles \cup {None},
     other : BOOLEAN]

Bare == [uid |-> None, name |-> None, pool |-> None, profile |-> None, other |-> FALSE]

Reasons == {"Enforced", "Malformed", "PoolMissing", "PoolUnreadable", "ProfileMissing",
            "ProfileUnreadable", "Conflict", "EnforcementError"}

(* What setValidatedCondition says: the reason and what the message names. *)
Verdicts == [reason : Reasons, at : Namespaces \cup {None}, by : Policies \cup {None}]

Conditions ==
    [reason : Reasons, at : Namespaces \cup {None}, by : Policies \cup {None}, gen : Nat]

Statuses == [cond : Conditions \cup {None}, applied : Nat]

PolicyObjects ==
    [life : Nat, gen : Nat, spec : Specs, fin : BOOLEAN, deleting : BOOLEAN,
     status : Statuses]

ASSUME NoneAssumption ==
    /\ None \notin PolicyObjects
    /\ None \notin Conditions
    /\ None \notin Refs
    /\ None \notin {"selector", "upstreamPoolRef", "cacheProfileRef"}

PolicyEvents == [policy : Policies, obj : PolicyObjects \cup {None}]

NamespaceEvents == [ns : Namespaces, obj : Annotations \cup {None}]

(* The copies of namespaces that the worker still has to deal with. *)
Copies == [Namespaces -> Annotations \cup {None}]

NoCopies == [n \in Namespaces |-> None]

(* Where the worker is: the read or call it makes next. *)
Steps == {"idle", "addFinalizer", "getPool", "getProfile", "list", "remove", "get",
          "annotate", "status", "removeFinalizer"}

Workers ==
    [pc : Steps, req : Policies \cup {None}, del : BOOLEAN, obj : PolicyObjects \cup {None},
     copies : Copies, todo : SUBSET Namespaces, applied : Nat,
     verdict : Verdicts \cup {None}, result : {"none", "backoff"}]

(* The worker between two reconciles. *)
Idle == [pc |-> "idle", req |-> None, del |-> FALSE, obj |-> None, copies |-> NoCopies,
         todo |-> {}, applied |-> 0, verdict |-> None, result |-> "none"]

TypeOK ==
    /\ api \in [Policies -> PolicyObjects \cup {None}]
    /\ watch \in Seq(PolicyEvents)
    /\ nsApi \in [Namespaces -> Annotations \cup {None}]
    /\ nsWatch \in Seq(NamespaceEvents)
    /\ refs \in SUBSET Refs
    /\ refWatch \in [Refs -> Seq(BOOLEAN)]
    /\ cache \in [Policies -> PolicyObjects \cup {None}]
    /\ nsCache \in [Namespaces -> Annotations \cup {None}]
    /\ refCache \in SUBSET Refs
    /\ queue \in [Policies -> {"none", "backoff", "ready"}]
    /\ w \in Workers
    /\ staleList \in BOOLEAN
    /\ lives \in [Policies -> 0 .. MaxLives]
    /\ ops \in 0 .. MaxOps
    /\ faults \in 0 .. MaxFaults
    /\ restarts \in 0 .. MaxRestarts

(* The operator starts on a cluster that has the namespaces, pools and profiles. *)
Init ==
    /\ api = [p \in Policies |-> None]
    /\ watch = <<>>
    /\ nsApi = [n \in Namespaces |-> Bare]
    /\ nsWatch = <<>>
    /\ refs = Refs
    /\ refWatch = [r \in Refs |-> <<>>]
    /\ cache = api
    /\ nsCache = nsApi
    /\ refCache = refs
    /\ queue = [p \in Policies |-> "none"]
    /\ w = Idle
    /\ staleList = FALSE
    /\ lives = [p \in Policies |-> 0]
    /\ ops = 0
    /\ faults = 0
    /\ restarts = 0

-----------------------------------------------------------------------------
(* The API server. *)

(* Policy p becomes the object o; a write that changes nothing makes no event. *)
ApiWrite(p, o) ==
    /\ api' = [api EXCEPT ![p] = o]
    /\ watch' = IF o = api[p] THEN watch ELSE Append(watch, [policy |-> p, obj |-> o])

NamespaceWrite(n, o) ==
    /\ nsApi' = [nsApi EXCEPT ![n] = o]
    /\ nsWatch' = IF o = nsApi[n] THEN nsWatch ELSE Append(nsWatch, [ns |-> n, obj |-> o])

(* A JSON merge patch: of the stored keys, those in which base and new differ. *)
MergePatch(stored, base, new) ==
    [k \in DOMAIN stored |-> IF new[k] # base[k] THEN new[k] ELSE stored[k]]

(* The stored object once deletion was asked for: it stays while it has a finalizer. *)
AfterDelete(o) == IF o.fin THEN [o EXCEPT !.deleting = TRUE, !.gen = @ + 1] ELSE None

(* The stored object without its finalizer: gone, if that was what it waited for. *)
AfterRemoveFinalizer(o) == IF o.deleting THEN None ELSE [o EXCEPT !.fin = FALSE]

-----------------------------------------------------------------------------
(* The users. *)

UserOperation ==
    /\ ops < MaxOps
    /\ ops' = ops + 1
    /\ UNCHANGED <<seenVars, queue, w, staleList, faults, restarts>>

CreatePolicy(p, s) ==
    /\ UserOperation
    /\ api[p] = None
    /\ lives[p] < MaxLives
    /\ lives' = [lives EXCEPT ![p] = @ + 1]
    /\ ApiWrite(p, [life |-> lives[p] + 1, gen |-> 1, spec |-> s, fin |-> FALSE,
                    deleting |-> FALSE, status |-> [cond |-> None, applied |-> 0]])
    /\ UNCHANGED <<nsVars, refVars>>

EditPolicy(p, s) ==
    /\ UserOperation
    /\ api[p] # None
    /\ api[p].spec # s
    /\ ApiWrite(p, [api[p] EXCEPT !.spec = s, !.gen = @ + 1])
    /\ UNCHANGED <<nsVars, refVars, lives>>

DeletePolicy(p) ==
    /\ UserOperation
    /\ api[p] # None
    /\ ~ api[p].deleting
    /\ ApiWrite(p, AfterDelete(api[p]))
    /\ UNCHANGED <<nsVars, refVars, lives>>

(* A namespace is created, deleted, or gets or loses an annotation of somebody else. *)
ChangeNamespace(n) ==
    /\ UserOperation
    /\ \/ nsApi[n] = None /\ NamespaceWrite(n, Bare)
       \/ nsApi[n] # None /\ NamespaceWrite(n, None)
       \/ nsApi[n] # None /\ NamespaceWrite(n, [nsApi[n] EXCEPT !.other = ~ @])
    /\ UNCHANGED <<apiVars, refVars, lives>>

(* A pool or a cache profile is created or deleted. *)
ChangeRef(r) ==
    /\ UserOperation
    /\ refs' = IF r \in refs THEN refs \ {r} ELSE refs \cup {r}
    /\ refWatch' = [refWatch EXCEPT ![r] = Append(@, r \notin refs)]
    /\ UNCHANGED <<apiVars, nsVars, lives>>

-----------------------------------------------------------------------------
(* The informers, the work queue and restarts. *)

(* A policy event: its key is enqueued. *)
DeliverPolicy ==
    /\ watch # <<>>
    /\ cache' = [cache EXCEPT ![Head(watch).policy] = Head(watch).obj]
    /\ queue' = [queue EXCEPT ![Head(watch).policy] = "ready"]
    /\ watch' = Tail(watch)
    /\ UNCHANGED <<api, nsVars, refVars, nsCache, refCache, w, staleList, boundVars, faults>>

(* The policies in the cache. *)
Listed == { p \in Policies : cache[p] # None }

(* The queue with the keys of S added. *)
EnqueueAll(S) == [p \in Policies |-> IF p \in S THEN "ready" ELSE queue[p]]

(* Faulty variant: only the owner of the namespace is woken up. *)
BugMapNamespaceToOwner(n) ==
    { p \in Listed : nsCache[n] # None /\ nsCache[n].name = p }

(* The keys that an event of namespace n enqueues: the policies that select it. *)
mapNamespaceToPolicies(n) == { p \in Listed : n \in cache[p].spec.selector }

DeliverNamespace ==
    /\ nsWatch # <<>>
    /\ nsCache' = [nsCache EXCEPT ![Head(nsWatch).ns] = Head(nsWatch).obj]
    /\ queue' = EnqueueAll(mapNamespaceToPolicies(Head(nsWatch).ns))
    /\ nsWatch' = Tail(nsWatch)
    /\ UNCHANGED <<apiVars, nsApi, refVars, cache, refCache, w, staleList, boundVars, faults>>

(* The keys that an event of pool r enqueues. *)
mapUpstreamPoolToPolicies(r) == { p \in Listed : cache[p].spec.pool = r }

(* The keys that an event of cache profile r enqueues. *)
mapCacheProfileToPolicies(r) == { p \in Listed : cache[p].spec.profile = r }

DeliverRef(r) ==
    /\ refWatch[r] # <<>>
    /\ refCache' = IF Head(refWatch[r]) THEN refCache \cup {r} ELSE refCache \ {r}
    /\ queue' = EnqueueAll(mapUpstreamPoolToPolicies(r) \cup mapCacheProfileToPolicies(r))
    /\ refWatch' = [refWatch EXCEPT ![r] = Tail(@)]
    /\ UNCHANGED <<apiVars, nsVars, refs, cache, nsCache, w, staleList, boundVars, faults>>

(* The delay of the rate limiter is over. *)
DelayOver(p) ==
    /\ queue[p] = "backoff"
    /\ queue' = [queue EXCEPT ![p] = "ready"]
    /\ UNCHANGED <<apiVars, nsVars, refVars, seenVars, w, staleList, boundVars, faults>>

(* The operator stops at any point and starts again, with fresh caches. *)
Restart ==
    /\ restarts < MaxRestarts
    /\ restarts' = restarts + 1
    /\ cache' = api
    /\ watch' = <<>>
    /\ nsCache' = nsApi
    /\ nsWatch' = <<>>
    /\ refCache' = refs
    /\ refWatch' = [r \in Refs |-> <<>>]
    /\ queue' = [p \in Policies |-> IF api[p] # None THEN "ready" ELSE "none"]
    /\ w' = Idle
    /\ UNCHANGED <<api, nsApi, refs, staleList, lives, ops, faults>>

-----------------------------------------------------------------------------
(* Reconcile: the worker's steps. *)

(* What the worker's steps leave alone. *)
environmentVars == <<refVars, seenVars, boundVars>>

(* The annotations of the policy at hand. *)
OwnUID == [policy |-> w.req, life |-> w.obj.life]

(* Reconcile returns; how says whether the key comes back. *)
Return(how) ==
    /\ w' = Idle
    /\ queue' = IF how = "backoff" /\ queue[w.req] = "none"
                THEN [queue EXCEPT ![w.req] = "backoff"] ELSE queue

(* Faulty variant: the error is logged and not returned. *)
BugErrorSwallowed == Return("none")

ReturnError == Return("backoff")

Says(reason, at, by) == [reason |-> reason, at |-> at, by |-> by]

(* The worker x, about to call setValidatedCondition and then to return result. *)
SetStatus(x, verdict, result) ==
    [x EXCEPT !.pc = "status", !.copies = NoCopies, !.todo = {}, !.verdict = verdict,
              !.result = result,
              !.applied = IF verdict.reason = "Enforced" THEN @ ELSE 0]

(* An error of clearPolicyEnforcement is returned, one of enforcePolicy also reported. *)
EnforcementFails(n) ==
    IF w.del
    THEN ReturnError
    ELSE /\ w' = SetStatus(w, Says("EnforcementError", n, None), "backoff")
         /\ queue' = queue

TakeKey(p) ==
    /\ w.pc = "idle"
    /\ queue[p] = "ready"
    /\ Len(watch) + Len(nsWatch) <= MaxLag
    /\ UNCHANGED <<apiVars, nsVars, environmentVars, staleList>>

(* Get finds nothing, or a policy that is being deleted and has no finalizer. *)
ReconcileNothing(p) ==
    /\ TakeKey(p)
    /\ cache[p] # None => cache[p].deleting /\ ~ cache[p].fin
    /\ queue' = [queue EXCEPT ![p] = "none"]
    /\ UNCHANGED <<w, faults>>

(* Get finds the policy: clear it, give it the finalizer, or go on to its references. *)
ReconcilePolicy(p) ==
    /\ TakeKey(p)
    /\ cache[p] # None
    /\ cache[p].deleting => cache[p].fin
    /\ queue' = [queue EXCEPT ![p] = "none"]
    /\ w' = [Idle EXCEPT !.req = p, !.obj = cache[p], !.del = cache[p].deleting,
                         !.pc = IF cache[p].deleting THEN "list"
                                ELSE IF cache[p].fin THEN "getPool" ELSE "addFinalizer"]
    /\ UNCHANGED faults

(* Get fails. *)
GetFails(p) ==
    /\ TakeKey(p)
    /\ faults < MaxFaults
    /\ faults' = faults + 1
    /\ queue' = [queue EXCEPT ![p] = "backoff"]
    /\ UNCHANGED w

(* The finalizer goes to whatever has the name; the answer replaces the worker's copy. *)
AddFinalizer ==
    /\ w.pc = "addFinalizer"
    /\ \/ /\ api[w.req] # None
          /\ ApiWrite(w.req, [api[w.req] EXCEPT !.fin = TRUE])
          /\ w' = [w EXCEPT !.pc = "getPool", !.obj = api'[w.req]]
          /\ queue' = queue
       \/ /\ api[w.req] = None
          /\ UNCHANGED apiVars
          /\ ReturnError
    /\ UNCHANGED <<nsVars, environmentVars, staleList, faults>>

(* The worker x once validateReferences found something wrong: reported, not retried. *)
Refused(x, reason) == SetStatus(x, Says(reason, None, None), "none")

(* validateReferences up to the lookup of the profile, which is optional. *)
GetUpstreamPool ==
    /\ w.pc = "getPool"
    /\ LET spec == w.obj.spec
       IN  w' = IF spec.flaw \in {"selector", "upstreamPoolRef"} THEN Refused(w, "Malformed")
                ELSE IF spec.pool \notin refCache THEN Refused(w, "PoolMissing")
                ELSE IF spec.flaw = "cacheProfileRef" THEN Refused(w, "Malformed")
                ELSE [w EXCEPT !.pc = IF spec.profile = None THEN "list" ELSE "getProfile"]
    /\ UNCHANGED <<apiVars, nsVars, environmentVars, queue, staleList, faults>>

GetCacheProfile ==
    /\ w.pc = "getProfile"
    /\ w' = IF w.obj.spec.profile \in refCache
            THEN [w EXCEPT !.pc = "list"] ELSE Refused(w, "ProfileMissing")
    /\ UNCHANGED <<apiVars, nsVars, environmentVars, queue, staleList, faults>>

(****************************************************************************)
(* A lookup fails for another reason than NotFound: that is a validation    *)
(* failure like the others, reported and not retried.                       *)
(****************************************************************************)
ReferenceUnreadable ==
    /\ faults < MaxFaults
    /\ faults' = faults + 1
    /\ \/ /\ w.pc = "getPool"
          /\ w.obj.spec.flaw \notin {"selector", "upstreamPoolRef"}
          /\ w' = Refused(w, "PoolUnreadable")
       \/ /\ w.pc = "getProfile"
          /\ w' = Refused(w, "ProfileUnreadable")
    /\ UNCHANGED <<apiVars, nsVars, environmentVars, queue, staleList>>

(* The namespaces whose owner annotation, in the cache, is this policy's UID. *)
listManagedPolicyNamespaces ==
    { n \in Namespaces : nsCache[n] # None /\ nsCache[n].uid = OwnUID }

(* Faulty variant: a policy that is being deleted keeps the namespaces it selects. *)
BugSelectedKept == w.obj.spec.selector

(* The namespaces that the policy is to keep: none when it is being deleted. *)
Selected == IF w.del THEN {} ELSE w.obj.spec.selector

(* The worker x once the namespaces to be cleared are done. *)
Cleared(x) ==
    IF x.copies # NoCopies
    THEN [x EXCEPT !.pc = "remove"]
    ELSE IF x.del
    THEN [x EXCEPT !.pc = "removeFinalizer"]
    ELSE [x EXCEPT !.pc = "get", !.todo = x.obj.spec.selector]

(* List the managed namespaces; the copies are those of this moment. *)
ListNamespaces ==
    /\ w.pc = "list"
    /\ w' = Cleared([w EXCEPT !.copies =
                        [n \in Namespaces |->
                            IF n \in listManagedPolicyNamespaces \ Selected
                            THEN nsCache[n] ELSE None]])
    /\ staleList' = (staleList \/ nsWatch # <<>>)
    /\ UNCHANGED <<apiVars, nsVars, environmentVars, queue, faults>>

(* The namespaces of which the worker has a copy. *)
AtHand == { n \in Namespaces : w.copies[n] # None }

(****************************************************************************)
(* removeNamespacePolicyAnnotations deletes the policy keys that the copy   *)
(* has.  If no other annotation is left in the copy, the patch removes the  *)
(* annotations as a whole.                                                  *)
(****************************************************************************)
removeNamespacePolicyAnnotations(n) ==
    NamespaceWrite(n, IF w.copies[n].other
                      THEN MergePatch(nsApi[n], w.copies[n], [Bare EXCEPT !.other = TRUE])
                      ELSE Bare)

RemoveAnnotations ==
    /\ w.pc = "remove"
    /\ \E n \in AtHand :
          \/ /\ nsApi[n] # None
             /\ removeNamespacePolicyAnnotations(n)
             /\ w' = Cleared([w EXCEPT !.copies[n] = None])
             /\ queue' = queue
          \/ /\ nsApi[n] = None
             /\ UNCHANGED nsVars
             /\ EnforcementFails(n)
    /\ UNCHANGED <<apiVars, environmentVars, staleList, faults>>

(* The worker x with namespace n done; after the last one the policy is enforced. *)
Applied(x, n, count) ==
    LET y == [x EXCEPT !.pc = "get", !.copies = NoCopies, !.todo = @ \ {n},
                       !.applied = @ + count]
    IN  IF y.todo # {} THEN y ELSE SetStatus(y, Says("Enforced", None, None), "none")

(* Faulty variant: a policy without a profile sets the annotation to the empty string. *)
BugProfileEmpty(copy) ==
    [uid |-> OwnUID, name |-> w.req, pool |-> w.obj.spec.pool,
     profile |-> IF w.obj.spec.profile = None THEN "" ELSE w.obj.spec.profile,
     other |-> copy.other]

(* The annotations that the policy at hand wants on top of a copy. *)
Wanted(copy) ==
    [uid |-> OwnUID, name |-> w.req, pool |-> w.obj.spec.pool,
     profile |-> w.obj.spec.profile, other |-> copy.other]

(* Faulty variant: no namespace is in conflict. *)
BugNoConflict(copy) == FALSE

(* The copy carries the UID of another policy. *)
Conflicts(copy) == copy.uid \notin {None, OwnUID}

(****************************************************************************)
(* enforcePolicy takes the selected namespaces in the order of a Go map.    *)
(* It skips one that is not there, ends with an error at one that another   *)
(* policy manages, and goes on where nothing is to be changed.              *)
(****************************************************************************)
GetNamespace ==
    /\ w.pc = "get"
    /\ \E n \in w.todo :
          LET copy == nsCache[n]
          IN  w' = IF copy = None
                   THEN Applied(w, n, 0)
                   ELSE IF Conflicts(copy)
                   THEN SetStatus(w, Says("Conflict", n, copy.name), "none")
                   ELSE IF copy = Wanted(copy)
                   THEN Applied(w, n, 1)
                   ELSE [w EXCEPT !.pc = "annotate", !.copies[n] = copy]
    /\ UNCHANGED <<apiVars, nsVars, environmentVars, queue, staleList, faults>>

(* updateNamespacePolicyAnnotations: the patch holds what the copy lacks. *)
updateNamespacePolicyAnnotations(n) ==
    NamespaceWrite(n, MergePatch(nsApi[n], w.copies[n], Wanted(w.copies[n])))

AnnotateNamespace ==
    /\ w.pc = "annotate"
    /\ \E n \in AtHand :
          \/ /\ nsApi[n] # None
             /\ updateNamespacePolicyAnnotations(n)
             /\ w' = Applied(w, n, 1)
             /\ queue' = queue
          \/ /\ nsApi[n] = None
             /\ UNCHANGED nsVars
             /\ EnforcementFails(n)
    /\ UNCHANGED <<apiVars, environmentVars, staleList, faults>>

(* The finalizer is taken from whatever has the name. *)
RemoveFinalizer ==
    /\ w.pc = "removeFinalizer"
    /\ \/ /\ api[w.req] # None
          /\ ApiWrite(w.req, AfterRemoveFinalizer(api[w.req]))
          /\ Return("none")
       \/ /\ api[w.req] = None
          /\ UNCHANGED apiVars
          /\ ReturnError
    /\ UNCHANGED <<nsVars, environmentVars, staleList, faults>>

(* Faulty variant: a condition that is there already keeps its generation. *)
BugGenerationKept ==
    [cond |-> [reason |-> w.verdict.reason, at |-> w.verdict.at, by |-> w.verdict.by,
               gen |-> IF w.obj.status.cond = None THEN w.obj.gen
                       ELSE w.obj.status.cond.gen],
     applied |-> w.applied]

(* The status that setValidatedCondition wants the policy to have. *)
Desired ==
    [cond |-> [reason |-> w.verdict.reason, at |-> w.verdict.at, by |-> w.verdict.by,
               gen |-> w.obj.gen],
     applied |-> w.applied]

PatchStatus ==
    ApiWrite(w.req, [api[w.req] EXCEPT !.status = MergePatch(@, w.obj.status, Desired)])

setValidatedCondition ==
    /\ w.pc = "status"
    /\ \/ /\ api[w.req] # None
          /\ PatchStatus
          /\ Return(w.result)
       \/ /\ api[w.req] = None
          /\ UNCHANGED apiVars
          /\ ReturnError
    /\ UNCHANGED <<nsVars, environmentVars, staleList, faults>>

(* A call of the API server fails, or is carried out and its answer lost. *)
CallFails ==
    /\ faults < MaxFaults
    /\ faults' = faults + 1
    /\ \/ /\ w.pc \in {"addFinalizer", "removeFinalizer", "status"}
          /\ \/ UNCHANGED apiVars
             \/ /\ api[w.req] # None
                /\ \/ /\ w.pc = "addFinalizer"
                      /\ ApiWrite(w.req, [api[w.req] EXCEPT !.fin = TRUE])
                   \/ /\ w.pc = "removeFinalizer"
                      /\ ApiWrite(w.req, AfterRemoveFinalizer(api[w.req]))
                   \/ w.pc = "status" /\ PatchStatus
          /\ UNCHANGED nsVars
          /\ ReturnError
       \/ /\ w.pc \in {"remove", "annotate"}
          /\ \E n \in AtHand :
                /\ \/ UNCHANGED nsVars
                   \/ /\ nsApi[n] # None
                      /\ \/ w.pc = "remove" /\ removeNamespacePolicyAnnotations(n)
                         \/ w.pc = "annotate" /\ updateNamespacePolicyAnnotations(n)
                /\ EnforcementFails(n)
          /\ UNCHANGED apiVars
    /\ UNCHANGED <<environmentVars, staleList>>

(* The List of the namespaces or the Get of one fails. *)
NamespaceUnreadable ==
    /\ w.pc \in {"list", "get"}
    /\ faults < MaxFaults
    /\ faults' = faults + 1
    /\ \/ w.pc = "list" /\ EnforcementFails(None)
       \/ w.pc = "get" /\ \E n \in w.todo : EnforcementFails(n)
    /\ UNCHANGED <<apiVars, nsVars, environmentVars, staleList>>

-----------------------------------------------------------------------------
Users ==
    \/ \E p \in Policies, s \in Specs : CreatePolicy(p, s) \/ EditPolicy(p, s)
    \/ \E p \in Policies : DeletePolicy(p)
    \/ \E n \in Namespaces : ChangeNamespace(n)
    \/ \E r \in Refs : ChangeRef(r)

Deliver ==
    \/ DeliverPolicy
    \/ DeliverNamespace
    \/ \E r \in Refs : DeliverRef(r)

Start(p) == ReconcileNothing(p) \/ ReconcilePolicy(p)

Worker ==
    \/ AddFinalizer
    \/ GetUpstreamPool
    \/ GetCacheProfile
    \/ ReferenceUnreadable
    \/ ListNamespaces
    \/ RemoveAnnotations
    \/ GetNamespace
    \/ AnnotateNamespace
    \/ RemoveFinalizer
    \/ setValidatedCondition
    \/ CallFails
    \/ NamespaceUnreadable

Next ==
    \/ Users
    \/ Deliver
    \/ \E p \in Policies : DelayOver(p) \/ Start(p) \/ GetFails(p)
    \/ Worker
    \/ Restart

Spec == Init /\ [][Next]_vars

(* The worker goes on, watch events arrive, delays end, and every key is served. *)
Fairness ==
    /\ WF_vars(Worker)
    /\ WF_vars(DeliverPolicy)
    /\ WF_vars(DeliverNamespace)
    /\ \A r \in Refs : WF_vars(DeliverRef(r))
    /\ \A p \in Policies : WF_vars(DelayOver(p)) /\ SF_vars(Start(p))

FairSpec == Spec /\ Fairness

-----------------------------------------------------------------------------
(* Properties. *)

(* Nothing is under way: no event, no request, no retry, no reconcile. *)
Settled ==
    /\ w.pc = "idle"
    /\ \A p \in Policies : queue[p] = "none"
    /\ watch = <<>>
    /\ nsWatch = <<>>
    /\ \A r \in Refs : refWatch[r] = <<>>

(* Policy p is Validated=True. *)
Validated(p) ==
    api[p] # None /\ api[p].status.cond # None /\ api[p].status.cond.reason = "Enforced"

(* The reasons for which validateReferences refuses a policy it could not judge. *)
UnreadableReasons == {"PoolUnreadable", "ProfileUnreadable"}

(* Policy p is Validated=False since a reference could not be read. *)
Unreadable(p) ==
    api[p] # None /\ api[p].status.cond # None /\ api[p].status.cond.reason \in UnreadableReasons

(* The namespaces that policy p selects and that exist. *)
Targets(p) == { n \in api[p].spec.selector : nsApi[n] # None }

(* The namespaces that policy p selects and that another policy's UID is on. *)
Contested(p) ==
    { n \in Targets(p) : nsApi[n].uid \notin {None, [policy |-> p, life |-> api[p].life]} }

(* Namespace n carries the annotations that policy p asks for, and no others of a policy. *)
Carries(n, p) ==
    nsApi[n] = [uid |-> [policy |-> p, life |-> api[p].life], name |-> p,
                pool |-> api[p].spec.pool, profile |-> api[p].spec.profile,
                other |-> nsApi[n].other]

(* The references of policy p are well formed and exist. *)
RefsExist(p) ==
    /\ api[p].spec.flaw = None
    /\ {api[p].spec.pool, api[p].spec.profile} \ {None} \subseteq refs

(* The owner annotation of every namespace is that of a policy that exists. *)
OwnersLive ==
    \A n \in Namespaces :
        nsApi[n] # None /\ nsApi[n].uid # None =>
            /\ api[nsApi[n].uid.policy] # None
            /\ api[nsApi[n].uid.policy].life = nsApi[n].uid.life

(****************************************************************************)
(* Reconcile is level triggered: a policy that has no finalizer, waits for  *)
(* its deletion, or whose status is about another generation than its spec  *)
(* has an event, a request, a retry or a running reconcile of its own left. *)
(****************************************************************************)
NoLostWork ==
    \A p \in Policies :
        /\ api[p] # None
        /\ \/ ~ api[p].fin
           \/ api[p].deleting
           \/ api[p].status.cond = None
           \/ api[p].status.cond.gen # api[p].gen
        => \/ \E i \in DOMAIN watch : watch[i].policy = p
           \/ queue[p] # "none"
           \/ w.req = p

(****************************************************************************)
(* When the operator rests, Validated=True means enforced ("References are  *)
(* valid and policy is enforced"): every selected namespace that exists     *)
(* carries exactly the annotations of this policy and of its present spec,  *)
(* their number is what the status says, and the references exist.  So no   *)
(* two policies that share a namespace are both Validated, whatever was     *)
(* read stale, merged into another's annotations, or wiped and re-created.  *)
(****************************************************************************)
SettledValidatedIsEnforced ==
    Settled =>
        \A p \in Policies : Validated(p) =>
            /\ \A n \in Targets(p) : Carries(n, p)
            /\ api[p].status.applied = Cardinality(Targets(p))
            /\ RefsExist(p)

(****************************************************************************)
(* When the operator rests, a policy whose references exist is Validated    *)
(* unless another policy's UID is on a namespace it selects: a conflict     *)
(* that is over, a namespace or a pool that came back, an error or a        *)
(* restart never leaves a policy behind.  The exception is a reference that *)
(* could not be read more than once: that error is reported, not returned,  *)
(* so it is retried only as long as the report changes.                     *)
(****************************************************************************)
SettledFreePolicyValidated ==
    Settled =>
        \A p \in Policies :
            /\ api[p] # None
            /\ RefsExist(p)
            /\ Contested(p) = {}
            => Validated(p) \/ (Unreadable(p) /\ faults > 1)

(****************************************************************************)
(* At no time does a namespace carry the UID of a policy that is gone,      *)
(* provided that managed namespaces were never listed while events of       *)
(* namespaces were on their way: the finalizer holds a policy until         *)
(* clearPolicyEnforcement has found and cleared them all, through           *)
(* conflicts, re-creations under the name, lost answers and restarts, and   *)
(* nothing is annotated for a policy that the finalizer does not hold.      *)
(****************************************************************************)
ClearedBeforeGone == ~ staleList => OwnersLive

(****************************************************************************)
(* When the operator rests, no namespace carries the UID of a policy that   *)
(* is gone ("removes namespace policy annotations when policy is deleted"). *)
(****************************************************************************)
SettledNoOrphan == Settled => OwnersLive

(****************************************************************************)
(* A policy that is being deleted goes: clearing its namespaces does not    *)
(* fail for ever, and the finalizer is removed.                             *)
(****************************************************************************)
DeletedPolicyGoes ==
    \A p \in Policies :
        (api[p] # None /\ api[p].deleting) ~> (api[p] = None)

(****************************************************************************)
(* Once the users, the faults and the restarts are over, the operator comes *)
(* to rest: policies that claim the same namespace do not wake each other   *)
(* for ever.  The exception is a policy in conflict on two namespaces: it   *)
(* names the one that the Go map yields first, so its status may change,    *)
(* and wake it, again and again.                                            *)
(****************************************************************************)
ComesToRest ==
    \/ <>[]Settled
    \/ <>[](\E p \in Policies : api[p] # None /\ Cardinality(Contested(p)) > 1)
=============================================================================
