----------------------- MODULE CacheProfileController -----------------------
(****************************************************************************)
(* The DNSCacheProfile controller: it validates a profile and says so in    *)
(* its Active condition.  The pool controller generates configurations from *)
(* the same profile whatever the condition says; EngineConfig tells what    *)
(* comes of that for a pool beside it.                                      *)
(*                                                                          *)
(* Profiles do not depend on each other, so there is one name.              *)
(****************************************************************************)
EXTENDS EngineConfig

CONSTANTS
    PoolSpecs,      \* specs of the pool beside the profile
    ProfileSpecs,   \* profile specs
    MaxLives,       \* bound: how often the profile is created
    MaxLag,         \* bound: events on their way when a reconcile starts
    MaxOps,         \* bound: user operations
    MaxFaults,      \* bound: failing reads and API calls
    MaxRestarts     \* bound: operator restarts

ASSUME ProfileAssumption ==
    /\ MaxLives \in Nat
    /\ MaxLag \in Nat
    /\ MaxOps \in Nat
    /\ MaxFaults \in Nat
    /\ MaxRestarts \in Nat

(* Specs have the types that the API gives them, and None is no spec. *)
ASSUME SpecAssumption ==
    /\ \A p \in PoolSpecs : IsPoolSpec(p)
    /\ ProfileSpecs \subseteq [maxEntries : Int, ttlMin : Int, ttlMax : Int, negativeTtl : Int,
                               prefetch : BOOLEAN, threshold : Int]
    /\ None \notin ProfileSpecs

VARIABLES
    pool,       \* the spec of the pool
    profile,    \* the stored profile, or None
    cache,      \* the profile in the informer's store, or None
    watch,      \* the events on their way
    queue,      \* the key: none, backoff or ready
    w,          \* the copy that a running reconcile has validated, or None
    lives, ops, faults, restarts

boundVars == <<lives, ops, restarts>>
vars == <<pool, profile, cache, watch, queue, w, boundVars, faults>>

-----------------------------------------------------------------------------
(* The values of a profile spec that must not be negative. *)
Amounts(s) == {s.maxEntries, s.ttlMin, s.ttlMax, s.negativeTtl, s.threshold}

(* Faulty variant: the range is checked for fields that are set only. *)
BugRangeOfSetFields(s) ==
    /\ \A v \in Amounts(s) : v >= 0
    /\ s.ttlMin > 0 /\ s.ttlMax > 0 => s.ttlMin <= s.ttlMax

(* No negative values, and a range that is in order with this file's own defaults. *)
validateDNSCacheProfile(s) ==
    LET minTTL == IF s.ttlMin = 0 THEN 60 ELSE s.ttlMin
        maxTTL == IF s.ttlMax = 0 THEN 300 ELSE s.ttlMax
    IN  /\ \A v \in Amounts(s) : v >= 0
        /\ minTTL <= maxTTL

(* The Active condition: its status, and the generation it is about. *)
Conditions == [active : BOOLEAN, gen : Nat]

ASSUME ConditionAssumption == None \notin Conditions

Objects == [life : Nat, gen : Nat, spec : ProfileSpecs, cond : Conditions \cup {None}]

TypeOK ==
    /\ pool \in PoolSpecs
    /\ profile \in Objects \cup {None}
    /\ cache \in Objects \cup {None}
    /\ watch \in Seq(Objects \cup {None})
    /\ queue \in {"none", "backoff", "ready"}
    /\ w \in Objects \cup {None}
    /\ lives \in 0 .. MaxLives
    /\ ops \in 0 .. MaxOps
    /\ faults \in 0 .. MaxFaults
    /\ restarts \in 0 .. MaxRestarts

Init ==
    /\ pool \in PoolSpecs
    /\ profile = None
    /\ cache = None
    /\ watch = <<>>
    /\ queue = "none"
    /\ w = None
    /\ lives = 0
    /\ ops = 0
    /\ faults = 0
    /\ restarts = 0

-----------------------------------------------------------------------------
(* The API server and the users. *)

(* The profile becomes o; a write that changes nothing makes no event. *)
ApiWrite(o) ==
    /\ profile' = o
    /\ watch' = IF o = profile THEN watch ELSE Append(watch, o)

UserOperation ==
    /\ ops < MaxOps
    /\ ops' = ops + 1
    /\ UNCHANGED <<pool, cache, queue, w, faults, restarts>>

CreateProfile(s) ==
    /\ UserOperation
    /\ profile = None
    /\ lives < MaxLives
    /\ lives' = lives + 1
    /\ ApiWrite([life |-> lives + 1, gen |-> 1, spec |-> s, cond |-> None])

EditProfile(s) ==
    /\ UserOperation
    /\ profile # None
    /\ profile.spec # s
    /\ ApiWrite([profile EXCEPT !.spec = s, !.gen = @ + 1])
    /\ UNCHANGED lives

DeleteProfile ==
    /\ UserOperation
    /\ profile # None
    /\ ApiWrite(None)
    /\ UNCHANGED lives

-----------------------------------------------------------------------------
(* The informer, the work queue and restarts. *)

Deliver ==
    /\ watch # <<>>
    /\ cache' = Head(watch)
    /\ watch' = Tail(watch)
    /\ queue' = "ready"
    /\ UNCHANGED <<pool, profile, w, boundVars, faults>>

DelayOver ==
    /\ queue = "backoff"
    /\ queue' = "ready"
    /\ UNCHANGED <<pool, profile, cache, watch, w, boundVars, faults>>

Restart ==
    /\ restarts < MaxRestarts
    /\ restarts' = restarts + 1
    /\ cache' = profile
    /\ watch' = <<>>
    /\ queue' = IF profile = None THEN "none" ELSE "ready"
    /\ w' = None
    /\ UNCHANGED <<pool, profile, lives, ops, faults>>

-----------------------------------------------------------------------------
(* Reconcile. *)

(* Faulty variant: a result with RequeueAfter instead of the error. *)
BugRequeueAfter ==
    /\ w' = None
    /\ queue' = IF queue = "none" THEN "after" ELSE queue

(* Reconcile returns an error; the key comes back. *)
ReturnError ==
    /\ w' = None
    /\ queue' = IF queue = "none" THEN "backoff" ELSE queue

TakeKey ==
    /\ w = None
    /\ queue = "ready"
    /\ Len(watch) <= MaxLag
    /\ UNCHANGED <<pool, profile, cache, watch, boundVars>>

(* Get, and what is found is validated; nothing is done for a profile that is gone. *)
Reconcile ==
    /\ TakeKey
    /\ queue' = "none"
    /\ w' = cache
    /\ UNCHANGED faults

(* Get fails. *)
GetFails ==
    /\ TakeKey
    /\ faults < MaxFaults
    /\ faults' = faults + 1
    /\ queue' = "backoff"
    /\ UNCHANGED w

(* The condition that the reconcile wants. *)
Desired == [active |-> validateDNSCacheProfile(w.spec), gen |-> w.gen]

(* The patch: the condition, if it differs from the copy's, onto whatever is stored. *)
PatchStatus ==
    ApiWrite(IF Desired = w.cond THEN profile ELSE [profile EXCEPT !.cond = Desired])

setActiveCondition ==
    /\ w # None
    /\ \/ /\ profile # None
          /\ PatchStatus
          /\ w' = None
          /\ queue' = queue
       \/ /\ profile = None
          /\ UNCHANGED <<profile, watch>>
          /\ ReturnError
    /\ UNCHANGED <<pool, cache, boundVars, faults>>

(* The patch fails, or is carried out and its answer lost. *)
PatchFails ==
    /\ w # None
    /\ faults < MaxFaults
    /\ faults' = faults + 1
    /\ \/ UNCHANGED <<profile, watch>>
       \/ profile # None /\ PatchStatus
    /\ ReturnError
    /\ UNCHANGED <<pool, cache, boundVars>>

-----------------------------------------------------------------------------
Next ==
    \/ \E s \in ProfileSpecs : CreateProfile(s) \/ EditProfile(s)
    \/ DeleteProfile
    \/ Deliver
    \/ DelayOver
    \/ Restart
    \/ Reconcile
    \/ GetFails
    \/ setActiveCondition
    \/ PatchFails

Spec == Init /\ [][Next]_vars

-----------------------------------------------------------------------------
(* Properties. *)

(* Nothing is under way. *)
Settled == w = None /\ queue = "none" /\ watch = <<>>

(* The spec of the stored profile, or None. *)
ProfileSpec == IF profile = None THEN None ELSE profile.spec

(****************************************************************************)
(* When the operator rests, the Active condition is about the present       *)
(* generation and tells what the generator does with the profile: Active,   *)
(* if and only if no field is negative and the TTLs that Generate arrives   *)
(* at, with its own copy of the defaults, are in order.                     *)
(****************************************************************************)
SettledActiveIsTrue ==
    Settled /\ profile # None =>
        LET c == CacheConfig(profile.spec)
        IN  /\ profile.cond # None
            /\ profile.cond.gen = profile.gen
            /\ profile.cond.active <=>
                  (\A v \in Amounts(profile.spec) : v >= 0) /\ c.ttlMin <= c.ttlMax

(****************************************************************************)
(* A pool that validateDNSUpstreamPool accepts generates well, whatever the *)
(* profile is: the pool controller's BuildConfig fails for what a renderer  *)
(* refuses and for the size only.                                           *)
(****************************************************************************)
ValidPoolGenerates ==
    validateDNSUpstreamPool(pool) => GeneratesWell(pool, ProfileSpec)

(****************************************************************************)
(* The generated upstreams of a valid pool are in the order that their own  *)
(* preferences and weights ask for, ties as in the spec.                    *)
(****************************************************************************)
ValidPoolInOrder ==
    validateDNSUpstreamPool(pool) => InOrder(pool, ProfileSpec)

(****************************************************************************)
(* What Render checked is what is published, for each engine.  The pool     *)
(* controller drops the text that Render returns and marshals the generated *)
(* configuration; Render's answer is about a copy of it with the renderer's *)
(* defaults filled in, so a port, a thread count or a DNSSEC mode that      *)
(* Generate left open would pass and be published all the same.  Valid      *)
(* addresses are all it takes; an address that validation refuses, such as  *)
(* "host .", would be given a TLS server name by Generate that the          *)
(* renderers trim once more.                                                *)
(****************************************************************************)
CheckedIsPublished ==
    (\A i \in DOMAIN pool.upstreams : isValidUpstreamAddress(pool.upstreams[i].address)) =>
        CheckedAsGenerated(pool, ProfileSpec)
=============================================================================
