-------------------------- MODULE PolicyRestProofs --------------------------
(****************************************************************************)
(* What the status of a policy says when ExternalDNSPolicyController rests  *)
(* is true (SettledValidatedIsEnforced, SettledFreePolicyValidated), for    *)
(* all sets of policies, namespaces, pools and profiles and all bounds.     *)
(*                                                                          *)
(* A policy is stirred when something on its way will wake it: an event or  *)
(* a request of its own, or an event of a namespace it selects or of a pool *)
(* or profile it refers to.  The inductive invariant says that the status   *)
(* of a policy is true unless the policy is stirred or being reconciled,    *)
(* and that what the worker has found out so far is true unless its policy  *)
(* is stirred.                                                              *)
(*                                                                          *)
(* And a policy that is gone has left no namespace (ClearedBeforeGone), at  *)
(* every moment and not only at rest, as long as no list of namespaces was  *)
(* stale: while a namespace carries a life of a policy, that life is        *)
(* stored, or the worker has yet to clear it.                               *)
(****************************************************************************)
EXTENDS PolicyProofs, FiniteSetTheorems

(* An event of namespace n is on its way. *)
NamespacePending(n) == \E i \in 1 .. Len(nsWatch) : nsWatch[i].ns = n

(* The last event of namespace n is number i. *)
IsLastNamespaceEvent(n, i) ==
    /\ nsWatch[i].ns = n
    /\ \A j \in 1 .. Len(nsWatch) : j > i => nsWatch[j].ns # n

(* The cached namespaces and the events on their way add up to what is stored. *)
NamespacesSynced ==
    \A n \in Namespaces :
        /\ NamespacePending(n) \/ nsCache[n] = nsApi[n]
        /\ \A i \in 1 .. Len(nsWatch) :
              IsLastNamespaceEvent(n, i) => nsWatch[i].obj = nsApi[n]

(* The cached pools and profiles and the events on their way add up to what is there. *)
RefsSynced ==
    \A r \in Refs :
        IF refWatch[r] = <<>> THEN r \in refCache <=> r \in refs
        ELSE refWatch[r][Len(refWatch[r])] = (r \in refs)

(* A pool or a profile that the policy o refers to. *)
RefersTo(o, r) == r = o.spec.pool \/ r = o.spec.profile

(* Something is on its way that will wake policy p. *)
Stirred(p) ==
    \/ Pending(p)
    \/ /\ api[p] # None
       /\ \/ \E n \in Namespaces : n \in api[p].spec.selector /\ NamespacePending(n)
          \/ \E r \in Refs : RefersTo(api[p], r) /\ refWatch[r] # <<>>

(* The selected namespaces outside of rest that exist carry the policy p. *)
Annotated(p, rest) == \A n \in Targets(p) \ rest : Carries(n, p)

(* Of policy p, what a status with this reason and this count says is the case. *)
Truthful(p, reason, applied) ==
    /\ reason = "Enforced" =>
          Annotated(p, {}) /\ applied = Cardinality(Targets(p)) /\ RefsExist(p)
    /\ reason = "Malformed" => api[p].spec.flaw # None
    /\ reason = "PoolMissing" => api[p].spec.pool \notin refs
    /\ reason = "ProfileMissing" => api[p].spec.profile \notin refs \cup {None}
    /\ reason = "Conflict" => Contested(p) # {}
    /\ reason \in UnreadableReasons => faults > 1
    /\ reason # "EnforcementError"

(* What the status of policy p says, if it has one, is the case. *)
StatusTrue(p) ==
    api[p] # None /\ api[p].status.cond # None =>
        Truthful(p, api[p].status.cond.reason, api[p].status.applied)

(* The status of every policy is true, or the policy will be looked at again. *)
StatusesTrue ==
    \A p \in Policies : Stirred(p) \/ Reconciling(p) \/ StatusTrue(p)

(* What the worker's variables hold at the steps of enforcePolicy. *)
Enforcing ==
    /\ w.pc \in {"addFinalizer", "getPool", "getProfile", "list", "remove"} => w.applied = 0
    /\ w.pc \in {"get", "annotate"} => w.todo \subseteq w.obj.spec.selector
    /\ w.pc = "get" => w.copies = NoCopies
    /\ w.pc = "annotate" => AtHand \subseteq w.todo
    /\ w.pc = "status" /\ w.verdict.reason = "EnforcementError" => w.result = "backoff"

(* What the worker has found out so far about its policy p is the case. *)
WorkerRight(p) ==
    /\ w.pc = "getProfile" =>
          api[p].spec.flaw = None /\ api[p].spec.pool \in refs /\ api[p].spec.profile # None
    /\ w.pc \in {"list", "remove", "get", "annotate"} /\ ~ w.del => RefsExist(p)
    /\ w.pc \in {"get", "annotate"} =>
          /\ Annotated(p, w.todo)
          /\ w.applied = Cardinality(Targets(p) \ w.todo)
    /\ w.pc = "annotate" => \A n \in AtHand : w.copies[n] = nsApi[n]
    /\ w.pc = "status" =>
          \/ w.result = "backoff"
          \/ w.verdict.reason \in UnreadableReasons
          \/ Truthful(p, w.verdict.reason, w.applied)

(* The worker is in the right, or its policy will be looked at again. *)
WorkerTrue == w.pc # "idle" => Stirred(w.req) \/ WorkerRight(w.req)

(* The worker is about to report that a reference could not be read. *)
ReportsUnreadable == w.pc = "status" /\ w.verdict.reason \in UnreadableReasons

(****************************************************************************)
(* A status that says that a reference could not be read was caused by a    *)
(* fault, and the first such report is a change.                            *)
(****************************************************************************)
FaultsCounted ==
    /\ ReportsUnreadable => faults > 0
    /\ faults = 0 \/ (faults = 1 /\ ReportsUnreadable) =>
          \A p \in Policies : ~ Unreadable(p)

(* The inductive invariant behind the properties at rest. *)
RestInv ==
    /\ NamespacesSynced
    /\ RefsSynced
    /\ Enforcing
    /\ FaultsCounted
    /\ WorkerTrue
    /\ StatusesTrue

-----------------------------------------------------------------------------
(* Steps. *)

(* A step that keeps the events of namespaces and adds one for what it changes. *)
NamespacesKept ==
    \A n \in Namespaces :
        NamespacePending(n) \/ nsApi'[n] # nsApi[n] => NamespacePending(n)'

(* A step that keeps the events of references and adds one for what it changes. *)
RefsKept ==
    \A r \in Refs :
        refWatch[r] # <<>> \/ ~ (r \in refs' <=> r \in refs) => refWatch'[r] # <<>>

(* A step that changes nothing of policy p nor of what the policy is about. *)
Undisturbed(p) ==
    /\ api'[p] = api[p]
    /\ \A n \in Namespaces : n \in api[p].spec.selector => nsApi'[n] = nsApi[n]
    /\ \A r \in Refs : RefersTo(api[p], r) => (r \in refs' <=> r \in refs)

(* After the step policy p is stirred, unless it was not and nothing was disturbed. *)
Calm(p) == api'[p] # None => Stirred(p)' \/ (~ Stirred(p) /\ Undisturbed(p))

(* No policy is disturbed without being stirred, and the faults only grow. *)
CalmStep == (\A p \in Policies : Calm(p)) /\ faults' >= faults

-----------------------------------------------------------------------------
(* What is stored of namespaces and references, and what the informers have of it. *)

(* A write to a namespace: its event, if any, is the namespace's last. *)
LEMMA NamespaceWriteSynced ==
    ASSUME TypeOK, NamespacesSynced, NEW n \in Namespaces, NEW o, NamespaceWrite(n, o),
           nsCache' = nsCache
    PROVE  NamespacesSynced' /\ NamespacesKept
<1>1. /\ nsApi' = [nsApi EXCEPT ![n] = o]
      /\ nsWatch' = IF o = nsApi[n] THEN nsWatch ELSE Append(nsWatch, [ns |-> n, obj |-> o])
  BY DEF NamespaceWrite
<1>2. nsWatch \in Seq(NamespaceEvents)
  BY DEF TypeOK
<1>3. nsApi'[n] = o /\ \A q \in Namespaces : q # n => nsApi'[q] = nsApi[q]
  BY <1>1 DEF TypeOK
<1>4. CASE o = nsApi[n]
  <2>1. nsApi' = nsApi /\ nsWatch' = nsWatch
    BY <1>1, <1>4 DEF TypeOK
  <2> QED
    BY <2>1 DEF NamespacesSynced, NamespacesKept, NamespacePending, IsLastNamespaceEvent
<1>5. CASE o # nsApi[n]
  <2>1. nsWatch' = Append(nsWatch, [ns |-> n, obj |-> o])
    BY <1>1, <1>5
  <2>2. Len(nsWatch) \in Nat /\ Len(nsWatch') = Len(nsWatch) + 1
    BY <1>2, <2>1, AppendProperties
  <2>3. /\ \A i \in 1 .. Len(nsWatch) : nsWatch'[i] = nsWatch[i]
        /\ nsWatch'[Len(nsWatch) + 1] = [ns |-> n, obj |-> o]
    BY <1>2, <2>1, AppendProperties
  <2>4. \A q \in Namespaces : NamespacePending(q) => NamespacePending(q)'
    BY <2>2, <2>3 DEF NamespacePending
  <2>5. NamespacePending(n)'
    BY <2>2, <2>3 DEF NamespacePending
  <2>6. ASSUME NEW q \in Namespaces, NEW i \in 1 .. Len(nsWatch'), IsLastNamespaceEvent(q, i)'
        PROVE  nsWatch'[i].obj = nsApi'[q]
    <3>1. CASE i = Len(nsWatch) + 1
      BY <1>3, <2>3, <2>6, <3>1 DEF IsLastNamespaceEvent
    <3>2. CASE i # Len(nsWatch) + 1
      <4>1. i \in 1 .. Len(nsWatch)
        BY <2>2, <3>2
      <4>2. q # n
        BY <2>2, <2>3, <2>6, <4>1 DEF IsLastNamespaceEvent
      <4>3. IsLastNamespaceEvent(q, i)
        BY <2>2, <2>3, <2>6, <4>1 DEF IsLastNamespaceEvent
      <4> QED
        BY <1>3, <2>3, <4>1, <4>2, <4>3 DEF NamespacesSynced
    <3> QED
      BY <3>1, <3>2
  <2>7. \A q \in Namespaces : NamespacePending(q)' \/ nsCache'[q] = nsApi'[q]
    BY <1>3, <2>4, <2>5 DEF NamespacesSynced
  <2>8. NamespacesSynced'
    BY <2>6, <2>7 DEF NamespacesSynced
  <2> QED
    BY <1>3, <2>4, <2>5, <2>8 DEF NamespacesKept
<1> QED
  BY <1>4, <1>5

(* A delivery: the cache takes over the event it consumes. *)
LEMMA DeliverNamespaceSynced ==
    ASSUME TypeOK, NamespacesSynced, DeliverNamespace
    PROVE  /\ NamespacesSynced'
           /\ \A n \in Namespaces :
                 NamespacePending(n) => NamespacePending(n)' \/ n = Head(nsWatch).ns
<1> DEFINE e == Head(nsWatch)
<1>1. /\ nsWatch \in Seq(NamespaceEvents) /\ nsWatch # <<>>
      /\ nsWatch' = Tail(nsWatch)
      /\ nsCache' = [nsCache EXCEPT ![e.ns] = e.obj]
      /\ nsApi' = nsApi
  BY DEF DeliverNamespace, TypeOK
<1>2. /\ Len(nsWatch) \in Nat \ {0}
      /\ Len(nsWatch') = Len(nsWatch) - 1
      /\ \A i \in 1 .. Len(nsWatch) - 1 : nsWatch'[i] = nsWatch[i + 1]
      /\ e = nsWatch[1]
      /\ e \in NamespaceEvents
  BY <1>1
<1>3. e.ns \in Namespaces
  BY <1>2 DEF NamespaceEvents
<1> HIDE DEF e
<1>4. ASSUME NEW q \in Namespaces, NamespacePending(q), q # e.ns
      PROVE  NamespacePending(q)'
  <2>1. PICK i \in 1 .. Len(nsWatch) : nsWatch[i].ns = q
    BY <1>4 DEF NamespacePending
  <2>2. i # 1
    BY <1>2, <1>4, <2>1
  <2>3. i - 1 \in 1 .. Len(nsWatch') /\ nsWatch'[i - 1] = nsWatch[i]
    BY <1>2, <2>1, <2>2
  <2> QED
    BY <2>1, <2>3 DEF NamespacePending
<1>5. ASSUME NEW q \in Namespaces, ~ NamespacePending(q)'
      PROVE  nsCache'[q] = nsApi'[q]
  <2>1. CASE q = e.ns
    <3>1. ASSUME NEW j \in 1 .. Len(nsWatch), j > 1
          PROVE  nsWatch[j].ns # q
      <4>1. j - 1 \in 1 .. Len(nsWatch') /\ nsWatch'[j - 1] = nsWatch[j]
        BY <1>2, <3>1
      <4> QED
        BY <1>5, <4>1 DEF NamespacePending
    <3>2. 1 \in 1 .. Len(nsWatch) /\ IsLastNamespaceEvent(q, 1)
      BY <1>2, <2>1, <3>1 DEF IsLastNamespaceEvent
    <3>3. e.obj = nsApi[q]
      BY <1>2, <3>2 DEF NamespacesSynced
    <3> QED
      BY <1>1, <1>3, <2>1, <3>3 DEF TypeOK
  <2>2. CASE q # e.ns
    BY <1>1, <1>3, <1>4, <1>5, <2>2 DEF NamespacesSynced, TypeOK
  <2> QED
    BY <2>1, <2>2
<1>6. ASSUME NEW q \in Namespaces, NEW i \in 1 .. Len(nsWatch'), IsLastNamespaceEvent(q, i)'
      PROVE  nsWatch'[i].obj = nsApi'[q]
  <2>1. i + 1 \in 1 .. Len(nsWatch) /\ nsWatch'[i] = nsWatch[i + 1]
    BY <1>2
  <2>2. ASSUME NEW j \in 1 .. Len(nsWatch), j > i + 1
        PROVE  nsWatch[j].ns # q
    <3>1. j - 1 \in 1 .. Len(nsWatch') /\ j - 1 > i /\ nsWatch'[j - 1] = nsWatch[j]
      BY <1>2, <2>2
    <3> QED
      BY <1>6, <3>1 DEF IsLastNamespaceEvent
  <2>3. IsLastNamespaceEvent(q, i + 1)
    BY <1>6, <2>1, <2>2 DEF IsLastNamespaceEvent
  <2> QED
    BY <1>1, <2>1, <2>3 DEF NamespacesSynced
<1>7. NamespacesSynced'
  BY <1>5, <1>6 DEF NamespacesSynced
<1> QED
  BY <1>4, <1>7 DEF e

(* Steps that leave namespaces, or references, and their events alone. *)
LEMMA UnchangedNamespaces ==
    ASSUME NamespacesSynced, UNCHANGED <<nsApi, nsWatch, nsCache>>
    PROVE  NamespacesSynced' /\ NamespacesKept
BY DEF NamespacesSynced, NamespacesKept, NamespacePending, IsLastNamespaceEvent

LEMMA UnchangedRefs ==
    ASSUME RefsSynced, UNCHANGED <<refs, refWatch, refCache>>
    PROVE  RefsSynced' /\ RefsKept
BY DEF RefsSynced, RefsKept

(* The users create or delete a pool or a profile. *)
LEMMA ChangeRefSynced ==
    ASSUME TypeOK, RefsSynced, NEW r \in Refs, ChangeRef(r), refCache' = refCache
    PROVE  RefsSynced' /\ RefsKept
<1>1. /\ refWatch[r] \in Seq(BOOLEAN) /\ refWatch \in [Refs -> Seq(BOOLEAN)]
      /\ refWatch' = [refWatch EXCEPT ![r] = Append(@, r \notin refs)]
      /\ refs' = IF r \in refs THEN refs \ {r} ELSE refs \cup {r}
      /\ (r \notin refs) \in BOOLEAN
  BY DEF ChangeRef, TypeOK
<1>2. /\ refWatch'[r] = Append(refWatch[r], r \notin refs)
      /\ \A q \in Refs : q # r => refWatch'[q] = refWatch[q] /\ (q \in refs' <=> q \in refs)
      /\ r \in refs' <=> r \notin refs
  BY <1>1
<1> DEFINE s == refWatch[r]
           b == r \notin refs
           t == Append(s, b)
<1>3. s \in Seq(BOOLEAN) /\ b \in BOOLEAN
  BY <1>1
<1> HIDE DEF s, b
<1>4. t # <<>> /\ t[Len(t)] = b
  BY <1>3, AppendProperties
<1>5. refWatch'[r] = t
  BY <1>2 DEF s, b
<1> HIDE DEF t
<1>6. refWatch'[r] # <<>> /\ refWatch'[r][Len(refWatch'[r])] = (r \in refs')
  BY <1>2, <1>4, <1>5 DEF b
<1> QED
  BY <1>2, <1>6 DEF RefsSynced, RefsKept

(* The event of a pool or a profile is delivered. *)
LEMMA DeliverRefSynced ==
    ASSUME TypeOK, RefsSynced, NEW r \in Refs, DeliverRef(r)
    PROVE  /\ RefsSynced'
           /\ \A q \in Refs : q # r => refWatch'[q] = refWatch[q]
<1>1. /\ refWatch[r] \in Seq(BOOLEAN) /\ refWatch \in [Refs -> Seq(BOOLEAN)]
      /\ refWatch[r] # <<>>
      /\ refWatch' = [refWatch EXCEPT ![r] = Tail(@)]
      /\ refCache' = IF Head(refWatch[r]) THEN refCache \cup {r} ELSE refCache \ {r}
      /\ refs' = refs
  BY DEF DeliverRef, TypeOK
<1>2. /\ refWatch'[r] = Tail(refWatch[r])
      /\ \A q \in Refs : q # r =>
            refWatch'[q] = refWatch[q] /\ (q \in refCache' <=> q \in refCache)
      /\ r \in refCache' <=> Head(refWatch[r])
  BY <1>1
<1> DEFINE s == refWatch[r]
<1>3. s \in Seq(BOOLEAN) /\ s # <<>>
  BY <1>1
<1> HIDE DEF s
<1>4. /\ Tail(s) = <<>> => Head(s) = s[Len(s)]
      /\ Tail(s) # <<>> => Tail(s)[Len(Tail(s))] = s[Len(s)]
  <2>1. /\ Len(s) \in Nat \ {0} /\ Tail(s) \in Seq(BOOLEAN) /\ Len(Tail(s)) = Len(s) - 1
        /\ \A i \in 1 .. Len(Tail(s)) : Tail(s)[i] = s[i + 1]
        /\ Head(s) = s[1]
    BY <1>3, HeadTailProperties
  <2>2. Tail(s) = <<>> <=> Len(Tail(s)) = 0
    BY <2>1, EmptySeq
  <2>3. CASE Tail(s) = <<>>
    BY <2>1, <2>2, <2>3
  <2>4. CASE Tail(s) # <<>>
    <3>1. Len(s) - 1 \in 1 .. Len(Tail(s)) /\ (Len(s) - 1) + 1 = Len(s)
      BY <2>1, <2>2, <2>4
    <3>2. Tail(s)[Len(s) - 1] = s[Len(s)]
      BY <2>1, <3>1
    <3> QED
      BY <2>1, <2>4, <3>2
  <2> QED
    BY <2>3, <2>4
<1>5. s[Len(s)] = (r \in refs)
  BY <1>3 DEF RefsSynced, s
<1>6. IF refWatch'[r] = <<>> THEN r \in refCache' <=> r \in refs'
      ELSE refWatch'[r][Len(refWatch'[r])] = (r \in refs')
  BY <1>1, <1>2, <1>4, <1>5 DEF s
<1> QED
  BY <1>1, <1>2, <1>6 DEF RefsSynced

-----------------------------------------------------------------------------
(* Nobody is disturbed without being stirred. *)

(* Steps that keep what is pending and all events, and add one for what they change. *)
LEMMA KeptCalm ==
    ASSUME Kept, NamespacesKept, RefsKept
    PROVE  \A p \in Policies : Calm(p)
<1> SUFFICES ASSUME NEW p \in Policies, api'[p] # None, ~ Stirred(p)'
             PROVE  ~ Stirred(p) /\ Undisturbed(p)
  BY DEF Calm
<1>1. ~ Pending(p)'
  BY DEF Stirred
<1>2. ~ Pending(p) /\ api'[p] = api[p]
  BY <1>1 DEF Kept
<1>3. ASSUME NEW n \in Namespaces, n \in api[p].spec.selector
      PROVE  ~ NamespacePending(n) /\ nsApi'[n] = nsApi[n]
  <2>1. ~ NamespacePending(n)'
    BY <1>2, <1>3 DEF Stirred
  <2> QED
    BY <2>1 DEF NamespacesKept
<1>4. ASSUME NEW r \in Refs, RefersTo(api[p], r)
      PROVE  refWatch[r] = <<>> /\ (r \in refs' <=> r \in refs)
  <2>1. refWatch'[r] = <<>>
    BY <1>2, <1>4 DEF Stirred, RefersTo
  <2> QED
    BY <2>1 DEF RefsKept
<1>5. ~ Stirred(p)
  BY <1>2, <1>3, <1>4 DEF Stirred
<1> QED
  BY <1>2, <1>3, <1>4, <1>5 DEF Undisturbed

(* The event of a namespace wakes the policies that select it, as far as they are known. *)
LEMMA DeliverNamespaceCalm ==
    ASSUME TypeInv, WorkInv, NamespacesSynced, Kept, DeliverNamespace
    PROVE  \A p \in Policies : Calm(p)
<1> SUFFICES ASSUME NEW p \in Policies, api'[p] # None, ~ Stirred(p)'
             PROVE  ~ Stirred(p) /\ Undisturbed(p)
  BY DEF Calm
<1>1. /\ ~ Pending(p)' /\ ~ Pending(p) /\ api'[p] = api[p]
      /\ UNCHANGED <<nsApi, refs, refWatch>>
  BY DEF Stirred, Kept, DeliverNamespace, refVars, apiVars
<1>2. cache[p] = api[p] /\ cache[p] # None
  BY <1>1 DEF WorkInv, Synced, Pending
<1>3. queue' = EnqueueAll(mapNamespaceToPolicies(Head(nsWatch).ns)) /\ queue'[p] = "none"
  BY <1>1 DEF DeliverNamespace, Pending
<1>4. Head(nsWatch).ns \notin api[p].spec.selector
  BY <1>2, <1>3 DEF EnqueueAll, mapNamespaceToPolicies, Listed
<1>5. ASSUME NEW n \in Namespaces, n \in api[p].spec.selector
      PROVE  ~ NamespacePending(n)
  <2>1. ~ NamespacePending(n)'
    BY <1>1, <1>5 DEF Stirred
  <2> QED
    BY <1>4, <1>5, <2>1, DeliverNamespaceSynced DEF TypeInv
<1>6. ASSUME NEW r \in Refs, RefersTo(api[p], r)
      PROVE  refWatch[r] = <<>>
  BY <1>1, <1>6 DEF Stirred, RefersTo
<1>7. ~ Stirred(p)
  BY <1>1, <1>5, <1>6 DEF Stirred
<1> QED
  BY <1>1, <1>7 DEF Undisturbed

(* The event of a pool or a profile wakes the policies that refer to it. *)
LEMMA DeliverRefCalm ==
    ASSUME TypeInv, WorkInv, RefsSynced, Kept, NEW r \in Refs, DeliverRef(r)
    PROVE  \A p \in Policies : Calm(p)
<1> SUFFICES ASSUME NEW p \in Policies, api'[p] # None, ~ Stirred(p)'
             PROVE  ~ Stirred(p) /\ Undisturbed(p)
  BY DEF Calm
<1>1. /\ ~ Pending(p)' /\ ~ Pending(p) /\ api'[p] = api[p]
      /\ UNCHANGED <<nsApi, nsWatch, refs>>
  BY DEF Stirred, Kept, DeliverRef, nsVars, apiVars
<1>2. cache[p] = api[p] /\ cache[p] # None
  BY <1>1 DEF WorkInv, Synced, Pending
<1>3. queue' = EnqueueAll(mapUpstreamPoolToPolicies(r) \cup mapCacheProfileToPolicies(r))
      /\ queue'[p] = "none"
  BY <1>1 DEF DeliverRef, Pending
<1>4. ~ RefersTo(api[p], r)
  BY <1>2, <1>3
     DEF EnqueueAll, mapUpstreamPoolToPolicies, mapCacheProfileToPolicies, Listed, RefersTo
<1>5. ASSUME NEW n \in Namespaces, n \in api[p].spec.selector
      PROVE  ~ NamespacePending(n)
  BY <1>1, <1>5 DEF Stirred, NamespacePending
<1>6. ASSUME NEW q \in Refs, RefersTo(api[p], q)
      PROVE  refWatch[q] = <<>>
  <2>1. refWatch'[q] = <<>>
    BY <1>1, <1>6 DEF Stirred, RefersTo
  <2> QED
    BY <1>4, <1>6, <2>1, DeliverRefSynced DEF TypeInv
<1>7. ~ Stirred(p)
  BY <1>1, <1>5, <1>6 DEF Stirred
<1> QED
  BY <1>1, <1>7 DEF Undisturbed

-----------------------------------------------------------------------------
(* What is true of an undisturbed policy stays true. *)
LEMMA SameTruth ==
    ASSUME TypeInv, NEW p \in Policies, api[p] # None, Undisturbed(p)
    PROVE  /\ Targets(p)' = Targets(p)
           /\ Contested(p)' = Contested(p)
           /\ RefsExist(p)' = RefsExist(p)
           /\ \A n \in Targets(p) : Carries(n, p)' = Carries(n, p)
           /\ api[p].spec.pool \in refs' <=> api[p].spec.pool \in refs
           /\ api[p].spec.profile # None =>
                (api[p].spec.profile \in refs' <=> api[p].spec.profile \in refs)
<1>1. api[p] \in PolicyObjects
  BY DEF TypeInv, TypeOK
<1>2. /\ api[p].spec.selector \in SUBSET Namespaces
      /\ api[p].spec.pool \in UpstreamPools
      /\ api[p].spec.profile \in CacheProfiles \cup {None}
  BY <1>1, ObjectFacts
<1>3. api'[p] = api[p] /\ \A n \in api[p].spec.selector : nsApi'[n] = nsApi[n]
  BY <1>2 DEF Undisturbed
<1>4. /\ api[p].spec.pool \in refs' <=> api[p].spec.pool \in refs
      /\ api[p].spec.profile # None =>
           (api[p].spec.profile \in refs' <=> api[p].spec.profile \in refs)
  BY <1>2 DEF Undisturbed, RefersTo, Refs
<1>5. Targets(p)' = Targets(p)
  BY <1>3 DEF Targets
<1>6. Contested(p)' = Contested(p)
  BY <1>3, <1>5 DEF Contested, Targets
<1>7. \A n \in Targets(p) : Carries(n, p)' = Carries(n, p)
  BY <1>3 DEF Carries, Targets
<1>8. RefsExist(p)' = RefsExist(p)
  BY <1>3, <1>4 DEF RefsExist
<1> QED
  BY <1>4, <1>5, <1>6, <1>7, <1>8

LEMMA TruthStays ==
    ASSUME TypeInv, faults' \in Nat, faults' >= faults, NEW p \in Policies, api[p] # None,
           Undisturbed(p), NEW reason, NEW applied, Truthful(p, reason, applied)
    PROVE  Truthful(p, reason, applied)'
<1>1. api'[p] = api[p] /\ faults \in Nat
  BY DEF Undisturbed, TypeInv, TypeOK
<1>2. Annotated(p, {}) => Annotated(p, {})'
  BY SameTruth DEF Annotated
<1> QED
  BY <1>1, <1>2, SameTruth DEF Truthful

(* The statuses stay true, unless a reconcile ends without having seen to that. *)
LEMMA StatusesStayTrue ==
    ASSUME TypeInv, TypeInv', RestInv, CalmStep,
           \A p \in Policies :
              Reconciling(p) => Stirred(p)' \/ Reconciling(p)' \/ StatusTrue(p)'
    PROVE  StatusesTrue'
<1> SUFFICES ASSUME NEW p \in Policies, ~ Stirred(p)', ~ Reconciling(p), api'[p] # None,
                    api'[p].status.cond # None
             PROVE  Truthful(p, api[p].status.cond.reason, api[p].status.applied)'
  BY DEF StatusesTrue, StatusTrue
<1>1. ~ Stirred(p) /\ Undisturbed(p)
  BY DEF CalmStep, Calm
<1>2. api'[p] = api[p]
  BY <1>1 DEF Undisturbed
<1> DEFINE reason == api[p].status.cond.reason
           applied == api[p].status.applied
<1>3. Truthful(p, reason, applied)
  BY <1>1, <1>2 DEF RestInv, StatusesTrue, StatusTrue
<1>4. faults' \in Nat /\ faults' >= faults
  BY DEF TypeInv, TypeOK, CalmStep
<1>5. PICK r, a : r = reason /\ a = applied
  OBVIOUS
<1>6. Truthful(p, r, a)'
  <2>1. Truthful(p, r, a)
    BY <1>3, <1>5
  <2> QED
    BY <1>1, <1>2, <1>4, <2>1, TruthStays
<1>7. r = api'[p].status.cond.reason /\ a = api'[p].status.applied
  BY <1>2, <1>5
<1> QED
  BY <1>6, <1>7

-----------------------------------------------------------------------------
(* The worker. *)

(* The worker's policy is undisturbed and not stirred by a step. *)
Unstirred(p) ==
    /\ api[p] # None
    /\ ~ Stirred(p)
    /\ ~ Stirred(p)'
    /\ Undisturbed(p)

(* The worker of a policy that is not stirred has fresh copies of everything. *)
LEMMA FreshCopies ==
    ASSUME TypeInv, WorkInv, RestInv, w.pc # "idle", NEW p \in Policies, w.req = p, ~ Stirred(p)
    PROVE  /\ api[p] \in PolicyObjects /\ api[p] # None
           /\ w.obj = api[p] /\ w.del = w.obj.deleting
           /\ WorkerRight(p)
           /\ \A n \in api[p].spec.selector : n \in Namespaces /\ nsCache[n] = nsApi[n]
           /\ api[p].spec.pool \in refCache <=> api[p].spec.pool \in refs
           /\ api[p].spec.profile # None =>
                (api[p].spec.profile \in refCache <=> api[p].spec.profile \in refs)
<1>1. ~ Pending(p)
  BY DEF Stirred
<1>2. w.obj = api[p] /\ w.del = w.obj.deleting /\ w.obj \in PolicyObjects
  BY <1>1, BusyFacts DEF WorkInv, HoldsLatest
<1>3. api[p] # None /\ WorkerRight(p)
  BY <1>2, NoneAssumption DEF RestInv, WorkerTrue
<1>4. /\ api[p].spec.selector \in SUBSET Namespaces
      /\ api[p].spec.pool \in UpstreamPools
      /\ api[p].spec.profile \in CacheProfiles \cup {None}
  BY <1>2, ObjectFacts
<1>5. \A n \in api[p].spec.selector : n \in Namespaces /\ nsCache[n] = nsApi[n]
  BY <1>3, <1>4 DEF Stirred, RestInv, NamespacesSynced
<1>6. \A r \in Refs : RefersTo(api[p], r) => (r \in refCache <=> r \in refs)
  BY <1>3 DEF Stirred, RestInv, RefsSynced
<1> QED
  BY <1>2, <1>3, <1>4, <1>5, <1>6 DEF RefersTo, Refs

(* A policy that is not stirred after a step of, or beside, its reconcile. *)
LEMMA StillReconciled ==
    ASSUME TypeInv', WorkInv', CalmStep, w'.pc # "idle", NEW p \in Policies, w'.req = p,
           ~ Stirred(p)'
    PROVE  Unstirred(p)
<1>1. w'.obj = api'[p]
  BY DEF Stirred, WorkInv, HoldsLatest
<1>2. w'.obj \in PolicyObjects
  BY DEF TypeInv, Fits
<1>3. api'[p] # None
  BY <1>1, <1>2, NoneAssumption
<1> QED
  BY <1>3 DEF CalmStep, Calm, Unstirred, Undisturbed

(* No more is reported unreadable than before, and no fault is taken back. *)
LEMMA FaultsStayCounted ==
    ASSUME TypeInv, TypeInv', FaultsCounted, faults' >= faults,
           \A p \in Policies : Unreadable(p)' => Unreadable(p),
           ReportsUnreadable' => ReportsUnreadable
    PROVE  FaultsCounted'
<1>1. faults \in Nat /\ faults' \in Nat
  BY DEF TypeInv, TypeOK
<1>2. ReportsUnreadable' => faults' > 0
  BY <1>1 DEF FaultsCounted
<1>3. ASSUME faults' = 0 \/ (faults' = 1 /\ ReportsUnreadable')
      PROVE  faults = 0 \/ (faults = 1 /\ ReportsUnreadable)
  BY <1>1, <1>3 DEF FaultsCounted
<1> QED
  BY <1>2, <1>3 DEF FaultsCounted

LEMMA SameStatuses == ASSUME api' = api PROVE \A p \in Policies : Unreadable(p)' => Unreadable(p)
BY DEF Unreadable

(* What the worker has found out stays true while nothing disturbs its policy. *)
LEMMA RightStays ==
    ASSUME TypeInv, TypeInv', WorkInv, RestInv, w.pc # "idle", w' = w, faults' >= faults,
           NEW p \in Policies, w.req = p, Unstirred(p)
    PROVE  WorkerRight(p)'
<1>1. /\ api[p] # None /\ Undisturbed(p) /\ api'[p] = api[p]
      /\ faults' \in Nat
  BY DEF Unstirred, Undisturbed, TypeInv, TypeOK
<1>2. w.obj = api[p] /\ WorkerRight(p) /\ api[p].spec.selector \in SUBSET Namespaces
  BY FreshCopies, ObjectFacts DEF Unstirred
<1>3. PICK reason, applied : reason = w.verdict.reason /\ applied = w.applied
  OBVIOUS
<1>4. Truthful(p, reason, applied) => Truthful(p, reason, applied)'
  BY <1>1, TruthStays
<1>5. Annotated(p, w.todo) => Annotated(p, w.todo)'
  BY <1>1, SameTruth DEF Annotated
<1>6. w.pc = "annotate" => \A n \in AtHand : nsApi'[n] = nsApi[n]
  <2> SUFFICES ASSUME w.pc = "annotate", NEW n \in AtHand PROVE nsApi'[n] = nsApi[n]
    OBVIOUS
  <2>1. n \in api[p].spec.selector
    BY <1>2 DEF RestInv, Enforcing
  <2> QED
    BY <1>1, <1>2, <2>1 DEF Undisturbed
<1>7. AtHand' = AtHand
  BY DEF AtHand
<1>8. w.pc = "status" /\ Truthful(p, w.verdict.reason, w.applied) =>
          Truthful(p, w.verdict.reason, w.applied)'
  BY <1>3, <1>4
<1> QED
  BY <1>1, <1>2, <1>5, <1>6, <1>7, <1>8, SameTruth DEF WorkerRight

-----------------------------------------------------------------------------
(* How the invariant is kept by a step that the worker takes no part in. *)
LEMMA OthersRest ==
    ASSUME TypeInv, TypeInv', WorkInv, WorkInv', RestInv, CalmStep,
           NamespacesSynced', RefsSynced', w' = w,
           \A p \in Policies : Unreadable(p)' => Unreadable(p)
    PROVE  RestInv'
<1>1. Enforcing'
  BY DEF RestInv, Enforcing, AtHand
<1>2. FaultsCounted'
  BY FaultsStayCounted DEF RestInv, ReportsUnreadable, CalmStep
<1>3. WorkerTrue'
  <2>1. CASE w.pc = "idle"
    BY <2>1 DEF WorkerTrue
  <2>2. CASE w.pc # "idle"
    <3>1. PICK p \in Policies : p = w.req
      BY <2>2, BusyFacts
    <3>2. Stirred(p)' \/ WorkerRight(p)'
      BY <2>2, <3>1, StillReconciled, RightStays DEF CalmStep
    <3> QED
      BY <3>1, <3>2 DEF WorkerTrue
  <2> QED
    BY <2>1, <2>2
<1>4. StatusesTrue'
  BY StatusesStayTrue DEF Reconciling
<1> QED
  BY <1>1, <1>2, <1>3, <1>4 DEF RestInv

(* How it is kept when the worker goes on. *)
LEMMA GoesOnRest ==
    ASSUME TypeInv, TypeInv', WorkInv, WorkInv', RestInv, CalmStep,
           NamespacesSynced', RefsSynced', Enforcing', FaultsCounted',
           w.pc # "idle", w'.pc # "idle", NEW p \in Policies, w.req = p, w'.req = p,
           Unstirred(p) => WorkerRight(p)'
    PROVE  RestInv'
<1>1. Stirred(p)' \/ WorkerRight(p)'
  BY StillReconciled
<1>2. WorkerTrue'
  BY <1>1 DEF WorkerTrue
<1>3. StatusesTrue'
  BY StatusesStayTrue DEF Reconciling
<1> QED
  BY <1>2, <1>3 DEF RestInv

(* How it is kept when Reconcile returns. *)
LEMMA ReturnRest ==
    ASSUME TypeInv, TypeInv', WorkInv, RestInv, CalmStep, NamespacesSynced', RefsSynced',
           FaultsCounted', w.pc # "idle", w' = Idle, NEW p \in Policies, w.req = p,
           Stirred(p)' \/ StatusTrue(p)'
    PROVE  RestInv'
<1>1. Enforcing' /\ WorkerTrue'
  BY DEF Enforcing, WorkerTrue, Idle
<1>2. StatusesTrue'
  BY StatusesStayTrue DEF Reconciling
<1> QED
  BY <1>1, <1>2 DEF RestInv

(* How it is kept when Reconcile returns an error: its policy is looked at again. *)
LEMMA ErrorRest ==
    ASSUME TypeInv, TypeInv', WorkInv, RestInv, CalmStep, NamespacesSynced', RefsSynced',
           FaultsCounted', w.pc # "idle", ReturnError
    PROVE  RestInv'
<1>1. PICK p \in Policies : p = w.req
  BY BusyFacts
<1>2. queue'[p] # "none" /\ w' = Idle
  BY <1>1 DEF ReturnError, Return, TypeInv, TypeOK
<1>3. Stirred(p)'
  BY <1>2 DEF Stirred, Pending
<1> QED
  BY <1>1, <1>2, <1>3, ReturnRest

-----------------------------------------------------------------------------
(* The users, the informers and restarts. *)

(* A write that leaves the status alone, or has none, reports nothing unreadable. *)
LEMMA StatusNotWritten ==
    ASSUME TypeInv, NEW p \in Policies, NEW o, ApiWrite(p, o),
           \/ o = None
           \/ o.status.cond = None
           \/ api[p] # None /\ o.status = api[p].status
    PROVE  \A q \in Policies : Unreadable(q)' => Unreadable(q)
<1>1. api'[p] = o /\ \A q \in Policies : q # p => api'[q] = api[q]
  BY DEF ApiWrite, TypeInv, TypeOK
<1> QED
  BY <1>1 DEF Unreadable

(* Editing a policy, asking for its deletion and its finalizer leave the status alone. *)
LEMMA SameStatus ==
    ASSUME NEW o \in PolicyObjects
    PROVE  /\ \A s \in Specs : [o EXCEPT !.spec = s, !.gen = @ + 1].status = o.status
           /\ AfterDelete(o) = None \/ AfterDelete(o).status = o.status
           /\ AfterRemoveFinalizer(o) = None \/ AfterRemoveFinalizer(o).status = o.status
           /\ [o EXCEPT !.fin = TRUE].status = o.status
<1>1. \A s \in Specs : [o EXCEPT !.spec = s, !.gen = @ + 1].status = o.status
  BY DEF PolicyObjects
<1>2. AfterDelete(o) = None \/ AfterDelete(o).status = o.status
  BY DEF PolicyObjects, AfterDelete
<1>3. AfterRemoveFinalizer(o) = None \/ AfterRemoveFinalizer(o).status = o.status
  BY DEF PolicyObjects, AfterRemoveFinalizer
<1>4. [o EXCEPT !.fin = TRUE].status = o.status
  BY DEF PolicyObjects
<1> QED
  BY <1>1, <1>2, <1>3, <1>4

LEMMA UsersRest ==
    ASSUME TypeInv, TypeInv', WorkInv, WorkInv', Kept, RestInv, Users
    PROVE  RestInv'
<1>1. /\ w' = w /\ faults' = faults /\ faults \in Nat
      /\ cache' = cache /\ nsCache' = nsCache /\ refCache' = refCache
  <2>1. UserOperation
    BY DEF Users, CreatePolicy, EditPolicy, DeletePolicy, ChangeNamespace, ChangeRef
  <2>2. faults \in Nat
    BY DEF TypeInv, TypeOK
  <2> QED
    BY <2>1, <2>2 DEF UserOperation, seenVars
<1>2. ASSUME NamespacesSynced', NamespacesKept, RefsSynced', RefsKept,
             \A p \in Policies : Unreadable(p)' => Unreadable(p)
      PROVE  RestInv'
  <2>1. CalmStep
    BY <1>1, <1>2, KeptCalm DEF CalmStep
  <2> QED
    BY <1>1, <1>2, <2>1, OthersRest
<1>3. ASSUME UNCHANGED <<nsVars, refVars>>, \A p \in Policies : Unreadable(p)' => Unreadable(p)
      PROVE  RestInv'
  BY <1>1, <1>2, <1>3, UnchangedNamespaces, UnchangedRefs DEF RestInv, nsVars, refVars
<1>4. ASSUME NEW p \in Policies, NEW s \in Specs, CreatePolicy(p, s)
      PROVE  RestInv'
  <2> DEFINE o == [life |-> lives[p] + 1, gen |-> 1, spec |-> s, fin |-> FALSE,
                   deleting |-> FALSE, status |-> [cond |-> None, applied |-> 0]]
  <2>1. ApiWrite(p, o) /\ o.status.cond = None
    BY <1>4 DEF CreatePolicy
  <2> HIDE DEF o
  <2>2. \A q \in Policies : Unreadable(q)' => Unreadable(q)
    BY <2>1, StatusNotWritten
  <2> QED
    BY <1>3, <1>4, <2>2 DEF CreatePolicy
<1>5. ASSUME NEW p \in Policies, NEW s \in Specs, EditPolicy(p, s)
      PROVE  RestInv'
  <2> DEFINE o == [api[p] EXCEPT !.spec = s, !.gen = @ + 1]
  <2>1. api[p] \in PolicyObjects /\ api[p] # None /\ ApiWrite(p, o)
    BY <1>5 DEF EditPolicy, TypeInv, TypeOK
  <2>2. o.status = api[p].status
    BY <2>1, SameStatus
  <2> HIDE DEF o
  <2>3. \A q \in Policies : Unreadable(q)' => Unreadable(q)
    BY <2>1, <2>2, StatusNotWritten
  <2> QED
    BY <1>3, <1>5, <2>3 DEF EditPolicy
<1>6. ASSUME NEW p \in Policies, DeletePolicy(p)
      PROVE  RestInv'
  <2>1. api[p] \in PolicyObjects /\ api[p] # None /\ ApiWrite(p, AfterDelete(api[p]))
    BY <1>6 DEF DeletePolicy, TypeInv, TypeOK
  <2>2. \A q \in Policies : Unreadable(q)' => Unreadable(q)
    BY <2>1, SameStatus, StatusNotWritten
  <2> QED
    BY <1>3, <1>6, <2>2 DEF DeletePolicy
<1>7. ASSUME NEW n \in Namespaces, ChangeNamespace(n)
      PROVE  RestInv'
  <2>1. PICK o : NamespaceWrite(n, o)
    BY <1>7 DEF ChangeNamespace
  <2>2. NamespacesSynced' /\ NamespacesKept
    BY <1>1, <2>1, NamespaceWriteSynced DEF RestInv, TypeInv
  <2>3. UNCHANGED <<api, refs, refWatch>>
    BY <1>7 DEF ChangeNamespace, apiVars, refVars
  <2> QED
    BY <1>1, <1>2, <2>2, <2>3, UnchangedRefs, SameStatuses DEF RestInv
<1>8. ASSUME NEW r \in Refs, ChangeRef(r)
      PROVE  RestInv'
  <2>1. UNCHANGED <<api, nsApi, nsWatch>>
    BY <1>8 DEF ChangeRef, apiVars, nsVars
  <2> QED
    BY <1>1, <1>2, <1>8, <2>1, ChangeRefSynced, UnchangedNamespaces, SameStatuses DEF RestInv, TypeInv
<1> QED
  BY <1>4, <1>5, <1>6, <1>7, <1>8 DEF Users

LEMMA SystemRest ==
    ASSUME TypeInv, TypeInv', WorkInv, WorkInv', Kept, RestInv,
           Deliver \/ \E p \in Policies : DelayOver(p) \/ GetFails(p)
    PROVE  RestInv'
<1>1. /\ w' = w /\ api' = api /\ nsApi' = nsApi /\ refs' = refs
      /\ faults \in Nat /\ faults' >= faults
  <2>1. faults \in Nat
    BY DEF TypeInv, TypeOK
  <2>2. faults' = faults \/ faults' = faults + 1
    BY DEF Deliver, DeliverPolicy, DeliverNamespace, DeliverRef, DelayOver, GetFails
  <2>3. w' = w /\ api' = api /\ nsApi' = nsApi /\ refs' = refs
    BY DEF Deliver, DeliverPolicy, DeliverNamespace, DeliverRef, DelayOver, GetFails, TakeKey,
           apiVars, nsVars, refVars, environmentVars
  <2>4. faults' >= faults
    BY <2>1, <2>2
  <2> QED
    BY <2>1, <2>3, <2>4
<1>2. ASSUME UNCHANGED <<nsWatch, nsCache>>
      PROVE  NamespacesSynced' /\ NamespacesKept
  BY <1>1, <1>2, UnchangedNamespaces DEF RestInv
<1>3. ASSUME UNCHANGED <<refWatch, refCache>>
      PROVE  RefsSynced' /\ RefsKept
  BY <1>1, <1>3, UnchangedRefs DEF RestInv
<1>4. ASSUME NamespacesSynced', RefsSynced', \A p \in Policies : Calm(p)
      PROVE  RestInv'
  BY <1>1, <1>4, OthersRest, SameStatuses DEF CalmStep
<1>5. CASE DeliverNamespace
  BY <1>3, <1>4, <1>5, DeliverNamespaceSynced, DeliverNamespaceCalm
     DEF RestInv, TypeInv, DeliverNamespace, refVars
<1>6. ASSUME NEW r \in Refs, DeliverRef(r)
      PROVE  RestInv'
  BY <1>2, <1>4, <1>6, DeliverRefSynced, DeliverRefCalm
     DEF RestInv, TypeInv, DeliverRef, nsVars
<1>7. CASE DeliverPolicy \/ \E p \in Policies : DelayOver(p) \/ GetFails(p)
  <2>1. UNCHANGED <<nsWatch, nsCache, refWatch, refCache>>
    BY <1>7 DEF DeliverPolicy, DelayOver, GetFails, TakeKey, nsVars, refVars, seenVars,
                environmentVars
  <2> QED
    BY <1>2, <1>3, <1>4, <2>1, KeptCalm
<1> QED
  BY <1>5, <1>6, <1>7 DEF Deliver

LEMMA RestartRest ==
    ASSUME TypeInv, TypeInv', WorkInv', RestInv, Restart,
           \A p \in Policies : api'[p] # None => Pending(p)'
    PROVE  RestInv'
<1>1. /\ api' = api /\ nsApi' = nsApi /\ nsCache' = nsApi /\ nsWatch' = <<>>
      /\ refs' = refs /\ refCache' = refs /\ refWatch' = [r \in Refs |-> <<>>]
      /\ w' = Idle /\ faults' = faults
  BY DEF Restart
<1>2. NamespacesSynced' /\ RefsSynced'
  BY <1>1 DEF NamespacesSynced, RefsSynced
<1>3. Enforcing' /\ WorkerTrue' /\ ~ ReportsUnreadable'
  BY <1>1 DEF Enforcing, WorkerTrue, ReportsUnreadable, Idle
<1>4. FaultsCounted'
  BY <1>1, <1>3 DEF RestInv, FaultsCounted, Unreadable
<1>5. StatusesTrue'
  BY DEF StatusesTrue, StatusTrue, Stirred
<1> QED
  BY <1>2, <1>3, <1>4, <1>5 DEF RestInv

(* Taking a key: what the worker starts with is true. *)
LEMMA StartRest ==
    ASSUME TypeInv, TypeInv', WorkInv, WorkInv', RestInv, NEW p \in Policies, Start(p)
    PROVE  RestInv'
<1>1. /\ UNCHANGED <<api, watch, nsApi, nsWatch, nsCache, refs, refWatch, refCache, faults>>
      /\ w.pc = "idle"
      /\ queue' = [queue EXCEPT ![p] = "none"]
  BY DEF Start, ReconcilePolicy, ReconcileNothing, TakeKey, environmentVars, seenVars,
         apiVars, nsVars, refVars
<1>2. NamespacesSynced' /\ RefsSynced'
  BY <1>1, UnchangedNamespaces, UnchangedRefs DEF RestInv
<1>3. ASSUME NEW q \in Policies, q # p
      PROVE  Stirred(q)' \/ StatusTrue(q)'
  <2>1. Stirred(q) \/ StatusTrue(q)
    BY <1>1 DEF RestInv, StatusesTrue, Reconciling
  <2>2. queue'[q] = queue[q]
    BY <1>1, <1>3 DEF TypeInv, TypeOK
  <2>3. Stirred(q)' <=> Stirred(q)
    BY <1>1, <2>2 DEF Stirred, Pending, EventPending, NamespacePending
  <2>4. StatusTrue(q) => StatusTrue(q)'
    BY <1>1 DEF StatusTrue, Truthful, Annotated, Targets, Carries, Contested, RefsExist
  <2> QED
    BY <2>1, <2>3, <2>4
<1>4. CASE ReconcilePolicy(p)
  <2>1. Idle \in Workers /\ Idle.applied = 0 /\ Idle.copies = NoCopies
    BY IdleFits DEF Fits, Idle
  <2>2. /\ w'.req = p /\ w'.del = cache[p].deleting /\ w'.applied = 0
        /\ w'.pc \in {"list", "getPool", "addFinalizer"}
        /\ w'.pc = "list" => cache[p].deleting
    BY <1>4, <2>1 DEF ReconcilePolicy, Workers, Steps
  <2>3. Enforcing' /\ ~ ReportsUnreadable'
    BY <2>2 DEF Enforcing, ReportsUnreadable
  <2>4. WorkerRight(p)'
    BY <2>2 DEF WorkerRight
  <2>5. WorkerTrue'
    BY <2>2, <2>4 DEF WorkerTrue
  <2>6. StatusesTrue'
    BY <1>3, <2>2 DEF StatusesTrue, Reconciling
  <2>7. FaultsCounted'
    BY <1>1, <2>3 DEF RestInv, FaultsCounted, Unreadable
  <2> QED
    BY <1>2, <2>3, <2>5, <2>6, <2>7 DEF RestInv
<1>5. CASE ReconcileNothing(p)
  <2>1. w' = w /\ (cache[p] # None => cache[p].deleting /\ ~ cache[p].fin)
    BY <1>5 DEF ReconcileNothing
  <2>2. Enforcing' /\ WorkerTrue' /\ ~ ReportsUnreadable'
    BY <1>1, <2>1 DEF Enforcing, WorkerTrue, ReportsUnreadable
  <2>3. Stirred(p)' \/ StatusTrue(p)'
    <3>1. CASE EventPending(p)
      BY <1>1, <3>1 DEF Stirred, Pending, EventPending
    <3>2. CASE ~ EventPending(p)
      BY <1>1, <2>1, <3>2 DEF WorkInv, Synced, DeletingHasFinalizer, StatusTrue
    <3> QED
      BY <3>1, <3>2
  <2>4. StatusesTrue'
    BY <1>3, <2>3 DEF StatusesTrue
  <2>5. FaultsCounted'
    BY <1>1, <2>2 DEF RestInv, FaultsCounted, Unreadable
  <2> QED
    BY <1>2, <2>2, <2>4, <2>5 DEF RestInv
<1> QED
  BY <1>4, <1>5 DEF Start

-----------------------------------------------------------------------------
(* The worker's steps. *)

(* What the worker holds when it is about to call setValidatedCondition. *)
LEMMA SetStatusFields ==
    ASSUME NEW x \in Workers, NEW v, NEW result
    PROVE  LET y == SetStatus(x, v, result)
           IN  /\ y.pc = "status" /\ y.verdict = v /\ y.result = result
               /\ y.req = x.req /\ y.obj = x.obj /\ y.del = x.del
               /\ y.applied = IF v.reason = "Enforced" THEN x.applied ELSE 0
BY DEF SetStatus, Workers

LEMMA SaysReason == \A reason, at, by : Says(reason, at, by).reason = reason
BY DEF Says

(* The worker reports a verdict: it is true, or will be reconsidered. *)
LEMMA SetStatusRight ==
    ASSUME TypeInv, w.pc # "idle", NEW v, NEW result, w' = SetStatus(w, v, result),
           v.reason = "EnforcementError" => result = "backoff"
    PROVE  /\ Enforcing'
           /\ ReportsUnreadable' <=> v.reason \in UnreadableReasons
           /\ w'.pc # "idle" /\ w'.req = w.req
           /\ \A p \in Policies :
                 result = "backoff" \/ v.reason \in UnreadableReasons => WorkerRight(p)'
<1>1. w \in Workers
  BY DEF TypeInv, TypeOK
<1>2. w'.pc = "status" /\ w'.verdict = v /\ w'.result = result /\ w'.req = w.req
  BY <1>1, SetStatusFields
<1>3. Enforcing'
  BY <1>2 DEF Enforcing
<1>4. ReportsUnreadable' <=> v.reason \in UnreadableReasons
  BY <1>2 DEF ReportsUnreadable
<1>5. ASSUME NEW p \in Policies, result = "backoff" \/ v.reason \in UnreadableReasons
      PROVE  WorkerRight(p)'
  BY <1>2, <1>5 DEF WorkerRight
<1> QED
  BY <1>2, <1>3, <1>4, <1>5

LEMMA VerdictRight ==
    ASSUME NEW p \in Policies, NEW reason, NEW applied,
           w'.pc = "status", w'.verdict.reason = reason, w'.applied = applied,
           Truthful(p, reason, applied)'
    PROVE  WorkerRight(p)'
<1>1. Truthful(p, w.verdict.reason, w.applied)'
  OBVIOUS
<1> QED
  BY <1>1 DEF WorkerRight

(* validateReferences: the pool. *)
LEMMA GetUpstreamPoolRest ==
    ASSUME TypeInv, TypeInv', WorkInv, WorkInv', RestInv, GetUpstreamPool,
           CalmStep, NamespacesSynced', RefsSynced'
    PROVE  RestInv'
<1>1. /\ w.pc = "getPool" /\ w \in Workers
      /\ UNCHANGED <<api, nsApi, refs, refCache, faults>>
  BY DEF GetUpstreamPool, TypeInv, TypeOK, apiVars, nsVars, environmentVars, refVars, seenVars
<1>2. PICK p \in Policies : p = w.req
  BY <1>1, BusyFacts
<1> DEFINE spec == w.obj.spec
<1>3. spec \in PolicySpecs
  BY <1>1, BusyFacts, ObjectFacts, PolicyAssumption
<1>4. /\ spec.flaw \in {None, "selector", "upstreamPoolRef", "cacheProfileRef"}
      /\ w.applied = 0
  BY <1>1, <1>3 DEF PolicySpecs, RestInv, Enforcing
<1>5. ASSUME NEW reason, w' = Refused(w, reason), reason \in {"Malformed", "PoolMissing"},
             Unstirred(p) => Truthful(p, reason, 0)'
      PROVE  RestInv'
  <2>1. w' = SetStatus(w, Says(reason, None, None), "none")
    BY <1>5 DEF Refused
  <2>2. Says(reason, None, None).reason = reason
    BY SaysReason
  <2>3. Enforcing' /\ ~ ReportsUnreadable' /\ w'.pc # "idle" /\ w'.req = p
    BY <1>1, <1>2, <1>5, <2>1, <2>2, SetStatusRight DEF UnreadableReasons
  <2>4. w'.pc = "status" /\ w'.verdict.reason = reason /\ w'.applied = 0
    BY <1>1, <1>5, <2>1, <2>2, SetStatusFields
  <2>5. FaultsCounted'
    BY <1>1, <2>3, FaultsStayCounted, SameStatuses DEF RestInv, CalmStep
  <2>6. Unstirred(p) => WorkerRight(p)'
    BY <1>1, <1>5, <2>4, VerdictRight
  <2> QED
    BY <1>1, <1>2, <2>3, <2>5, <2>6, GoesOnRest
<1>6. Unstirred(p) =>
        /\ api[p].spec = spec /\ api'[p].spec = spec
        /\ spec.pool \in refCache <=> spec.pool \in refs
  BY <1>1, <1>2, FreshCopies DEF Unstirred
<1> HIDE DEF spec
<1>7. CASE spec.flaw \in {"selector", "upstreamPoolRef"}
  <2>1. w' = Refused(w, "Malformed")
    BY <1>7 DEF GetUpstreamPool, spec
  <2>2. Unstirred(p) => Truthful(p, "Malformed", 0)'
    BY <1>6, <1>7, NoneAssumption DEF Truthful, UnreadableReasons
  <2> QED
    BY <1>5, <2>1, <2>2
<1>8. CASE spec.flaw \notin {"selector", "upstreamPoolRef"} /\ spec.pool \notin refCache
  <2>1. w' = Refused(w, "PoolMissing")
    BY <1>8 DEF GetUpstreamPool, spec
  <2>2. Unstirred(p) => Truthful(p, "PoolMissing", 0)'
    BY <1>1, <1>6, <1>8 DEF Truthful, UnreadableReasons
  <2> QED
    BY <1>5, <2>1, <2>2
<1>9. CASE /\ spec.flaw \notin {"selector", "upstreamPoolRef"} /\ spec.pool \in refCache
           /\ spec.flaw = "cacheProfileRef"
  <2>1. w' = Refused(w, "Malformed")
    BY <1>9 DEF GetUpstreamPool, spec
  <2>2. Unstirred(p) => Truthful(p, "Malformed", 0)'
    BY <1>6, <1>9, NoneAssumption DEF Truthful, UnreadableReasons
  <2> QED
    BY <1>5, <2>1, <2>2
<1>10. CASE /\ spec.flaw \notin {"selector", "upstreamPoolRef"} /\ spec.pool \in refCache
            /\ spec.flaw # "cacheProfileRef"
  <2> DEFINE pc == IF spec.profile = None THEN "list" ELSE "getProfile"
  <2>1. w' = [w EXCEPT !.pc = pc]
    BY <1>10 DEF GetUpstreamPool, spec
  <2>2. pc \in {"list", "getProfile"} /\ pc \in Steps
    BY DEF Steps
  <2>3. /\ w'.pc = pc /\ w'.req = p /\ w'.applied = 0
    BY <1>1, <1>2, <1>4, <2>1, <2>2 DEF Workers
  <2>4. Enforcing' /\ ~ ReportsUnreadable' /\ w'.pc # "idle"
    BY <2>2, <2>3 DEF Enforcing, ReportsUnreadable
  <2>5. spec.flaw = None
    BY <1>4, <1>10
  <2>6. ASSUME Unstirred(p) PROVE WorkerRight(p)'
    <3>1. spec.pool \in refs'
      BY <1>1, <1>6, <1>10, <2>6
    <3>2. CASE spec.profile = None
      <4>1. RefsExist(p)'
        BY <1>6, <2>5, <2>6, <3>1, <3>2 DEF RefsExist
      <4> QED
        BY <2>3, <3>2, <4>1 DEF WorkerRight
    <3>3. CASE spec.profile # None
      BY <1>6, <2>3, <2>5, <2>6, <3>1, <3>3 DEF WorkerRight
    <3> QED
      BY <3>2, <3>3
  <2>7. FaultsCounted'
    BY <1>1, <2>4, FaultsStayCounted, SameStatuses DEF RestInv, CalmStep
  <2> QED
    BY <1>1, <1>2, <2>3, <2>4, <2>6, <2>7, GoesOnRest
<1> QED
  BY <1>7, <1>8, <1>9, <1>10

(* validateReferences: the profile. *)
LEMMA GetCacheProfileRest ==
    ASSUME TypeInv, TypeInv', WorkInv, WorkInv', RestInv, GetCacheProfile,
           CalmStep, NamespacesSynced', RefsSynced'
    PROVE  RestInv'
<1>1. /\ w.pc = "getProfile" /\ w \in Workers /\ w.applied = 0
      /\ UNCHANGED <<api, nsApi, refs, refCache, faults>>
  BY DEF GetCacheProfile, TypeInv, TypeOK, apiVars, nsVars, environmentVars, refVars, seenVars,
         RestInv, Enforcing
<1>2. PICK p \in Policies : p = w.req
  BY <1>1, BusyFacts
<1> DEFINE spec == w.obj.spec
<1>3. Unstirred(p) =>
        /\ api[p].spec = spec /\ api'[p].spec = spec
        /\ spec.flaw = None /\ spec.pool \in refs /\ spec.profile # None
        /\ spec.profile \in refCache <=> spec.profile \in refs
  BY <1>1, <1>2, FreshCopies DEF Unstirred, WorkerRight
<1> HIDE DEF spec
<1>4. CASE spec.profile \in refCache
  <2>1. w' = [w EXCEPT !.pc = "list"]
    BY <1>4 DEF GetCacheProfile, spec
  <2>2. w'.pc = "list" /\ w'.req = p /\ w'.applied = 0
    BY <1>1, <1>2, <2>1 DEF Workers, Steps
  <2>3. Enforcing' /\ ~ ReportsUnreadable'
    BY <2>2 DEF Enforcing, ReportsUnreadable
  <2>4. Unstirred(p) => RefsExist(p)'
    BY <1>1, <1>3, <1>4 DEF RefsExist
  <2>5. Unstirred(p) => WorkerRight(p)'
    BY <2>2, <2>4 DEF WorkerRight
  <2>6. FaultsCounted'
    BY <1>1, <2>3, FaultsStayCounted, SameStatuses DEF RestInv, CalmStep
  <2> QED
    BY <1>1, <1>2, <2>2, <2>3, <2>5, <2>6, GoesOnRest
<1>5. CASE spec.profile \notin refCache
  <2> DEFINE v == Says("ProfileMissing", None, None)
  <2>1. w' = SetStatus(w, v, "none")
    BY <1>5 DEF GetCacheProfile, Refused, spec
  <2>2. v.reason = "ProfileMissing"
    BY SaysReason
  <2> HIDE DEF v
  <2>3. Enforcing' /\ ~ ReportsUnreadable' /\ w'.pc # "idle" /\ w'.req = p
    BY <1>1, <1>2, <2>1, <2>2, SetStatusRight DEF UnreadableReasons
  <2>4. w'.pc = "status" /\ w'.verdict.reason = "ProfileMissing" /\ w'.applied = 0
    BY <1>1, <2>1, <2>2, SetStatusFields
  <2>5. FaultsCounted'
    BY <1>1, <2>3, FaultsStayCounted, SameStatuses DEF RestInv, CalmStep
  <2>6. Unstirred(p) => Truthful(p, "ProfileMissing", 0)'
    BY <1>1, <1>3, <1>5 DEF Truthful, UnreadableReasons
  <2>7. Unstirred(p) => WorkerRight(p)'
    BY <1>1, <2>4, <2>6, VerdictRight
  <2> QED
    BY <1>1, <1>2, <2>3, <2>5, <2>7, GoesOnRest
<1> QED
  BY <1>4, <1>5

(* A reference could not be read: that takes a fault, and the first one is a change. *)
LEMMA ReferenceUnreadableRest ==
    ASSUME TypeInv, TypeInv', WorkInv, WorkInv', RestInv, ReferenceUnreadable,
           CalmStep, NamespacesSynced', RefsSynced'
    PROVE  RestInv'
<1>1. w.pc # "idle" /\ w \in Workers /\ api' = api /\ faults \in Nat /\ faults' = faults + 1
  BY DEF ReferenceUnreadable, TypeInv, TypeOK, apiVars
<1>2. PICK p \in Policies : p = w.req
  BY <1>1, BusyFacts
<1>3. PICK reason \in UnreadableReasons : w' = Refused(w, reason)
  BY DEF ReferenceUnreadable, UnreadableReasons
<1> DEFINE v == Says(reason, None, None)
<1>4. w' = SetStatus(w, v, "none") /\ v.reason = reason /\ reason # "EnforcementError"
  BY <1>3, SaysReason DEF Refused, UnreadableReasons
<1> HIDE DEF v
<1>5. Enforcing' /\ w'.pc # "idle" /\ w'.req = p /\ WorkerRight(p)'
  BY <1>1, <1>2, <1>3, <1>4, SetStatusRight
<1>6. FaultsCounted'
  BY <1>1, SameStatuses DEF RestInv, FaultsCounted
<1> QED
  BY <1>1, <1>2, <1>5, <1>6, GoesOnRest

(* An error of the enforcement is returned, or reported and then returned. *)
LEMMA EnforcementFailsRest ==
    ASSUME TypeInv, TypeInv', WorkInv, WorkInv', RestInv, api' = api,
           w.pc \in {"list", "remove", "get", "annotate"}, NEW n, EnforcementFails(n),
           CalmStep, NamespacesSynced', RefsSynced'
    PROVE  RestInv'
<1>1. w.pc # "idle" /\ ~ ReportsUnreadable
  BY DEF ReportsUnreadable
<1>2. PICK p \in Policies : p = w.req
  BY <1>1, BusyFacts
<1>3. CASE w.del
  <2>1. ReturnError /\ w' = Idle
    BY <1>3 DEF EnforcementFails, ReturnError, Return
  <2>2. ~ ReportsUnreadable'
    BY <2>1 DEF ReportsUnreadable, Idle
  <2>3. FaultsCounted'
    BY <2>2, FaultsStayCounted, SameStatuses DEF RestInv, CalmStep
  <2> QED
    BY <1>1, <2>1, <2>3, ErrorRest
<1>4. CASE ~ w.del
  <2> DEFINE v == Says("EnforcementError", n, None)
  <2>1. w' = SetStatus(w, v, "backoff") /\ v.reason = "EnforcementError"
    BY <1>4, SaysReason DEF EnforcementFails
  <2> HIDE DEF v
  <2>2. Enforcing' /\ ~ ReportsUnreadable' /\ w'.pc # "idle" /\ w'.req = p /\ WorkerRight(p)'
    BY <1>1, <1>2, <2>1, SetStatusRight DEF UnreadableReasons
  <2>3. FaultsCounted'
    BY <2>2, FaultsStayCounted, SameStatuses DEF RestInv, CalmStep
  <2> QED
    BY <1>1, <1>2, <2>2, <2>3, GoesOnRest
<1> QED
  BY <1>3, <1>4

(* What the worker holds once namespaces were cleared. *)
LEMMA ClearedFields ==
    ASSUME NEW x \in Workers, NEW s, s = x.obj.spec.selector, s \in SUBSET Namespaces
    PROVE  LET y == Cleared(x)
           IN  /\ y.pc \in {"remove", "removeFinalizer", "get"}
               /\ y.req = x.req /\ y.obj = x.obj /\ y.del = x.del /\ y.applied = x.applied
               /\ y.pc = "get" => y.todo = s /\ y.copies = NoCopies /\ ~ x.del
<1>1. CASE x.copies # NoCopies
  BY <1>1 DEF Cleared, Workers, Steps
<1>2. CASE x.copies = NoCopies /\ x.del
  BY <1>2 DEF Cleared, Workers, Steps
<1>3. CASE x.copies = NoCopies /\ ~ x.del
  <2>1. Cleared(x) = [x EXCEPT !.pc = "get", !.todo = s]
    BY <1>3 DEF Cleared
  <2> QED
    BY <1>3, <2>1 DEF Workers, Steps
<1> QED
  BY <1>1, <1>2, <1>3

(* Namespaces are listed or cleared: no selected one has been dealt with yet. *)
LEMMA ClearedRest ==
    ASSUME TypeInv, TypeInv', WorkInv, WorkInv', RestInv, api' = api,
           w.pc \in {"list", "remove"},
           NEW x \in Workers, x.req = w.req, x.obj = w.obj, x.del = w.del,
           x.applied = w.applied, w' = Cleared(x),
           CalmStep, NamespacesSynced', RefsSynced'
    PROVE  RestInv'
<1>1. w.pc # "idle" /\ w.applied = 0 /\ w.obj \in PolicyObjects
  BY BusyFacts DEF RestInv, Enforcing
<1>2. PICK p \in Policies : p = w.req
  BY <1>1, BusyFacts
<1> DEFINE s == w.obj.spec.selector
<1>3. s \in SUBSET Namespaces
  BY <1>1, ObjectFacts
<1>4. /\ w'.pc \in {"remove", "removeFinalizer", "get"}
      /\ w'.req = p /\ w'.obj = w.obj /\ w'.del = w.del /\ w'.applied = 0
      /\ w'.pc = "get" => w'.todo = s /\ w'.copies = NoCopies
  BY <1>1, <1>2, <1>3, ClearedFields
<1>5. Enforcing' /\ ~ ReportsUnreadable' /\ w'.pc # "idle"
  BY <1>4 DEF Enforcing, ReportsUnreadable
<1>6. ASSUME Unstirred(p) PROVE WorkerRight(p)'
  <2>1. w.obj = api[p] /\ WorkerRight(p) /\ api[p] # None /\ Undisturbed(p)
    BY <1>1, <1>2, <1>6, FreshCopies DEF Unstirred
  <2>2. ~ w'.del => RefsExist(p)'
    BY <1>4, <2>1, SameTruth DEF WorkerRight
  <2>3. ASSUME w'.pc = "get"
        PROVE  Annotated(p, w.todo)' /\ w'.applied = Cardinality(Targets(p)' \ w'.todo)
    <3>1. Targets(p)' \ w'.todo = {}
      BY <1>4, <2>1, <2>3 DEF Targets
    <3>2. Annotated(p, w.todo)'
      BY <3>1 DEF Annotated
    <3>3. Cardinality(Targets(p)' \ w'.todo) = 0
      BY <3>1, FS_EmptySet
    <3> QED
      BY <1>4, <3>2, <3>3
  <2> QED
    BY <1>4, <2>2, <2>3 DEF WorkerRight
<1>7. FaultsCounted'
  BY <1>5, FaultsStayCounted, SameStatuses DEF RestInv, CalmStep
<1> QED
  BY <1>1, <1>2, <1>4, <1>5, <1>6, <1>7, GoesOnRest

LEMMA ListRest ==
    ASSUME TypeInv, TypeInv', WorkInv, WorkInv', RestInv, ListNamespaces,
           CalmStep, NamespacesSynced', RefsSynced'
    PROVE  RestInv'
<1> DEFINE c == [n \in Namespaces |->
                    IF n \in listManagedPolicyNamespaces \ Selected THEN nsCache[n] ELSE None]
           x == [w EXCEPT !.copies = c]
<1>1. /\ w.pc = "list" /\ w \in Workers /\ w' = Cleared(x) /\ api' = api
      /\ c \in Copies
  BY DEF ListNamespaces, TypeInv, TypeOK, Copies, apiVars
<1> HIDE DEF c
<1>2. x \in Workers /\ x.req = w.req /\ x.obj = w.obj /\ x.del = w.del /\ x.applied = w.applied
  BY <1>1 DEF Workers
<1> HIDE DEF x
<1> QED
  BY <1>1, <1>2, ClearedRest

LEMMA RemoveRest ==
    ASSUME TypeInv, TypeInv', WorkInv, WorkInv', RestInv, RemoveAnnotations,
           CalmStep, NamespacesSynced', RefsSynced'
    PROVE  RestInv'
<1>1. w.pc = "remove" /\ w \in Workers /\ api' = api
  BY DEF RemoveAnnotations, TypeInv, TypeOK, apiVars
<1>2. PICK n \in AtHand : \/ w' = Cleared([w EXCEPT !.copies[n] = None])
                          \/ EnforcementFails(n)
  BY DEF RemoveAnnotations
<1>3. CASE EnforcementFails(n)
  BY <1>1, <1>3, EnforcementFailsRest
<1>4. CASE w' = Cleared([w EXCEPT !.copies[n] = None])
  <2> DEFINE x == [w EXCEPT !.copies[n] = None]
  <2>1. w.copies \in Copies /\ n \in Namespaces
    BY <1>1, <1>2 DEF Workers, AtHand
  <2>2. [w.copies EXCEPT ![n] = None] \in Copies
    BY <2>1 DEF Copies
  <2>3. /\ x \in Workers /\ x.req = w.req /\ x.obj = w.obj /\ x.del = w.del
        /\ x.applied = w.applied
    BY <1>1, <2>2 DEF Workers
  <2>4. w' = Cleared(x)
    BY <1>4
  <2> HIDE DEF x
  <2> QED
    BY <1>1, <2>3, <2>4, ClearedRest
<1> QED
  BY <1>2, <1>3, <1>4

(* What the worker holds once namespace n is done. *)
LEMMA AppliedFields ==
    ASSUME NEW x \in Workers, NEW n, NEW count \in Nat
    PROVE  LET y == Applied(x, n, count)
               rest == x.todo \ {n}
           IN  /\ y.req = x.req /\ y.obj = x.obj /\ y.applied = x.applied + count
               /\ rest # {} => y.pc = "get" /\ y.todo = rest /\ y.copies = NoCopies
               /\ rest = {} => y.pc = "status" /\ y.verdict.reason = "Enforced"
<1> DEFINE y == [x EXCEPT !.pc = "get", !.copies = NoCopies, !.todo = @ \ {n},
                          !.applied = @ + count]
           v == Says("Enforced", None, None)
<1>1. NoCopies \in Copies
  BY DEF NoCopies, Copies
<1>2. x.applied + count \in Nat /\ x.todo \ {n} \in SUBSET Namespaces
  BY DEF Workers
<1>3. /\ y \in Workers /\ y.pc = "get" /\ y.req = x.req /\ y.obj = x.obj
      /\ y.todo = x.todo \ {n} /\ y.copies = NoCopies /\ y.applied = x.applied + count
  BY <1>1, <1>2 DEF Workers, Steps
<1>4. Applied(x, n, count) = IF y.todo # {} THEN y ELSE SetStatus(y, v, "none")
  BY DEF Applied
<1>5. v.reason = "Enforced"
  BY SaysReason
<1> HIDE DEF y, v
<1>6. LET z == SetStatus(y, v, "none")
      IN  z.pc = "status" /\ z.verdict = v /\ z.req = y.req /\ z.obj = y.obj
          /\ z.applied = y.applied
  BY <1>3, <1>5, SetStatusFields
<1> QED
  BY <1>3, <1>4, <1>5, <1>6

(* One more of the selected namespaces is done: it is gone, or it carries the policy. *)
LEMMA AppliedRight ==
    ASSUME TypeInv, TypeInv', WorkInv, RestInv, w.pc \in {"get", "annotate"},
           NEW p \in Policies, w.req = p, Unstirred(p), faults' >= faults,
           NEW n \in w.todo, NEW count \in Nat, w' = Applied(w, n, count),
           \/ nsApi[n] = None /\ count = 0
           \/ nsApi[n] # None /\ Carries(n, p) /\ count = 1
    PROVE  WorkerRight(p)'
<1>1. w \in Workers /\ ~ w.del /\ w.applied \in Nat
  BY DEF TypeInv, Fits, Workers
<1>2. /\ api[p] # None /\ w.obj = api[p] /\ Undisturbed(p) /\ WorkerRight(p)
      /\ n \in api[p].spec.selector /\ api[p].spec.selector \in SUBSET Namespaces
  BY FreshCopies, ObjectFacts DEF Unstirred, RestInv, Enforcing
<1> DEFINE rest == w.todo \ {n}
           T == Targets(p)
<1>3. /\ \A m \in T \ w.todo : Carries(m, p)
      /\ w.applied = Cardinality(T \ w.todo)
      /\ RefsExist(p)
  BY <1>1, <1>2 DEF WorkerRight, Annotated
<1>4. IsFiniteSet(T \ w.todo)
  <2>1. T \ w.todo \subseteq Namespaces
    BY <1>2 DEF Targets
  <2> QED
    BY <2>1, PolicyAssumption, FS_Subset
<1>5. /\ \A m \in T \ rest : Carries(m, p)
      /\ w.applied + count = Cardinality(T \ rest)
  <2>1. CASE nsApi[n] = None
    <3>1. T \ rest = T \ w.todo
      BY <2>1 DEF Targets
    <3> QED
      BY <1>1, <1>3, <2>1, <3>1
  <2>2. CASE nsApi[n] # None
    <3>1. T \ rest = (T \ w.todo) \cup {n} /\ n \notin T \ w.todo
      BY <1>2, <2>2 DEF Targets
    <3> DEFINE S == T \ w.todo
    <3>2. IsFiniteSet(S) /\ n \notin S
      BY <1>4, <3>1
    <3> HIDE DEF S
    <3>3. Cardinality(S \cup {n}) = Cardinality(S) + 1
      BY <3>2, FS_AddElement
    <3>4. Cardinality(T \ rest) = w.applied + 1
      BY <1>3, <3>1, <3>3 DEF S
    <3>5. \A m \in T \ rest : Carries(m, p)
      BY <1>3, <2>2, <3>1
    <3> QED
      BY <2>2, <3>4, <3>5
  <2> QED
    BY <2>1, <2>2
<1>6. /\ Targets(p)' = T /\ RefsExist(p)' /\ \A m \in T : Carries(m, p)' = Carries(m, p)
  BY <1>2, <1>3, SameTruth
<1>7. /\ w'.applied = w.applied + count
      /\ rest # {} => w'.pc = "get" /\ w'.todo = rest
      /\ rest = {} => w'.pc = "status" /\ w'.verdict.reason = "Enforced"
  BY <1>1, AppliedFields
<1> HIDE DEF T
<1>8. CASE rest # {}
  <2>1. Annotated(p, w.todo)' /\ w'.applied = Cardinality(Targets(p)' \ w'.todo)
    BY <1>5, <1>6, <1>7, <1>8 DEF Annotated
  <2> QED
    BY <1>6, <1>7, <1>8, <2>1 DEF WorkerRight
<1>9. CASE rest = {}
  <2>1. T \ rest = T
    BY <1>9
  <2>2. Annotated(p, {})' /\ w'.applied = Cardinality(Targets(p)')
    BY <1>5, <1>6, <1>7, <2>1 DEF Annotated
  <2>3. PICK a : a = w'.applied
    OBVIOUS
  <2>4. Truthful(p, "Enforced", a)'
    BY <1>6, <2>2, <2>3 DEF Truthful, UnreadableReasons
  <2> QED
    BY <1>7, <1>9, <2>3, <2>4, VerdictRight
<1> QED
  BY <1>8, <1>9

(* The bookkeeping of enforcePolicy after a namespace. *)
LEMMA AppliedEnforcing ==
    ASSUME TypeInv, RestInv, w.pc \in {"get", "annotate"}, NEW n, NEW count \in Nat,
           w' = Applied(w, n, count)
    PROVE  Enforcing' /\ ~ ReportsUnreadable' /\ w'.pc # "idle" /\ w'.req = w.req
<1>1. w \in Workers /\ w.todo \subseteq w.obj.spec.selector
  BY DEF TypeInv, Fits, RestInv, Enforcing
<1> DEFINE rest == w.todo \ {n}
<1>2. /\ w'.req = w.req /\ w'.obj = w.obj
      /\ rest # {} => w'.pc = "get" /\ w'.todo = rest /\ w'.copies = NoCopies
      /\ rest = {} => w'.pc = "status" /\ w'.verdict.reason = "Enforced"
  BY <1>1, AppliedFields
<1>3. CASE rest # {}
  BY <1>1, <1>2, <1>3 DEF Enforcing, ReportsUnreadable
<1>4. CASE rest = {}
  BY <1>2, <1>4 DEF Enforcing, ReportsUnreadable, UnreadableReasons
<1> QED
  BY <1>3, <1>4

(* A namespace of the cache is looked at. *)
LEMMA GetNamespaceRest ==
    ASSUME TypeInv, TypeInv', WorkInv, WorkInv', RestInv, GetNamespace,
           CalmStep, NamespacesSynced', RefsSynced'
    PROVE  RestInv'
<1>1. /\ w.pc = "get" /\ w \in Workers /\ w.copies = NoCopies /\ ~ w.del
      /\ w.todo \subseteq w.obj.spec.selector /\ w.todo \in SUBSET Namespaces
      /\ UNCHANGED <<api, nsApi, refs, faults>>
  BY DEF GetNamespace, TypeInv, Fits, Workers, RestInv, Enforcing, apiVars, nsVars,
         environmentVars, refVars
<1>2. PICK p \in Policies : p = w.req
  BY <1>1, BusyFacts
<1>3. ~ ReportsUnreadable /\ (~ ReportsUnreadable' => FaultsCounted')
  BY <1>1, FaultsStayCounted, SameStatuses DEF RestInv, CalmStep, ReportsUnreadable
<1>4. PICK n \in w.todo :
         w' = IF nsCache[n] = None
              THEN Applied(w, n, 0)
              ELSE IF Conflicts(nsCache[n])
              THEN SetStatus(w, Says("Conflict", n, nsCache[n].name), "none")
              ELSE IF nsCache[n] = Wanted(nsCache[n])
              THEN Applied(w, n, 1)
              ELSE [w EXCEPT !.pc = "annotate", !.copies[n] = nsCache[n]]
  BY DEF GetNamespace
<1>5. n \in Namespaces
  BY <1>1
<1>6. Unstirred(p) => /\ nsCache[n] = nsApi[n] /\ w.obj = api[p] /\ api[p] # None
                      /\ n \in api[p].spec.selector
  BY <1>1, <1>2, FreshCopies DEF Unstirred
<1>7. ASSUME NEW count \in Nat, w' = Applied(w, n, count),
             Unstirred(p) => \/ nsApi[n] = None /\ count = 0
                             \/ nsApi[n] # None /\ Carries(n, p) /\ count = 1
      PROVE  RestInv'
  <2>1. Enforcing' /\ ~ ReportsUnreadable' /\ w'.pc # "idle" /\ w'.req = p
    BY <1>1, <1>2, <1>7, AppliedEnforcing
  <2>2. Unstirred(p) => WorkerRight(p)'
    BY <1>1, <1>2, <1>7, AppliedRight DEF CalmStep
  <2> QED
    BY <1>1, <1>2, <1>3, <2>1, <2>2, GoesOnRest
<1>8. CASE nsCache[n] = None
  BY <1>4, <1>6, <1>7, <1>8
<1>9. CASE nsCache[n] # None /\ Conflicts(nsCache[n])
  <2> DEFINE v == Says("Conflict", n, nsCache[n].name)
  <2>1. w' = SetStatus(w, v, "none") /\ v.reason = "Conflict"
    BY <1>4, <1>9, SaysReason
  <2> HIDE DEF v
  <2>2. Enforcing' /\ ~ ReportsUnreadable' /\ w'.pc # "idle" /\ w'.req = p
    BY <1>1, <1>2, <2>1, SetStatusRight DEF UnreadableReasons
  <2>3. w'.pc = "status" /\ w'.verdict.reason = "Conflict" /\ w'.applied = 0
    BY <1>1, <2>1, SetStatusFields
  <2>4. ASSUME Unstirred(p) PROVE WorkerRight(p)'
    <3>1. n \in Contested(p)
      BY <1>2, <1>6, <1>9, <2>4 DEF Contested, Targets, Conflicts, OwnUID
    <3>2. Contested(p)' # {}
      BY <1>2, <1>6, <2>4, <3>1, SameTruth DEF Unstirred
    <3>3. Truthful(p, "Conflict", 0)'
      BY <3>2 DEF Truthful, UnreadableReasons
    <3> QED
      BY <2>3, <3>3, VerdictRight
  <2> QED
    BY <1>1, <1>2, <1>3, <2>2, <2>4, GoesOnRest
<1>10. CASE nsCache[n] # None /\ ~ Conflicts(nsCache[n]) /\ nsCache[n] = Wanted(nsCache[n])
  <2>1. w' = Applied(w, n, 1)
    BY <1>4, <1>10
  <2>2. Unstirred(p) => nsApi[n] # None /\ Carries(n, p)
    BY <1>2, <1>6, <1>10 DEF Carries, Wanted, OwnUID
  <2> QED
    BY <1>7, <2>1, <2>2
<1>11. CASE nsCache[n] # None /\ ~ Conflicts(nsCache[n]) /\ nsCache[n] # Wanted(nsCache[n])
  <2> DEFINE c == [w.copies EXCEPT ![n] = nsCache[n]]
  <2>1. w' = [w EXCEPT !.pc = "annotate", !.copies = c]
    BY <1>1, <1>4, <1>11 DEF Workers
  <2>2. c \in Copies
    BY <1>1, <1>5 DEF Workers, Copies, TypeInv, TypeOK
  <2>3. c[n] = nsCache[n] /\ \A m \in Namespaces : m # n => c[m] = None
    BY <1>1, <1>5 DEF NoCopies
  <2> HIDE DEF c
  <2>4. /\ w'.pc = "annotate" /\ w'.copies = c /\ w'.req = p /\ w'.obj = w.obj
        /\ w'.todo = w.todo /\ w'.applied = w.applied
    BY <1>1, <1>2, <2>1, <2>2 DEF Workers, Steps
  <2>5. AtHand' \subseteq {n}
    BY <2>3, <2>4 DEF AtHand
  <2>6. Enforcing' /\ ~ ReportsUnreadable'
    BY <1>1, <2>4, <2>5 DEF Enforcing, ReportsUnreadable
  <2>7. ASSUME Unstirred(p) PROVE WorkerRight(p)'
    <3>1. WorkerRight(p) /\ Undisturbed(p)
      BY <1>1, <1>2, <2>7, FreshCopies DEF Unstirred
    <3>2. Annotated(p, w.todo) /\ w.applied = Cardinality(Targets(p) \ w.todo) /\ RefsExist(p)
      BY <1>1, <3>1 DEF WorkerRight
    <3>3. RefsExist(p)' /\ Targets(p)' = Targets(p)
          /\ \A m \in Targets(p) : Carries(m, p)' = Carries(m, p)
      BY <1>6, <2>7, <3>1, <3>2, SameTruth
    <3>4. Annotated(p, w.todo)' /\ w'.applied = Cardinality(Targets(p)' \ w'.todo)
      BY <2>4, <3>2, <3>3 DEF Annotated
    <3>5. \A m \in AtHand' : w'.copies[m] = nsApi'[m]
      BY <1>1, <1>6, <2>3, <2>4, <2>5, <2>7
    <3> QED
      BY <2>4, <3>3, <3>4, <3>5 DEF WorkerRight
  <2> QED
    BY <1>1, <1>2, <1>3, <2>4, <2>6, <2>7, GoesOnRest
<1> QED
  BY <1>8, <1>9, <1>10, <1>11

(****************************************************************************)
(* A namespace is annotated: if the policy is not stirred by that, then the *)
(* patch, made from what is stored, changed nothing.                        *)
(****************************************************************************)
LEMMA AnnotateRest ==
    ASSUME TypeInv, TypeInv', WorkInv, WorkInv', RestInv, AnnotateNamespace,
           CalmStep, NamespacesSynced', RefsSynced'
    PROVE  RestInv'
<1>1. /\ w.pc = "annotate" /\ api' = api /\ AtHand \subseteq w.todo
      /\ w.todo \subseteq w.obj.spec.selector
  BY DEF AnnotateNamespace, apiVars, RestInv, Enforcing
<1>2. PICK p \in Policies : p = w.req
  BY <1>1, BusyFacts
<1>3. PICK n \in AtHand :
         \/ nsApi[n] # None /\ updateNamespacePolicyAnnotations(n) /\ w' = Applied(w, n, 1)
         \/ EnforcementFails(n)
  BY DEF AnnotateNamespace
<1>4. CASE EnforcementFails(n)
  BY <1>1, <1>4, EnforcementFailsRest
<1>5. CASE nsApi[n] # None /\ updateNamespacePolicyAnnotations(n) /\ w' = Applied(w, n, 1)
  <2>1. Enforcing' /\ ~ ReportsUnreadable' /\ w'.pc # "idle" /\ w'.req = p
    BY <1>1, <1>2, <1>5, AppliedEnforcing
  <2>2. FaultsCounted'
    BY <1>1, <2>1, FaultsStayCounted, SameStatuses DEF RestInv, CalmStep
  <2>3. ASSUME Unstirred(p) PROVE WorkerRight(p)'
    <3>1. w.obj = api[p] /\ WorkerRight(p) /\ n \in api[p].spec.selector
      BY <1>1, <1>2, <1>3, <2>3, FreshCopies DEF Unstirred
    <3>2. w.copies[n] = nsApi[n] /\ n \in Namespaces /\ nsApi[n] \in Annotations
      BY <1>1, <1>5, <3>1, CopyFacts DEF WorkerRight
    <3>3. nsApi'[n] = nsApi[n]
      BY <2>3, <3>1, <3>2 DEF Unstirred, Undisturbed
    <3>4. nsApi'[n] = MergePatch(nsApi[n], nsApi[n], Wanted(nsApi[n]))
      BY <1>5, <3>2 DEF updateNamespacePolicyAnnotations, NamespaceWrite, TypeInv, TypeOK
    <3>5. Wanted(nsApi[n]) \in Annotations
      BY <1>1, <3>2, WantedType
    <3>6. MergePatch(nsApi[n], nsApi[n], Wanted(nsApi[n])) = Wanted(nsApi[n])
      BY <3>2, <3>5 DEF MergePatch, Annotations
    <3>7. nsApi[n] = Wanted(nsApi[n])
      BY <3>3, <3>4, <3>6
    <3>8. Carries(n, p)
      BY <1>2, <3>1, <3>7 DEF Carries, Wanted, OwnUID
    <3> QED
      BY <1>1, <1>2, <1>5, <2>3, <3>8, AppliedRight DEF CalmStep
  <2> QED
    BY <1>1, <1>2, <2>1, <2>2, <2>3, GoesOnRest
<1> QED
  BY <1>3, <1>4, <1>5

(* The namespaces, or one of them, could not be read. *)
LEMMA UnreadableRest ==
    ASSUME TypeInv, TypeInv', WorkInv, WorkInv', RestInv, NamespaceUnreadable,
           CalmStep, NamespacesSynced', RefsSynced'
    PROVE  RestInv'
<1>1. w.pc \in {"list", "get"} /\ api' = api
  BY DEF NamespaceUnreadable, apiVars
<1>2. PICK n : EnforcementFails(n)
  BY DEF NamespaceUnreadable
<1> QED
  BY <1>1, <1>2, EnforcementFailsRest

LEMMA AddFinalizerRest ==
    ASSUME TypeInv, TypeInv', WorkInv, WorkInv', RestInv, AddFinalizer,
           CalmStep, NamespacesSynced', RefsSynced'
    PROVE  RestInv'
<1>1. w.pc = "addFinalizer" /\ w.applied = 0 /\ w \in Workers /\ ~ ReportsUnreadable
  BY DEF AddFinalizer, RestInv, Enforcing, TypeInv, TypeOK, ReportsUnreadable
<1>2. PICK p \in Policies : p = w.req
  BY <1>1, BusyFacts
<1>3. CASE api[p] # None
  <2> DEFINE o == [api[p] EXCEPT !.fin = TRUE]
  <2>1. /\ api[p] \in PolicyObjects /\ ApiWrite(p, o)
        /\ w' = [w EXCEPT !.pc = "getPool", !.obj = api'[p]]
    BY <1>2, <1>3 DEF AddFinalizer, TypeInv, TypeOK
  <2>2. o.status = api[p].status
    BY <2>1, SameStatus
  <2> HIDE DEF o
  <2>3. \A q \in Policies : Unreadable(q)' => Unreadable(q)
    BY <1>3, <2>1, <2>2, StatusNotWritten
  <2>4. w'.pc = "getPool" /\ w'.req = p /\ w'.applied = 0
    BY <1>1, <1>2, <2>1 DEF Workers
  <2>5. Enforcing' /\ ~ ReportsUnreadable' /\ WorkerRight(p)'
    BY <2>4 DEF Enforcing, ReportsUnreadable, WorkerRight
  <2>6. FaultsCounted'
    BY <2>3, <2>5, FaultsStayCounted DEF RestInv, CalmStep
  <2> QED
    BY <1>1, <1>2, <2>4, <2>5, <2>6, GoesOnRest
<1>4. CASE api[p] = None
  <2>1. ReturnError /\ w' = Idle /\ api' = api
    BY <1>2, <1>4 DEF AddFinalizer, apiVars, ReturnError, Return
  <2>2. ~ ReportsUnreadable'
    BY <2>1 DEF ReportsUnreadable, Idle
  <2>3. FaultsCounted'
    BY <2>1, <2>2, FaultsStayCounted, SameStatuses DEF RestInv, CalmStep
  <2> QED
    BY <1>1, <2>1, <2>3, ErrorRest
<1> QED
  BY <1>3, <1>4

(* The finalizer is removed: the policy is gone, unless it is not the one that was cleared. *)
LEMMA RemoveFinalizerRest ==
    ASSUME TypeInv, TypeInv', WorkInv, WorkInv', RestInv, RemoveFinalizer,
           CalmStep, NamespacesSynced', RefsSynced'
    PROVE  RestInv'
<1>1. w.pc = "removeFinalizer" /\ w.del /\ w' = Idle
  BY DEF RemoveFinalizer, TypeInv, Fits, Return, ReturnError
<1>2. PICK p \in Policies : p = w.req
  BY <1>1, BusyFacts
<1>3. ~ ReportsUnreadable'
  BY <1>1 DEF ReportsUnreadable, Idle
<1>4. CASE api[p] # None
  <2>1. api[p] \in PolicyObjects /\ ApiWrite(p, AfterRemoveFinalizer(api[p]))
    BY <1>2, <1>4 DEF RemoveFinalizer, TypeInv, TypeOK
  <2>2. \A q \in Policies : Unreadable(q)' => Unreadable(q)
    BY <1>4, <2>1, SameStatus, StatusNotWritten
  <2>3. FaultsCounted'
    BY <1>3, <2>2, FaultsStayCounted DEF RestInv, CalmStep
  <2>4. api'[p] = AfterRemoveFinalizer(api[p])
    BY <2>1 DEF ApiWrite, TypeInv, TypeOK
  <2>5. ASSUME ~ Stirred(p)', api'[p] # None
        PROVE  FALSE
    <3>1. ~ Stirred(p)
      BY <2>5 DEF CalmStep, Calm
    <3>2. api[p].deleting
      BY <1>1, <1>2, <3>1, FreshCopies
    <3> QED
      BY <2>4, <2>5, <3>2 DEF AfterRemoveFinalizer
  <2>6. Stirred(p)' \/ StatusTrue(p)'
    BY <2>5 DEF StatusTrue
  <2> QED
    BY <1>1, <1>2, <2>3, <2>6, ReturnRest
<1>5. CASE api[p] = None
  <2>1. ReturnError /\ api' = api
    BY <1>2, <1>5 DEF RemoveFinalizer, apiVars
  <2>2. FaultsCounted'
    BY <1>3, <2>1, FaultsStayCounted, SameStatuses DEF RestInv, CalmStep
  <2> QED
    BY <1>1, <2>1, <2>2, ErrorRest
<1> QED
  BY <1>4, <1>5

(* What setValidatedCondition writes: the condition it wants, or the stored one stays. *)
LEMMA PatchedStatus ==
    ASSUME TypeInv, w.pc = "status", NEW p \in Policies, w.req = p, api[p] # None, PatchStatus
    PROVE  /\ \A q \in Policies : q # p => api'[q] = api[q]
           /\ api'[p] # None
           /\ api'[p].status.cond = api[p].status.cond
              \/ api'[p].status.cond.reason = w.verdict.reason
           /\ w.obj = api[p] => api'[p].status = Desired
<1>1. PICK t \in Statuses :
         /\ t = MergePatch(api[p].status, w.obj.status, Desired)
         /\ ApiWrite(p, [api[p] EXCEPT !.status = t])
  BY StatusWrite
<1>2. /\ api[p] \in PolicyObjects /\ api[p].status \in Statuses
      /\ w.obj \in PolicyObjects /\ w.obj.status \in Statuses
  BY BusyFacts, ObjectFacts DEF TypeInv, TypeOK
<1> DEFINE o == [api[p] EXCEPT !.status = t]
<1>3. o \in PolicyObjects /\ o.status = t
  BY <1>2, ChangedPolicy DEF PolicyObjects
<1>4. ApiWrite(p, o)
  BY <1>1
<1> HIDE DEF o
<1>5. api'[p] = o /\ \A q \in Policies : q # p => api'[q] = api[q]
  BY <1>4 DEF ApiWrite, TypeInv, TypeOK
<1>6. api'[p] # None
  BY <1>3, <1>5, NoneAssumption
<1>7. Desired \in Statuses
  BY DesiredFacts
<1>8. t.cond = api[p].status.cond \/ t.cond = Desired.cond
  BY <1>1, <1>2, <1>7 DEF MergePatch, Statuses
<1>9. Desired.cond.reason = w.verdict.reason
  BY DEF Desired
<1>10. w.obj = api[p] => t = Desired
  BY <1>1, <1>2, <1>7, MergeFacts
<1> QED
  BY <1>3, <1>5, <1>6, <1>8, <1>9, <1>10

(* A patch that says no such thing makes no policy unreadable. *)
LEMMA PatchedReadable ==
    ASSUME TypeInv, w.pc = "status", NEW p \in Policies, w.req = p, api[p] # None, PatchStatus,
           ~ ReportsUnreadable
    PROVE  \A q \in Policies : Unreadable(q)' => Unreadable(q)
<1>1. w.verdict.reason \notin UnreadableReasons
  BY DEF ReportsUnreadable
<1>2. \A q \in Policies : q # p => (Unreadable(q)' => Unreadable(q))
  BY PatchedStatus DEF Unreadable
<1>3. Unreadable(p)' => Unreadable(p)
  BY <1>1, PatchedStatus DEF Unreadable
<1> QED
  BY <1>2, <1>3

(****************************************************************************)
(* The status is written.  If that does not stir the policy, it changed     *)
(* nothing: what is stored is what the worker found out.  And if that is    *)
(* that a reference could not be read, then it was so reported before.      *)
(****************************************************************************)
LEMMA SetConditionRest ==
    ASSUME TypeInv, TypeInv', WorkInv, WorkInv', RestInv, setValidatedCondition,
           CalmStep, NamespacesSynced', RefsSynced'
    PROVE  RestInv'
<1>1. w.pc = "status" /\ w' = Idle /\ faults' = faults /\ faults \in Nat
  BY DEF setValidatedCondition, Return, ReturnError, TypeInv, TypeOK
<1>2. PICK p \in Policies : p = w.req
  BY <1>1, BusyFacts
<1>3. ~ ReportsUnreadable'
  BY <1>1 DEF ReportsUnreadable, Idle
<1>4. CASE api[p] # None
  <2>1. PatchStatus /\ Return(w.result)
    BY <1>2, <1>4 DEF setValidatedCondition
  <2>2. FaultsCounted'
    <3>1. CASE ReportsUnreadable
      BY <1>1, <1>3, <3>1 DEF RestInv, FaultsCounted
    <3>2. CASE ~ ReportsUnreadable
      BY <1>1, <1>2, <1>3, <1>4, <2>1, <3>2, PatchedReadable, FaultsStayCounted
         DEF RestInv, CalmStep
    <3> QED
      BY <3>1, <3>2
  <2>3. ASSUME ~ Stirred(p)'
        PROVE  StatusTrue(p)'
    <3>1. /\ api'[p] # None
          /\ w.obj = api[p] => api'[p].status = Desired
      BY <1>1, <1>2, <1>4, <2>1, PatchedStatus
    <3>2. ~ Stirred(p) /\ Undisturbed(p)
      BY <2>3, <3>1 DEF CalmStep, Calm
    <3>3. /\ api'[p] = api[p] /\ w.obj = api[p] /\ WorkerRight(p)
      BY <1>1, <1>2, <3>2, FreshCopies DEF Undisturbed
    <3>4. w.result # "backoff"
      <4>1. queue'[p] = "none"
        BY <2>3 DEF Stirred, Pending
      <4> QED
        BY <1>2, <2>1, <4>1 DEF Return, TypeInv, TypeOK
    <3>5. PICK reason, applied : reason = w.verdict.reason /\ applied = w.applied
      OBVIOUS
    <3>6. api[p].status = Desired
      BY <3>1, <3>3
    <3>7. /\ api'[p].status.cond.reason = reason /\ api'[p].status.applied = applied
          /\ api[p].status.cond.reason = reason /\ api[p].status.cond # None
      <4>1. Desired.cond # None
        BY <1>1, DesiredFacts, NoneAssumption
      <4> QED
        BY <3>3, <3>5, <3>6, <4>1 DEF Desired
    <3>8. CASE reason \notin UnreadableReasons
      <4>1. Truthful(p, reason, applied)
        BY <1>1, <3>3, <3>4, <3>5, <3>8 DEF WorkerRight
      <4>2. faults' \in Nat /\ faults' >= faults
        BY <1>1
      <4>3. Truthful(p, reason, applied)'
        BY <1>4, <3>2, <4>1, <4>2, TruthStays
      <4>4. Truthful(p, api[p].status.cond.reason, api[p].status.applied)'
        BY <3>7, <4>3
      <4> QED
        BY <4>4 DEF StatusTrue
    <3>9. CASE reason \in UnreadableReasons
      <4>1. ReportsUnreadable /\ Unreadable(p)
        BY <1>1, <1>4, <3>5, <3>7, <3>9 DEF ReportsUnreadable, Unreadable
      <4>2. faults > 1
        BY <1>1, <4>1 DEF RestInv, FaultsCounted
      <4>3. Truthful(p, reason, applied)'
        BY <1>1, <3>9, <4>2 DEF Truthful, UnreadableReasons
      <4>4. Truthful(p, api[p].status.cond.reason, api[p].status.applied)'
        BY <3>7, <4>3
      <4> QED
        BY <4>4 DEF StatusTrue
    <3> QED
      BY <3>8, <3>9
  <2> QED
    BY <1>1, <1>2, <2>2, <2>3, ReturnRest
<1>5. CASE api[p] = None
  <2>1. ReturnError /\ api' = api
    BY <1>2, <1>5 DEF setValidatedCondition, apiVars
  <2>2. FaultsCounted'
    BY <1>3, <2>1, FaultsStayCounted, SameStatuses DEF RestInv, CalmStep
  <2> QED
    BY <1>1, <2>1, <2>2, ErrorRest
<1> QED
  BY <1>4, <1>5

(* A call fails: its error is returned, or reported and then returned. *)
LEMMA CallFailsRest ==
    ASSUME TypeInv, TypeInv', WorkInv, WorkInv', RestInv, CallFails,
           CalmStep, NamespacesSynced', RefsSynced'
    PROVE  RestInv'
<1>1. faults \in Nat /\ faults' = faults + 1
  BY DEF CallFails, TypeInv, TypeOK
<1>2. CASE w.pc \in {"addFinalizer", "removeFinalizer", "status"}
  <2>1. ReturnError /\ w' = Idle
    BY <1>2 DEF CallFails, ReturnError, Return
  <2>2. ~ ReportsUnreadable'
    BY <2>1 DEF ReportsUnreadable, Idle
  <2>3. FaultsCounted'
    BY <1>1, <2>2 DEF FaultsCounted
  <2> QED
    BY <1>2, <2>1, <2>3, ErrorRest
<1>3. CASE w.pc \in {"remove", "annotate"}
  <2>1. api' = api /\ \E n \in AtHand : EnforcementFails(n)
    BY <1>3 DEF CallFails, apiVars
  <2> QED
    BY <1>3, <2>1, EnforcementFailsRest
<1> QED
  BY <1>2, <1>3 DEF CallFails

-----------------------------------------------------------------------------
(* The worker's writes to namespaces are seen, and it leaves references alone. *)
LEMMA WorkerSynced ==
    ASSUME TypeInv, RestInv, Worker
    PROVE  /\ NamespacesSynced' /\ NamespacesKept
           /\ RefsSynced' /\ RefsKept
           /\ faults' >= faults
<1>1. /\ UNCHANGED <<refs, refWatch, refCache, nsCache>>
      /\ faults' = faults \/ faults' = faults + 1
  BY DEF Worker, AddFinalizer, GetUpstreamPool, GetCacheProfile, ReferenceUnreadable,
         ListNamespaces, RemoveAnnotations, GetNamespace, AnnotateNamespace, RemoveFinalizer,
         setValidatedCondition, CallFails, NamespaceUnreadable, environmentVars, refVars,
         seenVars
<1>2. RefsSynced' /\ RefsKept
  BY <1>1, UnchangedRefs DEF RestInv
<1>3. faults' >= faults
  <2>1. faults \in Nat
    BY DEF TypeInv, TypeOK
  <2> QED
    BY <1>1, <2>1
<1>4. \/ UNCHANGED nsVars
      \/ \E n \in AtHand :
            removeNamespacePolicyAnnotations(n) \/ updateNamespacePolicyAnnotations(n)
  BY DEF Worker, AddFinalizer, GetUpstreamPool, GetCacheProfile, ReferenceUnreadable,
         ListNamespaces, RemoveAnnotations, GetNamespace, AnnotateNamespace, RemoveFinalizer,
         setValidatedCondition, CallFails, NamespaceUnreadable
<1>5. CASE UNCHANGED nsVars
  BY <1>1, <1>2, <1>3, <1>5, UnchangedNamespaces DEF RestInv, nsVars
<1>6. CASE \E n \in AtHand :
              removeNamespacePolicyAnnotations(n) \/ updateNamespacePolicyAnnotations(n)
  <2>1. PICK n \in AtHand :
           removeNamespacePolicyAnnotations(n) \/ updateNamespacePolicyAnnotations(n)
    BY <1>6
  <2>2. n \in Namespaces /\ \E o : NamespaceWrite(n, o)
    BY <2>1 DEF AtHand, removeNamespacePolicyAnnotations, updateNamespacePolicyAnnotations
  <2>3. NamespacesSynced' /\ NamespacesKept
    BY <1>1, <2>2, NamespaceWriteSynced DEF RestInv, TypeInv
  <2> QED
    BY <1>2, <1>3, <2>3
<1> QED
  BY <1>4, <1>5, <1>6

LEMMA WorkerRest ==
    ASSUME TypeInv, TypeInv', WorkInv, WorkInv', Kept, RestInv, Worker
    PROVE  RestInv'
<1>1. NamespacesSynced' /\ RefsSynced' /\ CalmStep
  BY WorkerSynced, KeptCalm DEF CalmStep
<1> QED
  BY <1>1, AddFinalizerRest, GetUpstreamPoolRest, GetCacheProfileRest, ReferenceUnreadableRest,
     ListRest, RemoveRest, GetNamespaceRest, AnnotateRest, RemoveFinalizerRest,
     SetConditionRest, CallFailsRest, UnreadableRest DEF Worker

(* The inductive invariant holds throughout. *)
LEMMA RestInvAlways == Spec => []RestInv
<1>1. Init => RestInv
  <2> SUFFICES ASSUME Init PROVE RestInv
    OBVIOUS
  <2>1. /\ nsCache = nsApi /\ nsWatch = <<>> /\ w = Idle /\ faults = 0
        /\ refs = Refs /\ refCache = refs /\ refWatch = [r \in Refs |-> <<>>]
        /\ \A p \in Policies : api[p] = None
    BY DEF Init
  <2>2. NamespacesSynced /\ RefsSynced
    BY <2>1 DEF NamespacesSynced, RefsSynced
  <2>3. Enforcing /\ FaultsCounted /\ WorkerTrue
    BY <2>1 DEF Enforcing, FaultsCounted, ReportsUnreadable, WorkerTrue, Idle, Unreadable
  <2>4. StatusesTrue
    BY <2>1 DEF StatusesTrue, StatusTrue
  <2> QED
    BY <2>2, <2>3, <2>4 DEF RestInv
<1>2. ASSUME TypeInv, WorkInv, WorkInv', RestInv, [Next]_vars
      PROVE  RestInv'
  <2>1. TypeInv'
    BY <1>2, TypeInvStep
  <2>2. CASE UNCHANGED vars
    <3>1. /\ UNCHANGED <<api, watch, queue, w, faults>>
          /\ UNCHANGED <<nsApi, nsWatch, nsCache, refs, refWatch, refCache>>
      BY <2>2 DEF vars, apiVars, nsVars, refVars, seenVars
    <3>2. NamespacesSynced' /\ NamespacesKept /\ RefsSynced' /\ RefsKept
      BY <1>2, <3>1, UnchangedNamespaces, UnchangedRefs DEF RestInv
    <3>3. Kept
      BY <3>1 DEF Kept, Pending, EventPending
    <3>4. faults \in Nat
      BY <1>2 DEF TypeInv, TypeOK
    <3>5. CalmStep
      BY <3>1, <3>2, <3>3, <3>4, KeptCalm DEF CalmStep
    <3> QED
      BY <1>2, <2>1, <3>1, <3>2, <3>5, OthersRest, SameStatuses
  <2>3. CASE Users
    BY <1>2, <2>1, <2>3, UsersWork, UsersRest
  <2>4. CASE Deliver \/ \E p \in Policies : DelayOver(p) \/ GetFails(p)
    BY <1>2, <2>1, <2>4, SystemWork, SystemRest
  <2>5. CASE \E p \in Policies : Start(p)
    BY <1>2, <2>1, <2>5, StartRest
  <2>6. CASE Worker
    BY <1>2, <2>1, <2>6, WorkerWork, WorkerRest
  <2>7. CASE Restart
    BY <1>2, <2>1, <2>7, RestartWork, RestartRest
  <2> QED
    BY <1>2, <2>2, <2>3, <2>4, <2>5, <2>6, <2>7 DEF Next
<1> QED
  BY <1>1, <1>2, TypeInvAlways, WorkInvAlways, PTL DEF Spec

(* When the operator rests, nothing is stirred and every status is true. *)
LEMMA RestingStatus ==
    ASSUME TypeInv, WorkInv, RestInv, Settled, NEW p \in Policies, api[p] # None
    PROVE  /\ api[p].status.cond # None
           /\ api[p].status.cond.reason \in Reasons
           /\ Truthful(p, api[p].status.cond.reason, api[p].status.applied)
<1>1. /\ w.pc = "idle" /\ queue[p] = "none" /\ watch = <<>> /\ nsWatch = <<>>
      /\ \A r \in Refs : refWatch[r] = <<>>
  BY DEF Settled
<1>2. ~ Pending(p) /\ ~ Reconciling(p) /\ \A n \in Namespaces : ~ NamespacePending(n)
  BY <1>1 DEF Pending, EventPending, Reconciling, NamespacePending
<1>3. ~ Stirred(p)
  BY <1>1, <1>2 DEF Stirred
<1>4. api[p].status.cond # None
  BY <1>2 DEF WorkInv, WorkCovered, Needs
<1>5. Truthful(p, api[p].status.cond.reason, api[p].status.applied)
  BY <1>2, <1>3, <1>4 DEF RestInv, StatusesTrue, StatusTrue
<1>6. api[p].status \in Statuses
  BY ObjectFacts DEF TypeInv, TypeOK
<1>7. api[p].status.cond.reason \in Reasons
  BY <1>4, <1>6 DEF Statuses, Conditions
<1> QED
  BY <1>4, <1>5, <1>7

(****************************************************************************)
(* When the operator rests, Validated=True is true: every selected          *)
(* namespace that exists carries exactly the annotations of the policy and  *)
(* of its present spec, the status counts them, and the references exist,   *)
(* whatever copies were stale when they were patched.                       *)
(****************************************************************************)
THEOREM ValidatedIsEnforced == Spec => []SettledValidatedIsEnforced
<1>1. ASSUME TypeInv, WorkInv, RestInv
      PROVE  SettledValidatedIsEnforced
  <2> SUFFICES ASSUME Settled, NEW p \in Policies, Validated(p)
               PROVE  /\ \A n \in Targets(p) : Carries(n, p)
                      /\ api[p].status.applied = Cardinality(Targets(p))
                      /\ RefsExist(p)
    BY DEF SettledValidatedIsEnforced
  <2>1. api[p] # None /\ api[p].status.cond.reason = "Enforced"
    BY DEF Validated
  <2>2. Truthful(p, "Enforced", api[p].status.applied)
    BY <1>1, <2>1, RestingStatus
  <2> QED
    BY <2>2 DEF Truthful, Annotated
<1> QED
  BY <1>1, TypeInvAlways, WorkInvAlways, RestInvAlways, PTL

(****************************************************************************)
(* When the operator rests, a policy whose references exist and whose       *)
(* namespaces no other policy holds is Validated, unless a reference of it  *)
(* could not be read more than once: no conflict, missing reference, error  *)
(* or restart of the past leaves a policy behind.                           *)
(****************************************************************************)
THEOREM FreePolicyIsValidated == Spec => []SettledFreePolicyValidated
<1>1. ASSUME TypeInv, WorkInv, RestInv
      PROVE  SettledFreePolicyValidated
  <2> SUFFICES ASSUME Settled, NEW p \in Policies, api[p] # None, RefsExist(p),
                      Contested(p) = {}
               PROVE  Validated(p) \/ (Unreadable(p) /\ faults > 1)
    BY DEF SettledFreePolicyValidated
  <2> DEFINE reason == api[p].status.cond.reason
             spec == api[p].spec
  <2>1. /\ api[p].status.cond # None /\ reason \in Reasons
        /\ Truthful(p, reason, api[p].status.applied)
    BY <1>1, RestingStatus
  <2>2. spec.pool \in UpstreamPools /\ spec.pool # None
    BY <1>1, ObjectFacts, NoneAssumption DEF TypeInv, TypeOK, Refs
  <2>3. /\ spec.flaw = None /\ spec.pool \in refs
        /\ spec.profile \in refs \cup {None}
    BY <2>2 DEF RefsExist
  <2>4. /\ reason \notin {"Malformed", "PoolMissing", "ProfileMissing", "Conflict",
                          "EnforcementError"}
        /\ reason \in UnreadableReasons => faults > 1
    BY <2>1, <2>3 DEF Truthful
  <2>5. reason = "Enforced" \/ reason \in UnreadableReasons
    BY <2>1, <2>4 DEF Reasons, UnreadableReasons
  <2> QED
    BY <2>1, <2>4, <2>5 DEF Validated, Unreadable
<1> QED
  BY <1>1, TypeInvAlways, WorkInvAlways, RestInvAlways, PTL

-----------------------------------------------------------------------------
(****************************************************************************)
(* A policy that is gone has left no namespace (ClearedBeforeGone).         *)
(*                                                                          *)
(* The finalizer is added to, and taken from, whatever has the name, on the *)
(* word of a copy that may be of another life of that name.  The inductive  *)
(* invariant says why that does no harm: a copy with the finalizer, cached  *)
(* or on its way, is of the stored policy, or everything up to it waits for *)
(* deletion; so a reconcile that annotates has a policy that the finalizer  *)
(* holds, and one that takes a finalizer away has the copy of its policy.   *)
(****************************************************************************)

(* The object x has the finalizer. *)
Marked(x) == x # None /\ x.fin

(* The object x waits for its deletion. *)
Going(x) == Marked(x) /\ x.deleting

(* The stored policy p is held by the finalizer. *)
Held(p) == Marked(api[p])

(* The copy x is of the stored policy p. *)
OfStored(p, x) ==
    /\ Held(p)
    /\ api[p].life = x.life
    /\ x.deleting => api[p].deleting

(* The cached policy p, and its events up to number i, wait for deletion. *)
GoingUpTo(p, i) ==
    /\ Going(cache[p])
    /\ \A j \in 1 .. Len(watch) : watch[j].policy = p /\ j <= i => Going(watch[j].obj)

(* All copies of policy p wait for deletion. *)
AllGoing(p) ==
    /\ Going(cache[p])
    /\ \A i \in 1 .. Len(watch) : watch[i].policy = p => Going(watch[i].obj)

(* No copy of policy p has the finalizer. *)
Unmarked(p) ==
    /\ ~ Marked(cache[p])
    /\ \A i \in 1 .. Len(watch) : watch[i].policy = p => ~ Marked(watch[i].obj)

(****************************************************************************)
(* A copy of policy p with the finalizer is of the stored policy, or it is  *)
(* a relict, of which all that comes before it waits for deletion.          *)
(****************************************************************************)
MarkedIsHeld(p) ==
    /\ Marked(cache[p]) => OfStored(p, cache[p]) \/ (~ Held(p) /\ Going(cache[p]))
    /\ \A i \in 1 .. Len(watch) :
          watch[i].policy = p /\ Marked(watch[i].obj) =>
              OfStored(p, watch[i].obj) \/ (~ Held(p) /\ GoingUpTo(p, i))

(* After a copy of policy p that waits for deletion, all do, while p is held. *)
GoingStays(p) ==
    Held(p) =>
        /\ Going(cache[p]) => AllGoing(p)
        /\ \A i, j \in 1 .. Len(watch) :
              watch[i].policy = p /\ watch[j].policy = p /\ i < j /\ Going(watch[i].obj)
                  => Going(watch[j].obj)

CopiesInOrder == \A p \in Policies : MarkedIsHeld(p) /\ GoingStays(p)

(****************************************************************************)
(* A reconcile that clears has the copy of its policy, if that is held; one *)
(* that annotates has a policy that is held.                                *)
(****************************************************************************)
WorkerHolds ==
    w.pc # "idle" =>
        IF w.del
        THEN Held(w.req) =>
                 api[w.req].deleting /\ api[w.req].life = w.obj.life /\ AllGoing(w.req)
        ELSE IF w.pc = "addFinalizer"
        THEN Held(w.req) \/ Unmarked(w.req)
        ELSE Held(w.req) /\ api[w.req].life = w.obj.life

HeldInv == CopiesInOrder /\ WorkerHolds

(* Namespace n carries the UID u. *)
Owns(u, n) == nsApi[n] # None /\ nsApi[n].uid # None /\ nsApi[n].uid = u

(* The policy of the UID u is held by the finalizer. *)
HeldUID(u) == Held(u.policy) /\ api[u.policy].life = u.life

(* A namespace carries only UIDs of policies that are held. *)
OwnersHeld ==
    \A n \in Namespaces : nsApi[n] # None /\ nsApi[n].uid # None => HeldUID(nsApi[n].uid)

(* A reconcile that clears has copies of all namespaces of its policy that are left. *)
ClearsAll ==
    w.del /\ w.pc \in {"remove", "removeFinalizer"} =>
        /\ \A n \in Namespaces : Owns(OwnUID, n) => w.copies[n] # None
        /\ \A n \in AtHand : w.copies[n].uid = OwnUID
        /\ w.pc = "removeFinalizer" => w.copies = NoCopies

(* The inductive invariant behind ClearedBeforeGone. *)
ClearInv == ~ staleList => OwnersHeld /\ ClearsAll

(* A write of o to policy p, in which the finalizer is ... *)
HolderKept(p, o) ==         \* kept
    /\ Held(p) /\ Marked(o)
    /\ o.life = api[p].life
    /\ api[p].deleting => o.deleting

NotHeld(p, o) ==            \* not there, before and after
    ~ Held(p) /\ ~ Marked(o)

HolderAdded(p, o) ==        \* added
    ~ Held(p) /\ Marked(o) /\ Unmarked(p)

HolderRemoved(p, o) ==      \* taken away, and the policy is gone
    o = None /\ AllGoing(p)

(* A write keeps the order of the copies of policies. *)
LEMMA WriteInOrder ==
    ASSUME TypeOK, CopiesInOrder, NEW p \in Policies, NEW o \in PolicyObjects \cup {None},
           ApiWrite(p, o), cache' = cache,
           HolderKept(p, o) \/ NotHeld(p, o) \/ HolderAdded(p, o) \/ HolderRemoved(p, o)
    PROVE  CopiesInOrder'
<1>1. /\ api' = [api EXCEPT ![p] = o]
      /\ watch' = IF o = api[p] THEN watch ELSE Append(watch, [policy |-> p, obj |-> o])
  BY DEF ApiWrite
<1>2. watch \in Seq(PolicyEvents)
  BY DEF TypeOK
<1>3. api'[p] = o /\ \A q \in Policies : q # p => api'[q] = api[q]
  BY <1>1 DEF TypeOK
<1>4. CASE o = api[p]
  <2>1. api' = api /\ watch' = watch
    BY <1>1, <1>4 DEF TypeOK
  <2> QED
    BY <2>1 DEF CopiesInOrder, MarkedIsHeld, GoingStays, OfStored, Held, GoingUpTo, AllGoing
<1>5. CASE o # api[p]
  <2>1. watch' = Append(watch, [policy |-> p, obj |-> o])
    BY <1>1, <1>5
  <2>2. /\ Len(watch') = Len(watch) + 1
        /\ Len(watch) \in Nat
        /\ \A i \in 1 .. Len(watch) : watch'[i] = watch[i]
        /\ watch'[Len(watch) + 1].policy = p /\ watch'[Len(watch) + 1].obj = o
        /\ 1 .. Len(watch') = 1 .. Len(watch) \cup {Len(watch) + 1}
    BY <1>2, <2>1
  <2>3. ASSUME NEW q \in Policies, q # p
        PROVE  MarkedIsHeld(q)' /\ GoingStays(q)'
    <3>1. Held(q)' = Held(q) /\ \A x : OfStored(q, x)' = OfStored(q, x)
      BY <1>3, <2>3 DEF Held, OfStored
    <3>2. AllGoing(q) => AllGoing(q)'
      BY <2>2, <2>3 DEF AllGoing
    <3>3. \A i \in 1 .. Len(watch) : GoingUpTo(q, i) => GoingUpTo(q, i)'
      BY <2>2, <2>3 DEF GoingUpTo
    <3>4. MarkedIsHeld(q) /\ GoingStays(q)
      BY DEF CopiesInOrder
    <3>5. MarkedIsHeld(q)'
      BY <2>2, <2>3, <3>1, <3>3, <3>4 DEF MarkedIsHeld
    <3>6. GoingStays(q)'
      BY <2>2, <2>3, <3>1, <3>2, <3>4 DEF GoingStays
    <3> QED
      BY <3>5, <3>6
  <2>4. MarkedIsHeld(p) /\ GoingStays(p)
    BY DEF CopiesInOrder
  <2>5. Held(p)' = Marked(o)
    BY <1>3 DEF Held
  <2>6. \A i \in 1 .. Len(watch) : GoingUpTo(p, i) => GoingUpTo(p, i)'
    BY <2>2 DEF GoingUpTo
  <2>7. CASE HolderKept(p, o)
    <3>1. Held(p) /\ Held(p)' /\ o.life = api[p].life /\ (api[p].deleting => Going(o))
      BY <2>5, <2>7 DEF HolderKept, Going
    <3>2. \A x : OfStored(p, x) => OfStored(p, x)'
      BY <1>3, <3>1 DEF OfStored, Going
    <3>3. OfStored(p, o)'
      BY <1>3, <3>1 DEF OfStored
    <3>4. MarkedIsHeld(p)'
      BY <2>2, <2>4, <3>1, <3>2, <3>3 DEF MarkedIsHeld
    <3>5. \A x : Going(x) /\ OfStored(p, x) => Going(o)
      BY <3>1 DEF Going, OfStored
    <3>6. /\ Going(cache[p]) => Going(o)
          /\ \A i \in 1 .. Len(watch) : watch[i].policy = p /\ Going(watch[i].obj) => Going(o)
      BY <2>4, <3>1, <3>5 DEF MarkedIsHeld, Going
    <3>7. Going(cache[p]) => AllGoing(p)'
      BY <2>2, <2>4, <3>1, <3>6 DEF GoingStays, AllGoing
    <3>8. GoingStays(p)'
      BY <2>2, <2>4, <3>1, <3>6, <3>7 DEF GoingStays
    <3> QED
      BY <2>3, <3>4, <3>8 DEF CopiesInOrder
  <2>8. CASE NotHeld(p, o)
    <3>1. ~ Held(p) /\ ~ Held(p)' /\ ~ Marked(o)
      BY <2>5, <2>8 DEF NotHeld
    <3>2. MarkedIsHeld(p)'
      BY <2>2, <2>4, <2>6, <3>1 DEF MarkedIsHeld, OfStored
    <3> QED
      BY <2>3, <3>1, <3>2 DEF CopiesInOrder, GoingStays
  <2>9. CASE HolderAdded(p, o)
    <3>1. Unmarked(p) /\ Marked(o) /\ Held(p)'
      BY <2>5, <2>9 DEF HolderAdded
    <3>2. OfStored(p, o)'
      BY <1>3, <3>1 DEF OfStored
    <3>3. MarkedIsHeld(p)'
      BY <2>2, <3>1, <3>2 DEF MarkedIsHeld, Unmarked
    <3>4. GoingStays(p)'
      BY <2>2, <3>1 DEF GoingStays, Unmarked, Going
    <3> QED
      BY <2>3, <3>3, <3>4 DEF CopiesInOrder
  <2>10. CASE HolderRemoved(p, o)
    <3>1. AllGoing(p) /\ ~ Marked(o) /\ ~ Held(p)'
      BY <2>5, <2>10 DEF HolderRemoved, Marked
    <3>2. \A i \in 1 .. Len(watch) : GoingUpTo(p, i)
      BY <3>1 DEF GoingUpTo, AllGoing
    <3>3. MarkedIsHeld(p)'
      BY <2>2, <2>6, <3>1, <3>2 DEF MarkedIsHeld, AllGoing
    <3> QED
      BY <2>3, <3>1, <3>3 DEF CopiesInOrder, GoingStays
  <2> QED
    BY <2>7, <2>8, <2>9, <2>10
<1> QED
  BY <1>4, <1>5

(* A delivery keeps the order of the copies, and what all copies of a policy have. *)
LEMMA DeliverInOrder ==
    ASSUME TypeOK, CopiesInOrder, DeliverPolicy
    PROVE  /\ CopiesInOrder'
           /\ \A q \in Policies : (AllGoing(q) => AllGoing(q)') /\ (Unmarked(q) => Unmarked(q)')
<1> DEFINE e == Head(watch)
<1>1. /\ watch \in Seq(PolicyEvents) /\ watch # <<>>
      /\ watch' = Tail(watch)
      /\ cache' = [cache EXCEPT ![e.policy] = e.obj]
      /\ api' = api
  BY DEF DeliverPolicy, TypeOK
<1>2. /\ Len(watch) \in Nat \ {0}
      /\ Len(watch') = Len(watch) - 1
      /\ \A i \in 1 .. Len(watch') : i + 1 \in 1 .. Len(watch) /\ watch'[i] = watch[i + 1]
      /\ e = watch[1]
      /\ 1 \in 1 .. Len(watch)
      /\ e \in PolicyEvents
  BY <1>1
<1>3. e.policy \in Policies
  BY <1>2 DEF PolicyEvents
<1> HIDE DEF e
<1>4. /\ cache'[e.policy] = e.obj
      /\ \A q \in Policies : q # e.policy => cache'[q] = cache[q]
  BY <1>1, <1>3 DEF TypeOK
<1>5. ASSUME NEW q \in Policies
      PROVE  /\ MarkedIsHeld(q)' /\ GoingStays(q)'
             /\ AllGoing(q) => AllGoing(q)'
             /\ Unmarked(q) => Unmarked(q)'
  <2>1. MarkedIsHeld(q) /\ GoingStays(q)
    BY DEF CopiesInOrder
  <2>2. Held(q)' = Held(q) /\ \A x : OfStored(q, x)' = OfStored(q, x)
    BY <1>1 DEF Held, OfStored
  <2>3. AllGoing(q) => AllGoing(q)'
    BY <1>2, <1>4 DEF AllGoing
  <2>4. Unmarked(q) => Unmarked(q)'
    BY <1>2, <1>4 DEF Unmarked
  <2>5. cache'[q] = cache[q] \/ (e.policy = q /\ cache'[q] = watch[1].obj)
    BY <1>2, <1>4
  <2>6. ASSUME NEW i \in 1 .. Len(watch'), GoingUpTo(q, i + 1)
        PROVE  GoingUpTo(q, i)'
    <3>1. Going(cache'[q])
      BY <1>2, <2>5, <2>6 DEF GoingUpTo
    <3>2. ASSUME NEW j \in 1 .. Len(watch'), watch'[j].policy = q, j <= i
          PROVE  Going(watch'[j].obj)
      <4>1. j + 1 <= i + 1 /\ j + 1 \in 1 .. Len(watch) /\ watch'[j] = watch[j + 1]
        BY <1>2, <3>2
      <4> QED
        BY <2>6, <3>2, <4>1 DEF GoingUpTo
    <3> QED
      BY <3>1, <3>2 DEF GoingUpTo
  <2>7. Marked(cache'[q]) => OfStored(q, cache'[q]) \/ (~ Held(q) /\ Going(cache'[q]))
    <3>1. CASE cache'[q] = cache[q]
      BY <2>1, <3>1 DEF MarkedIsHeld
    <3>2. CASE e.policy = q /\ cache'[q] = watch[1].obj
      BY <1>2, <2>1, <3>2 DEF MarkedIsHeld, GoingUpTo
    <3> QED
      BY <2>5, <3>1, <3>2
  <2>8. ASSUME NEW i \in 1 .. Len(watch'), watch'[i].policy = q, Marked(watch'[i].obj)
        PROVE  OfStored(q, watch'[i].obj) \/ (~ Held(q) /\ GoingUpTo(q, i)')
    BY <1>2, <2>1, <2>6, <2>8 DEF MarkedIsHeld
  <2>9. MarkedIsHeld(q)'
    BY <2>2, <2>7, <2>8 DEF MarkedIsHeld
  <2>10. ASSUME Held(q), Going(cache'[q])
         PROVE  AllGoing(q)'
    <3>1. CASE cache'[q] = cache[q]
      BY <2>1, <2>3, <2>10, <3>1 DEF GoingStays
    <3>2. CASE e.policy = q /\ cache'[q] = watch[1].obj
      <4>1. ASSUME NEW i \in 1 .. Len(watch'), watch'[i].policy = q
            PROVE  Going(watch'[i].obj)
        <5>1. 1 < i + 1 /\ i + 1 \in 1 .. Len(watch) /\ watch'[i] = watch[i + 1]
          BY <1>2
        <5> QED
          BY <1>2, <2>1, <2>10, <3>2, <4>1, <5>1 DEF GoingStays
      <4> QED
        BY <2>10, <4>1 DEF AllGoing
    <3> QED
      BY <2>5, <3>1, <3>2
  <2>11. ASSUME Held(q), NEW i \in 1 .. Len(watch'), NEW j \in 1 .. Len(watch'),
                watch'[i].policy = q, watch'[j].policy = q, i < j, Going(watch'[i].obj)
         PROVE  Going(watch'[j].obj)
    <3>1. /\ i + 1 < j + 1 /\ i + 1 \in 1 .. Len(watch) /\ j + 1 \in 1 .. Len(watch)
          /\ watch'[i] = watch[i + 1] /\ watch'[j] = watch[j + 1]
      BY <1>2, <2>11
    <3> QED
      BY <2>1, <2>11, <3>1 DEF GoingStays
  <2>12. GoingStays(q)'
    BY <2>2, <2>10, <2>11 DEF GoingStays
  <2> QED
    BY <2>3, <2>4, <2>9, <2>12
<1> QED
  BY <1>5 DEF CopiesInOrder

(* A step that neither writes policies nor delivers their events. *)
LEMMA UnwrittenHolds ==
    ASSUME HeldInv, UNCHANGED <<api, watch, cache>>
    PROVE  /\ CopiesInOrder'
           /\ w' = w => WorkerHolds'
<1> USE DEF HeldInv, OfStored, Held, GoingUpTo, AllGoing, Unmarked
<1>1. CopiesInOrder'
  BY DEF CopiesInOrder, MarkedIsHeld, GoingStays
<1>2. w' = w => WorkerHolds'
  BY DEF WorkerHolds
<1> QED
  BY <1>1, <1>2

(* The worker goes on, or returns, without a write to its policy. *)
LEMMA WorkerStillHolds ==
    ASSUME TypeInv, HeldInv, w.pc \notin {"idle", "addFinalizer"},
           UNCHANGED <<api, watch, cache>>, GoesOnOrFails
    PROVE  HeldInv'
<1>1. CopiesInOrder'
  BY UnwrittenHolds
<1>2. CASE ReturnError
  BY <1>1, <1>2 DEF ReturnError, Return, HeldInv, WorkerHolds, Idle
<1>3. CASE GoesOnAs(w, w')
  <2>1. /\ w'.req = w.req /\ w'.obj = w.obj /\ w'.del = w.del /\ w'.pc # "idle"
        /\ w.obj.fin /\ Fits(w')
    BY <1>3 DEF GoesOnAs, TypeInv, Fits
  <2>2. w'.pc # "addFinalizer"
    BY <2>1 DEF Fits
  <2>3. PICK r : r = w.req
    OBVIOUS
  <2>4. Held(r)' = Held(r) /\ AllGoing(r)' = AllGoing(r)
    BY DEF Held, AllGoing
  <2>5. WorkerHolds'
    BY <2>1, <2>2, <2>3, <2>4 DEF HeldInv, WorkerHolds
  <2> QED
    BY <1>1, <2>5 DEF HeldInv
<1> QED
  BY <1>2, <1>3 DEF GoesOnOrFails

(* A write of a user, which neither adds nor removes the finalizer of a policy. *)
LEMMA UserWriteHolds ==
    ASSUME TypeInv, HeldInv, NEW p \in Policies, NEW o \in PolicyObjects \cup {None},
           ApiWrite(p, o), cache' = cache, w' = w,
           HolderKept(p, o) \/ NotHeld(p, o)
    PROVE  HeldInv'
<1>1. CopiesInOrder'
  BY WriteInOrder DEF HeldInv, TypeInv
<1>2. api'[p] = o /\ \A q \in Policies : q # p => api'[q] = api[q]
  BY DEF ApiWrite, TypeInv, TypeOK
<1>3. /\ \A i \in 1 .. Len(watch') :
            \/ i \in 1 .. Len(watch) /\ watch'[i] = watch[i]
            \/ watch'[i].policy = p /\ watch'[i].obj = o
  <2>1. watch \in Seq(PolicyEvents)
    BY DEF TypeInv, TypeOK
  <2>2. watch' = watch \/ watch' = Append(watch, [policy |-> p, obj |-> o])
    BY DEF ApiWrite
  <2> QED
    BY <2>1, <2>2
<1>4. SUFFICES ASSUME w.pc # "idle"
               PROVE  WorkerHolds'
  BY <1>1 DEF HeldInv, WorkerHolds
<1>5. PICK r \in Policies : r = w.req
  BY <1>4, BusyFacts
<1>6. CASE r # p
  <2>1. api'[r] = api[r] /\ Held(r)' = Held(r)
    BY <1>2, <1>6 DEF Held
  <2>2. (AllGoing(r) => AllGoing(r)') /\ (Unmarked(r) => Unmarked(r)')
    BY <1>3, <1>6 DEF AllGoing, Unmarked
  <2> QED
    BY <1>4, <1>5, <2>1, <2>2 DEF HeldInv, WorkerHolds
<1>7. CASE r = p /\ HolderKept(p, o)
  <2>1. /\ Held(p) /\ Held(p)' /\ api'[p].life = api[p].life
        /\ (api[p].deleting => api'[p].deleting /\ Going(o))
    BY <1>2, <1>7 DEF HolderKept, Held, Going
  <2>2. AllGoing(p) /\ api[p].deleting => AllGoing(p)'
    BY <1>3, <2>1 DEF AllGoing
  <2> QED
    BY <1>4, <1>5, <1>7, <2>1, <2>2 DEF HeldInv, WorkerHolds
<1>8. CASE r = p /\ NotHeld(p, o)
  <2>1. ~ Held(p) /\ ~ Held(p)' /\ ~ Marked(o)
    BY <1>2, <1>8 DEF NotHeld, Held
  <2>2. Unmarked(p) => Unmarked(p)'
    BY <1>3, <2>1 DEF Unmarked
  <2> QED
    BY <1>4, <1>5, <1>8, <2>1, <2>2 DEF HeldInv, WorkerHolds
<1> QED
  BY <1>6, <1>7, <1>8

(* A stored policy is held by the finalizer if it waits for its deletion. *)
LEMMA StoredFacts ==
    ASSUME TypeInv, WorkInv, NEW p \in Policies, api[p] # None
    PROVE  /\ api[p] \in PolicyObjects
           /\ Held(p) <=> api[p].fin
           /\ api[p].deleting => Held(p)
BY DEF TypeInv, TypeOK, WorkInv, DeletingHasFinalizer, Held, Marked

(* What a user's operation or a status makes of a policy is held as that was. *)
LEMMA SameHolder ==
    ASSUME TypeInv, WorkInv, NEW p \in Policies, api[p] # None
    PROVE  LET Same(o) == HolderKept(p, o) \/ NotHeld(p, o)
           IN  /\ \A s \in Specs : Same([api[p] EXCEPT !.spec = s, !.gen = @ + 1])
               /\ \A t \in Statuses : Same([api[p] EXCEPT !.status = t])
               /\ Same(AfterDelete(api[p]))
<1> USE DEF HolderKept, NotHeld, Held, Marked
<1>1. PICK x \in PolicyObjects : x = api[p]
  BY StoredFacts
<1>2. x # None /\ None \notin PolicyObjects
  BY <1>1, NoneAssumption
<1>3. ASSUME NEW s \in Specs
      PROVE  LET o == [x EXCEPT !.spec = s, !.gen = @ + 1]
             IN  HolderKept(p, o) \/ NotHeld(p, o)
  <2> DEFINE o == [x EXCEPT !.spec = s, !.gen = @ + 1]
  <2>1. o \in PolicyObjects
    BY ChangedPolicy
  <2>2. o.fin = x.fin /\ o.life = x.life /\ o.deleting = x.deleting
    BY DEF PolicyObjects
  <2> HIDE DEF o
  <2>3. HolderKept(p, o) \/ NotHeld(p, o)
    BY <1>1, <1>2, <2>1, <2>2
  <2> QED
    BY <2>3 DEF o
<1>4. ASSUME NEW t \in Statuses
      PROVE  LET o == [x EXCEPT !.status = t] IN HolderKept(p, o) \/ NotHeld(p, o)
  <2> DEFINE o == [x EXCEPT !.status = t]
  <2>1. o \in PolicyObjects /\ o.fin = x.fin /\ o.life = x.life /\ o.deleting = x.deleting
    BY DEF PolicyObjects
  <2> HIDE DEF o
  <2>2. HolderKept(p, o) \/ NotHeld(p, o)
    BY <1>1, <1>2, <2>1
  <2> QED
    BY <2>2 DEF o
<1>5. HolderKept(p, AfterDelete(x)) \/ NotHeld(p, AfterDelete(x))
  <2>1. CASE x.fin
    <3> DEFINE o == [x EXCEPT !.deleting = TRUE, !.gen = @ + 1]
    <3>1. o = AfterDelete(x)
      BY <2>1 DEF AfterDelete
    <3>2. o.fin = x.fin /\ o.life = x.life /\ o.deleting
      BY DEF PolicyObjects
    <3>3. o # None
      <4>1. x.gen + 1 \in Nat
        BY ObjectFacts
      <4>2. [x EXCEPT !.deleting = TRUE, !.gen = x.gen + 1] \in PolicyObjects
        BY <4>1 DEF PolicyObjects
      <4>3. o = [x EXCEPT !.deleting = TRUE, !.gen = x.gen + 1]
        BY DEF PolicyObjects
      <4> QED
        BY <1>2, <4>2, <4>3
    <3> HIDE DEF o
    <3> QED
      BY <1>1, <1>2, <2>1, <3>1, <3>2, <3>3
  <2>2. CASE ~ x.fin
    BY <1>1, <2>2 DEF AfterDelete
  <2> QED
    BY <2>1, <2>2
<1> QED
  BY <1>1, <1>3, <1>4, <1>5

(* What users do to policies. *)
UserWrite ==
    \E p \in Policies, o \in PolicyObjects \cup {None} :
        ApiWrite(p, o) /\ (HolderKept(p, o) \/ NotHeld(p, o))

(* The users neither add nor remove the finalizer of a policy. *)
LEMMA UsersWrite ==
    ASSUME TypeInv, WorkInv, Users
    PROVE  /\ UserWrite \/ UNCHANGED <<api, watch>>
           /\ UNCHANGED <<cache, w, staleList>>
           /\ UNCHANGED nsVars \/ (UNCHANGED <<api, watch>> /\ \E n \in Namespaces : ChangeNamespace(n))
<1>1. UNCHANGED <<cache, w, staleList>>
  BY DEF Users, CreatePolicy, EditPolicy, DeletePolicy, ChangeNamespace, ChangeRef,
         UserOperation, seenVars
<1>2. ASSUME NEW p \in Policies, NEW s \in Specs, CreatePolicy(p, s)
      PROVE  UserWrite
  <2> DEFINE o == [life |-> lives[p] + 1, gen |-> 1, spec |-> s, fin |-> FALSE,
                   deleting |-> FALSE, status |-> [cond |-> None, applied |-> 0]]
  <2>1. lives[p] + 1 \in Nat
    BY PolicyAssumption DEF TypeInv, TypeOK
  <2>2. o \in PolicyObjects /\ ~ o.fin
    BY <2>1 DEF PolicyObjects, Statuses
  <2>3. ApiWrite(p, o) /\ api[p] = None
    BY <1>2 DEF CreatePolicy
  <2> HIDE DEF o
  <2> QED
    BY <2>2, <2>3 DEF UserWrite, NotHeld, Held, Marked
<1>3. ASSUME NEW p \in Policies, NEW s \in Specs, EditPolicy(p, s)
      PROVE  UserWrite
  <2> DEFINE o == [api[p] EXCEPT !.spec = s, !.gen = @ + 1]
  <2>1. api[p] # None /\ ApiWrite(p, o)
    BY <1>3 DEF EditPolicy
  <2>2. o \in PolicyObjects
    BY <2>1, StoredFacts, ChangedPolicy
  <2>3. HolderKept(p, o) \/ NotHeld(p, o)
    BY <2>1, SameHolder
  <2> HIDE DEF o
  <2> QED
    BY <2>1, <2>2, <2>3 DEF UserWrite
<1>4. ASSUME NEW p \in Policies, DeletePolicy(p)
      PROVE  UserWrite
  <2> DEFINE o == AfterDelete(api[p])
  <2>1. api[p] # None /\ ApiWrite(p, o)
    BY <1>4 DEF DeletePolicy
  <2>2. o \in PolicyObjects \cup {None}
    BY <2>1, StoredFacts, ChangedPolicy
  <2>3. HolderKept(p, o) \/ NotHeld(p, o)
    BY <2>1, SameHolder
  <2> HIDE DEF o
  <2> QED
    BY <2>1, <2>2, <2>3 DEF UserWrite
<1>5. UserWrite \/ UNCHANGED <<api, watch>>
  BY <1>2, <1>3, <1>4 DEF Users, ChangeNamespace, ChangeRef, apiVars
<1>6. UNCHANGED nsVars \/ (UNCHANGED <<api, watch>> /\ \E n \in Namespaces : ChangeNamespace(n))
  BY DEF Users, CreatePolicy, EditPolicy, DeletePolicy, ChangeNamespace, ChangeRef, apiVars
<1> QED
  BY <1>1, <1>5, <1>6

(* The users' operations keep HeldInv. *)
LEMMA UsersHeld == ASSUME TypeInv, WorkInv, HeldInv, Users PROVE HeldInv'
<1>1. CASE UNCHANGED <<api, watch>>
  BY <1>1, UsersWrite, UnwrittenHolds DEF HeldInv
<1>2. CASE UserWrite
  BY <1>2, UsersWrite, UserWriteHolds DEF UserWrite
<1> QED
  BY <1>1, <1>2, UsersWrite

(* Deliveries, timers and a failing first Get keep HeldInv. *)
LEMMA SystemHeld ==
    ASSUME TypeInv, HeldInv,
           Deliver \/ \E p \in Policies : DelayOver(p) \/ GetFails(p)
    PROVE  HeldInv'
<1> USE DEF seenVars, apiVars
<1>1. ASSUME UNCHANGED <<api, watch, cache, w>>
      PROVE  HeldInv'
  BY <1>1, UnwrittenHolds DEF HeldInv
<1>2. CASE DeliverPolicy
  <2>1. /\ CopiesInOrder'
        /\ \A q \in Policies : (AllGoing(q) => AllGoing(q)') /\ (Unmarked(q) => Unmarked(q)')
    BY <1>2, DeliverInOrder DEF HeldInv, TypeInv
  <2>2. api' = api /\ w' = w
    BY <1>2 DEF DeliverPolicy
  <2>3. \A q \in Policies : Held(q)' = Held(q)
    BY <2>2 DEF Held
  <2>4. WorkerHolds'
    BY <2>1, <2>2, <2>3, BusyFacts DEF HeldInv, WorkerHolds
  <2> QED
    BY <2>1, <2>4 DEF HeldInv
<1>3. CASE DeliverNamespace
  BY <1>1, <1>3 DEF DeliverNamespace
<1>4. ASSUME NEW r \in Refs, DeliverRef(r)
      PROVE  HeldInv'
  BY <1>1, <1>4 DEF DeliverRef
<1>5. ASSUME NEW p \in Policies, DelayOver(p) \/ GetFails(p)
      PROVE  HeldInv'
  BY <1>1, <1>5 DEF DelayOver, GetFails, TakeKey, environmentVars
<1> QED
  BY <1>2, <1>3, <1>4, <1>5 DEF Deliver

(* A restart keeps HeldInv: what is cached is what is stored. *)
LEMMA RestartHeld == ASSUME Restart PROVE HeldInv'
<1>1. api' = api /\ cache' = api' /\ watch' = <<>> /\ w' = Idle
  BY DEF Restart
<1>2. CopiesInOrder'
  BY <1>1 DEF CopiesInOrder, MarkedIsHeld, GoingStays, OfStored, Held, AllGoing
<1> QED
  BY <1>1, <1>2 DEF HeldInv, WorkerHolds, Idle

(* A reconcile starts: its copy tells whether its policy is held. *)
LEMMA StartHeld ==
    ASSUME TypeInv, HeldInv, NEW p \in Policies, Start(p)
    PROVE  HeldInv'
<1>1. UNCHANGED <<api, watch, cache>>
  BY DEF Start, ReconcilePolicy, ReconcileNothing, TakeKey, apiVars, environmentVars, seenVars
<1>2. CopiesInOrder'
  BY <1>1, UnwrittenHolds
<1>3. CASE ReconcileNothing(p)
  BY <1>1, <1>3, UnwrittenHolds DEF ReconcileNothing, HeldInv
<1>4. CASE ReconcilePolicy(p)
  <2>1. Idle \in Workers
    BY IdleFits DEF Fits
  <2> DEFINE pc == IF cache[p].deleting THEN "list"
                   ELSE IF cache[p].fin THEN "getPool" ELSE "addFinalizer"
  <2>2. w'.req = p /\ w'.obj = cache[p] /\ w'.del = cache[p].deleting /\ w'.pc = pc
    BY <1>4, <2>1 DEF ReconcilePolicy, Workers
  <2>3. cache[p] # None /\ (cache[p].deleting => cache[p].fin)
    BY <1>4 DEF ReconcilePolicy
  <2>4. MarkedIsHeld(p) /\ GoingStays(p)
    BY DEF HeldInv, CopiesInOrder
  <2>5. Held(p)' = Held(p) /\ AllGoing(p)' = AllGoing(p) /\ Unmarked(p)' = Unmarked(p)
    BY <1>1 DEF Held, AllGoing, Unmarked
  <2>6. ASSUME cache[p].deleting, Held(p)
        PROVE  api[p].deleting /\ api[p].life = cache[p].life /\ AllGoing(p)
    BY <2>3, <2>4, <2>6 DEF MarkedIsHeld, GoingStays, OfStored, Marked, Going
  <2>7. ASSUME ~ cache[p].deleting, cache[p].fin
        PROVE  Held(p) /\ api[p].life = cache[p].life
    BY <2>3, <2>4, <2>7 DEF MarkedIsHeld, OfStored, Marked, Going
  <2>8. ASSUME ~ cache[p].fin, ~ Held(p)
        PROVE  Unmarked(p)
    BY <2>4, <2>8 DEF MarkedIsHeld, OfStored, Unmarked, GoingUpTo, Going, Marked
  <2>9. WorkerHolds'
    BY <1>1, <2>2, <2>5, <2>6, <2>7, <2>8 DEF WorkerHolds
  <2> QED
    BY <1>2, <2>9 DEF HeldInv
<1> QED
  BY <1>3, <1>4 DEF Start

(* What the worker does to its policy, or has done when the answer is lost. *)
LEMMA WorkerWrites ==
    ASSUME TypeInv, WorkInv, HeldInv, w.pc # "idle", NEW r \in Policies, r = w.req,
           api[r] # None,
           \/ w.pc = "addFinalizer" /\ ApiWrite(r, [api[r] EXCEPT !.fin = TRUE])
           \/ w.pc = "removeFinalizer" /\ ApiWrite(r, AfterRemoveFinalizer(api[r]))
           \/ w.pc = "status" /\ PatchStatus
    PROVE  \E o \in PolicyObjects \cup {None} :
              /\ ApiWrite(r, o)
              /\ \/ HolderKept(r, o)
                 \/ NotHeld(r, o)
                 \/ HolderAdded(r, o)
                 \/ /\ w.pc = "removeFinalizer" /\ w.del /\ Held(r)
                    /\ HolderRemoved(r, o)
<1>1. PICK x \in PolicyObjects : x = api[r]
  BY StoredFacts
<1>2. x # None /\ (Held(r) <=> x.fin) /\ (x.deleting => Held(r))
  BY <1>1, StoredFacts
<1>3. CASE w.pc = "addFinalizer" /\ ApiWrite(r, [x EXCEPT !.fin = TRUE])
  <2> DEFINE o == [x EXCEPT !.fin = TRUE]
  <2>1. o \in PolicyObjects /\ o.fin /\ o.life = x.life /\ o.deleting = x.deleting
    BY DEF PolicyObjects
  <2>2. o # None
    BY <2>1, NoneAssumption
  <2>3. ApiWrite(r, o)
    BY <1>3
  <2> HIDE DEF o
  <2>4. Held(r) \/ Unmarked(r)
    BY <1>3 DEF HeldInv, WorkerHolds, TypeInv, Fits
  <2>5. HolderKept(r, o) \/ HolderAdded(r, o)
    BY <1>1, <2>1, <2>2, <2>4 DEF HolderKept, HolderAdded, Marked
  <2> QED
    BY <2>1, <2>3, <2>5
<1>4. CASE w.pc = "removeFinalizer" /\ ApiWrite(r, AfterRemoveFinalizer(x))
  <2>1. w.del
    BY <1>4 DEF TypeInv, Fits
  <2>2. CASE Held(r)
    <3>1. x.deleting /\ AllGoing(r)
      BY <1>1, <1>4, <2>1, <2>2 DEF HeldInv, WorkerHolds
    <3>2. AfterRemoveFinalizer(x) = None
      BY <3>1 DEF AfterRemoveFinalizer
    <3> QED
      BY <1>4, <2>1, <2>2, <3>1, <3>2 DEF HolderRemoved
  <2>3. CASE ~ Held(r)
    <3>1. ~ x.deleting
      BY <1>2, <2>3
    <3> DEFINE o == [x EXCEPT !.fin = FALSE]
    <3>2. ApiWrite(r, o)
      BY <1>4, <3>1 DEF AfterRemoveFinalizer
    <3>3. o \in PolicyObjects /\ ~ o.fin
      BY DEF PolicyObjects
    <3> HIDE DEF o
    <3> QED
      BY <2>3, <3>2, <3>3 DEF NotHeld, Marked
  <2> QED
    BY <2>2, <2>3
<1>5. CASE w.pc = "status" /\ PatchStatus
  <2>1. PICK t \in Statuses : ApiWrite(r, [x EXCEPT !.status = t])
    BY <1>1, <1>2, <1>5, StatusWrite
  <2> DEFINE o == [x EXCEPT !.status = t]
  <2>2. o \in PolicyObjects
    BY ChangedPolicy
  <2>3. HolderKept(r, o) \/ NotHeld(r, o)
    BY <1>1, <1>2, SameHolder
  <2>4. ApiWrite(r, o)
    BY <2>1
  <2> HIDE DEF o
  <2> QED
    BY <2>2, <2>3, <2>4
<1> QED
  BY <1>1, <1>3, <1>4, <1>5

(* What the worker does to policies. *)
WorkerWrite ==
    /\ w.pc \in {"addFinalizer", "removeFinalizer", "status"}
    /\ \E o \in PolicyObjects \cup {None} :
          /\ ApiWrite(w.req, o)
          /\ \/ HolderKept(w.req, o)
             \/ NotHeld(w.req, o)
             \/ HolderAdded(w.req, o)
             \/ /\ w.pc = "removeFinalizer" /\ w.del /\ Held(w.req)
                /\ HolderRemoved(w.req, o)

(* The steps in which the worker writes its policy, or fails to. *)
LEMMA PolicySteps ==
    ASSUME TypeInv, WorkInv, HeldInv,
           \/ AddFinalizer \/ RemoveFinalizer \/ setValidatedCondition
           \/ CallFails /\ w.pc \in {"addFinalizer", "removeFinalizer", "status"}
    PROVE  /\ w.pc # "idle"
           /\ WorkerWrite \/ UNCHANGED <<api, watch>>
           /\ UNCHANGED <<nsApi, nsWatch, cache, staleList>>
           /\ \/ w' = Idle
              \/ /\ w'.req = w.req /\ w'.del = w.del /\ w'.pc = "getPool"
                 /\ w'.obj = api'[w.req] /\ Held(w.req)'
<1> USE DEF apiVars, nsVars, environmentVars, seenVars, ReturnError, Return
<1>1. /\ w.pc \in {"addFinalizer", "removeFinalizer", "status"} /\ w.pc # "idle"
      /\ UNCHANGED <<nsApi, nsWatch, cache, staleList>>
  BY DEF AddFinalizer, RemoveFinalizer, setValidatedCondition, CallFails
<1>2. PICK r \in Policies : r = w.req
  BY <1>1, BusyFacts
<1>3. \/ UNCHANGED <<api, watch>>
      \/ /\ api[r] # None
         /\ \/ w.pc = "addFinalizer" /\ ApiWrite(r, [api[r] EXCEPT !.fin = TRUE])
            \/ w.pc = "removeFinalizer" /\ ApiWrite(r, AfterRemoveFinalizer(api[r]))
            \/ w.pc = "status" /\ PatchStatus
  BY <1>1, <1>2 DEF AddFinalizer, RemoveFinalizer, setValidatedCondition, CallFails
<1>4. WorkerWrite \/ UNCHANGED <<api, watch>>
  BY <1>1, <1>2, <1>3, WorkerWrites DEF WorkerWrite
<1>5. CASE RemoveFinalizer \/ setValidatedCondition \/ CallFails
  BY <1>1, <1>4, <1>5 DEF RemoveFinalizer, setValidatedCondition, CallFails
<1>6. CASE AddFinalizer
  <2>1. \/ w' = Idle
        \/ /\ api[r] # None /\ ApiWrite(r, [api[r] EXCEPT !.fin = TRUE])
           /\ w' = [w EXCEPT !.pc = "getPool", !.obj = api'[r]]
    BY <1>2, <1>6 DEF AddFinalizer
  <2>2. ASSUME api[r] # None, ApiWrite(r, [api[r] EXCEPT !.fin = TRUE]),
               w' = [w EXCEPT !.pc = "getPool", !.obj = api'[r]]
        PROVE  /\ w'.req = r /\ w'.del = w.del /\ w'.pc = "getPool"
               /\ w'.obj = api'[r] /\ Held(r)'
    <3>1. w \in Workers
      BY <1>1, BusyFacts
    <3>2. w'.req = r /\ w'.del = w.del /\ w'.pc = "getPool" /\ w'.obj = api'[r]
      BY <1>2, <2>2, <3>1 DEF Workers
    <3>3. api[r] \in PolicyObjects
      BY <2>2, StoredFacts
    <3>4. api'[r] = [api[r] EXCEPT !.fin = TRUE]
      BY <2>2 DEF ApiWrite, TypeInv, TypeOK
    <3>5. api'[r] \in PolicyObjects /\ api'[r].fin
      BY <3>3, <3>4, ChangedPolicy
    <3>6. Held(r)'
      BY <3>5, NoneAssumption DEF Held, Marked
    <3> QED
      BY <3>2, <3>6
  <2> QED
    BY <1>1, <1>2, <1>4, <2>1, <2>2
<1> QED
  BY <1>5, <1>6

(* The worker's steps keep HeldInv. *)
LEMMA WorkerHeld == ASSUME TypeInv, WorkInv, HeldInv, Worker PROVE HeldInv'
<1> USE DEF apiVars, environmentVars, seenVars
<1>1. ASSUME \/ AddFinalizer \/ RemoveFinalizer \/ setValidatedCondition
             \/ CallFails /\ w.pc \in {"addFinalizer", "removeFinalizer", "status"}
      PROVE  HeldInv'
  <2>1. /\ w.pc # "idle" /\ cache' = cache
        /\ WorkerWrite \/ UNCHANGED <<api, watch>>
        /\ \/ w' = Idle
           \/ /\ w'.req = w.req /\ w'.del = w.del /\ w'.pc = "getPool"
              /\ w'.obj = api'[w.req] /\ Held(w.req)'
    BY <1>1, PolicySteps
  <2>2. PICK r \in Policies : r = w.req
    BY <2>1, BusyFacts
  <2>3. CopiesInOrder'
    <3>1. CASE UNCHANGED <<api, watch>>
      BY <2>1, <3>1, UnwrittenHolds
    <3>2. CASE WorkerWrite
      BY <2>1, <2>2, <3>2, WriteInOrder DEF WorkerWrite, HeldInv, TypeInv
    <3> QED
      BY <2>1, <3>1, <3>2
  <2>4. CASE w' = Idle
    BY <2>3, <2>4 DEF HeldInv, WorkerHolds, Idle
  <2>5. CASE /\ w'.req = r /\ w'.del = w.del /\ w'.pc = "getPool"
             /\ w'.obj = api'[r] /\ Held(r)'
    <3>1. ~ w'.del
      BY <2>5, TypeInvStep DEF Next, vars, TypeInv, Fits
    <3>2. WorkerHolds'
      BY <2>5, <3>1 DEF WorkerHolds
    <3> QED
      BY <2>3, <3>2 DEF HeldInv
  <2> QED
    BY <2>1, <2>2, <2>4, <2>5
<1>2. ASSUME w.pc \notin {"idle", "addFinalizer"}, UNCHANGED <<api, watch, cache>>,
             GoesOnOrFails \/ (GoesOnAs(w, w') /\ queue' = queue)
      PROVE  HeldInv'
  BY <1>2, WorkerStillHolds DEF GoesOnOrFails
<1>3. CASE GetUpstreamPool \/ GetCacheProfile \/ ReferenceUnreadable
  BY <1>2, <1>3, ReferenceSteps DEF GetUpstreamPool, GetCacheProfile, ReferenceUnreadable
<1>4. CASE ListNamespaces
  BY <1>2, <1>4, ListStep DEF ListNamespaces
<1>5. CASE RemoveAnnotations
  BY <1>2, <1>5, RemoveStep DEF RemoveAnnotations
<1>6. CASE GetNamespace
  BY <1>2, <1>6, GetNamespaceStep DEF GetNamespace
<1>7. CASE AnnotateNamespace
  BY <1>2, <1>7, AnnotateStep DEF AnnotateNamespace
<1>8. CASE NamespaceUnreadable
  BY <1>2, <1>8, UnreadableStep DEF NamespaceUnreadable
<1>9. CASE CallFails /\ w.pc \in {"remove", "annotate"}
  <2>1. UNCHANGED <<api, watch, cache>>
    BY <1>9 DEF CallFails
  <2> QED
    BY <1>2, <1>9, <2>1, CallFailsStep
<1>10. CallFails => w.pc \in {"addFinalizer", "removeFinalizer", "status", "remove", "annotate"}
  BY DEF CallFails
<1> QED
  BY <1>1, <1>3, <1>4, <1>5, <1>6, <1>7, <1>8, <1>9, <1>10 DEF Worker

LEMMA HeldInvStep == TypeInv /\ WorkInv /\ HeldInv /\ [Next]_vars => HeldInv'
<1> SUFFICES ASSUME TypeInv, WorkInv, HeldInv, [Next]_vars
             PROVE  HeldInv'
  OBVIOUS
<1>1. CASE UNCHANGED vars
  BY <1>1, UnwrittenHolds DEF vars, apiVars, seenVars, HeldInv
<1> QED
  BY <1>1, UsersHeld, SystemHeld, RestartHeld, StartHeld, WorkerHeld DEF Next

(* The UID that a namespace carries is that of a policy. *)
LEMMA UIDFacts ==
    ASSUME TypeInv, NEW n \in Namespaces, nsApi[n] # None, nsApi[n].uid # None
    PROVE  /\ nsApi[n].uid \in UIDs /\ nsApi[n].uid.policy \in Policies
           /\ \A p, l : nsApi[n].uid.policy = p /\ nsApi[n].uid.life = l =>
                 nsApi[n].uid = [policy |-> p, life |-> l]
<1>1. nsApi[n] \in Annotations
  BY DEF TypeInv, TypeOK
<1>2. nsApi[n].uid \in UIDs
  BY <1>1 DEF Annotations
<1> QED
  BY <1>2 DEF UIDs

(****************************************************************************)
(* A write to a policy leaves all owners held, if it keeps the finalizer,   *)
(* or if no namespace carries the UID of the policy.                        *)
(****************************************************************************)
LEMMA OwnersStayHeld ==
    ASSUME TypeInv, OwnersHeld, nsApi' = nsApi, NEW p \in Policies, NEW o, ApiWrite(p, o),
           \/ HolderKept(p, o)
           \/ \A n \in Namespaces :
                 nsApi[n] # None /\ nsApi[n].uid # None => nsApi[n].uid.policy # p
    PROVE  OwnersHeld'
<1>1. api'[p] = o /\ \A q \in Policies : q # p => api'[q] = api[q]
  BY DEF ApiWrite, TypeInv, TypeOK
<1> SUFFICES ASSUME NEW n \in Namespaces, nsApi[n] # None, nsApi[n].uid # None
             PROVE  HeldUID(nsApi[n].uid)'
  BY DEF OwnersHeld
<1>2. PICK u : u = nsApi[n].uid
  OBVIOUS
<1>3. u.policy \in Policies /\ HeldUID(u)
  BY <1>2, UIDFacts DEF OwnersHeld
<1>4. HeldUID(u)'
  <2>1. CASE u.policy # p
    BY <1>1, <1>3, <2>1 DEF HeldUID, Held
  <2>2. CASE u.policy = p
    BY <1>1, <1>2, <1>3, <2>2 DEF HeldUID, Held, HolderKept
  <2> QED
    BY <2>1, <2>2
<1> QED
  BY <1>2, <1>4

(* Of a policy that is not held, no namespace carries the UID. *)
LEMMA NotHeldOwnsNothing ==
    ASSUME OwnersHeld, NEW p, ~ Held(p)
    PROVE  \A n \in Namespaces :
              nsApi[n] # None /\ nsApi[n].uid # None => nsApi[n].uid.policy # p
BY DEF OwnersHeld, HeldUID

(* A write to a namespace leaves all owners held, if it sets no UID but one that is held. *)
LEMMA OwnersStaySet ==
    ASSUME TypeInv, OwnersHeld, api' = api, NEW n \in Namespaces, NEW o, NamespaceWrite(n, o),
           o # None /\ o.uid # None =>
              \/ nsApi[n] # None /\ o.uid = nsApi[n].uid
              \/ HeldUID(o.uid)
    PROVE  OwnersHeld'
<1>1. nsApi'[n] = o /\ \A m \in Namespaces : m # n => nsApi'[m] = nsApi[m]
  BY DEF NamespaceWrite, TypeInv, TypeOK
<1>2. \A u : HeldUID(u)' = HeldUID(u)
  BY DEF HeldUID, Held
<1> QED
  BY <1>1, <1>2 DEF OwnersHeld

(* Steps that leave the namespaces alone, and with them the worker that clears. *)
LEMMA ClearsAllStays ==
    ASSUME ClearsAll, w' = w,
           \A u : \A n \in Namespaces : Owns(u, n)' => Owns(u, n)
    PROVE  ClearsAll'
<1>1. OwnUID' = OwnUID /\ AtHand' = AtHand
  BY DEF OwnUID, AtHand
<1>2. PICK u : u = OwnUID
  OBVIOUS
<1>3. \A n \in Namespaces : Owns(u, n)' => Owns(u, n)
  OBVIOUS
<1>4. w.del /\ w.pc \in {"remove", "removeFinalizer"} =>
         /\ \A n \in Namespaces : Owns(u, n)' => w.copies[n] # None
         /\ \A n \in AtHand : w.copies[n].uid = u
         /\ w.pc = "removeFinalizer" => w.copies = NoCopies
  BY <1>2, <1>3 DEF ClearsAll
<1>5. w'.del /\ w'.pc \in {"remove", "removeFinalizer"} =>
         /\ \A n \in Namespaces : Owns(u, n)' => w'.copies[n] # None
         /\ \A n \in AtHand' : w'.copies[n].uid = u
         /\ w'.pc = "removeFinalizer" => w'.copies = NoCopies
  BY <1>1, <1>4
<1>6. u = OwnUID'
  BY <1>1, <1>2
<1> QED
  BY <1>5, <1>6 DEF ClearsAll

(* A worker that is not clearing for a deletion. *)
LEMMA NotClearing ==
    ASSUME ~ w'.del \/ w'.pc \notin {"remove", "removeFinalizer"}
    PROVE  ClearsAll'
BY DEF ClearsAll

(* The users' operations keep ClearInv. *)
LEMMA UsersClear ==
    ASSUME TypeInv, WorkInv, ClearInv, Users
    PROVE  ClearInv'
<1> SUFFICES ASSUME ~ staleList'
             PROVE  OwnersHeld' /\ ClearsAll'
  BY DEF ClearInv
<1>1. w' = w /\ OwnersHeld /\ ClearsAll
  BY UsersWrite DEF ClearInv
<1>2. CASE UNCHANGED nsVars /\ UserWrite
  <2>1. PICK p \in Policies, o \in PolicyObjects \cup {None} :
           ApiWrite(p, o) /\ (HolderKept(p, o) \/ NotHeld(p, o))
    BY <1>2 DEF UserWrite
  <2>2. nsApi' = nsApi
    BY <1>2 DEF nsVars
  <2>3. OwnersHeld'
    BY <1>1, <2>1, <2>2, OwnersStayHeld, NotHeldOwnsNothing DEF NotHeld
  <2>4. \A u : \A n \in Namespaces : Owns(u, n)' => Owns(u, n)
    BY <2>2 DEF Owns
  <2> QED
    BY <1>1, <2>3, <2>4, ClearsAllStays
<1>3. CASE UNCHANGED nsVars /\ UNCHANGED <<api, watch>>
  <2>1. \A u : \A n \in Namespaces : Owns(u, n)' => Owns(u, n)
    BY <1>3 DEF Owns, nsVars
  <2>2. OwnersHeld'
    BY <1>1, <1>3 DEF OwnersHeld, HeldUID, Held, nsVars
  <2> QED
    BY <1>1, <2>1, <2>2, ClearsAllStays
<1>4. CASE UNCHANGED <<api, watch>> /\ \E n \in Namespaces : ChangeNamespace(n)
  <2>1. PICK n \in Namespaces : ChangeNamespace(n)
    BY <1>4
  <2>2. PICK o : /\ NamespaceWrite(n, o)
                 /\ o # None /\ o.uid # None => nsApi[n] # None /\ o.uid = nsApi[n].uid
    <3>1. Bare.uid = None
      BY DEF Bare
    <3>2. nsApi[n] # None => [nsApi[n] EXCEPT !.other = ~ @].uid = nsApi[n].uid
      BY DEF TypeInv, TypeOK, Annotations
    <3> QED
      BY <2>1, <3>1, <3>2 DEF ChangeNamespace
  <2>3. OwnersHeld'
    BY <1>1, <1>4, <2>2, OwnersStaySet
  <2>4. nsApi'[n] = o /\ \A m \in Namespaces : m # n => nsApi'[m] = nsApi[m]
    BY <2>2 DEF NamespaceWrite, TypeInv, TypeOK
  <2>5. \A u : \A m \in Namespaces : Owns(u, m)' => Owns(u, m)
    BY <2>2, <2>4 DEF Owns
  <2> QED
    BY <1>1, <2>3, <2>5, ClearsAllStays
<1> QED
  BY <1>2, <1>3, <1>4, UsersWrite

(* The steps that leave policies, namespaces and the worker's progress alone. *)
LEMMA OthersClear ==
    ASSUME ClearInv, UNCHANGED <<api, nsApi, staleList>>,
           w' = w \/ ~ w'.del \/ w'.pc \notin {"remove", "removeFinalizer"}
    PROVE  ClearInv'
<1>1. OwnersHeld => OwnersHeld'
  BY DEF OwnersHeld, HeldUID, Held
<1>2. \A u : \A n \in Namespaces : Owns(u, n)' => Owns(u, n)
  BY DEF Owns
<1> QED
  BY <1>1, <1>2, ClearsAllStays, NotClearing DEF ClearInv

(****************************************************************************)
(* The worker writes its policy: the finalizer is taken from one that is    *)
(* held only when the namespaces with its UID are cleared.                  *)
(****************************************************************************)
LEMMA PolicyWriteClear ==
    ASSUME TypeInv, WorkInv, HeldInv, ClearInv,
           \/ AddFinalizer \/ RemoveFinalizer \/ setValidatedCondition
           \/ CallFails /\ w.pc \in {"addFinalizer", "removeFinalizer", "status"}
    PROVE  ClearInv'
<1>1. /\ w.pc # "idle" /\ nsApi' = nsApi /\ staleList' = staleList
      /\ WorkerWrite \/ UNCHANGED <<api, watch>>
      /\ w' = Idle \/ w'.pc = "getPool"
  BY PolicySteps
<1>2. w'.pc \notin {"remove", "removeFinalizer"}
  BY <1>1 DEF Idle
<1>3. CASE UNCHANGED <<api, watch>>
  BY <1>1, <1>2, <1>3, OthersClear
<1>4. CASE WorkerWrite
  <2> SUFFICES ASSUME ~ staleList
               PROVE  OwnersHeld'
    BY <1>1, <1>2, NotClearing DEF ClearInv
  <2>1. OwnersHeld /\ ClearsAll
    BY DEF ClearInv
  <2>2. PICK r \in Policies : r = w.req
    BY <1>1, BusyFacts
  <2>3. PICK o \in PolicyObjects \cup {None} :
           /\ ApiWrite(r, o)
           /\ \/ HolderKept(r, o)
              \/ NotHeld(r, o)
              \/ HolderAdded(r, o)
              \/ /\ w.pc = "removeFinalizer" /\ w.del /\ Held(r)
                 /\ HolderRemoved(r, o)
    BY <1>4, <2>2 DEF WorkerWrite
  <2>4. CASE HolderKept(r, o)
    BY <1>1, <2>1, <2>3, <2>4, OwnersStayHeld
  <2>5. CASE NotHeld(r, o) \/ HolderAdded(r, o)
    BY <1>1, <2>1, <2>3, <2>5, OwnersStayHeld, NotHeldOwnsNothing DEF NotHeld, HolderAdded
  <2>6. CASE w.pc = "removeFinalizer" /\ w.del /\ Held(r)
    <3>1. api[r].life = w.obj.life
      BY <2>2, <2>6 DEF HeldInv, WorkerHolds
    <3>2. ASSUME NEW n \in Namespaces, nsApi[n] # None, nsApi[n].uid # None,
                 nsApi[n].uid.policy = r
          PROVE  FALSE
      <4>1. nsApi[n].uid.life = w.obj.life
        BY <2>1, <3>1, <3>2 DEF OwnersHeld, HeldUID
      <4>2. nsApi[n].uid = [policy |-> r, life |-> w.obj.life]
        BY <3>2, <4>1, UIDFacts
      <4>3. Owns(OwnUID, n)
        BY <2>2, <3>2, <4>2 DEF Owns, OwnUID
      <4>4. w.copies[n] # None /\ w.copies = NoCopies
        BY <2>1, <2>6, <4>3 DEF ClearsAll
      <4> QED
        BY <4>4 DEF NoCopies
    <3> QED
      BY <1>1, <2>1, <2>3, <3>2, OwnersStayHeld
  <2> QED
    BY <2>3, <2>4, <2>5, <2>6
<1> QED
  BY <1>1, <1>3, <1>4

(* What the worker holds once namespaces were cleared for a deletion. *)
LEMMA ClearedCopies ==
    ASSUME NEW x \in Workers, x.del
    PROVE  /\ Cleared(x).copies = x.copies
           /\ Cleared(x).pc = "removeFinalizer" => x.copies = NoCopies
BY DEF Cleared, Workers, Steps

(* The managed namespaces are listed from a cache that is up to date. *)
LEMMA ListClear ==
    ASSUME TypeInv, RestInv, ClearInv, ListNamespaces
    PROVE  ClearInv'
<1> SUFFICES ASSUME ~ staleList'
             PROVE  OwnersHeld' /\ ClearsAll'
  BY DEF ClearInv
<1> DEFINE c == [n \in Namespaces |->
                    IF n \in listManagedPolicyNamespaces \ Selected THEN nsCache[n] ELSE None]
           x == [w EXCEPT !.copies = c]
<1>1. /\ w.pc = "list" /\ w \in Workers /\ w' = Cleared(x) /\ c \in Copies
      /\ api' = api /\ nsApi' = nsApi
      /\ ~ staleList /\ nsWatch = <<>>
  BY DEF ListNamespaces, TypeInv, TypeOK, Copies, apiVars, nsVars
<1>2. OwnersHeld'
  BY <1>1 DEF ClearInv, OwnersHeld, HeldUID, Held
<1>3. \A n \in Namespaces : nsCache[n] = nsApi[n]
  BY <1>1 DEF RestInv, NamespacesSynced, NamespacePending
<1>4. PICK u : u = OwnUID
  OBVIOUS
<1>5. ASSUME w.del
      PROVE  /\ \A n \in Namespaces : Owns(u, n) => c[n] # None
             /\ \A n \in Namespaces : c[n] # None => c[n].uid = u
  BY <1>3, <1>4, <1>5 DEF listManagedPolicyNamespaces, Selected, Owns
<1> HIDE DEF c
<1>6. /\ x \in Workers /\ x.req = w.req /\ x.obj = w.obj /\ x.del = w.del /\ x.copies = c
  BY <1>1 DEF Workers
<1> HIDE DEF x
<1>7. w'.req = w.req /\ w'.obj = w.obj /\ w'.del = w.del
  <2>1. w.obj \in PolicyObjects
    BY <1>1, BusyFacts
  <2>2. w.obj.spec.selector \in SUBSET Namespaces
    BY <2>1, ObjectFacts
  <2> QED
    BY <1>1, <1>6, <2>2, ClearedFields
<1>8. u = OwnUID'
  BY <1>4, <1>7 DEF OwnUID
<1>9. ASSUME w'.del
      PROVE  w'.copies = c /\ (w'.pc = "removeFinalizer" => c = NoCopies)
  BY <1>1, <1>6, <1>7, <1>9, ClearedCopies
<1>10. \A n : Owns(u, n)' = Owns(u, n)
  BY <1>1 DEF Owns
<1>11. ClearsAll'
  <2> SUFFICES ASSUME w'.del
               PROVE  /\ \A n \in Namespaces : Owns(u, n)' => w'.copies[n] # None
                      /\ \A n \in AtHand' : w'.copies[n].uid = u
                      /\ w'.pc = "removeFinalizer" => w'.copies = NoCopies
    BY <1>8 DEF ClearsAll
  <2> QED
    BY <1>5, <1>7, <1>9, <1>10 DEF AtHand
<1> QED
  BY <1>2, <1>11

(* The patch that removes the annotations of a copy removes the UID that the copy has. *)
LEMMA RemovedUID ==
    ASSUME TypeInv, NEW n \in AtHand, nsApi[n] # None, removeNamespacePolicyAnnotations(n)
    PROVE  \E o \in Annotations :
              /\ NamespaceWrite(n, o)
              /\ o.uid # None => o.uid = nsApi[n].uid /\ w.copies[n].uid = None
<1>1. n \in Namespaces /\ w.copies[n] \in Annotations
  BY CopyFacts
<1>2. nsApi[n] \in Annotations
  BY <1>1 DEF TypeInv, TypeOK
<1>3. CASE ~ w.copies[n].other
  <2>1. NamespaceWrite(n, Bare) /\ Bare.uid = None
    BY <1>3 DEF removeNamespacePolicyAnnotations, Bare
  <2> QED
    BY <2>1, BareType
<1>4. CASE w.copies[n].other
  <2> DEFINE b == [Bare EXCEPT !.other = TRUE]
             o == MergePatch(nsApi[n], w.copies[n], b)
  <2>1. NamespaceWrite(n, o)
    BY <1>4 DEF removeNamespacePolicyAnnotations
  <2>2. b \in Annotations /\ b.uid = None
    BY BareType DEF Bare
  <2> HIDE DEF b
  <2>3. o \in Annotations
    BY <1>1, <1>2, <2>2, MergeFacts
  <2>4. o.uid = IF b.uid # w.copies[n].uid THEN b.uid ELSE nsApi[n].uid
    BY <1>2 DEF MergePatch, Annotations
  <2> HIDE DEF o
  <2> QED
    BY <2>1, <2>2, <2>3, <2>4
<1> QED
  BY <1>3, <1>4

(* The patch that annotates sets the UID of the policy at hand, if it sets one. *)
LEMMA UpdatedUID ==
    ASSUME TypeInv, w.pc # "idle", NEW n \in AtHand, nsApi[n] # None,
           updateNamespacePolicyAnnotations(n)
    PROVE  \E o \in Annotations :
              NamespaceWrite(n, o) /\ o.uid \in {nsApi[n].uid, OwnUID}
<1>1. n \in Namespaces /\ w.copies[n] \in Annotations
  BY CopyFacts
<1>2. nsApi[n] \in Annotations
  BY <1>1 DEF TypeInv, TypeOK
<1> DEFINE b == Wanted(w.copies[n])
           o == MergePatch(nsApi[n], w.copies[n], b)
<1>3. NamespaceWrite(n, o)
  BY DEF updateNamespacePolicyAnnotations
<1>4. b \in Annotations /\ b.uid = OwnUID
  <2>1. b \in Annotations
    BY <1>1, WantedType
  <2>2. b.uid = OwnUID
    BY DEF Wanted
  <2> QED
    BY <2>1, <2>2
<1> HIDE DEF b
<1>5. o \in Annotations
  BY <1>1, <1>2, <1>4, MergeFacts
<1>6. o.uid = IF b.uid # w.copies[n].uid THEN b.uid ELSE nsApi[n].uid
  BY <1>2 DEF MergePatch, Annotations
<1> HIDE DEF o
<1> QED
  BY <1>3, <1>4, <1>5, <1>6

(* Both patches leave all owners held. *)
LEMMA PatchOwners ==
    ASSUME TypeInv, HeldInv, OwnersHeld, api' = api, NEW n \in AtHand, nsApi[n] # None,
           \/ w.pc = "remove" /\ removeNamespacePolicyAnnotations(n)
           \/ w.pc = "annotate" /\ updateNamespacePolicyAnnotations(n)
    PROVE  OwnersHeld'
<1>1. n \in Namespaces
  BY CopyFacts
<1>2. CASE w.pc = "remove" /\ removeNamespacePolicyAnnotations(n)
  BY <1>1, <1>2, RemovedUID, OwnersStaySet
<1>3. CASE w.pc = "annotate" /\ updateNamespacePolicyAnnotations(n)
  <2>1. PICK o \in Annotations : NamespaceWrite(n, o) /\ o.uid \in {nsApi[n].uid, OwnUID}
    BY <1>3, UpdatedUID
  <2>2. ~ w.del
    BY <1>3 DEF TypeInv, Fits
  <2>3. Held(w.req) /\ api[w.req].life = w.obj.life
    BY <1>3, <2>2 DEF HeldInv, WorkerHolds
  <2>4. HeldUID(OwnUID)
    BY <2>3 DEF HeldUID, OwnUID
  <2> QED
    BY <1>1, <2>1, <2>4, OwnersStaySet
<1> QED
  BY <1>2, <1>3

(* An error in enforcePolicy or clearPolicyEnforcement ends the clearing for a deletion. *)
LEMMA FailedClears ==
    ASSUME TypeInv, w.pc # "idle", NEW n, EnforcementFails(n)
    PROVE  ~ w'.del \/ w'.pc \notin {"remove", "removeFinalizer"}
<1>1. CASE w.del
  BY <1>1 DEF EnforcementFails, ReturnError, Return, Idle
<1>2. CASE ~ w.del
  <2> DEFINE v == Says("EnforcementError", n, None)
  <2>1. w' = SetStatus(w, v, "backoff")
    BY <1>2 DEF EnforcementFails
  <2> HIDE DEF v
  <2>2. w \in Workers
    BY BusyFacts
  <2>3. w'.pc = "status"
    BY <2>1, <2>2 DEF SetStatus, Workers, Steps
  <2> QED
    BY <2>3
<1> QED
  BY <1>1, <1>2

(* The namespaces are cleared one by one. *)
LEMMA RemoveClear ==
    ASSUME TypeInv, HeldInv, ClearInv, RemoveAnnotations
    PROVE  ClearInv'
<1>1. w.pc = "remove" /\ w \in Workers /\ api' = api /\ staleList' = staleList
  BY DEF RemoveAnnotations, TypeInv, TypeOK, apiVars
<1>2. PICK n \in AtHand :
         \/ /\ nsApi[n] # None
            /\ removeNamespacePolicyAnnotations(n)
            /\ w' = Cleared([w EXCEPT !.copies[n] = None])
         \/ UNCHANGED nsVars /\ EnforcementFails(n)
  BY DEF RemoveAnnotations
<1>3. CASE UNCHANGED nsVars /\ EnforcementFails(n)
  BY <1>1, <1>3, FailedClears, OthersClear DEF nsVars
<1>4. CASE /\ nsApi[n] # None
           /\ removeNamespacePolicyAnnotations(n)
           /\ w' = Cleared([w EXCEPT !.copies[n] = None])
  <2> SUFFICES ASSUME ~ staleList
               PROVE  OwnersHeld' /\ ClearsAll'
    BY <1>1 DEF ClearInv
  <2>1. OwnersHeld /\ ClearsAll
    BY DEF ClearInv
  <2>2. OwnersHeld'
    BY <1>1, <1>4, <2>1, PatchOwners
  <2> DEFINE c == [w.copies EXCEPT ![n] = None]
             x == [w EXCEPT !.copies = c]
  <2>3. w.copies \in Copies /\ n \in Namespaces
    BY <1>1, CopyFacts DEF Workers
  <2>4. /\ c \in Copies /\ c[n] = None
        /\ \A m \in Namespaces : m # n => c[m] = w.copies[m]
    BY <2>3 DEF Copies
  <2>5. w' = Cleared(x)
    BY <1>4
  <2> HIDE DEF c
  <2>6. x \in Workers /\ x.req = w.req /\ x.obj = w.obj /\ x.del = w.del /\ x.copies = c
    BY <1>1, <2>4 DEF Workers
  <2> HIDE DEF x
  <2>7. w'.req = w.req /\ w'.obj = w.obj /\ w'.del = w.del
    <3>1. w.obj \in PolicyObjects
      BY <1>1, BusyFacts
    <3>2. w.obj.spec.selector \in SUBSET Namespaces
      BY <3>1, ObjectFacts
    <3> QED
      BY <2>5, <2>6, <3>2, ClearedFields
  <2>8. PICK u : u = OwnUID
    OBVIOUS
  <2>9. u = OwnUID'
    BY <2>7, <2>8 DEF OwnUID
  <2>10. ASSUME w.del
         PROVE  /\ \A m \in Namespaces : Owns(u, m)' => c[m] # None
                /\ \A m \in Namespaces : c[m] # None => c[m].uid = u
    <3>1. PICK o \in Annotations :
             /\ NamespaceWrite(n, o)
             /\ o.uid # None => o.uid = nsApi[n].uid /\ w.copies[n].uid = None
      BY <1>4, RemovedUID
    <3>2. nsApi'[n] = o /\ \A m \in Namespaces : m # n => nsApi'[m] = nsApi[m]
      BY <2>3, <3>1 DEF NamespaceWrite, TypeInv, TypeOK
    <3>3. /\ \A m \in Namespaces : Owns(u, m) => w.copies[m] # None
          /\ \A m \in AtHand : w.copies[m].uid = u
      BY <1>1, <2>1, <2>8, <2>10 DEF ClearsAll
    <3>4. ~ Owns(u, n)'
      BY <3>1, <3>2, <3>3 DEF Owns
    <3>5. \A m \in Namespaces : m # n => Owns(u, m)' = Owns(u, m)
      BY <3>2 DEF Owns
    <3> QED
      BY <2>4, <3>3, <3>4, <3>5 DEF AtHand
  <2>11. ASSUME w'.del
         PROVE  w'.copies = c /\ (w'.pc = "removeFinalizer" => c = NoCopies)
    BY <2>5, <2>6, <2>7, <2>11, ClearedCopies
  <2>12. ClearsAll'
    <3> SUFFICES ASSUME w'.del
                 PROVE  /\ \A m \in Namespaces : Owns(u, m)' => w'.copies[m] # None
                        /\ \A m \in AtHand' : w'.copies[m].uid = u
                        /\ w'.pc = "removeFinalizer" => w'.copies = NoCopies
      BY <2>9 DEF ClearsAll
    <3> QED
      BY <2>7, <2>10, <2>11 DEF AtHand
  <2> QED
    BY <2>2, <2>12
<1> QED
  BY <1>2, <1>3, <1>4

(* A namespace is annotated, or a patch of a namespace fails after it was carried out. *)
LEMMA AnnotateClear ==
    ASSUME TypeInv, HeldInv, ClearInv, api' = api, staleList' = staleList,
           w.pc \in {"remove", "annotate"},
           ~ w'.del \/ w'.pc \notin {"remove", "removeFinalizer"},
           NEW n \in AtHand,
           \/ UNCHANGED nsVars
           \/ /\ nsApi[n] # None
              /\ \/ w.pc = "remove" /\ removeNamespacePolicyAnnotations(n)
                 \/ w.pc = "annotate" /\ updateNamespacePolicyAnnotations(n)
    PROVE  ClearInv'
<1>1. CASE UNCHANGED nsVars
  BY <1>1, OthersClear DEF nsVars
<1>2. CASE ~ UNCHANGED nsVars
  BY <1>2, PatchOwners, NotClearing DEF ClearInv
<1> QED
  BY <1>1, <1>2

(* The worker's steps keep ClearInv. *)
LEMMA WorkerClear ==
    ASSUME TypeInv, TypeInv', WorkInv, RestInv, HeldInv, ClearInv, Worker
    PROVE  ClearInv'
<1> USE DEF apiVars, nsVars
<1>1. ASSUME ~ w'.del \/ w'.pc \notin {"remove", "removeFinalizer"},
             UNCHANGED <<api, nsApi, staleList>>
      PROVE  ClearInv'
  BY <1>1, OthersClear
<1>2. CASE GetUpstreamPool \/ GetCacheProfile \/ ReferenceUnreadable
  <2>1. w.pc \in {"getPool", "getProfile"}
    BY <1>2 DEF GetUpstreamPool, GetCacheProfile, ReferenceUnreadable
  <2>2. ~ w.del
    BY <2>1 DEF TypeInv, Fits
  <2>3. ~ w'.del
    BY <1>2, <2>2, ReferenceSteps DEF GoesOnAs
  <2> QED
    BY <1>1, <1>2, <2>3 DEF GetUpstreamPool, GetCacheProfile, ReferenceUnreadable
<1>3. CASE GetNamespace
  <2>1. ~ w.del
    BY <1>3 DEF GetNamespace, TypeInv, Fits
  <2>2. ~ w'.del
    BY <1>3, <2>1, GetNamespaceStep DEF GoesOnAs
  <2> QED
    BY <1>1, <1>3, <2>2 DEF GetNamespace
<1>4. CASE AnnotateNamespace
  <2>1. w.pc = "annotate" /\ ~ w.del
    BY <1>4 DEF AnnotateNamespace, TypeInv, Fits
  <2>2. ~ w'.del \/ w'.pc \notin {"remove", "removeFinalizer"}
    BY <1>4, <2>1, AnnotateStep DEF GoesOnOrFails, GoesOnAs, ReturnError, Return, Idle
  <2>3. PICK n \in AtHand :
           UNCHANGED nsVars \/ (nsApi[n] # None /\ updateNamespacePolicyAnnotations(n))
    BY <1>4 DEF AnnotateNamespace
  <2>4. api' = api /\ staleList' = staleList
    BY <1>4 DEF AnnotateNamespace
  <2> QED
    BY <2>1, <2>2, <2>3, <2>4, AnnotateClear
<1>5. CASE NamespaceUnreadable
  <2>1. w.pc # "idle" /\ \E n : EnforcementFails(n)
    BY <1>5 DEF NamespaceUnreadable
  <2>2. ~ w'.del \/ w'.pc \notin {"remove", "removeFinalizer"}
    BY <2>1, FailedClears
  <2> QED
    BY <1>1, <1>5, <2>2 DEF NamespaceUnreadable
<1>6. CASE CallFails /\ w.pc \in {"remove", "annotate"}
  <2>1. PICK n \in AtHand :
           /\ \/ UNCHANGED nsVars
              \/ /\ nsApi[n] # None
                 /\ \/ w.pc = "remove" /\ removeNamespacePolicyAnnotations(n)
                    \/ w.pc = "annotate" /\ updateNamespacePolicyAnnotations(n)
           /\ EnforcementFails(n)
    BY <1>6 DEF CallFails
  <2>2. api' = api /\ staleList' = staleList
    BY <1>6 DEF CallFails
  <2>3. ~ w'.del \/ w'.pc \notin {"remove", "removeFinalizer"}
    BY <1>6, <2>1, FailedClears
  <2> QED
    BY <1>6, <2>1, <2>2, <2>3, AnnotateClear
<1>7. CallFails => w.pc \in {"addFinalizer", "removeFinalizer", "status", "remove", "annotate"}
  BY DEF CallFails
<1> QED
  BY <1>2, <1>3, <1>4, <1>5, <1>6, <1>7, PolicyWriteClear, ListClear, RemoveClear DEF Worker

(* The inductive invariants hold throughout. *)
LEMMA ClearInvAlways == Spec => [](HeldInv /\ ClearInv)
<1>1. Init => HeldInv /\ ClearInv
  <2> SUFFICES ASSUME Init PROVE HeldInv /\ ClearInv
    OBVIOUS
  <2>1. /\ cache = api /\ watch = <<>> /\ w = Idle
        /\ \A p \in Policies : api[p] = None
        /\ \A n \in Namespaces : nsApi[n] = Bare
    BY DEF Init
  <2>2. HeldInv
    BY <2>1 DEF HeldInv, CopiesInOrder, MarkedIsHeld, GoingStays, Held, Marked, Going,
                WorkerHolds, Idle
  <2>3. OwnersHeld /\ ClearsAll
    BY <2>1 DEF OwnersHeld, ClearsAll, Bare, Idle
  <2> QED
    BY <2>1, <2>2, <2>3 DEF ClearInv
<1>2. ASSUME TypeInv, TypeInv', WorkInv, RestInv, HeldInv, ClearInv, [Next]_vars
      PROVE  HeldInv' /\ ClearInv'
  <2>1. HeldInv'
    BY <1>2, HeldInvStep
  <2>2. ASSUME UNCHANGED <<api, nsApi, staleList>>,
               w' = w \/ ~ w'.del \/ w'.pc \notin {"remove", "removeFinalizer"}
        PROVE  ClearInv'
    BY <1>2, <2>2, OthersClear
  <2>3. CASE UNCHANGED vars
    BY <2>1, <2>2, <2>3 DEF vars, apiVars, nsVars
  <2>4. CASE Deliver \/ \E p \in Policies : DelayOver(p) \/ GetFails(p)
    BY <2>1, <2>2, <2>4 DEF Deliver, DeliverPolicy, DeliverNamespace, DeliverRef, DelayOver, GetFails,
                      TakeKey, apiVars, nsVars
  <2>5. CASE Restart
    BY <2>1, <2>2, <2>5 DEF Restart, Idle
  <2>6. ASSUME NEW p \in Policies, Start(p)
        PROVE  ClearInv'
    <3>1. UNCHANGED <<api, nsApi, staleList>>
      BY <2>6 DEF Start, ReconcileNothing, ReconcilePolicy, TakeKey, apiVars, nsVars
    <3>2. CASE ReconcileNothing(p)
      BY <2>2, <3>1, <3>2 DEF ReconcileNothing
    <3>3. CASE ReconcilePolicy(p)
      <4>1. Idle \in Workers
        BY IdleFits DEF Fits
      <4>2. w'.pc \in {"list", "getPool", "addFinalizer"}
        BY <3>3, <4>1 DEF ReconcilePolicy, Workers
      <4> QED
        BY <2>2, <3>1, <4>2
    <3> QED
      BY <2>6, <3>2, <3>3 DEF Start
  <2>7. CASE Worker
    BY <1>2, <2>1, <2>7, WorkerClear
  <2>8. CASE Users
    BY <1>2, <2>1, <2>8, UsersClear
  <2> QED
    BY <1>2, <2>1, <2>3, <2>4, <2>5, <2>6, <2>7, <2>8 DEF Next
<1> QED
  BY <1>1, <1>2, TypeInvAlways, WorkInvAlways, RestInvAlways, PTL DEF Spec

(****************************************************************************)
(* No namespace ever carries the UID of a policy that is gone, as long as   *)
(* managed namespaces are listed from an up-to-date cache: whatever was     *)
(* re-created under the name while its finalizer was added or removed,      *)
(* whichever patch failed or was not answered, and through restarts.  (The  *)
(* run policy_orphan shows what a lagging list does.)                       *)
(****************************************************************************)
THEOREM GoneIsCleared == Spec => []ClearedBeforeGone
<1>1. ClearInv => ClearedBeforeGone
  BY DEF ClearInv, ClearedBeforeGone, OwnersHeld, OwnersLive, HeldUID, Held, Marked
<1> QED
  BY <1>1, ClearInvAlways, PTL
=============================================================================
