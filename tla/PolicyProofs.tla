---------------------------- MODULE PolicyProofs ----------------------------
(****************************************************************************)
(* The types of ExternalDNSPolicyController and that no work is lost in it, *)
(* for all sets of policies, namespaces, pools and profiles, and all bounds *)
(* on lag, user operations, faults and restarts.                            *)
(****************************************************************************)
EXTENDS ExternalDNSPolicyController, SequenceTheorems, TLAPS

(* What the worker's variables hold at each step, x being the worker. *)
Fits(x) ==
    /\ x \in Workers
    /\ x.pc # "idle" => x.req \in Policies /\ x.obj \in PolicyObjects
    /\ x.pc = "addFinalizer" => ~ x.obj.fin
    /\ x.pc \notin {"idle", "addFinalizer"} => x.obj.fin
    /\ x.pc \notin {"idle", "list", "remove", "removeFinalizer"} => ~ x.del
    /\ x.pc = "removeFinalizer" => x.del
    /\ x.pc = "status" => x.verdict \in Verdicts

(* The inductive invariant behind the types. *)
TypeInv == TypeOK /\ Fits(w)

(* The worker x goes on as y, with the same policy and the same copy of it. *)
GoesOnAs(x, y) ==
    /\ Fits(y)
    /\ y.pc # "idle"
    /\ y.req = x.req /\ y.obj = x.obj /\ y.del = x.del

(* The worker goes on, or returns an error: its key is in the queue. *)
GoesOnOrFails ==
    \/ GoesOnAs(w, w') /\ queue' = queue
    \/ ReturnError

-----------------------------------------------------------------------------
(* Objects, annotations and statuses. *)

(* The fields of a policy. *)
LEMMA ObjectFacts ==
    ASSUME NEW o \in PolicyObjects
    PROVE  /\ o.life \in Nat /\ o.gen \in Nat /\ o.gen + 1 \in Nat
           /\ o.fin \in BOOLEAN /\ o.deleting \in BOOLEAN
           /\ o.status \in Statuses
           /\ o.spec \in Specs
           /\ o.spec.selector \in SUBSET Namespaces
           /\ o.spec.pool \in UpstreamPools
           /\ o.spec.profile \in CacheProfiles \cup {None}
<1>1. /\ o.life \in Nat /\ o.gen \in Nat /\ o.fin \in BOOLEAN /\ o.deleting \in BOOLEAN
      /\ o.status \in Statuses /\ o.spec \in Specs
  BY DEF PolicyObjects
<1>2. o.spec \in PolicySpecs
  BY <1>1, PolicyAssumption
<1>3. /\ o.spec.selector \in SUBSET Namespaces
      /\ o.spec.pool \in UpstreamPools
      /\ o.spec.profile \in CacheProfiles \cup {None}
  BY <1>2 DEF PolicySpecs
<1>4. o.gen + 1 \in Nat
  BY <1>1
<1> QED
  BY <1>1, <1>3, <1>4

(* What the users and the worker make of a policy is a policy, or none. *)
LEMMA ChangedPolicy ==
    ASSUME NEW o \in PolicyObjects
    PROVE  /\ \A s \in Specs : [o EXCEPT !.spec = s, !.gen = @ + 1] \in PolicyObjects
           /\ AfterDelete(o) \in PolicyObjects \cup {None}
           /\ AfterRemoveFinalizer(o) \in PolicyObjects \cup {None}
           /\ [o EXCEPT !.fin = TRUE] \in PolicyObjects /\ [o EXCEPT !.fin = TRUE].fin
           /\ \A t \in Statuses : [o EXCEPT !.status = t] \in PolicyObjects
<1>0. o.gen + 1 \in Nat
  BY ObjectFacts
<1>1. ASSUME NEW s \in Specs PROVE [o EXCEPT !.spec = s, !.gen = @ + 1] \in PolicyObjects
  <2>1. [o EXCEPT !.spec = s, !.gen = o.gen + 1] \in PolicyObjects
    BY <1>0 DEF PolicyObjects
  <2>2. [o EXCEPT !.spec = s, !.gen = @ + 1] = [o EXCEPT !.spec = s, !.gen = o.gen + 1]
    BY DEF PolicyObjects
  <2> QED
    BY <2>1, <2>2
<1>2. AfterDelete(o) \in PolicyObjects \cup {None}
  <2>1. [o EXCEPT !.deleting = TRUE, !.gen = o.gen + 1] \in PolicyObjects
    BY <1>0 DEF PolicyObjects
  <2>2. [o EXCEPT !.deleting = TRUE, !.gen = @ + 1] = [o EXCEPT !.deleting = TRUE, !.gen = o.gen + 1]
    BY DEF PolicyObjects
  <2> QED
    BY <2>1, <2>2 DEF AfterDelete
<1>3. AfterRemoveFinalizer(o) \in PolicyObjects \cup {None}
  BY DEF AfterRemoveFinalizer, PolicyObjects
<1>4. [o EXCEPT !.fin = TRUE] \in PolicyObjects /\ [o EXCEPT !.fin = TRUE].fin = TRUE
  BY DEF PolicyObjects
<1>5. \A t \in Statuses : [o EXCEPT !.status = t] \in PolicyObjects
  BY DEF PolicyObjects
<1> QED
  BY <1>1, <1>2, <1>3, <1>4, <1>5

(* Merge patches of annotations and of statuses. *)
LEMMA MergeFacts ==
    /\ \A s, b, m \in Annotations : MergePatch(s, b, m) \in Annotations
    /\ \A s, b, m \in Statuses : MergePatch(s, b, m) \in Statuses
    /\ \A s, m \in Statuses : MergePatch(s, s, m) = m
<1>1. \A s, b, m \in Annotations : MergePatch(s, b, m) \in Annotations
  BY DEF MergePatch, Annotations
<1>2. \A s, b, m \in Statuses : MergePatch(s, b, m) \in Statuses
  BY DEF MergePatch, Statuses
<1>3. \A s, m \in Statuses : MergePatch(s, s, m) = m
  BY DEF MergePatch, Statuses
<1> QED
  BY <1>1, <1>2, <1>3

(* A write keeps the types of what the API server stores. *)
LEMMA ApiWriteType ==
    ASSUME TypeOK, NEW p \in Policies, NEW o \in PolicyObjects \cup {None}, ApiWrite(p, o)
    PROVE  api' \in [Policies -> PolicyObjects \cup {None}] /\ watch' \in Seq(PolicyEvents)
<1>1. [policy |-> p, obj |-> o] \in PolicyEvents
  BY DEF PolicyEvents
<1> QED
  BY <1>1 DEF ApiWrite, TypeOK

LEMMA NamespaceWriteType ==
    ASSUME TypeOK, NEW n \in Namespaces, NEW o \in Annotations \cup {None}, NamespaceWrite(n, o)
    PROVE  nsApi' \in [Namespaces -> Annotations \cup {None}] /\ nsWatch' \in Seq(NamespaceEvents)
<1>1. [ns |-> n, obj |-> o] \in NamespaceEvents
  BY DEF NamespaceEvents
<1> QED
  BY <1>1 DEF NamespaceWrite, TypeOK

LEMMA BareType == Bare \in Annotations /\ [Bare EXCEPT !.other = TRUE] \in Annotations
BY DEF Bare, Annotations

-----------------------------------------------------------------------------
(* The worker. *)

LEMMA IdleFits == Fits(Idle)
<1>1. NoCopies \in Copies
  BY DEF NoCopies, Copies
<1> QED
  BY <1>1 DEF Fits, Idle, Workers, Steps

(* A worker with a policy to enforce that goes on to setValidatedCondition. *)
LEMMA SetStatusFits ==
    ASSUME NEW x \in Workers, x.req \in Policies, x.obj \in PolicyObjects, x.obj.fin, ~ x.del,
           NEW v \in Verdicts, NEW result \in {"none", "backoff"}
    PROVE  GoesOnAs(x, SetStatus(x, v, result)) /\ SetStatus(x, v, result).pc = "status"
<1> DEFINE y == SetStatus(x, v, result)
<1>1. NoCopies \in Copies
  BY DEF NoCopies, Copies
<1>2. /\ y \in Workers /\ y.pc = "status" /\ y.req = x.req /\ y.obj = x.obj /\ y.del = x.del
      /\ y.verdict = v
  BY <1>1 DEF SetStatus, Workers, Steps
<1> HIDE DEF y
<1>3. Fits(y)
  BY <1>2 DEF Fits
<1> QED
  BY <1>2, <1>3 DEF GoesOnAs, y

LEMMA SaysFacts ==
    ASSUME NEW reason \in Reasons, NEW at \in Namespaces \cup {None}, NEW by \in Policies \cup {None}
    PROVE  Says(reason, at, by) \in Verdicts
BY DEF Says, Verdicts

(* After the namespaces to be cleared come those to be annotated, or the finalizer. *)
LEMMA ClearedFits ==
    ASSUME NEW x \in Workers, x.req \in Policies, x.obj \in PolicyObjects, x.obj.fin
    PROVE  GoesOnAs(x, Cleared(x))
<1> DEFINE a == [x EXCEPT !.pc = "remove"]
           b == [x EXCEPT !.pc = "removeFinalizer"]
           c == [x EXCEPT !.pc = "get", !.todo = x.obj.spec.selector]
<1>1. /\ a \in Workers /\ a.pc = "remove" /\ a.req = x.req /\ a.obj = x.obj /\ a.del = x.del
  BY DEF Workers, Steps
<1>2. /\ b \in Workers /\ b.pc = "removeFinalizer" /\ b.req = x.req /\ b.obj = x.obj
      /\ b.del = x.del
  BY DEF Workers, Steps
<1>3. /\ c \in Workers /\ c.pc = "get" /\ c.req = x.req /\ c.obj = x.obj /\ c.del = x.del
  <2>1. x.obj.spec.selector \in SUBSET Namespaces
    BY ObjectFacts
  <2> QED
    BY <2>1 DEF Workers, Steps
<1>4. Cleared(x) = IF x.copies # NoCopies THEN a ELSE IF x.del THEN b ELSE c
  BY DEF Cleared
<1> HIDE DEF a, b, c
<1>5. GoesOnAs(x, a)
  BY <1>1 DEF GoesOnAs, Fits
<1>6. x.del => GoesOnAs(x, b)
  BY <1>2 DEF GoesOnAs, Fits
<1>7. ~ x.del => GoesOnAs(x, c)
  BY <1>3 DEF GoesOnAs, Fits
<1> QED
  BY <1>4, <1>5, <1>6, <1>7

(* After one namespace comes the next, or the verdict. *)
LEMMA AppliedFits ==
    ASSUME NEW x \in Workers, x.req \in Policies, x.obj \in PolicyObjects, x.obj.fin, ~ x.del,
           NEW n, NEW count \in Nat
    PROVE  GoesOnAs(x, Applied(x, n, count))
<1> DEFINE y == [x EXCEPT !.pc = "get", !.copies = NoCopies, !.todo = @ \ {n},
                          !.applied = @ + count]
<1>1. NoCopies \in Copies
  BY DEF NoCopies, Copies
<1>2. x.applied + count \in Nat /\ x.todo \ {n} \in SUBSET Namespaces
  BY DEF Workers
<1>3. /\ y \in Workers /\ y.pc = "get" /\ y.req = x.req /\ y.obj = x.obj /\ y.del = x.del
  BY <1>1, <1>2 DEF Workers, Steps
<1>4. Applied(x, n, count) = IF y.todo # {} THEN y
                             ELSE SetStatus(y, Says("Enforced", None, None), "none")
  BY DEF Applied
<1> HIDE DEF y
<1>5. GoesOnAs(x, y)
  BY <1>3 DEF GoesOnAs, Fits
<1>6. GoesOnAs(y, SetStatus(y, Says("Enforced", None, None), "none"))
  BY <1>3, SaysFacts, SetStatusFits DEF Reasons
<1>7. GoesOnAs(x, SetStatus(y, Says("Enforced", None, None), "none"))
  BY <1>3, <1>6 DEF GoesOnAs
<1> QED
  BY <1>4, <1>5, <1>7

(* The worker at a step other than "idle". *)
LEMMA BusyFacts ==
    ASSUME TypeInv, w.pc # "idle"
    PROVE  w \in Workers /\ w.req \in Policies /\ w.obj \in PolicyObjects
BY DEF TypeInv, Fits

(* Reconcile returns: the worker is idle, and of the queue only its own key may have changed. *)
LEMMA ReturnType ==
    ASSUME TypeInv, w.pc # "idle", NEW how, Return(how)
    PROVE  Fits(w') /\ queue' \in [Policies -> {"none", "backoff", "ready"}]
<1>1. Fits(w')
  BY IdleFits DEF Return
<1> QED
  BY <1>1, BusyFacts DEF Return, TypeInv, TypeOK

LEMMA GoesOnOrFailsType ==
    ASSUME TypeInv, w.pc # "idle", GoesOnOrFails
    PROVE  Fits(w') /\ queue' \in [Policies -> {"none", "backoff", "ready"}]
BY ReturnType DEF GoesOnOrFails, GoesOnAs, ReturnError, TypeInv, TypeOK

(* An error while namespaces are cleared or annotated. *)
LEMMA EnforcementFailsStep ==
    ASSUME TypeInv, w.pc \in {"list", "remove", "get", "annotate"},
           NEW n \in Namespaces \cup {None}, EnforcementFails(n)
    PROVE  GoesOnOrFails
<1>1. CASE w.del
  BY <1>1 DEF EnforcementFails, GoesOnOrFails
<1>2. CASE ~ w.del
  <2>1. Says("EnforcementError", n, None) \in Verdicts
    BY SaysFacts DEF Reasons
  <2>2. w.obj.fin
    BY DEF TypeInv, Fits
  <2>3. GoesOnAs(w, SetStatus(w, Says("EnforcementError", n, None), "backoff"))
    BY <1>2, <2>1, <2>2, BusyFacts, SetStatusFits
  <2> QED
    BY <1>2, <2>3 DEF EnforcementFails, GoesOnOrFails
<1> QED
  BY <1>1, <1>2

(* validateReferences finds something wrong. *)
LEMMA RefusedFits ==
    ASSUME TypeInv, w.pc \in {"getPool", "getProfile"}, NEW reason \in Reasons
    PROVE  GoesOnAs(w, Refused(w, reason))
<1>1. w.obj.fin /\ ~ w.del
  BY DEF TypeInv, Fits
<1> QED
  BY <1>1, BusyFacts, SaysFacts, SetStatusFits DEF Refused

(* A change of pc alone. *)
LEMMA MovedFits ==
    ASSUME TypeInv, w.pc \in {"getPool", "getProfile"}, NEW pc \in {"getProfile", "list"}
    PROVE  GoesOnAs(w, [w EXCEPT !.pc = pc])
<1> DEFINE y == [w EXCEPT !.pc = pc]
<1>1. w \in Workers /\ w.req \in Policies /\ w.obj \in PolicyObjects /\ w.obj.fin /\ ~ w.del
  BY DEF TypeInv, Fits
<1>2. y \in Workers /\ y.pc = pc /\ y.req = w.req /\ y.obj = w.obj /\ y.del = w.del
  BY <1>1 DEF Workers, Steps
<1> HIDE DEF y
<1>3. Fits(y)
  BY <1>1, <1>2 DEF Fits
<1> QED
  BY <1>2, <1>3 DEF GoesOnAs, y

(* The lookups of the references. *)
LEMMA ReferenceSteps ==
    ASSUME TypeInv, GetUpstreamPool \/ GetCacheProfile \/ ReferenceUnreadable
    PROVE  w.pc # "idle" /\ GoesOnAs(w, w') /\ queue' = queue
<1>1. CASE GetUpstreamPool
  <2>1. w.pc = "getPool" /\ queue' = queue
    BY <1>1 DEF GetUpstreamPool
  <2>2. /\ GoesOnAs(w, Refused(w, "Malformed")) /\ GoesOnAs(w, Refused(w, "PoolMissing"))
        /\ GoesOnAs(w, [w EXCEPT !.pc = "list"]) /\ GoesOnAs(w, [w EXCEPT !.pc = "getProfile"])
    BY <2>1, RefusedFits, MovedFits DEF Reasons
  <2>3. w' \in {Refused(w, "Malformed"), Refused(w, "PoolMissing"),
                [w EXCEPT !.pc = "list"], [w EXCEPT !.pc = "getProfile"]}
    BY <1>1 DEF GetUpstreamPool
  <2> QED
    BY <2>1, <2>2, <2>3
<1>2. CASE GetCacheProfile
  <2>1. w.pc = "getProfile" /\ queue' = queue
    BY <1>2 DEF GetCacheProfile
  <2>2. GoesOnAs(w, Refused(w, "ProfileMissing")) /\ GoesOnAs(w, [w EXCEPT !.pc = "list"])
    BY <2>1, RefusedFits, MovedFits DEF Reasons
  <2>3. w' \in {Refused(w, "ProfileMissing"), [w EXCEPT !.pc = "list"]}
    BY <1>2 DEF GetCacheProfile
  <2> QED
    BY <2>1, <2>2, <2>3
<1>3. CASE ReferenceUnreadable
  <2>1. w.pc \in {"getPool", "getProfile"} /\ queue' = queue
    BY <1>3 DEF ReferenceUnreadable
  <2>2. GoesOnAs(w, Refused(w, "PoolUnreadable")) /\ GoesOnAs(w, Refused(w, "ProfileUnreadable"))
    BY <2>1, RefusedFits DEF Reasons
  <2>3. w' \in {Refused(w, "PoolUnreadable"), Refused(w, "ProfileUnreadable")}
    BY <1>3 DEF ReferenceUnreadable
  <2> QED
    BY <2>1, <2>2, <2>3
<1> QED
  BY <1>1, <1>2, <1>3

(* The List of the managed namespaces. *)
LEMMA ListStep ==
    ASSUME TypeInv, ListNamespaces
    PROVE  w.pc # "idle" /\ GoesOnAs(w, w') /\ queue' = queue /\ staleList' \in BOOLEAN
<1> DEFINE c == [n \in Namespaces |->
                    IF n \in listManagedPolicyNamespaces \ Selected THEN nsCache[n] ELSE None]
           x == [w EXCEPT !.copies = c]
<1>1. w.pc = "list" /\ w' = Cleared(x) /\ queue' = queue /\ staleList' \in BOOLEAN
  BY DEF ListNamespaces, TypeInv, TypeOK
<1>2. c \in Copies
  BY DEF Copies, TypeInv, TypeOK
<1> HIDE DEF c
<1>3. w \in Workers /\ w.req \in Policies /\ w.obj \in PolicyObjects /\ w.obj.fin
  BY <1>1 DEF TypeInv, Fits
<1>4. x \in Workers /\ x.req = w.req /\ x.obj = w.obj /\ x.del = w.del
  BY <1>2, <1>3 DEF Workers
<1> HIDE DEF x
<1>5. GoesOnAs(x, Cleared(x))
  BY <1>3, <1>4, ClearedFits
<1> QED
  BY <1>1, <1>4, <1>5 DEF GoesOnAs

(* A copy at hand is of a namespace. *)
LEMMA CopyFacts ==
    ASSUME TypeInv, NEW n \in AtHand
    PROVE  n \in Namespaces /\ w.copies[n] \in Annotations
<1>1. w.copies \in [Namespaces -> Annotations \cup {None}]
  BY DEF TypeInv, TypeOK, Workers, Copies
<1> QED
  BY <1>1 DEF AtHand

(* A copy of a namespace with the annotations of the policy at hand. *)
LEMMA WantedType ==
    ASSUME TypeInv, w.pc # "idle", NEW copy \in Annotations
    PROVE  Wanted(copy) \in Annotations
<1>1. OwnUID \in UIDs
  BY BusyFacts, ObjectFacts DEF OwnUID, UIDs
<1>2. copy.other \in BOOLEAN
  BY DEF Annotations
<1> QED
  BY <1>1, <1>2, BusyFacts, ObjectFacts DEF Wanted, Annotations

(* The two patches of a namespace. *)
LEMMA NamespacePatchType ==
    ASSUME TypeInv, w.pc # "idle", NEW n \in AtHand, nsApi[n] # None,
           removeNamespacePolicyAnnotations(n) \/ updateNamespacePolicyAnnotations(n)
    PROVE  nsApi' \in [Namespaces -> Annotations \cup {None}] /\ nsWatch' \in Seq(NamespaceEvents)
<1>1. n \in Namespaces /\ w.copies[n] \in Annotations
  BY CopyFacts
<1>2. nsApi[n] \in Annotations
  BY <1>1 DEF TypeInv, TypeOK
<1>3. Wanted(w.copies[n]) \in Annotations
  BY <1>1, WantedType
<1>4. CASE removeNamespacePolicyAnnotations(n)
  BY <1>1, <1>2, <1>4, BareType, MergeFacts, NamespaceWriteType
     DEF removeNamespacePolicyAnnotations, TypeInv
<1>5. CASE updateNamespacePolicyAnnotations(n)
  BY <1>1, <1>2, <1>3, <1>5, MergeFacts, NamespaceWriteType
     DEF updateNamespacePolicyAnnotations, TypeInv
<1> QED
  BY <1>4, <1>5

(* The types of the namespaces. *)
NamespaceTypes ==
    nsApi \in [Namespaces -> Annotations \cup {None}] /\ nsWatch \in Seq(NamespaceEvents)

(* The types of the policies. *)
PolicyTypes ==
    api \in [Policies -> PolicyObjects \cup {None}] /\ watch \in Seq(PolicyEvents)

LEMMA RemoveStep ==
    ASSUME TypeInv, RemoveAnnotations
    PROVE  w.pc # "idle" /\ GoesOnOrFails /\ NamespaceTypes'
<1>1. w.pc = "remove"
  BY DEF RemoveAnnotations
<1>2. PICK n \in AtHand :
         \/ /\ nsApi[n] # None
            /\ removeNamespacePolicyAnnotations(n)
            /\ w' = Cleared([w EXCEPT !.copies[n] = None])
            /\ queue' = queue
         \/ /\ nsApi[n] = None
            /\ UNCHANGED nsVars
            /\ EnforcementFails(n)
  BY DEF RemoveAnnotations
<1>3. n \in Namespaces
  BY CopyFacts
<1>4. CASE nsApi[n] # None
  <2> DEFINE x == [w EXCEPT !.copies[n] = None]
  <2>1. w \in Workers /\ w.req \in Policies /\ w.obj \in PolicyObjects /\ w.obj.fin
    BY <1>1 DEF TypeInv, Fits
  <2>2. x \in Workers /\ x.req = w.req /\ x.obj = w.obj /\ x.del = w.del
    BY <1>3, <2>1 DEF Workers, Copies
  <2> HIDE DEF x
  <2>3. GoesOnAs(x, Cleared(x))
    BY <2>1, <2>2, ClearedFits
  <2>4. w' = Cleared(x) /\ queue' = queue /\ removeNamespacePolicyAnnotations(n)
    BY <1>2, <1>4 DEF x
  <2>5. GoesOnOrFails
    BY <2>2, <2>3, <2>4 DEF GoesOnAs, GoesOnOrFails
  <2>6. NamespaceTypes'
    BY <1>1, <1>4, <2>4, NamespacePatchType DEF NamespaceTypes
  <2> QED
    BY <1>1, <2>5, <2>6
<1>5. CASE nsApi[n] = None
  BY <1>1, <1>2, <1>3, <1>5, EnforcementFailsStep DEF NamespaceTypes, nsVars, TypeInv, TypeOK
<1> QED
  BY <1>4, <1>5

LEMMA GetNamespaceStep ==
    ASSUME TypeInv, GetNamespace
    PROVE  w.pc # "idle" /\ GoesOnAs(w, w') /\ queue' = queue
<1>1. w.pc = "get" /\ queue' = queue
  BY DEF GetNamespace
<1>2. /\ w \in Workers /\ w.req \in Policies /\ w.obj \in PolicyObjects /\ w.obj.fin /\ ~ w.del
      /\ w.todo \in SUBSET Namespaces /\ w.copies \in Copies
  BY <1>1 DEF TypeInv, Fits, Workers
<1>3. PICK n \in w.todo :
         w' = IF nsCache[n] = None
              THEN Applied(w, n, 0)
              ELSE IF Conflicts(nsCache[n])
              THEN SetStatus(w, Says("Conflict", n, nsCache[n].name), "none")
              ELSE IF nsCache[n] = Wanted(nsCache[n])
              THEN Applied(w, n, 1)
              ELSE [w EXCEPT !.pc = "annotate", !.copies[n] = nsCache[n]]
  BY DEF GetNamespace
<1>4. n \in Namespaces /\ nsCache[n] \in Annotations \cup {None}
  BY <1>2 DEF TypeInv, TypeOK
<1>5. GoesOnAs(w, Applied(w, n, 0)) /\ GoesOnAs(w, Applied(w, n, 1))
  BY <1>2, AppliedFits
<1>6. ASSUME nsCache[n] # None
      PROVE  GoesOnAs(w, SetStatus(w, Says("Conflict", n, nsCache[n].name), "none"))
  <2>1. nsCache[n].name \in Policies \cup {None}
    BY <1>4, <1>6 DEF Annotations
  <2>2. Says("Conflict", n, nsCache[n].name) \in Verdicts
    BY <1>4, <2>1, SaysFacts DEF Reasons
  <2> QED
    BY <1>2, <2>2, SetStatusFits
<1>7. ASSUME nsCache[n] # None
      PROVE  GoesOnAs(w, [w EXCEPT !.pc = "annotate", !.copies[n] = nsCache[n]])
  <2> DEFINE y == [w EXCEPT !.pc = "annotate", !.copies[n] = nsCache[n]]
  <2>1. /\ y \in Workers /\ y.pc = "annotate" /\ y.req = w.req /\ y.obj = w.obj
        /\ y.del = w.del
    BY <1>2, <1>4 DEF Workers, Copies, Steps
  <2> HIDE DEF y
  <2>2. GoesOnAs(w, y)
    BY <1>2, <2>1 DEF GoesOnAs, Fits
  <2> QED
    BY <2>2 DEF y
<1> QED
  BY <1>1, <1>3, <1>5, <1>6, <1>7

LEMMA AnnotateStep ==
    ASSUME TypeInv, AnnotateNamespace
    PROVE  w.pc # "idle" /\ GoesOnOrFails /\ NamespaceTypes'
<1>1. w.pc = "annotate"
  BY DEF AnnotateNamespace
<1>2. PICK n \in AtHand :
         \/ /\ nsApi[n] # None
            /\ updateNamespacePolicyAnnotations(n)
            /\ w' = Applied(w, n, 1)
            /\ queue' = queue
         \/ /\ nsApi[n] = None
            /\ UNCHANGED nsVars
            /\ EnforcementFails(n)
  BY DEF AnnotateNamespace
<1>3. n \in Namespaces
  BY CopyFacts
<1>4. CASE nsApi[n] # None
  <2>1. w \in Workers /\ w.req \in Policies /\ w.obj \in PolicyObjects /\ w.obj.fin /\ ~ w.del
    BY <1>1 DEF TypeInv, Fits
  <2>2. GoesOnAs(w, Applied(w, n, 1))
    BY <2>1, AppliedFits
  <2>3. NamespaceTypes'
    BY <1>1, <1>2, <1>4, NamespacePatchType DEF NamespaceTypes
  <2> QED
    BY <1>1, <1>2, <1>4, <2>2, <2>3 DEF GoesOnOrFails
<1>5. CASE nsApi[n] = None
  BY <1>1, <1>2, <1>3, <1>5, EnforcementFailsStep DEF NamespaceTypes, nsVars, TypeInv, TypeOK
<1> QED
  BY <1>4, <1>5

LEMMA UnreadableStep ==
    ASSUME TypeInv, NamespaceUnreadable
    PROVE  w.pc # "idle" /\ GoesOnOrFails
<1>1. w.pc \in {"list", "get"} /\ w.todo \in SUBSET Namespaces
  BY DEF NamespaceUnreadable, TypeInv, TypeOK, Workers
<1>2. EnforcementFails(None) \/ \E n \in w.todo : EnforcementFails(n)
  BY DEF NamespaceUnreadable
<1> QED
  BY <1>1, <1>2, EnforcementFailsStep

(* The status that setValidatedCondition wants is about the generation of the copy. *)
LEMMA DesiredFacts ==
    ASSUME TypeInv, w.pc = "status"
    PROVE  Desired \in Statuses /\ Desired.cond \in Conditions /\ Desired.cond.gen = w.obj.gen
<1>1. w.verdict \in Verdicts /\ w.applied \in Nat /\ w.obj.gen \in Nat
  BY BusyFacts, ObjectFacts DEF TypeInv, TypeOK, Fits, Workers
<1>2. /\ w.verdict.reason \in Reasons /\ w.verdict.at \in Namespaces \cup {None}
      /\ w.verdict.by \in Policies \cup {None}
  BY <1>1 DEF Verdicts
<1>3. Desired.cond \in Conditions /\ Desired.cond.gen = w.obj.gen
  BY <1>1, <1>2 DEF Desired, Conditions
<1>4. Desired = [cond |-> Desired.cond, applied |-> w.applied]
  BY DEF Desired
<1> QED
  BY <1>1, <1>3, <1>4 DEF Statuses

(* The status patch writes a status: the merge of the one wanted into the stored one. *)
LEMMA StatusWrite ==
    ASSUME TypeInv, w.pc = "status", api[w.req] # None, PatchStatus
    PROVE  \E t \in Statuses :
              /\ t = MergePatch(api[w.req].status, w.obj.status, Desired)
              /\ ApiWrite(w.req, [api[w.req] EXCEPT !.status = t])
<1>1. w.req \in Policies /\ w.obj \in PolicyObjects
  BY BusyFacts
<1>2. api[w.req] \in PolicyObjects
  BY <1>1 DEF TypeInv, TypeOK
<1> DEFINE old == api[w.req].status
           t == MergePatch(old, w.obj.status, Desired)
<1>3. old \in Statuses /\ w.obj.status \in Statuses /\ Desired \in Statuses
  BY <1>1, <1>2, ObjectFacts, DesiredFacts
<1>4. t \in Statuses
  BY <1>3, MergeFacts
<1>5. [api[w.req] EXCEPT !.status = MergePatch(@, w.obj.status, Desired)]
        = [api[w.req] EXCEPT !.status = t]
  BY <1>2 DEF PolicyObjects
<1>6. ApiWrite(w.req, [api[w.req] EXCEPT !.status = t])
  BY <1>5 DEF PatchStatus
<1> QED
  BY <1>4, <1>6

(* What the worker writes to its policy. *)
LEMMA PolicyWriteType ==
    ASSUME TypeInv, w.pc # "idle", api[w.req] # None,
           \/ ApiWrite(w.req, [api[w.req] EXCEPT !.fin = TRUE])
           \/ ApiWrite(w.req, AfterRemoveFinalizer(api[w.req]))
           \/ w.pc = "status" /\ PatchStatus
    PROVE  PolicyTypes'
<1>1. w.req \in Policies /\ w.obj \in PolicyObjects
  BY BusyFacts
<1>2. api[w.req] \in PolicyObjects
  BY <1>1 DEF TypeInv, TypeOK
<1>3. CASE ApiWrite(w.req, [api[w.req] EXCEPT !.fin = TRUE])
  BY <1>1, <1>2, <1>3, ChangedPolicy, ApiWriteType DEF PolicyTypes, TypeInv
<1>4. CASE ApiWrite(w.req, AfterRemoveFinalizer(api[w.req]))
  BY <1>1, <1>2, <1>4, ChangedPolicy, ApiWriteType DEF PolicyTypes, TypeInv
<1>5. CASE w.pc = "status" /\ PatchStatus
  <2>1. PICK t \in Statuses : ApiWrite(w.req, [api[w.req] EXCEPT !.status = t])
    BY <1>5, StatusWrite
  <2> QED
    BY <1>1, <1>2, <2>1, ChangedPolicy, ApiWriteType DEF PolicyTypes, TypeInv
<1> QED
  BY <1>3, <1>4, <1>5

LEMMA AddFinalizerStep ==
    ASSUME TypeInv, AddFinalizer
    PROVE  /\ PolicyTypes'
           /\ Fits(w') /\ queue' \in [Policies -> {"none", "backoff", "ready"}]
<1>1. /\ w.pc = "addFinalizer" /\ w \in Workers /\ w.req \in Policies
      /\ w.obj \in PolicyObjects /\ ~ w.del
  BY DEF AddFinalizer, TypeInv, Fits
<1>2. CASE api[w.req] # None
  <2>1. /\ ApiWrite(w.req, [api[w.req] EXCEPT !.fin = TRUE])
        /\ w' = [w EXCEPT !.pc = "getPool", !.obj = api'[w.req]]
        /\ queue' = queue
    BY <1>2 DEF AddFinalizer
  <2>2. PolicyTypes'
    BY <1>1, <1>2, <2>1, PolicyWriteType
  <2>3. api[w.req] \in PolicyObjects
    BY <1>1, <1>2 DEF TypeInv, TypeOK
  <2>4. api'[w.req] = [api[w.req] EXCEPT !.fin = TRUE]
    BY <1>1, <2>1 DEF ApiWrite, TypeInv, TypeOK
  <2>5. api'[w.req] \in PolicyObjects /\ api'[w.req].fin
    BY <2>3, <2>4, ChangedPolicy
  <2> DEFINE o == api'[w.req]
             y == [w EXCEPT !.pc = "getPool", !.obj = o]
  <2> HIDE DEF o
  <2>6. /\ y \in Workers /\ y.pc = "getPool" /\ y.req = w.req /\ y.obj = o /\ y.del = w.del
    BY <1>1, <2>5 DEF Workers, Steps, o
  <2>7. w' = y
    BY <2>1 DEF o
  <2> HIDE DEF y
  <2>8. Fits(y)
    BY <1>1, <2>5, <2>6 DEF Fits, o
  <2> QED
    BY <2>1, <2>2, <2>7, <2>8 DEF TypeInv, TypeOK
<1>3. CASE api[w.req] = None
  BY <1>1, <1>3, ReturnType DEF AddFinalizer, ReturnError, apiVars, PolicyTypes, TypeInv, TypeOK
<1> QED
  BY <1>2, <1>3

LEMMA LastSteps ==
    ASSUME TypeInv, RemoveFinalizer \/ setValidatedCondition
    PROVE  /\ PolicyTypes'
           /\ Fits(w') /\ queue' \in [Policies -> {"none", "backoff", "ready"}]
<1>1. w.pc # "idle"
  BY DEF RemoveFinalizer, setValidatedCondition
<1>2. \E how : Return(how)
  BY DEF RemoveFinalizer, setValidatedCondition, ReturnError
<1>3. PolicyTypes'
  <2>1. CASE UNCHANGED apiVars
    BY <2>1 DEF apiVars, PolicyTypes, TypeInv, TypeOK
  <2>2. CASE ~ UNCHANGED apiVars
    BY <1>1, <2>2, PolicyWriteType DEF RemoveFinalizer, setValidatedCondition
  <2> QED
    BY <2>1, <2>2
<1> QED
  BY <1>1, <1>2, <1>3, ReturnType

LEMMA CallFailsStep ==
    ASSUME TypeInv, CallFails
    PROVE  w.pc # "idle" /\ GoesOnOrFails /\ NamespaceTypes' /\ PolicyTypes'
<1>1. CASE w.pc \in {"addFinalizer", "removeFinalizer", "status"}
  <2>1. ReturnError /\ UNCHANGED nsVars
    BY <1>1 DEF CallFails
  <2>2. PolicyTypes'
    <3>1. CASE UNCHANGED apiVars
      BY <3>1 DEF apiVars, PolicyTypes, TypeInv, TypeOK
    <3>2. CASE ~ UNCHANGED apiVars
      BY <1>1, <3>2, PolicyWriteType DEF CallFails
    <3> QED
      BY <3>1, <3>2
  <2> QED
    BY <1>1, <2>1, <2>2 DEF GoesOnOrFails, nsVars, NamespaceTypes, TypeInv, TypeOK
<1>2. CASE w.pc \in {"remove", "annotate"}
  <2>1. UNCHANGED apiVars
    BY <1>2 DEF CallFails
  <2>2. PICK n \in AtHand :
           /\ \/ UNCHANGED nsVars
              \/ /\ nsApi[n] # None
                 /\ removeNamespacePolicyAnnotations(n) \/ updateNamespacePolicyAnnotations(n)
           /\ EnforcementFails(n)
    BY <1>2 DEF CallFails
  <2>3. GoesOnOrFails
    BY <1>2, <2>2, CopyFacts, EnforcementFailsStep
  <2>4. NamespaceTypes'
    <3>1. CASE UNCHANGED nsVars
      BY <3>1 DEF nsVars, NamespaceTypes, TypeInv, TypeOK
    <3>2. CASE ~ UNCHANGED nsVars
      BY <1>2, <2>2, <3>2, NamespacePatchType DEF NamespaceTypes
    <3> QED
      BY <3>1, <3>2
  <2> QED
    BY <1>2, <2>1, <2>3, <2>4 DEF apiVars, PolicyTypes, TypeInv, TypeOK
<1> QED
  BY <1>1, <1>2 DEF CallFails

-----------------------------------------------------------------------------
(* Every step keeps TypeInv. *)

(* What the worker's steps leave alone keeps its types. *)
LEMMA WorkerFrame ==
    ASSUME TypeInv, UNCHANGED environmentVars, PolicyTypes', NamespaceTypes', Fits(w'),
           queue' \in [Policies -> {"none", "backoff", "ready"}], staleList' \in BOOLEAN,
           faults' \in 0 .. MaxFaults
    PROVE  TypeInv'
<1>1. w' \in Workers
  BY DEF Fits
<1>2. /\ refs' = refs /\ refWatch' = refWatch /\ cache' = cache /\ nsCache' = nsCache
      /\ refCache' = refCache /\ lives' = lives /\ ops' = ops /\ restarts' = restarts
  BY DEF environmentVars, refVars, seenVars, boundVars
<1>3. TypeOK'
  BY <1>1, <1>2 DEF TypeInv, TypeOK, PolicyTypes, NamespaceTypes
<1> QED
  BY <1>3 DEF TypeInv

LEMMA WorkerType == ASSUME TypeInv, Worker PROVE TypeInv'
<1>0. /\ UNCHANGED apiVars => PolicyTypes'
      /\ UNCHANGED nsVars => NamespaceTypes'
      /\ staleList' = staleList => staleList' \in BOOLEAN
      /\ faults' = faults => faults' \in 0 .. MaxFaults
      /\ faults < MaxFaults /\ faults' = faults + 1 => faults' \in 0 .. MaxFaults
  BY PolicyAssumption DEF apiVars, nsVars, PolicyTypes, NamespaceTypes, TypeInv, TypeOK
<1>1. CASE AddFinalizer
  BY <1>0, <1>1, AddFinalizerStep, WorkerFrame DEF AddFinalizer
<1>2. CASE GetUpstreamPool \/ GetCacheProfile \/ ReferenceUnreadable
  <2>1. Fits(w') /\ queue' \in [Policies -> {"none", "backoff", "ready"}]
    BY <1>2, ReferenceSteps DEF GoesOnAs, TypeInv, TypeOK
  <2> QED
    BY <1>0, <1>2, <2>1, WorkerFrame DEF GetUpstreamPool, GetCacheProfile, ReferenceUnreadable
<1>3. CASE ListNamespaces
  <2>1. /\ Fits(w') /\ queue' \in [Policies -> {"none", "backoff", "ready"}]
        /\ staleList' \in BOOLEAN
    BY <1>3, ListStep DEF GoesOnAs, TypeInv, TypeOK
  <2> QED
    BY <1>0, <1>3, <2>1, WorkerFrame DEF ListNamespaces
<1>4. CASE RemoveAnnotations
  BY <1>0, <1>4, RemoveStep, GoesOnOrFailsType, WorkerFrame DEF RemoveAnnotations
<1>5. CASE GetNamespace
  <2>1. Fits(w') /\ queue' \in [Policies -> {"none", "backoff", "ready"}]
    BY <1>5, GetNamespaceStep DEF GoesOnAs, TypeInv, TypeOK
  <2> QED
    BY <1>0, <1>5, <2>1, WorkerFrame DEF GetNamespace
<1>6. CASE AnnotateNamespace
  BY <1>0, <1>6, AnnotateStep, GoesOnOrFailsType, WorkerFrame DEF AnnotateNamespace
<1>7. CASE RemoveFinalizer \/ setValidatedCondition
  BY <1>0, <1>7, LastSteps, WorkerFrame DEF RemoveFinalizer, setValidatedCondition
<1>8. CASE CallFails
  BY <1>0, <1>8, CallFailsStep, GoesOnOrFailsType, WorkerFrame DEF CallFails
<1>9. CASE NamespaceUnreadable
  BY <1>0, <1>9, UnreadableStep, GoesOnOrFailsType, WorkerFrame DEF NamespaceUnreadable
<1> QED
  BY <1>1, <1>2, <1>3, <1>4, <1>5, <1>6, <1>7, <1>8, <1>9 DEF Worker

(* What the users' operations leave alone keeps its types. *)
LEMMA UsersFrame ==
    ASSUME TypeInv, UserOperation, PolicyTypes', NamespaceTypes', refs' \in SUBSET Refs,
           refWatch' \in [Refs -> Seq(BOOLEAN)], lives' \in [Policies -> 0 .. MaxLives]
    PROVE  TypeInv'
<1>1. ops' \in 0 .. MaxOps
  BY PolicyAssumption DEF UserOperation, TypeInv, TypeOK
<1>2. /\ cache' = cache /\ nsCache' = nsCache /\ refCache' = refCache /\ queue' = queue
      /\ w' = w /\ staleList' = staleList /\ faults' = faults /\ restarts' = restarts
  BY DEF UserOperation, seenVars
<1>3. TypeOK'
  BY <1>1, <1>2 DEF TypeInv, TypeOK, PolicyTypes, NamespaceTypes
<1>4. Fits(w')
  BY <1>2 DEF TypeInv
<1> QED
  BY <1>3, <1>4 DEF TypeInv

LEMMA UsersType == ASSUME TypeInv, Users PROVE TypeInv'
<1>0. /\ UNCHANGED apiVars => PolicyTypes'
      /\ UNCHANGED nsVars => NamespaceTypes'
      /\ UNCHANGED refVars => refs' \in SUBSET Refs /\ refWatch' \in [Refs -> Seq(BOOLEAN)]
      /\ UNCHANGED lives => lives' \in [Policies -> 0 .. MaxLives]
  BY DEF apiVars, nsVars, refVars, PolicyTypes, NamespaceTypes, TypeInv, TypeOK
<1>1. ASSUME NEW p \in Policies, NEW s \in Specs, CreatePolicy(p, s)
      PROVE  TypeInv'
  <2> DEFINE o == [life |-> lives[p] + 1, gen |-> 1, spec |-> s, fin |-> FALSE,
                   deleting |-> FALSE, status |-> [cond |-> None, applied |-> 0]]
  <2>1. lives[p] + 1 \in Nat /\ lives' \in [Policies -> 0 .. MaxLives]
    BY <1>1, PolicyAssumption DEF CreatePolicy, TypeInv, TypeOK
  <2>2. o \in PolicyObjects
    BY <2>1 DEF PolicyObjects, Statuses
  <2>3. ApiWrite(p, o)
    BY <1>1 DEF CreatePolicy
  <2> HIDE DEF o
  <2>4. PolicyTypes'
    BY <2>2, <2>3, ApiWriteType DEF PolicyTypes, TypeInv
  <2> QED
    BY <1>0, <1>1, <2>1, <2>4, UsersFrame DEF CreatePolicy
<1>2. ASSUME NEW p \in Policies, NEW s \in Specs, EditPolicy(p, s)
      PROVE  TypeInv'
  <2>1. api[p] \in PolicyObjects
    BY <1>2 DEF EditPolicy, TypeInv, TypeOK
  <2>2. PolicyTypes'
    BY <1>2, <2>1, ChangedPolicy, ApiWriteType DEF EditPolicy, PolicyTypes, TypeInv
  <2> QED
    BY <1>0, <1>2, <2>2, UsersFrame DEF EditPolicy
<1>3. ASSUME NEW p \in Policies, DeletePolicy(p)
      PROVE  TypeInv'
  <2>1. api[p] \in PolicyObjects
    BY <1>3 DEF DeletePolicy, TypeInv, TypeOK
  <2>2. PolicyTypes'
    BY <1>3, <2>1, ChangedPolicy, ApiWriteType DEF DeletePolicy, PolicyTypes, TypeInv
  <2> QED
    BY <1>0, <1>3, <2>2, UsersFrame DEF DeletePolicy
<1>4. ASSUME NEW n \in Namespaces, ChangeNamespace(n)
      PROVE  TypeInv'
  <2>1. \E o \in Annotations \cup {None} : NamespaceWrite(n, o)
    <3>1. nsApi[n] # None => [nsApi[n] EXCEPT !.other = ~ @] \in Annotations
      BY DEF Annotations, TypeInv, TypeOK
    <3> QED
      BY <1>4, <3>1, BareType DEF ChangeNamespace
  <2>2. NamespaceTypes'
    BY <2>1, NamespaceWriteType DEF NamespaceTypes, TypeInv
  <2> QED
    BY <1>0, <1>4, <2>2, UsersFrame DEF ChangeNamespace
<1>5. ASSUME NEW r \in Refs, ChangeRef(r)
      PROVE  TypeInv'
  <2>1. refs' \in SUBSET Refs /\ refWatch' \in [Refs -> Seq(BOOLEAN)]
    BY <1>5 DEF ChangeRef, TypeInv, TypeOK
  <2> QED
    BY <1>0, <1>5, <2>1, UsersFrame DEF ChangeRef
<1> QED
  BY <1>1, <1>2, <1>3, <1>4, <1>5 DEF Users

LEMMA SystemType ==
    ASSUME TypeInv, Deliver \/ Restart \/ \E p \in Policies : DelayOver(p) \/ Start(p) \/ GetFails(p)
    PROVE  TypeInv'
<1> USE PolicyAssumption
<1>1. CASE DeliverPolicy
  <2>1. Head(watch) \in PolicyEvents /\ Tail(watch) \in Seq(PolicyEvents)
    BY <1>1 DEF DeliverPolicy, TypeInv, TypeOK
  <2>2. Head(watch).policy \in Policies /\ Head(watch).obj \in PolicyObjects \cup {None}
    BY <2>1 DEF PolicyEvents
  <2>3. /\ cache' \in [Policies -> PolicyObjects \cup {None}]
        /\ queue' \in [Policies -> {"none", "backoff", "ready"}]
        /\ watch' \in Seq(PolicyEvents)
    BY <1>1, <2>1, <2>2 DEF DeliverPolicy, TypeInv, TypeOK
  <2> QED
    BY <1>1, <2>3 DEF DeliverPolicy, TypeInv, TypeOK, nsVars, refVars, boundVars
<1>2. CASE DeliverNamespace
  <2>1. Head(nsWatch) \in NamespaceEvents /\ Tail(nsWatch) \in Seq(NamespaceEvents)
    BY <1>2 DEF DeliverNamespace, TypeInv, TypeOK
  <2>2. Head(nsWatch).ns \in Namespaces /\ Head(nsWatch).obj \in Annotations \cup {None}
    BY <2>1 DEF NamespaceEvents
  <2>3. /\ nsCache' \in [Namespaces -> Annotations \cup {None}]
        /\ queue' \in [Policies -> {"none", "backoff", "ready"}]
        /\ nsWatch' \in Seq(NamespaceEvents)
    BY <1>2, <2>1, <2>2 DEF DeliverNamespace, EnqueueAll, TypeInv, TypeOK
  <2> QED
    BY <1>2, <2>3 DEF DeliverNamespace, TypeInv, TypeOK, apiVars, refVars, boundVars
<1>3. ASSUME NEW r \in Refs, DeliverRef(r) PROVE TypeInv'
  <2>1. refWatch[r] \in Seq(BOOLEAN) /\ refWatch[r] # <<>>
    BY <1>3 DEF DeliverRef, TypeInv, TypeOK
  <2>2. Tail(refWatch[r]) \in Seq(BOOLEAN)
    BY <2>1, HeadTailProperties
  <2>3. /\ refCache' \in SUBSET Refs
        /\ queue' \in [Policies -> {"none", "backoff", "ready"}]
    BY <1>3 DEF DeliverRef, EnqueueAll, TypeInv, TypeOK
  <2>4. refWatch' \in [Refs -> Seq(BOOLEAN)]
    BY <1>3, <2>2 DEF DeliverRef, TypeInv, TypeOK
  <2> QED
    BY <1>3, <2>3, <2>4 DEF DeliverRef, TypeInv, TypeOK, apiVars, nsVars, boundVars
<1>4. ASSUME NEW p \in Policies, DelayOver(p) PROVE TypeInv'
  BY <1>4 DEF DelayOver, TypeInv, TypeOK, apiVars, nsVars, refVars, seenVars, boundVars
<1>5. CASE Restart
  <2>1. Fits(w') /\ w' \in Workers
    BY <1>5, IdleFits DEF Restart, Fits
  <2>2. restarts' \in 0 .. MaxRestarts
    BY <1>5 DEF Restart, TypeInv, TypeOK
  <2>3. queue' \in [Policies -> {"none", "backoff", "ready"}]
    BY <1>5 DEF Restart
  <2>4. watch' \in Seq(PolicyEvents) /\ nsWatch' \in Seq(NamespaceEvents)
        /\ refWatch' \in [Refs -> Seq(BOOLEAN)]
    BY <1>5 DEF Restart
  <2> QED
    BY <1>5, <2>1, <2>2, <2>3, <2>4 DEF Restart, TypeInv, TypeOK
<1>6. ASSUME NEW p \in Policies, ReconcileNothing(p) PROVE TypeInv'
  <2>1. queue' \in [Policies -> {"none", "backoff", "ready"}]
    BY <1>6 DEF ReconcileNothing, TypeInv, TypeOK
  <2> QED
    BY <1>6, <2>1, WorkerFrame
       DEF ReconcileNothing, TakeKey, apiVars, nsVars, PolicyTypes, NamespaceTypes, TypeInv, TypeOK
<1>7. ASSUME NEW p \in Policies, GetFails(p) PROVE TypeInv'
  <2>1. queue' \in [Policies -> {"none", "backoff", "ready"}] /\ faults' \in 0 .. MaxFaults
    BY <1>7 DEF GetFails, TypeInv, TypeOK
  <2> QED
    BY <1>7, <2>1, WorkerFrame
       DEF GetFails, TakeKey, apiVars, nsVars, PolicyTypes, NamespaceTypes, TypeInv, TypeOK
<1>8. ASSUME NEW p \in Policies, ReconcilePolicy(p) PROVE TypeInv'
  <2>1. queue' \in [Policies -> {"none", "backoff", "ready"}]
    BY <1>8 DEF ReconcilePolicy, TypeInv, TypeOK
  <2>2. cache[p] \in PolicyObjects
    BY <1>8 DEF ReconcilePolicy, TypeInv, TypeOK
  <2>3. cache[p].deleting \in BOOLEAN /\ cache[p].fin \in BOOLEAN
    BY <2>2, ObjectFacts
  <2> DEFINE o == cache[p]
             pc == IF o.deleting THEN "list" ELSE IF o.fin THEN "getPool" ELSE "addFinalizer"
             y == [Idle EXCEPT !.req = p, !.obj = o, !.del = o.deleting, !.pc = pc]
  <2>4. w' = y /\ (o.deleting => o.fin)
    BY <1>8 DEF ReconcilePolicy
  <2>5. pc \in Steps
    BY DEF Steps
  <2>6. Idle \in Workers
    BY IdleFits DEF Fits
  <2> HIDE DEF o, pc
  <2>7. y \in Workers /\ y.pc = pc /\ y.req = p /\ y.obj = o /\ y.del = o.deleting
    BY <2>2, <2>3, <2>5, <2>6 DEF Workers, o
  <2> HIDE DEF y
  <2>8. Fits(y)
    BY <2>2, <2>4, <2>7 DEF Fits, o, pc
  <2> QED
    BY <1>8, <2>1, <2>4, <2>8, WorkerFrame
       DEF ReconcilePolicy, TakeKey, apiVars, nsVars, PolicyTypes, NamespaceTypes, TypeInv, TypeOK
<1> QED
  BY <1>1, <1>2, <1>3, <1>4, <1>5, <1>6, <1>7, <1>8 DEF Deliver, Start

LEMMA TypeInvInit == ASSUME Init PROVE TypeInv
<1>1. Bare \in Annotations /\ Fits(Idle) /\ Idle \in Workers
  BY BareType, IdleFits DEF Fits
<1>2. nsApi \in [Namespaces -> Annotations \cup {None}] /\ nsCache = nsApi
  BY <1>1 DEF Init
<1>3. /\ watch \in Seq(PolicyEvents) /\ nsWatch \in Seq(NamespaceEvents)
      /\ refWatch \in [Refs -> Seq(BOOLEAN)]
  BY DEF Init
<1>4. api \in [Policies -> PolicyObjects \cup {None}] /\ cache = api
  BY DEF Init
<1>5. lives \in [Policies -> 0 .. MaxLives] /\ ops \in 0 .. MaxOps
      /\ faults \in 0 .. MaxFaults /\ restarts \in 0 .. MaxRestarts
  BY PolicyAssumption DEF Init
<1>6. refs \in SUBSET Refs /\ refCache \in SUBSET Refs /\ staleList \in BOOLEAN
      /\ queue \in [Policies -> {"none", "backoff", "ready"}] /\ w = Idle
  BY DEF Init
<1> QED
  BY <1>1, <1>2, <1>3, <1>4, <1>5, <1>6 DEF TypeInv, TypeOK

LEMMA TypeInvStep == TypeInv /\ [Next]_vars => TypeInv'
<1> SUFFICES ASSUME TypeInv, [Next]_vars PROVE TypeInv'
  OBVIOUS
<1>1. CASE Next
  BY <1>1, UsersType, SystemType, WorkerType DEF Next
<1>2. CASE UNCHANGED vars
  BY <1>2 DEF vars, apiVars, nsVars, refVars, seenVars, boundVars, TypeInv, TypeOK
<1> QED
  BY <1>1, <1>2

(* TypeInv holds throughout. *)
LEMMA TypeInvAlways == Spec => []TypeInv
BY TypeInvInit, TypeInvStep, PTL DEF Spec

(****************************************************************************)
(* The types hold throughout: in particular every annotation that a merge   *)
(* patch leaves on a namespace, however stale the copy it was made from, is *)
(* a UID, policy, pool or profile that some policy spec has, or is absent.  *)
(****************************************************************************)
THEOREM PolicyTypeCorrect == Spec => []TypeOK
<1>1. TypeInv => TypeOK
  BY DEF TypeInv
<1> QED
  BY <1>1, TypeInvAlways, PTL

-----------------------------------------------------------------------------
(****************************************************************************)
(* No work is lost (NoLostWork).  Every write of the controller is a merge  *)
(* patch without a resource version, made from a copy that may be stale.    *)
(* The inductive invariant WorkInv says why no policy is left behind by     *)
(* that: a policy of which the cache or the worker has an old copy has an   *)
(* event on its way or its key in the queue.                                *)
(****************************************************************************)

(* An event of policy p is on its way. *)
EventPending(p) == \E i \in 1 .. Len(watch) : watch[i].policy = p

(* The last event of policy p is number i. *)
IsLastEvent(p, i) ==
    /\ watch[i].policy = p
    /\ \A j \in 1 .. Len(watch) : j > i => watch[j].policy # p

(* The cache and the events on their way add up to what is stored. *)
Synced ==
    \A p \in Policies :
        /\ EventPending(p) \/ cache[p] = api[p]
        /\ \A i \in 1 .. Len(watch) : IsLastEvent(p, i) => watch[i].obj = api[p]

(* Something is left that will make the worker look at policy p again. *)
Pending(p) == EventPending(p) \/ queue[p] # "none"

(* A reconcile of policy p is running. *)
Reconciling(p) == w.pc # "idle" /\ w.req = p

(* The worker's copy is the stored policy, or that one will be looked at again. *)
HoldsLatest ==
    w.pc # "idle" =>
        \/ Pending(w.req)
        \/ w.obj = api[w.req] /\ w.del = w.obj.deleting

(* A policy that waits for its deletion has the finalizer it waits for. *)
DeletingHasFinalizer ==
    \A p \in Policies : api[p] # None /\ api[p].deleting => api[p].fin

(* Policy p has no finalizer, waits for its deletion, or its status is not about its spec. *)
Needs(p) ==
    /\ api[p] # None
    /\ \/ ~ api[p].fin
       \/ api[p].deleting
       \/ api[p].status.cond = None
       \/ api[p].status.cond.gen # api[p].gen

(* What a policy needs is done by something that is pending or running. *)
WorkCovered == \A p \in Policies : Needs(p) => Pending(p) \/ Reconciling(p)

(* The inductive invariant behind NoLostWork. *)
WorkInv == Synced /\ HoldsLatest /\ DeletingHasFinalizer /\ WorkCovered

(* A step that keeps Synced, the events on their way, and adds one for what it changes. *)
Watched ==
    /\ Synced'
    /\ DeletingHasFinalizer'
    /\ \A p \in Policies : EventPending(p) => EventPending(p)'
    /\ \A p \in Policies : api'[p] # api[p] => EventPending(p)'

(* A step after which what was pending is, and what it changed is as well. *)
Kept ==
    \A p \in Policies :
        /\ Pending(p) => Pending(p)'
        /\ api'[p] # api[p] => Pending(p)'

-----------------------------------------------------------------------------
(* A write to a policy keeps Synced: its event, if any, is the policy's last. *)
LEMMA WriteWatched ==
    ASSUME TypeOK, Synced, DeletingHasFinalizer,
           NEW p \in Policies, NEW o \in PolicyObjects \cup {None},
           ApiWrite(p, o), cache' = cache, o # None /\ o.deleting => o.fin
    PROVE  Watched
<1>1. /\ api' = [api EXCEPT ![p] = o]
      /\ watch' = IF o = api[p] THEN watch ELSE Append(watch, [policy |-> p, obj |-> o])
  BY DEF ApiWrite
<1>2. watch \in Seq(PolicyEvents)
  BY DEF TypeOK
<1>3. api'[p] = o /\ \A q \in Policies : q # p => api'[q] = api[q]
  BY <1>1 DEF TypeOK
<1>4. DeletingHasFinalizer'
  BY <1>3 DEF DeletingHasFinalizer
<1>5. CASE o = api[p]
  <2>1. api' = api /\ watch' = watch
    BY <1>1, <1>5 DEF TypeOK
  <2> QED
    BY <1>4, <2>1 DEF Watched, Synced, EventPending, IsLastEvent
<1>6. CASE o # api[p]
  <2>1. watch' = Append(watch, [policy |-> p, obj |-> o])
    BY <1>1, <1>6
  <2>2. /\ Len(watch') = Len(watch) + 1
        /\ Len(watch) \in Nat
        /\ \A i \in 1 .. Len(watch) : watch'[i] = watch[i]
        /\ watch'[Len(watch) + 1] = [policy |-> p, obj |-> o]
    BY <1>2, <2>1
  <2>3. \A q \in Policies : EventPending(q) => EventPending(q)'
    BY <2>2 DEF EventPending
  <2>4. EventPending(p)'
    BY <2>2 DEF EventPending
  <2>5. ASSUME NEW q \in Policies, NEW i \in 1 .. Len(watch'), IsLastEvent(q, i)'
        PROVE  watch'[i].obj = api'[q]
    <3>1. CASE i = Len(watch) + 1
      BY <1>3, <2>2, <2>5, <3>1 DEF IsLastEvent
    <3>2. CASE i # Len(watch) + 1
      <4>1. i \in 1 .. Len(watch)
        BY <2>2, <3>2
      <4>2. q # p
        BY <2>2, <2>5, <4>1 DEF IsLastEvent
      <4>3. IsLastEvent(q, i)
        BY <2>2, <2>5, <4>1 DEF IsLastEvent
      <4> QED
        BY <1>3, <2>2, <4>1, <4>2, <4>3 DEF Synced
    <3> QED
      BY <3>1, <3>2
  <2>6. \A q \in Policies : EventPending(q)' \/ cache'[q] = api'[q]
    BY <1>3, <2>3, <2>4 DEF Synced
  <2>7. Synced'
    BY <2>5, <2>6 DEF Synced
  <2> QED
    BY <1>3, <1>4, <2>3, <2>4, <2>7 DEF Watched
<1> QED
  BY <1>5, <1>6

(* A delivery keeps Synced: the cache takes over the event it consumes. *)
LEMMA DeliverSynced ==
    ASSUME TypeOK, Synced, DeliverPolicy
    PROVE  Synced' /\ Kept
<1> DEFINE e == Head(watch)
<1>1. /\ watch \in Seq(PolicyEvents) /\ watch # <<>>
      /\ watch' = Tail(watch)
      /\ cache' = [cache EXCEPT ![e.policy] = e.obj]
      /\ api' = api
      /\ queue' = [queue EXCEPT ![e.policy] = "ready"]
  BY DEF DeliverPolicy, TypeOK
<1>2. /\ Len(watch) \in Nat \ {0}
      /\ Len(watch') = Len(watch) - 1
      /\ \A i \in 1 .. Len(watch) - 1 : watch'[i] = watch[i + 1]
      /\ e = watch[1]
      /\ e \in PolicyEvents
  BY <1>1
<1>3. e.policy \in Policies
  BY <1>2 DEF PolicyEvents
<1> HIDE DEF e
<1>4. ASSUME NEW q \in Policies, EventPending(q), q # e.policy
      PROVE  EventPending(q)'
  <2>1. PICK i \in 1 .. Len(watch) : watch[i].policy = q
    BY <1>4 DEF EventPending
  <2>2. i # 1
    BY <1>2, <1>4, <2>1
  <2>3. i - 1 \in 1 .. Len(watch') /\ watch'[i - 1] = watch[i]
    BY <1>2, <2>1, <2>2
  <2> QED
    BY <2>1, <2>3 DEF EventPending
<1>5. ASSUME NEW q \in Policies, ~ EventPending(q)'
      PROVE  cache'[q] = api'[q]
  <2>1. CASE q = e.policy
    <3>1. ASSUME NEW j \in 1 .. Len(watch), j > 1
          PROVE  watch[j].policy # q
      <4>1. j - 1 \in 1 .. Len(watch') /\ watch'[j - 1] = watch[j]
        BY <1>2, <3>1
      <4> QED
        BY <1>5, <4>1 DEF EventPending
    <3>2. 1 \in 1 .. Len(watch) /\ IsLastEvent(q, 1)
      BY <1>2, <2>1, <3>1 DEF IsLastEvent
    <3>3. e.obj = api[q]
      BY <1>2, <3>2 DEF Synced
    <3> QED
      BY <1>1, <1>3, <2>1, <3>3 DEF TypeOK
  <2>2. CASE q # e.policy
    BY <1>1, <1>3, <1>4, <1>5, <2>2 DEF Synced, TypeOK
  <2> QED
    BY <2>1, <2>2
<1>6. ASSUME NEW q \in Policies, NEW i \in 1 .. Len(watch'), IsLastEvent(q, i)'
      PROVE  watch'[i].obj = api'[q]
  <2>1. i + 1 \in 1 .. Len(watch) /\ watch'[i] = watch[i + 1]
    BY <1>2
  <2>2. ASSUME NEW j \in 1 .. Len(watch), j > i + 1
        PROVE  watch[j].policy # q
    <3>1. j - 1 \in 1 .. Len(watch') /\ j - 1 > i /\ watch'[j - 1] = watch[j]
      BY <1>2, <2>2
    <3> QED
      BY <1>6, <3>1 DEF IsLastEvent
  <2>3. IsLastEvent(q, i + 1)
    BY <1>6, <2>1, <2>2 DEF IsLastEvent
  <2> QED
    BY <1>1, <2>1, <2>3 DEF Synced
<1>7. Synced'
  BY <1>5, <1>6 DEF Synced
<1>8. ASSUME NEW q \in Policies, Pending(q)
      PROVE  Pending(q)'
  <2>1. /\ queue[q] # "none" => queue'[q] # "none"
        /\ queue'[e.policy] # "none"
    BY <1>1, <1>3 DEF TypeOK
  <2> QED
    BY <1>4, <1>8, <2>1 DEF Pending
<1> QED
  BY <1>1, <1>7, <1>8 DEF Kept

-----------------------------------------------------------------------------
(* A step that neither writes policies nor delivers their events. *)
LEMMA UnwrittenWatched ==
    ASSUME Synced, DeletingHasFinalizer, UNCHANGED <<api, watch, cache>>
    PROVE  Watched
BY DEF Watched, Synced, DeletingHasFinalizer, EventPending, IsLastEvent

(* Watched steps that lose no key of the queue keep what is pending. *)
LEMMA WatchedKept ==
    ASSUME Watched, \A p \in Policies : queue[p] # "none" => queue'[p] # "none"
    PROVE  Kept
BY DEF Watched, Kept, Pending

(* All work stays covered by a step that keeps what is pending, unless a reconcile ends. *)
LEMMA KeptWork ==
    ASSUME WorkCovered, Kept,
           \A p \in Policies : Reconciling(p) => Reconciling(p)' \/ Pending(p)' \/ ~ Needs(p)'
    PROVE  WorkCovered'
<1> SUFFICES ASSUME NEW p \in Policies, Needs(p)'
             PROVE  Pending(p)' \/ Reconciling(p)'
  BY DEF WorkCovered
<1>1. CASE api'[p] # api[p]
  BY <1>1 DEF Kept
<1>2. CASE api'[p] = api[p]
  <2>1. Needs(p)
    BY <1>2 DEF Needs
  <2> QED
    BY <2>1 DEF WorkCovered, Kept
<1> QED
  BY <1>1, <1>2

(* A step that leaves the request at hand, the copy of its policy and what is pending. *)
LEMMA CarriesOn ==
    ASSUME TypeInv, WorkInv, Synced', DeletingHasFinalizer', Kept,
           \/ w' = w
           \/ w.pc # "idle" /\ GoesOnAs(w, w')
    PROVE  WorkInv'
<1>1. /\ w'.pc # "idle" <=> w.pc # "idle"
      /\ w'.req = w.req /\ w'.obj = w.obj /\ w'.del = w.del
  BY DEF GoesOnAs
<1>2. WorkCovered'
  BY <1>1, KeptWork DEF WorkInv, Reconciling
<1>3. HoldsLatest'
  <2>1. CASE w.pc = "idle"
    BY <1>1, <2>1 DEF HoldsLatest
  <2>2. CASE w.pc # "idle"
    <3>1. PICK r \in Policies : r = w.req
      BY <2>2, BusyFacts
    <3>2. Pending(r) \/ (w.obj = api[r] /\ w.del = w.obj.deleting)
      BY <2>2, <3>1 DEF WorkInv, HoldsLatest
    <3>3. Pending(r)' \/ (w'.obj = api'[r] /\ w'.del = w'.obj.deleting)
      BY <1>1, <3>2 DEF Kept
    <3> QED
      BY <1>1, <3>1, <3>3 DEF HoldsLatest
  <2> QED
    BY <2>1, <2>2
<1> QED
  BY <1>2, <1>3 DEF WorkInv

(* Reconcile returns: nothing is owed to its policy, or that one is still pending. *)
LEMMA ReturnStep ==
    ASSUME TypeInv, WorkInv, w.pc # "idle", Watched, NEW how, Return(how),
           NEW r \in Policies, w.req = r,
           how = "backoff" \/ Pending(r) \/ ~ Needs(r)'
    PROVE  WorkInv' /\ Kept
<1>1. queue \in [Policies -> {"none", "backoff", "ready"}]
  BY DEF TypeInv, TypeOK
<1>2. /\ w' = Idle
      /\ \A p \in Policies : queue[p] # "none" => queue'[p] # "none"
      /\ how = "backoff" => queue'[r] # "none"
  BY <1>1 DEF Return
<1>3. Kept
  BY <1>2, WatchedKept
<1>4. ASSUME NEW p \in Policies, Reconciling(p)
      PROVE  Pending(p)' \/ ~ Needs(p)'
  <2>1. p = r
    BY <1>4 DEF Reconciling
  <2>2. Pending(p) => Pending(p)'
    BY <1>3 DEF Kept
  <2>3. how = "backoff" => Pending(p)'
    BY <1>2, <2>1 DEF Pending
  <2> QED
    BY <2>1, <2>2, <2>3
<1>5. WorkCovered'
  BY <1>3, <1>4, KeptWork DEF WorkInv
<1>6. HoldsLatest'
  BY <1>2 DEF HoldsLatest, Idle
<1> QED
  BY <1>3, <1>5, <1>6 DEF WorkInv, Watched

(* Reconcile returns an error: its key comes back. *)
LEMMA ErrorStep ==
    ASSUME TypeInv, WorkInv, w.pc # "idle", Watched, ReturnError
    PROVE  WorkInv' /\ Kept
<1>1. w.req \in Policies
  BY BusyFacts
<1> QED
  BY <1>1, ReturnStep DEF ReturnError

(* Steps that write no policy: the worker goes on or returns an error. *)
LEMMA UnwrittenStep ==
    ASSUME TypeInv, WorkInv, w.pc # "idle", UNCHANGED <<api, watch, cache>>, GoesOnOrFails
    PROVE  WorkInv' /\ Kept
<1>1. Watched
  BY UnwrittenWatched DEF WorkInv
<1>2. CASE GoesOnAs(w, w') /\ queue' = queue
  <2>1. Kept
    BY <1>1, <1>2, WatchedKept
  <2> QED
    BY <1>1, <1>2, <2>1, CarriesOn DEF Watched
<1>3. CASE ReturnError
  BY <1>1, <1>3, ErrorStep
<1> QED
  BY <1>2, <1>3 DEF GoesOnOrFails

-----------------------------------------------------------------------------
(* What is written to a policy keeps the finalizer while deletion waits for it. *)
LEMMA WrittenHasFinalizer ==
    ASSUME NEW o \in PolicyObjects, o.deleting => o.fin
    PROVE  /\ \A s \in Specs : LET e == [o EXCEPT !.spec = s, !.gen = @ + 1]
                               IN  e.deleting => e.fin
           /\ AfterDelete(o) # None => AfterDelete(o).fin
           /\ AfterRemoveFinalizer(o) # None => ~ AfterRemoveFinalizer(o).deleting
           /\ [o EXCEPT !.fin = TRUE].fin
           /\ \A t : LET e == [o EXCEPT !.status = t] IN e.deleting => e.fin
<1>1. \A s \in Specs : LET e == [o EXCEPT !.spec = s, !.gen = @ + 1] IN e.deleting => e.fin
  BY DEF PolicyObjects
<1>2. AfterDelete(o) # None => AfterDelete(o).fin
  BY DEF PolicyObjects, AfterDelete
<1>3. AfterRemoveFinalizer(o) # None => ~ AfterRemoveFinalizer(o).deleting
  BY DEF PolicyObjects, AfterRemoveFinalizer
<1>4. \A t : LET e == [o EXCEPT !.status = t] IN e.deleting => e.fin
  BY DEF PolicyObjects
<1> QED
  BY <1>1, <1>2, <1>3, <1>4, ChangedPolicy

(* The users' operations lose no work: each write has its event. *)
LEMMA UsersWork == ASSUME TypeInv, WorkInv, Users PROVE WorkInv' /\ Kept
<1> USE DEF UserOperation, seenVars, apiVars
<1>1. ASSUME Watched, queue' = queue, w' = w
      PROVE  WorkInv' /\ Kept
  <2>1. Kept
    BY <1>1, WatchedKept
  <2> QED
    BY <1>1, <2>1, CarriesOn DEF Watched
<1>2. ASSUME NEW p \in Policies, NEW o \in PolicyObjects \cup {None}, ApiWrite(p, o),
             o # None /\ o.deleting => o.fin, UserOperation
      PROVE  WorkInv' /\ Kept
  BY <1>1, <1>2, WriteWatched DEF WorkInv, TypeInv
<1>3. ASSUME NEW p \in Policies, api[p] # None
      PROVE  api[p] \in PolicyObjects /\ (api[p].deleting => api[p].fin)
  BY <1>3 DEF TypeInv, TypeOK, WorkInv, DeletingHasFinalizer
<1>4. ASSUME NEW p \in Policies, NEW s \in Specs, CreatePolicy(p, s)
      PROVE  WorkInv' /\ Kept
  <2> DEFINE o == [life |-> lives[p] + 1, gen |-> 1, spec |-> s, fin |-> FALSE,
                   deleting |-> FALSE, status |-> [cond |-> None, applied |-> 0]]
  <2>1. lives[p] + 1 \in Nat
    BY PolicyAssumption DEF TypeInv, TypeOK
  <2>2. o \in PolicyObjects /\ ~ o.deleting
    BY <2>1 DEF PolicyObjects, Statuses
  <2>3. ApiWrite(p, o) /\ UserOperation
    BY <1>4 DEF CreatePolicy
  <2> HIDE DEF o
  <2> QED
    BY <1>2, <2>2, <2>3
<1>5. ASSUME NEW p \in Policies, NEW s \in Specs, EditPolicy(p, s)
      PROVE  WorkInv' /\ Kept
  <2> DEFINE o == [api[p] EXCEPT !.spec = s, !.gen = @ + 1]
  <2>1. o \in PolicyObjects /\ (o.deleting => o.fin)
    BY <1>3, <1>5, ChangedPolicy, WrittenHasFinalizer DEF EditPolicy
  <2>2. ApiWrite(p, o) /\ UserOperation
    BY <1>5 DEF EditPolicy
  <2> HIDE DEF o
  <2> QED
    BY <1>2, <2>1, <2>2
<1>6. ASSUME NEW p \in Policies, DeletePolicy(p)
      PROVE  WorkInv' /\ Kept
  <2> DEFINE o == AfterDelete(api[p])
  <2>1. o \in PolicyObjects \cup {None} /\ (o # None => o.fin)
    BY <1>3, <1>6, ChangedPolicy, WrittenHasFinalizer DEF DeletePolicy
  <2>2. ApiWrite(p, o) /\ UserOperation
    BY <1>6 DEF DeletePolicy
  <2> HIDE DEF o
  <2> QED
    BY <1>2, <2>1, <2>2
<1>7. ASSUME UNCHANGED apiVars, UserOperation
      PROVE  WorkInv' /\ Kept
  BY <1>1, <1>7, UnwrittenWatched DEF WorkInv
<1> QED
  BY <1>4, <1>5, <1>6, <1>7 DEF Users, ChangeNamespace, ChangeRef

(* Informers, timers and a failing first Get lose no work. *)
LEMMA SystemWork ==
    ASSUME TypeInv, WorkInv,
           Deliver \/ \E p \in Policies : DelayOver(p) \/ GetFails(p)
    PROVE  WorkInv' /\ Kept
<1> USE DEF seenVars, apiVars
<1>1. ASSUME UNCHANGED <<api, watch, cache, w>>,
             \A p \in Policies : queue[p] # "none" => queue'[p] # "none"
      PROVE  WorkInv' /\ Kept
  <2>1. Watched
    BY <1>1, UnwrittenWatched DEF WorkInv
  <2>2. Kept
    BY <1>1, <2>1, WatchedKept
  <2> QED
    BY <1>1, <2>1, <2>2, CarriesOn DEF Watched
<1>2. CASE DeliverPolicy
  <2>1. Synced' /\ Kept
    BY <1>2, DeliverSynced DEF WorkInv, TypeInv
  <2>2. DeletingHasFinalizer'
    BY <1>2 DEF WorkInv, DeletingHasFinalizer, DeliverPolicy
  <2>3. w' = w
    BY <1>2 DEF DeliverPolicy
  <2> QED
    BY <2>1, <2>2, <2>3, CarriesOn
<1>3. CASE DeliverNamespace
  BY <1>1, <1>3 DEF DeliverNamespace, EnqueueAll
<1>4. ASSUME NEW r \in Refs, DeliverRef(r)
      PROVE  WorkInv' /\ Kept
  BY <1>1, <1>4 DEF DeliverRef, EnqueueAll
<1>5. ASSUME NEW p \in Policies, DelayOver(p) \/ GetFails(p)
      PROVE  WorkInv' /\ Kept
  <2>1. \A q \in Policies : queue[q] # "none" => queue'[q] # "none"
    BY <1>5 DEF DelayOver, GetFails, TypeInv, TypeOK
  <2> QED
    BY <1>1, <1>5, <2>1 DEF DelayOver, GetFails, TakeKey, environmentVars
<1> QED
  BY <1>2, <1>3, <1>4, <1>5 DEF Deliver

(* A restart loses no work: every policy is enqueued. *)
LEMMA RestartWork ==
    ASSUME TypeInv, WorkInv, Restart
    PROVE  WorkInv' /\ \A p \in Policies : api'[p] # None => Pending(p)'
<1>1. /\ api' = api /\ cache' = api /\ watch' = <<>> /\ w' = Idle
      /\ \A p \in Policies : api[p] # None => queue'[p] # "none"
  BY DEF Restart
<1>2. Synced'
  BY <1>1 DEF Synced
<1>3. HoldsLatest'
  BY <1>1 DEF HoldsLatest, Idle
<1>4. WorkCovered'
  BY <1>1 DEF WorkCovered, Needs, Pending
<1>5. DeletingHasFinalizer'
  BY <1>1 DEF WorkInv, DeletingHasFinalizer
<1> QED
  BY <1>1, <1>2, <1>3, <1>4, <1>5 DEF WorkInv, Pending

(****************************************************************************)
(* Taking a key loses no work: the reconcile is of that policy, or the      *)
(* cache has none that could be dealt with, and then none is stored or its  *)
(* event is on its way.                                                     *)
(****************************************************************************)
LEMMA StartWork ==
    ASSUME TypeInv, WorkInv, NEW p \in Policies, Start(p)
    PROVE  WorkInv'
<1> USE DEF environmentVars, seenVars, apiVars
<1>1. /\ UNCHANGED <<api, watch, cache>>
      /\ w.pc = "idle"
      /\ queue' = [queue EXCEPT ![p] = "none"]
  BY DEF Start, ReconcilePolicy, ReconcileNothing, TakeKey
<1>2. Watched
  BY <1>1, UnwrittenWatched DEF WorkInv
<1>3. \A q \in Policies \ {p} : queue'[q] = queue[q]
  BY <1>1 DEF TypeInv, TypeOK
<1>4. ASSUME NEW q \in Policies, q # p, Needs(q)'
      PROVE  Pending(q)'
  <2>1. Needs(q)
    BY <1>1, <1>4 DEF Needs
  <2>2. Pending(q)
    BY <1>1, <2>1 DEF WorkInv, WorkCovered, Reconciling
  <2> QED
    BY <1>2, <1>3, <1>4, <2>2 DEF Watched, Pending
<1>5. EventPending(p)' \/ cache[p] = api[p]
  BY <1>2 DEF WorkInv, Synced, Watched
<1>6. CASE ReconcilePolicy(p)
  <2>1. Idle \in Workers
    BY IdleFits DEF Fits
  <2>2. w'.req = p /\ w'.obj = cache[p] /\ w'.del = cache[p].deleting /\ w'.pc # "idle"
    BY <1>6, <2>1 DEF ReconcilePolicy, Workers
  <2>3. HoldsLatest'
    BY <1>1, <1>5, <2>2 DEF HoldsLatest, Pending
  <2>4. WorkCovered'
    BY <1>4, <2>2 DEF WorkCovered, Reconciling
  <2> QED
    BY <1>2, <2>3, <2>4 DEF WorkInv, Watched
<1>7. CASE ReconcileNothing(p)
  <2>1. w' = w /\ (cache[p] # None => cache[p].deleting /\ ~ cache[p].fin)
    BY <1>7 DEF ReconcileNothing
  <2>2. HoldsLatest'
    BY <1>1, <2>1 DEF HoldsLatest
  <2>3. cache[p] = api[p] => api[p] = None
    BY <2>1 DEF WorkInv, DeletingHasFinalizer
  <2>4. Needs(p)' => Pending(p)'
    BY <1>1, <1>5, <2>3 DEF Needs, Pending
  <2>5. WorkCovered'
    BY <1>4, <2>4 DEF WorkCovered
  <2> QED
    BY <1>2, <2>2, <2>5 DEF WorkInv, Watched
<1> QED
  BY <1>6, <1>7 DEF Start

(* The worker's writes to its policy have their event, if they change it. *)
LEMMA PatchWatched ==
    ASSUME TypeInv, WorkInv, cache' = cache, w.pc # "idle",
           \/ UNCHANGED apiVars
           \/ /\ api[w.req] # None
              /\ \/ ApiWrite(w.req, [api[w.req] EXCEPT !.fin = TRUE])
                 \/ ApiWrite(w.req, AfterRemoveFinalizer(api[w.req]))
                 \/ w.pc = "status" /\ PatchStatus
    PROVE  Watched
<1>1. CASE UNCHANGED apiVars
  BY <1>1, UnwrittenWatched DEF WorkInv, apiVars
<1>2. PICK r \in Policies : r = w.req
  BY BusyFacts
<1>3. ASSUME NEW o \in PolicyObjects \cup {None}, ApiWrite(r, o),
             o # None /\ o.deleting => o.fin
      PROVE  Watched
  BY <1>3, WriteWatched DEF WorkInv, TypeInv
<1>4. CASE api[r] # None
  <2> DEFINE o == api[r]
  <2>1. o \in PolicyObjects /\ (o.deleting => o.fin)
    BY <1>4 DEF TypeInv, TypeOK, WorkInv, DeletingHasFinalizer
  <2>2. CASE ApiWrite(r, [o EXCEPT !.fin = TRUE])
    BY <1>3, <2>1, <2>2, ChangedPolicy
  <2>3. CASE ApiWrite(r, AfterRemoveFinalizer(o))
    BY <1>3, <2>1, <2>3, ChangedPolicy, WrittenHasFinalizer
  <2>4. CASE w.pc = "status" /\ PatchStatus
    <3>1. PICK t \in Statuses : ApiWrite(r, [o EXCEPT !.status = t])
      BY <1>2, <1>4, <2>4, StatusWrite
    <3> DEFINE e == [o EXCEPT !.status = t]
    <3>2. e \in PolicyObjects /\ (e.deleting => e.fin)
      BY <2>1, ChangedPolicy, WrittenHasFinalizer
    <3>3. ApiWrite(r, e)
      BY <3>1
    <3> HIDE DEF e
    <3> QED
      BY <1>3, <3>2, <3>3
  <2> QED
    BY <1>1, <1>2, <2>2, <2>3, <2>4
<1> QED
  BY <1>1, <1>2, <1>4

(****************************************************************************)
(* Adding the finalizer leaves its policy pending: either it was not there  *)
(* and the write has an event, or it was, and then the worker's copy, which *)
(* has none, was stale.                                                     *)
(****************************************************************************)
LEMMA AddFinalizerWork == ASSUME TypeInv, WorkInv, AddFinalizer PROVE WorkInv' /\ Kept
<1>1. /\ w.pc = "addFinalizer" /\ w \in Workers /\ w.obj \in PolicyObjects /\ ~ w.obj.fin
      /\ cache' = cache
  BY BusyFacts DEF AddFinalizer, TypeInv, TypeOK, Fits, environmentVars, seenVars
<1>2. PICK r \in Policies : r = w.req
  BY <1>1, BusyFacts
<1>3. Watched
  BY <1>1, PatchWatched DEF AddFinalizer
<1>4. CASE api[r] = None
  <2>1. ReturnError
    BY <1>2, <1>4 DEF AddFinalizer
  <2> QED
    BY <1>1, <1>3, <2>1, ErrorStep
<1>5. CASE api[r] # None
  <2>1. /\ ApiWrite(r, [api[r] EXCEPT !.fin = TRUE])
        /\ w' = [w EXCEPT !.pc = "getPool", !.obj = api'[r]]
        /\ queue' = queue
    BY <1>2, <1>5 DEF AddFinalizer
  <2>2. w'.pc = "getPool" /\ w'.req = r
    BY <1>1, <1>2, <2>1 DEF Workers
  <2>3. Kept
    BY <1>3, <2>1, WatchedKept
  <2>4. api[r] \in PolicyObjects
    BY <1>5 DEF TypeInv, TypeOK
  <2>5. Pending(r)'
    <3>1. CASE api[r].fin
      <4>1. w.obj # api[r]
        BY <1>1, <3>1
      <4>2. Pending(r)
        BY <1>1, <1>2, <4>1 DEF WorkInv, HoldsLatest
      <4> QED
        BY <2>3, <4>2 DEF Kept
    <3>2. CASE ~ api[r].fin
      <4>1. api'[r] = [api[r] EXCEPT !.fin = TRUE]
        BY <2>1 DEF ApiWrite, TypeInv, TypeOK
      <4>2. api'[r].fin
        BY <2>4, <4>1, ChangedPolicy
      <4>3. api'[r] # api[r]
        BY <3>2, <4>2
      <4> QED
        BY <2>3, <4>3 DEF Kept
    <3> QED
      BY <3>1, <3>2
  <2>6. HoldsLatest'
    BY <2>2, <2>5 DEF HoldsLatest
  <2>7. \A p \in Policies : Reconciling(p) => Reconciling(p)'
    BY <1>2, <2>2 DEF Reconciling
  <2>8. WorkCovered'
    BY <2>3, <2>7, KeptWork DEF WorkInv
  <2> QED
    BY <1>3, <2>3, <2>6, <2>8 DEF WorkInv, Watched
<1> QED
  BY <1>4, <1>5

(* The finalizer is taken from a policy that then goes, or that is still pending. *)
LEMMA RemoveFinalizerWork == ASSUME TypeInv, WorkInv, RemoveFinalizer PROVE WorkInv' /\ Kept
<1>1. /\ w.pc = "removeFinalizer" /\ w \in Workers /\ w.obj \in PolicyObjects /\ w.del
      /\ cache' = cache
  BY BusyFacts DEF RemoveFinalizer, TypeInv, TypeOK, Fits, environmentVars, seenVars
<1>2. PICK r \in Policies : r = w.req
  BY <1>1, BusyFacts
<1>3. Watched
  BY <1>1, PatchWatched DEF RemoveFinalizer
<1>4. CASE api[r] = None
  <2>1. ReturnError
    BY <1>2, <1>4 DEF RemoveFinalizer
  <2> QED
    BY <1>1, <1>3, <2>1, ErrorStep
<1>5. CASE api[r] # None
  <2>1. ApiWrite(r, AfterRemoveFinalizer(api[r])) /\ Return("none")
    BY <1>2, <1>5 DEF RemoveFinalizer
  <2>2. ASSUME ~ Pending(r) PROVE ~ Needs(r)'
    <3>1. w.obj = api[r] /\ w.del = w.obj.deleting
      BY <1>1, <1>2, <2>2 DEF WorkInv, HoldsLatest
    <3>2. AfterRemoveFinalizer(api[r]) = None
      BY <1>1, <3>1 DEF AfterRemoveFinalizer
    <3>3. api'[r] = None
      BY <2>1, <3>2 DEF ApiWrite, TypeInv, TypeOK
    <3> QED
      BY <3>3 DEF Needs
  <2> QED
    BY <1>1, <1>2, <1>3, <2>1, <2>2, ReturnStep
<1> QED
  BY <1>4, <1>5

(****************************************************************************)
(* The status patch settles its policy if the worker's copy was the stored  *)
(* one: what is merged is then the status that was wanted, and it is about  *)
(* the stored generation.                                                   *)
(****************************************************************************)
LEMMA PatchSettles ==
    ASSUME TypeInv, w.pc = "status", NEW r \in Policies, w.req = r, api[r] # None,
           w.obj = api[r], w.del = w.obj.deleting, PatchStatus
    PROVE  ~ Needs(r)'
<1>1. w.obj \in PolicyObjects /\ w.obj.fin /\ ~ w.obj.deleting /\ w.obj.status \in Statuses
  BY BusyFacts, ObjectFacts DEF TypeInv, Fits
<1>2. PICK t \in Statuses : /\ t = MergePatch(api[r].status, w.obj.status, Desired)
                           /\ ApiWrite(r, [api[r] EXCEPT !.status = t])
  BY StatusWrite
<1>3. /\ Desired \in Statuses /\ Desired.cond \in Conditions
      /\ Desired.cond.gen = w.obj.gen
  BY DesiredFacts
<1>4. t = Desired
  BY <1>1, <1>2, <1>3, MergeFacts
<1> DEFINE o == [api[r] EXCEPT !.status = t]
<1>5. o.fin = api[r].fin /\ o.deleting = api[r].deleting /\ o.gen = api[r].gen /\ o.status = t
  BY <1>1 DEF PolicyObjects
<1>6. ApiWrite(r, o)
  BY <1>2
<1> HIDE DEF o
<1>7. api'[r] = o
  BY <1>6 DEF ApiWrite, TypeInv, TypeOK
<1>8. Desired.cond # None
  BY <1>3, NoneAssumption
<1> QED
  BY <1>1, <1>3, <1>4, <1>5, <1>7, <1>8 DEF Needs

(* The status patch loses no work. *)
LEMMA SetConditionWork == ASSUME TypeInv, WorkInv, setValidatedCondition PROVE WorkInv' /\ Kept
<1>1. w.pc = "status" /\ cache' = cache
  BY DEF setValidatedCondition, environmentVars, seenVars
<1>2. PICK r \in Policies : r = w.req
  BY <1>1, BusyFacts
<1>3. Watched
  BY <1>1, PatchWatched DEF setValidatedCondition
<1>4. CASE api[r] = None
  <2>1. ReturnError
    BY <1>2, <1>4 DEF setValidatedCondition
  <2> QED
    BY <1>1, <1>3, <2>1, ErrorStep
<1>5. CASE api[r] # None
  <2>1. PatchStatus /\ Return(w.result)
    BY <1>2, <1>5 DEF setValidatedCondition
  <2>2. Pending(r) \/ ~ Needs(r)'
    BY <1>1, <1>2, <1>5, <2>1, PatchSettles DEF WorkInv, HoldsLatest
  <2>3. PICK how : how = w.result
    OBVIOUS
  <2>4. Return(how)
    BY <2>1, <2>3
  <2> QED
    BY <1>1, <1>2, <1>3, <2>2, <2>4, ReturnStep
<1> QED
  BY <1>4, <1>5

(* Calls that fail, before or after they were carried out, lose no work. *)
LEMMA CallFailsWork == ASSUME TypeInv, WorkInv, CallFails PROVE WorkInv' /\ Kept
<1>1. w.pc # "idle" /\ cache' = cache
  BY CallFailsStep DEF CallFails, environmentVars, seenVars
<1>2. CASE w.pc \in {"addFinalizer", "removeFinalizer", "status"}
  <2>1. ReturnError
    BY <1>2 DEF CallFails
  <2>2. Watched
    BY <1>1, <1>2, PatchWatched DEF CallFails
  <2> QED
    BY <1>1, <2>1, <2>2, ErrorStep
<1>3. CASE w.pc \notin {"addFinalizer", "removeFinalizer", "status"}
  <2>1. UNCHANGED apiVars
    BY <1>3 DEF CallFails
  <2> QED
    BY <1>1, <2>1, CallFailsStep, UnwrittenStep DEF apiVars
<1> QED
  BY <1>2, <1>3

(* The worker's steps lose no work. *)
LEMMA WorkerWork == ASSUME TypeInv, WorkInv, Worker PROVE WorkInv' /\ Kept
<1> USE DEF apiVars, environmentVars, seenVars
<1>1. ASSUME w.pc # "idle", UNCHANGED <<api, watch, cache>>,
             GoesOnOrFails \/ (GoesOnAs(w, w') /\ queue' = queue)
      PROVE  WorkInv' /\ Kept
  BY <1>1, UnwrittenStep DEF GoesOnOrFails
<1>2. CASE GetUpstreamPool \/ GetCacheProfile \/ ReferenceUnreadable
  BY <1>1, <1>2, ReferenceSteps DEF GetUpstreamPool, GetCacheProfile, ReferenceUnreadable
<1>3. CASE ListNamespaces
  BY <1>1, <1>3, ListStep DEF ListNamespaces
<1>4. CASE RemoveAnnotations
  BY <1>1, <1>4, RemoveStep DEF RemoveAnnotations
<1>5. CASE GetNamespace
  BY <1>1, <1>5, GetNamespaceStep DEF GetNamespace
<1>6. CASE AnnotateNamespace
  BY <1>1, <1>6, AnnotateStep DEF AnnotateNamespace
<1>7. CASE NamespaceUnreadable
  BY <1>1, <1>7, UnreadableStep DEF NamespaceUnreadable
<1> QED
  BY <1>2, <1>3, <1>4, <1>5, <1>6, <1>7, AddFinalizerWork, RemoveFinalizerWork,
     SetConditionWork, CallFailsWork DEF Worker

-----------------------------------------------------------------------------
(* The inductive invariant holds throughout. *)
LEMMA WorkInvAlways == Spec => []WorkInv
<1>1. Init => WorkInv
  <2> SUFFICES ASSUME Init PROVE WorkInv
    OBVIOUS
  <2>1. /\ cache = api /\ watch = <<>> /\ w = Idle
        /\ \A p \in Policies : api[p] = None
    BY DEF Init
  <2>2. Synced /\ WorkCovered /\ DeletingHasFinalizer
    BY <2>1 DEF Synced, WorkCovered, Needs, DeletingHasFinalizer
  <2>3. HoldsLatest
    BY <2>1 DEF HoldsLatest, Idle
  <2> QED
    BY <2>2, <2>3 DEF WorkInv
<1>2. ASSUME TypeInv, WorkInv, [Next]_vars
      PROVE  WorkInv'
  <2>1. CASE UNCHANGED vars
    <3>1. UNCHANGED <<api, watch, cache, queue, w>>
      BY <2>1 DEF vars, apiVars, seenVars
    <3>2. Watched
      BY <1>2, <3>1, UnwrittenWatched DEF WorkInv
    <3>3. Kept
      BY <3>1, <3>2, WatchedKept
    <3> QED
      BY <1>2, <3>1, <3>2, <3>3, CarriesOn DEF Watched
  <2> QED
    BY <1>2, <2>1, UsersWork, SystemWork, RestartWork, StartWork, WorkerWork DEF Next
<1> QED
  BY <1>1, <1>2, TypeInvAlways, PTL DEF Spec

(****************************************************************************)
(* No work is lost: whatever the lag of the informers, the order of merge   *)
(* patches from stale copies, lost answers, failing calls and restarts, a   *)
(* policy that has no finalizer, waits for its deletion, or whose status is *)
(* about another generation has an event, a request, a retry or a running   *)
(* reconcile left.                                                          *)
(****************************************************************************)
THEOREM PolicyWorkIsNotLost == Spec => []NoLostWork
<1>1. TypeInv /\ WorkInv => NoLostWork
  <2> SUFFICES ASSUME TypeInv, WorkInv, NEW p \in Policies, Needs(p)
               PROVE  \/ \E i \in DOMAIN watch : watch[i].policy = p
                      \/ queue[p] # "none"
                      \/ w.req = p
    BY DEF NoLostWork, Needs
  <2>1. DOMAIN watch = 1 .. Len(watch)
    BY DEF TypeInv, TypeOK
  <2> QED
    BY <2>1 DEF WorkInv, WorkCovered, Pending, EventPending, Reconciling
<1> QED
  BY <1>1, TypeInvAlways, WorkInvAlways, PTL
=============================================================================
