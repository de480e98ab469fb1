------------------------- MODULE CacheProfileProofs -------------------------
(****************************************************************************)
(* Proofs about CacheProfileController, for all specs and bounds.  The      *)
(* inductive invariant says that the cache and the events on their way add  *)
(* up to what is stored, and that with nothing on its way and nothing in    *)
(* the queue the worker's copy is the stored profile, or, the worker being  *)
(* idle, the stored condition is the one that its spec deserves.            *)
(****************************************************************************)
EXTENDS CacheProfileController, EngineConfigProofs, SequenceTheorems

(* The condition that a profile deserves. *)
DesiredOf(o) == [active |-> validateDNSCacheProfile(o.spec), gen |-> o.gen]

(* Something is left that will make the worker look at the profile again. *)
Pending == watch # <<>> \/ queue # "none"

(* The last event on its way, or the cache if there is none, has what is stored. *)
Synced == IF watch = <<>> THEN cache = profile ELSE watch[Len(watch)] = profile

(* The inductive invariant behind SettledActiveIsTrue. *)
ActiveInv ==
    /\ Synced
    /\ ~ Pending /\ w # None => w = profile
    /\ ~ Pending /\ w = None /\ profile # None => profile.cond = DesiredOf(profile)

-----------------------------------------------------------------------------
(* The fields of a stored profile, and profiles made of it. *)
LEMMA ObjectFacts ==
    ASSUME NEW o \in Objects
    PROVE  /\ o.life \in Nat /\ o.gen \in Nat /\ o.spec \in ProfileSpecs
           /\ o.cond \in Conditions \cup {None}
           /\ DesiredOf(o) \in Conditions
           /\ \A s \in ProfileSpecs : [o EXCEPT !.spec = s, !.gen = @ + 1] \in Objects
           /\ \A c \in Conditions : [o EXCEPT !.cond = c] \in Objects
<1>1. /\ o.life \in Nat /\ o.gen \in Nat /\ o.spec \in ProfileSpecs
      /\ o.cond \in Conditions \cup {None}
  BY DEF Objects
<1>2. validateDNSCacheProfile(o.spec) \in BOOLEAN
  BY DEF validateDNSCacheProfile
<1>3. DesiredOf(o) \in Conditions
  BY <1>1, <1>2 DEF DesiredOf, Conditions
<1>4. ASSUME NEW s \in ProfileSpecs
      PROVE  [o EXCEPT !.spec = s, !.gen = @ + 1] \in Objects
  <2>1. o.gen + 1 \in Nat
    BY <1>1
  <2>2. [o EXCEPT !.spec = s, !.gen = o.gen + 1] \in Objects
    BY <1>1, <2>1 DEF Objects
  <2>3. [o EXCEPT !.spec = s, !.gen = @ + 1] = [o EXCEPT !.spec = s, !.gen = o.gen + 1]
    OBVIOUS
  <2> QED
    BY <2>2, <2>3
<1>5. \A c \in Conditions : [o EXCEPT !.cond = c] \in Objects
  BY DEF Objects
<1> QED
  BY <1>1, <1>3, <1>4, <1>5

(* A write keeps the types and Synced, and what it changes has an event on its way. *)
LEMMA WriteFacts ==
    ASSUME TypeOK, NEW o \in Objects \cup {None}, ApiWrite(o), cache' = cache
    PROVE  /\ profile' \in Objects \cup {None}
           /\ watch' \in Seq(Objects \cup {None})
           /\ Synced => Synced'
           /\ profile' # profile => watch' # <<>>
           /\ watch # <<>> => watch' # <<>>
<1>1. watch \in Seq(Objects \cup {None}) /\ profile' = o
  BY DEF TypeOK, ApiWrite
<1>2. CASE o = profile
  BY <1>1, <1>2 DEF ApiWrite, Synced
<1>3. CASE o # profile
  <2>1. watch' = Append(watch, o)
    BY <1>3 DEF ApiWrite
  <2>2. /\ watch' \in Seq(Objects \cup {None})
        /\ Len(watch') = Len(watch) + 1
        /\ watch'[Len(watch')] = o
        /\ watch' # <<>>
    BY <1>1, <2>1
  <2> QED
    BY <1>1, <2>2 DEF Synced
<1> QED
  BY <1>2, <1>3

(* The patch writes an object. *)
LEMMA PatchFacts ==
    ASSUME TypeOK, w # None, profile # None
    PROVE  /\ Desired = DesiredOf(w)
           /\ (IF Desired = w.cond THEN profile ELSE [profile EXCEPT !.cond = Desired]) \in Objects
<1>1. w \in Objects /\ profile \in Objects
  BY DEF TypeOK
<1>2. Desired = DesiredOf(w)
  BY DEF Desired, DesiredOf
<1> QED
  BY <1>1, <1>2, ObjectFacts

-----------------------------------------------------------------------------
(* Every step keeps the types. *)
LEMMA TypeStep == TypeOK /\ [Next]_vars => TypeOK'
<1> SUFFICES ASSUME TypeOK, [Next]_vars PROVE TypeOK'
  OBVIOUS
<1> USE ProfileAssumption
<1>1. ASSUME NEW s \in ProfileSpecs, CreateProfile(s) PROVE TypeOK'
  <2> DEFINE o == [life |-> lives + 1, gen |-> 1, spec |-> s, cond |-> None]
  <2>1. o \in Objects
    BY DEF TypeOK, Objects
  <2>2. ApiWrite(o) /\ cache' = cache
    BY <1>1 DEF CreateProfile, UserOperation
  <2>3. profile' \in Objects \cup {None} /\ watch' \in Seq(Objects \cup {None})
    BY <2>1, <2>2, WriteFacts
  <2>4. lives' \in 0 .. MaxLives /\ ops' \in 0 .. MaxOps
    BY <1>1 DEF CreateProfile, UserOperation, TypeOK
  <2> QED
    BY <1>1, <2>3, <2>4 DEF CreateProfile, UserOperation, TypeOK
<1>2. ASSUME NEW s \in ProfileSpecs, EditProfile(s) PROVE TypeOK'
  <2> DEFINE o == [profile EXCEPT !.spec = s, !.gen = @ + 1]
  <2>1. profile \in Objects
    BY <1>2 DEF EditProfile, TypeOK
  <2>2. o \in Objects
    BY <2>1, ObjectFacts
  <2>3. ApiWrite(o) /\ cache' = cache
    BY <1>2 DEF EditProfile, UserOperation
  <2>4. profile' \in Objects \cup {None} /\ watch' \in Seq(Objects \cup {None})
    BY <2>2, <2>3, WriteFacts
  <2>5. lives' = lives /\ ops' \in 0 .. MaxOps
    BY <1>2 DEF EditProfile, UserOperation, TypeOK
  <2> QED
    BY <1>2, <2>4, <2>5 DEF EditProfile, UserOperation, TypeOK
<1>3. ASSUME DeleteProfile PROVE TypeOK'
  <2>1. profile' \in Objects \cup {None} /\ watch' \in Seq(Objects \cup {None})
    BY <1>3, WriteFacts DEF DeleteProfile, UserOperation
  <2>2. lives' = lives /\ ops' \in 0 .. MaxOps
    BY <1>3 DEF DeleteProfile, UserOperation, TypeOK
  <2> QED
    BY <1>3, <2>1, <2>2 DEF DeleteProfile, UserOperation, TypeOK
<1>4. ASSUME Deliver PROVE TypeOK'
  BY <1>4 DEF Deliver, TypeOK, boundVars
<1>5. ASSUME DelayOver PROVE TypeOK'
  BY <1>5 DEF DelayOver, TypeOK, boundVars
<1>6. ASSUME Restart PROVE TypeOK'
  BY <1>6 DEF Restart, TypeOK
<1>7. ASSUME Reconcile PROVE TypeOK'
  BY <1>7 DEF Reconcile, TakeKey, TypeOK, boundVars
<1>8. ASSUME GetFails PROVE TypeOK'
  BY <1>8 DEF GetFails, TakeKey, TypeOK, boundVars
<1>9. ASSUME setActiveCondition PROVE TypeOK'
  <2>1. profile' \in Objects \cup {None} /\ watch' \in Seq(Objects \cup {None})
    <3>1. CASE profile # None /\ PatchStatus
      BY <1>9, <3>1, PatchFacts, WriteFacts DEF setActiveCondition, PatchStatus
    <3>2. CASE UNCHANGED <<profile, watch>>
      BY <3>2 DEF TypeOK
    <3> QED
      BY <1>9, <3>1, <3>2 DEF setActiveCondition
  <2>2. w' = None /\ queue' \in {"none", "backoff", "ready"}
    BY <1>9 DEF setActiveCondition, ReturnError, TypeOK
  <2> QED
    BY <1>9, <2>1, <2>2 DEF setActiveCondition, TypeOK, boundVars
<1>10. ASSUME PatchFails PROVE TypeOK'
  <2>1. profile' \in Objects \cup {None} /\ watch' \in Seq(Objects \cup {None})
    <3>1. CASE profile # None /\ PatchStatus
      BY <1>10, <3>1, PatchFacts, WriteFacts DEF PatchFails, PatchStatus
    <3>2. CASE UNCHANGED <<profile, watch>>
      BY <3>2 DEF TypeOK
    <3> QED
      BY <1>10, <3>1, <3>2 DEF PatchFails
  <2>2. /\ w' = None /\ queue' \in {"none", "backoff", "ready"}
        /\ faults' \in 0 .. MaxFaults
    BY <1>10 DEF PatchFails, ReturnError, TypeOK
  <2> QED
    BY <1>10, <2>1, <2>2 DEF PatchFails, TypeOK, boundVars
<1>11. ASSUME UNCHANGED vars PROVE TypeOK'
  BY <1>11 DEF vars, boundVars, TypeOK
<1> QED
  BY <1>1, <1>2, <1>3, <1>4, <1>5, <1>6, <1>7, <1>8, <1>9, <1>10, <1>11 DEF Next

(****************************************************************************)
(* The types hold throughout: in particular a failing reconcile leaves its  *)
(* key nowhere but in the queue, whatever happens to the profile meanwhile. *)
(****************************************************************************)
THEOREM ProfileTypeCorrect == Spec => []TypeOK
<1>1. Init => TypeOK
  BY ProfileAssumption DEF Init, TypeOK
<1> QED
  BY <1>1, TypeStep, PTL DEF Spec

-----------------------------------------------------------------------------
(* Every step keeps ActiveInv. *)

(* After a step that leaves something pending only Synced is left to show. *)
LEMMA PendingStep == ASSUME Synced', Pending' PROVE ActiveInv'
BY DEF ActiveInv

LEMMA ActiveStep == TypeOK /\ ActiveInv /\ [Next]_vars => ActiveInv'
<1> SUFFICES ASSUME TypeOK, ActiveInv, [Next]_vars PROVE ActiveInv'
  OBVIOUS
<1>0. Synced
  BY DEF ActiveInv
<1>1. ASSUME NEW o \in Objects \cup {None}, ApiWrite(o), cache' = cache, queue' = queue, w' = w
      PROVE  ActiveInv'
  <2>1. Synced' /\ (profile' # profile => watch' # <<>>) /\ (watch # <<>> => watch' # <<>>)
    BY <1>0, <1>1, WriteFacts
  <2>2. CASE Pending'
    BY <2>1, <2>2, PendingStep
  <2>3. CASE ~ Pending'
    BY <1>1, <2>1, <2>3 DEF ActiveInv, Pending, DesiredOf
  <2> QED
    BY <2>2, <2>3
<1>2. ASSUME NEW s \in ProfileSpecs, CreateProfile(s) PROVE ActiveInv'
  <2> DEFINE o == [life |-> lives + 1, gen |-> 1, spec |-> s, cond |-> None]
  <2>1. o \in Objects
    BY ProfileAssumption DEF TypeOK, Objects
  <2>2. ApiWrite(o) /\ cache' = cache /\ queue' = queue /\ w' = w
    BY <1>2 DEF CreateProfile, UserOperation
  <2> QED
    BY <1>1, <2>1, <2>2
<1>3. ASSUME NEW s \in ProfileSpecs, EditProfile(s) PROVE ActiveInv'
  <2> DEFINE o == [profile EXCEPT !.spec = s, !.gen = @ + 1]
  <2>1. o \in Objects
    BY <1>3, ObjectFacts DEF EditProfile, TypeOK
  <2>2. ApiWrite(o) /\ cache' = cache /\ queue' = queue /\ w' = w
    BY <1>3 DEF EditProfile, UserOperation
  <2> QED
    BY <1>1, <2>1, <2>2
<1>4. ASSUME DeleteProfile PROVE ActiveInv'
  <2>1. ApiWrite(None) /\ cache' = cache /\ queue' = queue /\ w' = w
    BY <1>4 DEF DeleteProfile, UserOperation
  <2> QED
    BY <1>1, <2>1
<1>5. ASSUME Deliver PROVE ActiveInv'
  <2>1. /\ watch \in Seq(Objects \cup {None}) /\ watch # <<>>
        /\ watch' = Tail(watch) /\ cache' = Head(watch)
        /\ profile' = profile /\ queue' = "ready"
    BY <1>5 DEF Deliver, TypeOK
  <2>2. watch[Len(watch)] = profile
    BY <1>0, <2>1 DEF Synced
  <2>3. CASE Len(watch) = 1
    BY <2>1, <2>2, <2>3, PendingStep DEF Synced, Pending
  <2>4. CASE Len(watch) # 1
    <3>1. Len(watch) \in Nat /\ Len(watch) >= 2 /\ Len(watch') = Len(watch) - 1
      <4>1. Len(watch) \in Nat \ {0}
        BY <2>1, EmptySeq
      <4>2. Len(watch') = Len(watch) - 1
        BY <2>1, HeadTailProperties
      <4> QED
        BY <2>4, <4>1, <4>2
    <3>2. \A i \in 1 .. Len(watch) - 1 : watch'[i] = watch[i + 1]
      BY <2>1, <3>1, HeadTailProperties
    <3>3. watch' # <<>>
      BY <3>1
    <3>4. watch'[Len(watch')] = watch[Len(watch)]
      BY <3>1, <3>2
    <3> QED
      BY <2>1, <2>2, <3>3, <3>4, PendingStep DEF Synced, Pending
  <2> QED
    BY <2>3, <2>4
<1>6. ASSUME DelayOver PROVE ActiveInv'
  BY <1>0, <1>6, PendingStep DEF DelayOver, Synced, Pending
<1>7. ASSUME Restart PROVE ActiveInv'
  BY <1>7 DEF Restart, ActiveInv, Synced, Pending
<1>8. ASSUME Reconcile PROVE ActiveInv'
  BY <1>0, <1>8 DEF Reconcile, TakeKey, ActiveInv, Synced, Pending
<1>9. ASSUME GetFails PROVE ActiveInv'
  BY <1>0, <1>9, PendingStep DEF GetFails, TakeKey, Synced, Pending
<1>10. ASSUME w # None, ReturnError, cache' = cache,
              UNCHANGED <<profile, watch>> \/ (profile # None /\ PatchStatus)
       PROVE  ActiveInv'
  <2>1. Synced'
    <3>1. CASE UNCHANGED <<profile, watch>>
      BY <1>0, <1>10, <3>1 DEF Synced
    <3>2. CASE profile # None /\ PatchStatus
      BY <1>0, <1>10, <3>2, PatchFacts, WriteFacts DEF PatchStatus
    <3> QED
      BY <1>10, <3>1, <3>2
  <2> QED
    BY <1>10, <2>1, PendingStep DEF ReturnError, Pending
<1>11. ASSUME setActiveCondition PROVE ActiveInv'
  <2>1. CASE profile = None
    BY <1>10, <1>11, <2>1 DEF setActiveCondition
  <2>2. CASE profile # None
    <3> DEFINE o == IF Desired = w.cond THEN profile ELSE [profile EXCEPT !.cond = Desired]
    <3>1. /\ w # None /\ w' = None /\ queue' = queue /\ cache' = cache
          /\ ApiWrite(o)
      BY <1>11, <2>2 DEF setActiveCondition, PatchStatus
    <3>2. o \in Objects /\ Desired = DesiredOf(w)
      BY <2>2, <3>1, PatchFacts
    <3>3. Synced' /\ (profile' # profile => watch' # <<>>) /\ (watch # <<>> => watch' # <<>>)
      BY <1>0, <3>1, <3>2, WriteFacts
    <3>4. CASE Pending'
      BY <3>3, <3>4, PendingStep
    <3>5. CASE ~ Pending'
      <4>1. ~ Pending /\ profile' = profile
        BY <3>1, <3>3, <3>5 DEF Pending
      <4>2. w = profile
        BY <3>1, <4>1 DEF ActiveInv
      <4>3. profile \in Objects /\ o = profile
        BY <2>2, <3>1, <4>1 DEF ApiWrite, TypeOK
      <4>4. profile.cond = Desired
        <5>1. CASE Desired = w.cond
          BY <4>2, <5>1
        <5>2. CASE Desired # w.cond
          <6>1. [profile EXCEPT !.cond = Desired].cond = Desired
            BY <4>3 DEF Objects
          <6> QED
            BY <4>3, <5>2, <6>1
        <5> QED
          BY <5>1, <5>2
      <4>5. profile'.cond = DesiredOf(profile')
        BY <3>2, <4>1, <4>2, <4>4
      <4> QED
        BY <3>1, <3>3, <4>5 DEF ActiveInv, DesiredOf
    <3> QED
      BY <3>4, <3>5
  <2> QED
    BY <2>1, <2>2
<1>12. ASSUME PatchFails PROVE ActiveInv'
  BY <1>10, <1>12 DEF PatchFails
<1>13. ASSUME UNCHANGED vars PROVE ActiveInv'
  BY <1>13 DEF vars, boundVars, ActiveInv, Synced, Pending, DesiredOf
<1> QED
  BY <1>2, <1>3, <1>4, <1>5, <1>6, <1>7, <1>8, <1>9, <1>11, <1>12, <1>13 DEF Next

(* validateDNSCacheProfile with its own defaults, and the TTLs that Generate arrives at. *)
LEMMA DefaultsAgree ==
    ASSUME NEW s \in ProfileSpecs
    PROVE  validateDNSCacheProfile(s) <=>
               /\ \A v \in Amounts(s) : v >= 0
               /\ CacheConfig(s).ttlMin <= CacheConfig(s).ttlMax
<1>1. s.ttlMin \in Int /\ s.ttlMax \in Int
  BY SpecAssumption
<1>2. s # None
  BY SpecAssumption
<1>3. /\ CacheConfig(s).ttlMin = IF s.ttlMin > 0 THEN s.ttlMin ELSE 60
      /\ CacheConfig(s).ttlMax = IF s.ttlMax > 0 THEN s.ttlMax ELSE 300
  BY <1>2 DEF CacheConfig, OrDefault
<1>4. (\A v \in Amounts(s) : v >= 0) => s.ttlMin >= 0 /\ s.ttlMax >= 0
  BY DEF Amounts
<1> QED
  BY <1>1, <1>3, <1>4 DEF validateDNSCacheProfile

(****************************************************************************)
(* When the operator rests, the Active condition is about the present       *)
(* generation and is True if and only if the generator's settings of the    *)
(* profile are in order, whatever was edited, deleted, delayed or lost.     *)
(****************************************************************************)
THEOREM ActiveConditionIsTrue == Spec => []SettledActiveIsTrue
<1>1. Init => TypeOK /\ ActiveInv
  BY ProfileAssumption DEF Init, TypeOK, ActiveInv, Synced, Pending
<1>2. TypeOK /\ ActiveInv /\ [Next]_vars => (TypeOK /\ ActiveInv)'
  BY TypeStep, ActiveStep
<1>3. TypeOK /\ ActiveInv => SettledActiveIsTrue
  <2> SUFFICES ASSUME TypeOK, ActiveInv, Settled, profile # None
               PROVE  LET c == CacheConfig(profile.spec)
                      IN  /\ profile.cond # None
                          /\ profile.cond.gen = profile.gen
                          /\ profile.cond.active <=>
                                /\ \A v \in Amounts(profile.spec) : v >= 0
                                /\ c.ttlMin <= c.ttlMax
    BY DEF SettledActiveIsTrue
  <2>1. profile \in Objects /\ profile.spec \in ProfileSpecs
    BY ObjectFacts DEF TypeOK
  <2>2. profile.cond = DesiredOf(profile)
    BY DEF ActiveInv, Settled, Pending
  <2>3. profile.cond # None
    BY <2>1, <2>2, ObjectFacts, ConditionAssumption
  <2>4. profile.cond.gen = profile.gen /\ profile.cond.active = validateDNSCacheProfile(profile.spec)
    BY <2>2 DEF DesiredOf
  <2> QED
    BY <2>1, <2>3, <2>4, DefaultsAgree
<1> QED
  BY <1>1, <1>2, <1>3, PTL DEF Spec

-----------------------------------------------------------------------------
(* The pool beside the profile. *)

(****************************************************************************)
(* Whatever validateDNSUpstreamPool accepts generates well, whatever        *)
(* profile is stored.                                                       *)
(****************************************************************************)
THEOREM ValidPoolsGenerate == Spec => []ValidPoolGenerates
<1>1. TypeOK => ValidPoolGenerates
  BY SpecAssumption, ValidGeneratesWell DEF TypeOK, ValidPoolGenerates
<1> QED
  BY <1>1, ProfileTypeCorrect, PTL

(****************************************************************************)
(* The generated upstreams of a valid pool are in their order.              *)
(****************************************************************************)
THEOREM ValidPoolsAreInOrder == Spec => []ValidPoolInOrder
<1>1. TypeOK => ValidPoolInOrder
  BY SpecAssumption, ValidInOrder DEF TypeOK, ValidPoolInOrder
<1> QED
  BY <1>1, ProfileTypeCorrect, PTL
=============================================================================
