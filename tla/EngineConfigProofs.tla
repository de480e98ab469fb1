------------------------- MODULE EngineConfigProofs -------------------------
(****************************************************************************)
(* Proofs about EngineConfig, for specs of any length and whatever the      *)
(* string functions do beyond StringAssumption: the rank of an upstream is  *)
(* a bijection on the places of the configuration, so each upstream comes   *)
(* out once and in order; the endpoint of a generated upstream is the key   *)
(* that validation compared; and the renderers find nothing left to fill    *)
(* in.                                                                      *)
(****************************************************************************)
EXTENDS EngineConfig, FiniteSetTheorems, TLAPS

-----------------------------------------------------------------------------
(* The stable order, and the places it gives. *)

(* Earlier is a strict total order on the positions of the spec. *)
LEMMA EarlierIsOrder ==
    ASSUME NEW us \in Seq(UpstreamSpecs),
           NEW i \in DOMAIN us, NEW j \in DOMAIN us, NEW k \in DOMAIN us
    PROVE  /\ ~ Earlier(us, i, i)
           /\ i # j => Earlier(us, i, j) \/ Earlier(us, j, i)
           /\ Earlier(us, i, j) /\ Earlier(us, j, k) => Earlier(us, i, k)
<1>1. \A n \in DOMAIN us : us[n] \in UpstreamSpecs /\ n \in Int
  OBVIOUS
<1>2. \A n \in DOMAIN us : us[n].weight \in Int /\ us[n].preference \in Int
  BY <1>1 DEF UpstreamSpecs
<1>3. \A n \in DOMAIN us :
         /\ normalizeUpstreamWeight(us[n].weight) \in Int
         /\ normalizeUpstreamPreference(us[n].preference) \in Int
  BY <1>2 DEF normalizeUpstreamWeight, normalizeUpstreamPreference
<1> QED
  BY <1>1, <1>3 DEF Earlier, Precedes

(* The positions of the spec are as many as its length. *)
LEMMA PositionFacts ==
    ASSUME NEW us \in Seq(UpstreamSpecs)
    PROVE  /\ DOMAIN us = 1 .. Len(us)
           /\ Len(us) \in Nat
           /\ IsFiniteSet(DOMAIN us)
           /\ Cardinality(DOMAIN us) = Len(us)
<1>1. DOMAIN us = 1 .. Len(us) /\ Len(us) \in Nat
  OBVIOUS
<1>2. IsFiniteSet(1 .. Len(us)) /\ Cardinality(1 .. Len(us)) = Len(us)
  BY <1>1, FS_Interval
<1> QED
  BY <1>1, <1>2

(* What comes earlier has the lower rank. *)
LEMMA RankGrows ==
    ASSUME NEW us \in Seq(UpstreamSpecs), NEW i \in DOMAIN us, NEW j \in DOMAIN us,
           Earlier(us, i, j)
    PROVE  Rank(us, i) < Rank(us, j)
<1> DEFINE Before(n) == { m \in DOMAIN us : Earlier(us, m, n) }
<1>1. IsFiniteSet(DOMAIN us)
  BY PositionFacts
<1>2. Before(i) \in SUBSET Before(j)
  BY EarlierIsOrder
<1>3. i \in Before(j) /\ i \notin Before(i)
  BY EarlierIsOrder
<1>4. IsFiniteSet(Before(i)) /\ IsFiniteSet(Before(j))
  BY <1>1, FS_Subset
<1>5. /\ Cardinality(Before(i)) <= Cardinality(Before(j))
      /\ Cardinality(Before(j)) # Cardinality(Before(i))
  BY <1>2, <1>3, <1>4, FS_Subset
<1>6. Cardinality(Before(i)) \in Nat /\ Cardinality(Before(j)) \in Nat
  BY <1>4, FS_CardinalityType
<1>7. Rank(us, i) = Cardinality(Before(i)) + 1 /\ Rank(us, j) = Cardinality(Before(j)) + 1
  BY DEF Rank
<1> HIDE DEF Before
<1> QED
  BY <1>5, <1>6, <1>7

(* A rank is a place. *)
LEMMA RankIsPlace ==
    ASSUME NEW us \in Seq(UpstreamSpecs), NEW i \in DOMAIN us
    PROVE  Rank(us, i) \in DOMAIN us
<1> DEFINE B == { m \in DOMAIN us : Earlier(us, m, i) }
<1>1. IsFiniteSet(DOMAIN us) /\ Cardinality(DOMAIN us) = Len(us)
  BY PositionFacts
<1>2. B \in SUBSET (DOMAIN us \ {i})
  BY EarlierIsOrder
<1>3. IsFiniteSet(DOMAIN us \ {i}) /\ Cardinality(DOMAIN us \ {i}) = Len(us) - 1
  BY <1>1, FS_RemoveElement
<1>4. IsFiniteSet(B) /\ Cardinality(B) <= Len(us) - 1
  BY <1>2, <1>3, FS_Subset
<1>5. Cardinality(B) \in Nat
  BY <1>4, FS_CardinalityType
<1>6. Rank(us, i) = Cardinality(B) + 1
  BY DEF Rank
<1> HIDE DEF B
<1> QED
  BY <1>4, <1>5, <1>6, PositionFacts

(* No two positions have the same rank. *)
LEMMA RankIsInjective ==
    ASSUME NEW us \in Seq(UpstreamSpecs), NEW i \in DOMAIN us, NEW j \in DOMAIN us
    PROVE  Rank(us, i) = Rank(us, j) => i = j
<1>1. Rank(us, i) \in Int /\ Rank(us, j) \in Int
  BY RankIsPlace, PositionFacts
<1>2. Earlier(us, i, j) => Rank(us, i) < Rank(us, j)
  BY RankGrows
<1>3. Earlier(us, j, i) => Rank(us, j) < Rank(us, i)
  BY RankGrows
<1> QED
  BY <1>1, <1>2, <1>3, EarlierIsOrder

(* Each place is the rank of a position. *)
LEMMA RankIsSurjective ==
    ASSUME NEW us \in Seq(UpstreamSpecs), NEW k \in DOMAIN us
    PROVE  \E i \in DOMAIN us : Rank(us, i) = k
<1> DEFINE f == [i \in DOMAIN us |-> Rank(us, i)]
<1>1. f \in Injection(DOMAIN us, DOMAIN us)
  BY RankIsPlace, RankIsInjective DEF Injection, IsInjective
<1>2. IsFiniteSet(DOMAIN us)
  BY PositionFacts
<1>3. f \in Surjection(DOMAIN us, DOMAIN us)
  BY <1>1, <1>2, FS_Injection
<1> QED
  BY <1>3 DEF Surjection

(* The sorted upstreams have at rank i what the spec has at i, and nothing else. *)
LEMMA SortedAtRank ==
    ASSUME NEW us \in Seq(UpstreamSpecs)
    PROVE  /\ DOMAIN SliceStable(us) = DOMAIN us
           /\ \A i \in DOMAIN us : SliceStable(us)[Rank(us, i)] = us[i]
<1>1. DOMAIN SliceStable(us) = DOMAIN us
  BY DEF SliceStable
<1>2. ASSUME NEW i \in DOMAIN us
      PROVE  SliceStable(us)[Rank(us, i)] = us[i]
  <2> DEFINE c == CHOOSE n \in DOMAIN us : Rank(us, n) = Rank(us, i)
  <2>1. c \in DOMAIN us /\ Rank(us, c) = Rank(us, i)
    OBVIOUS
  <2>2. c = i
    BY <2>1, RankIsInjective
  <2>3. SliceStable(us)[Rank(us, i)] = us[c]
    BY RankIsPlace DEF SliceStable
  <2> QED
    BY <2>2, <2>3
<1> QED
  BY <1>1, <1>2

-----------------------------------------------------------------------------
(* What Generate makes of the upstreams. *)

(* The configuration has at rank i what Generate makes of upstream i. *)
LEMMA GeneratedAtRank ==
    ASSUME NEW pool, IsPoolSpec(pool), NEW profile
    PROVE  LET us == pool.upstreams
               cs == Generate(pool, profile).upstreams
           IN  /\ DOMAIN cs = DOMAIN us
               /\ \A i \in DOMAIN us : cs[Rank(us, i)] = UpstreamConfig(us[i])
               /\ \A k \in DOMAIN cs : \E i \in DOMAIN us :
                     k = Rank(us, i) /\ cs[k] = UpstreamConfig(us[i])
<1> DEFINE us == pool.upstreams
           cs == Generate(pool, profile).upstreams
<1>1. us \in Seq(UpstreamSpecs)
  BY DEF IsPoolSpec
<1>2. cs = [k \in DOMAIN SliceStable(us) |-> UpstreamConfig(SliceStable(us)[k])]
  BY DEF Generate
<1> HIDE DEF us, cs
<1>3. DOMAIN cs = DOMAIN us
  BY <1>1, <1>2, SortedAtRank
<1>4. \A i \in DOMAIN us : cs[Rank(us, i)] = UpstreamConfig(us[i])
  BY <1>1, <1>2, <1>3, SortedAtRank, RankIsPlace
<1>5. \A k \in DOMAIN cs : \E i \in DOMAIN us : k = Rank(us, i) /\ cs[k] = UpstreamConfig(us[i])
  BY <1>1, <1>3, <1>4, RankIsSurjective
<1> QED
  BY <1>3, <1>4, <1>5 DEF us, cs

(* The fields of a generated upstream. *)
LEMMA ConfigFields ==
    ASSUME NEW u \in UpstreamSpecs
    PROVE  LET c == UpstreamConfig(u)
               t == normalizeUpstreamTransport(u.transport)
           IN  /\ c.address = TrimSpace(u.address)
               /\ c.transport = t
               /\ c.transport \in {"dns", "dot", "doh"}
               /\ c.port = IF u.port = 0 THEN defaultUpstreamPortForTransport(t) ELSE u.port
               /\ c.port # 0
               /\ c.port \in Int
               /\ c.weight \in Int /\ c.weight > 0
               /\ c.preference \in Int /\ c.preference > 0
<1>1. u.port \in Int /\ u.weight \in Int /\ u.preference \in Int
  BY DEF UpstreamSpecs
<1> QED
  BY <1>1 DEF UpstreamConfig, normalizeUpstreamTransport, defaultUpstreamPortForTransport,
     normalizeUpstreamWeight, normalizeUpstreamPreference

(* For a valid upstream the two readings of the transport, and of the port, agree. *)
LEMMA EndpointIsKey ==
    ASSUME NEW u \in UpstreamSpecs, validUpstream(u)
    PROVE  Endpoint(UpstreamConfig(u)) = upstreamKey(u)
<1>1. parseUpstreamTransport(u.transport) # "unknown"
  BY DEF validUpstream
<1>2. normalizeUpstreamTransport(u.transport) = parseUpstreamTransport(u.transport)
  BY <1>1 DEF normalizeUpstreamTransport, parseUpstreamTransport
<1>3. UpstreamConfig(u).port = upstreamPort(u)
  BY <1>2, ConfigFields DEF upstreamPort, portOfTransport, defaultUpstreamPortForTransport
<1> QED
  BY <1>2, <1>3, ConfigFields DEF Endpoint, upstreamKey

(* No two upstreams of a valid pool have the same endpoint. *)
LEMMA EndpointsDiffer ==
    ASSUME NEW pool, IsPoolSpec(pool), validateDNSUpstreamPool(pool)
    PROVE  \A i, j \in DOMAIN pool.upstreams :
               Endpoint(UpstreamConfig(pool.upstreams[i])) =
                   Endpoint(UpstreamConfig(pool.upstreams[j])) => i = j
<1> DEFINE us == pool.upstreams
<1>1. us \in Seq(UpstreamSpecs)
  BY DEF IsPoolSpec
<1>2. \A i \in DOMAIN us : us[i] \in UpstreamSpecs /\ validUpstream(us[i])
  BY <1>1 DEF validateDNSUpstreamPool
<1>3. \A i, j \in DOMAIN us : upstreamKey(us[i]) = upstreamKey(us[j]) => i = j
  BY DEF validateDNSUpstreamPool
<1>4. \A i \in DOMAIN us : Endpoint(UpstreamConfig(us[i])) = upstreamKey(us[i])
  BY <1>2, EndpointIsKey
<1> QED
  BY <1>3, <1>4

(* An upstream of a valid pool is found in the configuration at its rank. *)
LEMMA PlaceIsRank ==
    ASSUME NEW pool, IsPoolSpec(pool), validateDNSUpstreamPool(pool), NEW profile,
           NEW i \in DOMAIN pool.upstreams
    PROVE  Place(Generate(pool, profile), pool.upstreams[i]) = Rank(pool.upstreams, i)
<1> DEFINE us == pool.upstreams
           cs == Generate(pool, profile).upstreams
           p == Place(Generate(pool, profile), us[i])
<1>1. us \in Seq(UpstreamSpecs)
  BY DEF IsPoolSpec
<1>2. Rank(us, i) \in DOMAIN cs /\ cs[Rank(us, i)] = UpstreamConfig(us[i])
  BY <1>1, GeneratedAtRank, RankIsPlace
<1>3. p \in DOMAIN cs /\ Endpoint(cs[p]) = Endpoint(UpstreamConfig(us[i]))
  BY <1>2 DEF Place
<1>4. PICK j \in DOMAIN us : p = Rank(us, j) /\ cs[p] = UpstreamConfig(us[j])
  BY <1>3, GeneratedAtRank
<1>5. i = j
  BY <1>3, <1>4, EndpointsDiffer
<1> QED
  BY <1>4, <1>5

-----------------------------------------------------------------------------
(* The configuration of a valid pool. *)

(* As many endpoints as upstreams. *)
LEMMA EndpointsCount ==
    ASSUME NEW pool, IsPoolSpec(pool), validateDNSUpstreamPool(pool), NEW profile
    PROVE  LET cs == Generate(pool, profile).upstreams
           IN  Cardinality({ Endpoint(cs[k]) : k \in DOMAIN cs }) = Len(pool.upstreams)
<1> DEFINE us == pool.upstreams
           cs == Generate(pool, profile).upstreams
           E == { Endpoint(cs[k]) : k \in DOMAIN cs }
           f == [i \in DOMAIN us |-> Endpoint(UpstreamConfig(us[i]))]
<1>1. us \in Seq(UpstreamSpecs)
  BY DEF IsPoolSpec
<1>2. \A i \in DOMAIN us : Rank(us, i) \in DOMAIN cs /\ cs[Rank(us, i)] = UpstreamConfig(us[i])
  BY <1>1, GeneratedAtRank, RankIsPlace
<1>3. \A k \in DOMAIN cs : \E i \in DOMAIN us : cs[k] = UpstreamConfig(us[i])
  BY GeneratedAtRank
<1> HIDE DEF us, cs
<1>4. f \in [DOMAIN us -> E]
  BY <1>2
<1>5. \A e \in E : \E i \in DOMAIN us : f[i] = e
  BY <1>3
<1>6. \A i, j \in DOMAIN us : f[i] = f[j] => i = j
  BY EndpointsDiffer DEF us
<1> HIDE DEF f, E
<1>7. f \in Bijection(DOMAIN us, E)
  BY <1>4, <1>5, <1>6 DEF Bijection, Injection, Surjection, IsInjective
<1>8. IsFiniteSet(DOMAIN us) /\ Cardinality(DOMAIN us) = Len(us)
  BY <1>1, PositionFacts
<1>9. Cardinality(E) = Cardinality(DOMAIN us)
  BY <1>7, <1>8, FS_Bijection DEF ExistsBijection
<1> QED
  BY <1>8, <1>9 DEF us, cs, E

(* The number of worker threads that Generate arrives at. *)
LEMMA WorkerThreadsInRange ==
    ASSUME NEW n \in Int
    PROVE  resolveWorkerThreads(n) \in 1 .. 256
BY EngineAssumption DEF resolveWorkerThreads

(* A valid upstream is generated with a port that exists, and with a TLS server name *)
(* where it is encrypted and its address is a host name.                             *)
LEMMA ValidUpstreamConfig ==
    ASSUME NEW u \in UpstreamSpecs, validUpstream(u)
    PROVE  LET c == UpstreamConfig(u)
           IN  /\ c.address # ""
               /\ c.port \in 1 .. maxPort
               /\ c.transport = "dns" => c.tlsServerName = ""
               /\ c.transport # "dns" /\ ~ ParsesAsAddr(c.address) => c.tlsServerName # ""
<1> DEFINE c == UpstreamConfig(u)
           t == normalizeUpstreamTransport(u.transport)
           a == TrimSpace(u.address)
           n == TrimSpace(u.tlsServerName)
<1>1. u.address \in Strings /\ a \in Strings /\ TrimSpace(a) = a
  BY StringAssumption DEF UpstreamSpecs
<1>2. a # "" /\ (ParsesAsAddr(a) \/ IsDNS1123Subdomain(a))
  BY DEF validUpstream, isValidUpstreamAddress
<1>3. c.port \in 1 .. maxPort
  <2>1. Endpoint(c) = upstreamKey(u)
    BY EndpointIsKey
  <2>2. c.port = upstreamPort(u)
    BY <2>1 DEF Endpoint, upstreamKey
  <2> QED
    BY <2>2 DEF validUpstream
<1>4. c.tlsServerName = IF t = "dns" THEN "" ELSE IF n = "" THEN defaultTLSServerName(a) ELSE n
  BY DEF UpstreamConfig
<1>5. c.transport = t /\ c.address = a
  BY DEF UpstreamConfig
<1>6. ~ ParsesAsAddr(a) => defaultTLSServerName(a) = a
  BY <1>1, <1>2, StringAssumption DEF defaultTLSServerName
<1> HIDE DEF c, t, a, n
<1>7. c.transport # "dns" /\ ~ ParsesAsAddr(c.address) => c.tlsServerName # ""
  BY <1>2, <1>4, <1>5, <1>6
<1>8. c.address # "" /\ (c.transport = "dns" => c.tlsServerName = "")
  BY <1>2, <1>4, <1>5
<1> QED
  BY <1>3, <1>7, <1>8 DEF c

(****************************************************************************)
(* Whatever validateDNSUpstreamPool accepts generates well, for any profile *)
(* and however many upstreams there are.                                    *)
(****************************************************************************)
THEOREM ValidGeneratesWell ==
    ASSUME NEW pool, IsPoolSpec(pool), validateDNSUpstreamPool(pool), NEW profile
    PROVE  GeneratesWell(pool, profile)
<1> DEFINE us == pool.upstreams
           cs == Generate(pool, profile).upstreams
<1>1. us \in Seq(UpstreamSpecs) /\ us # <<>>
  BY DEF IsPoolSpec, validateDNSUpstreamPool
<1>2. \A i \in DOMAIN us : us[i] \in UpstreamSpecs /\ validUpstream(us[i])
  BY <1>1 DEF validateDNSUpstreamPool
<1>3. Generates(pool)
  <2>1. \A i \in DOMAIN us : TrimSpace(us[i].address) # ""
    BY <1>2 DEF validUpstream, isValidUpstreamAddress
  <2> QED
    BY <1>1, <2>1 DEF Generates
<1>4. Cardinality({ Endpoint(cs[k]) : k \in DOMAIN cs }) = Len(us)
  BY EndpointsCount
<1>5. Generate(pool, profile).workerThreads \in 1 .. 256
  <2>1. Generate(pool, profile).workerThreads = resolveWorkerThreads(pool.workerThreads)
    BY DEF Generate
  <2> QED
    BY <2>1, WorkerThreadsInRange DEF IsPoolSpec
<1>6. ASSUME NEW k \in DOMAIN cs
      PROVE  /\ cs[k].port \in 1 .. maxPort
             /\ cs[k].transport = "dns" => cs[k].tlsServerName = ""
             /\ cs[k].transport # "dns" /\ ~ ParsesAsAddr(cs[k].address) =>
                   cs[k].tlsServerName # ""
  <2>1. PICK i \in DOMAIN us : cs[k] = UpstreamConfig(us[i])
    BY GeneratedAtRank
  <2> HIDE DEF us, cs
  <2> QED
    BY <1>2, <2>1, ValidUpstreamConfig
<1> QED
  BY <1>3, <1>4, <1>5, <1>6 DEF GeneratesWell

(****************************************************************************)
(* The upstreams of a valid pool come in the order of their preferences and *)
(* weights, ties as in the spec, however many there are.                    *)
(****************************************************************************)
THEOREM ValidInOrder ==
    ASSUME NEW pool, IsPoolSpec(pool), validateDNSUpstreamPool(pool), NEW profile
    PROVE  InOrder(pool, profile)
<1> DEFINE us == pool.upstreams
           config == Generate(pool, profile)
           At(i) == Place(config, us[i])
           Of(i) == config.upstreams[At(i)]
<1>1. us \in Seq(UpstreamSpecs)
  BY DEF IsPoolSpec
<1>2. \A i \in DOMAIN us : At(i) = Rank(us, i)
  BY PlaceIsRank
<1>3. \A i \in DOMAIN us : Of(i) = UpstreamConfig(us[i])
  BY <1>2, GeneratedAtRank
<1>4. ASSUME NEW i \in DOMAIN us, NEW j \in DOMAIN us,
             \/ Of(i).preference < Of(j).preference
             \/ /\ Of(i).preference = Of(j).preference
                /\ \/ Of(i).weight > Of(j).weight
                   \/ Of(i).weight = Of(j).weight /\ i < j
      PROVE  At(i) < At(j)
  <2>1. \A n \in DOMAIN us :
           /\ Of(n).weight = normalizeUpstreamWeight(us[n].weight)
           /\ Of(n).preference = normalizeUpstreamPreference(us[n].preference)
    <3>1. \A u : /\ UpstreamConfig(u).weight = normalizeUpstreamWeight(u.weight)
                 /\ UpstreamConfig(u).preference = normalizeUpstreamPreference(u.preference)
      BY DEF UpstreamConfig
    <3> QED
      BY <1>3, <3>1
  <2>2. \A n \in DOMAIN us : us[n] \in UpstreamSpecs
    BY <1>1
  <2>3. \A n \in DOMAIN us : Of(n).weight \in Int /\ Of(n).preference \in Int
    BY <1>3, <2>2, ConfigFields
  <2> HIDE DEF At, Of, us
  <2>4. Earlier(us, i, j)
    BY <1>4, <2>1, <2>3 DEF Earlier, Precedes
  <2> QED
    BY <1>1, <1>2, <2>4, RankGrows
<1> QED
  BY <1>4 DEF InOrder

-----------------------------------------------------------------------------
(* The renderers. *)

(* The TLS server name of a generated upstream is trimmed, absent from plain ones, *)
(* and empty for encrypted ones only where the address gives none either.          *)
LEMMA GeneratedTLSServerName ==
    ASSUME NEW u \in UpstreamSpecs, isValidUpstreamAddress(u.address)
    PROVE  LET c == UpstreamConfig(u)
           IN  /\ TrimSpace(c.tlsServerName) = c.tlsServerName
               /\ c.transport = "dns" => c.tlsServerName = ""
               /\ c.transport # "dns" /\ c.tlsServerName = "" =>
                     defaultTLSServerName(c.address) = ""
<1> DEFINE c == UpstreamConfig(u)
           t == normalizeUpstreamTransport(u.transport)
           a == TrimSpace(u.address)
           n == TrimSpace(u.tlsServerName)
           d == defaultTLSServerName(a)
<1>1. a \in Strings /\ TrimSpace(a) = a /\ TrimSpace(n) = n
  BY StringAssumption DEF UpstreamSpecs
<1>2. ParsesAsAddr(a) \/ IsDNS1123Subdomain(a)
  BY DEF isValidUpstreamAddress
<1>3. TrimSpace("") = ""
  BY StringAssumption DEF Keywords
<1>4. d = IF ParsesAsAddr(TrimSuffixDot(a)) THEN "" ELSE TrimSuffixDot(a)
  BY <1>1 DEF defaultTLSServerName
<1>5. c.tlsServerName = IF t = "dns" THEN "" ELSE IF n = "" THEN d ELSE n
  BY DEF UpstreamConfig
<1>6. c.transport = t /\ c.address = a
  BY DEF UpstreamConfig
<1> HIDE DEF c, t, a, n, d
<1>7. TrimSpace(d) = d
  BY <1>1, <1>2, <1>3, <1>4, StringAssumption
<1>8. TrimSpace(c.tlsServerName) = c.tlsServerName
  BY <1>1, <1>3, <1>5, <1>7
<1>9. c.transport # "dns" /\ c.tlsServerName = "" => d = ""
  BY <1>5, <1>6
<1> QED
  BY <1>5, <1>6, <1>8, <1>9 DEF c, d

(* Transports, DNSSEC modes and thread counts are the same when they are normalized again. *)
LEMMA NormalizedOnce ==
    /\ \A t \in {"dns", "dot", "doh"} : normalizeUpstreamTransport(t) = t
    /\ \A m : normalizeDNSSECMode(normalizeDNSSECMode(m)) = normalizeDNSSECMode(m)
    /\ \A n \in 1 .. 256 : resolveWorkerThreads(n) = n
<1>1. \A k \in {"dns", "dot", "doh", "off", "process", "validate"} : ToLower(TrimSpace(k)) = k
  BY StringAssumption DEF Keywords
<1>2. \A t \in {"dns", "dot", "doh"} : normalizeUpstreamTransport(t) = t
  BY <1>1 DEF normalizeUpstreamTransport
<1>3. \A m : normalizeDNSSECMode(m) \in {"off", "process", "validate"}
  BY DEF normalizeDNSSECMode
<1>4. \A m \in {"off", "process", "validate"} : normalizeDNSSECMode(m) = m
  BY <1>1 DEF normalizeDNSSECMode
<1>5. \A n \in 1 .. 256 : resolveWorkerThreads(n) = n
  BY DEF resolveWorkerThreads
<1> QED
  BY <1>2, <1>3, <1>4, <1>5

(* Unbound has nothing to fill in for a generated upstream. *)
LEMMA UnboundKeepsUpstream ==
    ASSUME NEW u \in UpstreamSpecs, isValidUpstreamAddress(u.address)
    PROVE  Unbound!normalizeUpstream(UpstreamConfig(u)) = UpstreamConfig(u)
<1> DEFINE c == UpstreamConfig(u)
<1>1. c = [address |-> c.address, transport |-> c.transport, port |-> c.port,
           tlsServerName |-> c.tlsServerName, weight |-> c.weight, preference |-> c.preference]
  BY DEF UpstreamConfig
<1>2. Unbound!normalizeUpstreamTransport(c.transport) = c.transport
  BY ConfigFields, NormalizedOnce
     DEF Unbound!normalizeUpstreamTransport, normalizeUpstreamTransport
<1>3. c.port # 0 /\ c.weight \in Int /\ c.weight > 0 /\ c.preference \in Int /\ c.preference > 0
  BY ConfigFields
<1>4. /\ TrimSpace(c.tlsServerName) = c.tlsServerName
      /\ c.transport = "dns" => c.tlsServerName = ""
      /\ c.transport # "dns" /\ c.tlsServerName = "" => Unbound!defaultTLSServerName(c.address) = ""
  BY GeneratedTLSServerName DEF Unbound!defaultTLSServerName, defaultTLSServerName
<1> HIDE DEF c
<1>5. Unbound!normalizeUpstream(c) =
         [address |-> c.address, transport |-> c.transport, port |-> c.port,
          tlsServerName |-> c.tlsServerName, weight |-> c.weight, preference |-> c.preference]
  <2>1. (IF c.transport = "dns" THEN ""
         ELSE IF TrimSpace(c.tlsServerName) = "" THEN Unbound!defaultTLSServerName(c.address)
         ELSE TrimSpace(c.tlsServerName)) = c.tlsServerName
    BY <1>4
  <2>2. (IF c.port = 0 THEN Unbound!defaultPortForTransport(c.transport) ELSE c.port) = c.port
    BY <1>3
  <2>3. /\ (IF c.weight <= 0 THEN 1 ELSE c.weight) = c.weight
        /\ (IF c.preference <= 0 THEN 100 ELSE c.preference) = c.preference
    BY <1>3
  <2> QED
    BY <1>2, <2>1, <2>2, <2>3 DEF Unbound!normalizeUpstream
<1> QED
  BY <1>1, <1>5 DEF c

(* Unbound has nothing to fill in for a generated configuration. *)
LEMMA UnboundKeepsConfig ==
    ASSUME NEW pool, IsPoolSpec(pool), NEW profile,
           \A i \in DOMAIN pool.upstreams : isValidUpstreamAddress(pool.upstreams[i].address)
    PROVE  Unbound!normalizeConfig(Generate(pool, profile)) = Generate(pool, profile)
<1> DEFINE us == pool.upstreams
           config == Generate(pool, profile)
           cs == config.upstreams
<1>1. \A k \in DOMAIN cs : Unbound!normalizeUpstream(cs[k]) = cs[k]
  <2>1. \A i \in DOMAIN us : us[i] \in UpstreamSpecs /\ isValidUpstreamAddress(us[i].address)
    BY DEF IsPoolSpec
  <2>2. \A k \in DOMAIN cs : \E i \in DOMAIN us : cs[k] = UpstreamConfig(us[i])
    BY GeneratedAtRank
  <2> HIDE DEF us, cs
  <2> QED
    BY <2>1, <2>2, UnboundKeepsUpstream
<1>2. cs = [k \in DOMAIN cs |-> cs[k]]
  BY DEF Generate
<1>3. Unbound!normalizeWorkerThreads(config.workerThreads) = config.workerThreads
  <2>1. config.workerThreads \in 1 .. 256
    BY WorkerThreadsInRange DEF Generate, IsPoolSpec
  <2>2. \A n : Unbound!normalizeWorkerThreads(n) = resolveWorkerThreads(n)
    BY DEF Unbound!normalizeWorkerThreads, resolveWorkerThreads
  <2> QED
    BY <2>1, <2>2, NormalizedOnce
<1>4. Unbound!normalizeDNSSECMode(config.dnssec) = config.dnssec
  <2>1. config.dnssec = normalizeDNSSECMode(pool.dnssec)
    BY DEF Generate
  <2>2. \A m : Unbound!normalizeDNSSECMode(m) = normalizeDNSSECMode(m)
    BY DEF Unbound!normalizeDNSSECMode, normalizeDNSSECMode
  <2> QED
    BY <2>1, <2>2, NormalizedOnce
<1>5. config = [upstreams |-> cs, cache |-> config.cache, filter |-> config.filter,
                workerThreads |-> config.workerThreads, dnssec |-> config.dnssec]
  BY DEF Generate
<1> HIDE DEF config
<1>6. [k \in DOMAIN cs |-> Unbound!normalizeUpstream(cs[k])] = cs
  BY <1>1, <1>2
<1>7. Unbound!normalizeConfig(config) =
         [config EXCEPT !.workerThreads = config.workerThreads, !.dnssec = config.dnssec,
                        !.upstreams = cs]
  BY <1>3, <1>4, <1>5, <1>6 DEF Unbound!normalizeConfig
<1> QED
  BY <1>5, <1>7 DEF config

(* CoreDNS has nothing to fill in for a generated upstream. *)
LEMMA CoreDNSKeepsUpstream ==
    ASSUME NEW u \in UpstreamSpecs, isValidUpstreamAddress(u.address)
    PROVE  CoreDNS!normalizeUpstream(UpstreamConfig(u)) = UpstreamConfig(u)
<1> DEFINE c == UpstreamConfig(u)
<1>1. c = [address |-> c.address, transport |-> c.transport, port |-> c.port,
           tlsServerName |-> c.tlsServerName, weight |-> c.weight, preference |-> c.preference]
  BY DEF UpstreamConfig
<1>2. CoreDNS!normalizeUpstreamTransport(c.transport) = c.transport
  BY ConfigFields, NormalizedOnce
     DEF CoreDNS!normalizeUpstreamTransport, normalizeUpstreamTransport
<1>3. c.port # 0 /\ c.weight \in Int /\ c.weight > 0 /\ c.preference \in Int /\ c.preference > 0
  BY ConfigFields
<1>4. /\ TrimSpace(c.tlsServerName) = c.tlsServerName
      /\ c.transport = "dns" => c.tlsServerName = ""
      /\ c.transport # "dns" /\ c.tlsServerName = "" => CoreDNS!defaultTLSServerName(c.address) = ""
  BY GeneratedTLSServerName DEF CoreDNS!defaultTLSServerName, defaultTLSServerName
<1> HIDE DEF c
<1>5. CoreDNS!normalizeUpstream(c) =
         [address |-> c.address, transport |-> c.transport, port |-> c.port,
          tlsServerName |-> c.tlsServerName, weight |-> c.weight, preference |-> c.preference]
  <2>1. (IF c.transport = "dns" THEN ""
         ELSE IF TrimSpace(c.tlsServerName) = "" THEN CoreDNS!defaultTLSServerName(c.address)
         ELSE TrimSpace(c.tlsServerName)) = c.tlsServerName
    BY <1>4
  <2>2. (IF c.port = 0 THEN CoreDNS!defaultPortForTransport(c.transport) ELSE c.port) = c.port
    BY <1>3
  <2>3. /\ (IF c.weight <= 0 THEN 1 ELSE c.weight) = c.weight
        /\ (IF c.preference <= 0 THEN 100 ELSE c.preference) = c.preference
    BY <1>3
  <2> QED
    BY <1>2, <2>1, <2>2, <2>3 DEF CoreDNS!normalizeUpstream
<1> QED
  BY <1>1, <1>5 DEF c

(* CoreDNS has nothing to fill in for a generated configuration. *)
LEMMA CoreDNSKeepsConfig ==
    ASSUME NEW pool, IsPoolSpec(pool), NEW profile,
           \A i \in DOMAIN pool.upstreams : isValidUpstreamAddress(pool.upstreams[i].address)
    PROVE  CoreDNS!normalizeConfig(Generate(pool, profile)) = Generate(pool, profile)
<1> DEFINE us == pool.upstreams
           config == Generate(pool, profile)
           cs == config.upstreams
<1>1. \A k \in DOMAIN cs : CoreDNS!normalizeUpstream(cs[k]) = cs[k]
  <2>1. \A i \in DOMAIN us : us[i] \in UpstreamSpecs /\ isValidUpstreamAddress(us[i].address)
    BY DEF IsPoolSpec
  <2>2. \A k \in DOMAIN cs : \E i \in DOMAIN us : cs[k] = UpstreamConfig(us[i])
    BY GeneratedAtRank
  <2> HIDE DEF us, cs
  <2> QED
    BY <2>1, <2>2, CoreDNSKeepsUpstream
<1>2. cs = [k \in DOMAIN cs |-> cs[k]]
  BY DEF Generate
<1>3. CoreDNS!normalizeWorkerThreads(config.workerThreads) = config.workerThreads
  <2>1. config.workerThreads \in 1 .. 256
    BY WorkerThreadsInRange DEF Generate, IsPoolSpec
  <2>2. \A n : CoreDNS!normalizeWorkerThreads(n) = resolveWorkerThreads(n)
    BY DEF CoreDNS!normalizeWorkerThreads, resolveWorkerThreads
  <2> QED
    BY <2>1, <2>2, NormalizedOnce
<1>4. CoreDNS!normalizeDNSSECMode(config.dnssec) = config.dnssec
  <2>1. config.dnssec = normalizeDNSSECMode(pool.dnssec)
    BY DEF Generate
  <2>2. \A m : CoreDNS!normalizeDNSSECMode(m) = normalizeDNSSECMode(m)
    BY DEF CoreDNS!normalizeDNSSECMode, normalizeDNSSECMode
  <2> QED
    BY <2>1, <2>2, NormalizedOnce
<1>5. config = [upstreams |-> cs, cache |-> config.cache, filter |-> config.filter,
                workerThreads |-> config.workerThreads, dnssec |-> config.dnssec]
  BY DEF Generate
<1> HIDE DEF config
<1>6. [k \in DOMAIN cs |-> CoreDNS!normalizeUpstream(cs[k])] = cs
  BY <1>1, <1>2
<1>7. CoreDNS!normalizeConfig(config) =
         [config EXCEPT !.workerThreads = config.workerThreads, !.dnssec = config.dnssec,
                        !.upstreams = cs]
  BY <1>3, <1>4, <1>5, <1>6 DEF CoreDNS!normalizeConfig
<1> QED
  BY <1>5, <1>7 DEF config

(* PowerDNS has nothing to fill in for a generated upstream. *)
LEMMA PowerDNSKeepsUpstream ==
    ASSUME NEW u \in UpstreamSpecs, isValidUpstreamAddress(u.address)
    PROVE  PowerDNS!normalizeUpstream(UpstreamConfig(u)) = UpstreamConfig(u)
<1> DEFINE c == UpstreamConfig(u)
<1>1. c = [address |-> c.address, transport |-> c.transport, port |-> c.port,
           tlsServerName |-> c.tlsServerName, weight |-> c.weight, preference |-> c.preference]
  BY DEF UpstreamConfig
<1>2. PowerDNS!normalizeUpstreamTransport(c.transport) = c.transport
  BY ConfigFields, NormalizedOnce
     DEF PowerDNS!normalizeUpstreamTransport, normalizeUpstreamTransport
<1>3. c.port # 0 /\ c.weight \in Int /\ c.weight > 0 /\ c.preference \in Int /\ c.preference > 0
  BY ConfigFields
<1>4. /\ TrimSpace(c.tlsServerName) = c.tlsServerName
      /\ c.transport = "dns" => c.tlsServerName = ""
  BY GeneratedTLSServerName
<1> HIDE DEF c
<1>5. PowerDNS!normalizeUpstream(c) =
         [address |-> c.address, transport |-> c.transport, port |-> c.port,
          tlsServerName |-> c.tlsServerName, weight |-> c.weight, preference |-> c.preference]
  <2>1. (IF c.transport = "dns" THEN "" ELSE TrimSpace(c.tlsServerName)) = c.tlsServerName
    BY <1>4
  <2>2. (IF c.port = 0 THEN PowerDNS!defaultPortForTransport(c.transport) ELSE c.port) = c.port
    BY <1>3
  <2>3. /\ (IF c.weight <= 0 THEN 1 ELSE c.weight) = c.weight
        /\ (IF c.preference <= 0 THEN 100 ELSE c.preference) = c.preference
    BY <1>3
  <2> QED
    BY <1>2, <2>1, <2>2, <2>3 DEF PowerDNS!normalizeUpstream
<1> QED
  BY <1>1, <1>5 DEF c

(* PowerDNS has nothing to fill in for a generated configuration. *)
LEMMA PowerDNSKeepsConfig ==
    ASSUME NEW pool, IsPoolSpec(pool), NEW profile,
           \A i \in DOMAIN pool.upstreams : isValidUpstreamAddress(pool.upstreams[i].address)
    PROVE  PowerDNS!normalizeConfig(Generate(pool, profile)) = Generate(pool, profile)
<1> DEFINE us == pool.upstreams
           config == Generate(pool, profile)
           cs == config.upstreams
<1>1. \A k \in DOMAIN cs : PowerDNS!normalizeUpstream(cs[k]) = cs[k]
  <2>1. \A i \in DOMAIN us : us[i] \in UpstreamSpecs /\ isValidUpstreamAddress(us[i].address)
    BY DEF IsPoolSpec
  <2>2. \A k \in DOMAIN cs : \E i \in DOMAIN us : cs[k] = UpstreamConfig(us[i])
    BY GeneratedAtRank
  <2> HIDE DEF us, cs
  <2> QED
    BY <2>1, <2>2, PowerDNSKeepsUpstream
<1>2. cs = [k \in DOMAIN cs |-> cs[k]]
  BY DEF Generate
<1>3. PowerDNS!normalizeWorkerThreads(config.workerThreads) = config.workerThreads
  <2>1. config.workerThreads \in 1 .. 256
    BY WorkerThreadsInRange DEF Generate, IsPoolSpec
  <2>2. \A n : PowerDNS!normalizeWorkerThreads(n) = resolveWorkerThreads(n)
    BY DEF PowerDNS!normalizeWorkerThreads, resolveWorkerThreads
  <2> QED
    BY <2>1, <2>2, NormalizedOnce
<1>4. PowerDNS!normalizeDNSSECMode(config.dnssec) = config.dnssec
  <2>1. config.dnssec = normalizeDNSSECMode(pool.dnssec)
    BY DEF Generate
  <2>2. \A m : PowerDNS!normalizeDNSSECMode(m) = normalizeDNSSECMode(m)
    BY DEF PowerDNS!normalizeDNSSECMode, normalizeDNSSECMode
  <2> QED
    BY <2>1, <2>2, NormalizedOnce
<1>5. config = [upstreams |-> cs, cache |-> config.cache, filter |-> config.filter,
                workerThreads |-> config.workerThreads, dnssec |-> config.dnssec]
  BY DEF Generate
<1> HIDE DEF config
<1>6. [k \in DOMAIN cs |-> PowerDNS!normalizeUpstream(cs[k])] = cs
  BY <1>1, <1>2
<1>7. PowerDNS!normalizeConfig(config) =
         [config EXCEPT !.workerThreads = config.workerThreads, !.dnssec = config.dnssec,
                        !.upstreams = cs]
  BY <1>3, <1>4, <1>5, <1>6 DEF PowerDNS!normalizeConfig
<1> QED
  BY <1>5, <1>7 DEF config

(****************************************************************************)
(* For any pool with valid addresses, normalizeConfig of each renderer is   *)
(* the identity on what Generate makes: Render answers for the very         *)
(* configuration that the controller goes on to marshal into config.json.   *)
(****************************************************************************)
THEOREM ValidCheckedAsGenerated ==
    ASSUME NEW pool, IsPoolSpec(pool), NEW profile,
           \A i \in DOMAIN pool.upstreams : isValidUpstreamAddress(pool.upstreams[i].address)
    PROVE  CheckedAsGenerated(pool, profile)
BY UnboundKeepsConfig, CoreDNSKeepsConfig, PowerDNSKeepsConfig DEF CheckedAsGenerated
=============================================================================
