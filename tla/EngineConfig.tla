---------------------------- MODULE EngineConfig ----------------------------
(****************************************************************************)
(* From the spec of a DNSUpstreamPool and of a DNSCacheProfile to the       *)
(* configuration of a DNS engine: what validateDNSUpstreamPool accepts,     *)
(* what Generate makes of it, and what the three renderers do with that.    *)
(*                                                                          *)
(* A pool spec is a record with the fields upstreams (a sequence of records *)
(* with address, transport, port, tlsServerName, weight and preference),    *)
(* workerThreads, dnssec, allow, deny and action.  A profile spec has the   *)
(* fields maxEntries, ttlMin, ttlMax, negativeTtl, prefetch and threshold.  *)
(* Fields that are not set are 0 or "".                                     *)
(****************************************************************************)
EXTENDS Integers, Sequences, FiniteSets

CONSTANTS
    Strings,                    \* the strings of the specs, trimmed or not
    TrimSpace(_),               \* Go's strings.TrimSpace
    ToLower(_),                 \* strings.ToLower
    TrimSuffixDot(_),           \* strings.TrimSuffix(_, ".")
    ParsesAsAddr(_),            \* netip.ParseAddr succeeds
    LooksLikeIPv4(_),           \* three dots between digits only
    IsDNS1123Subdomain(_),      \* validation.IsDNS1123Subdomain finds no error
    ValidateTemplateConfig(_),  \* what the template library accepts
    NumCPU,                     \* runtime.NumCPU of the operator
    None                        \* no profile

ASSUME EngineAssumption == NumCPU \in Int

(* The words that the code compares trimmed and lowered strings with, and "". *)
Keywords == {"", "dns", "dot", "doh", "off", "process", "validate"}

(****************************************************************************)
(* What is used of Go's strings: nothing is left to trim of what has been   *)
(* trimmed, the keywords are trimmed and in lower case, and a DNS-1123 name *)
(* has neither blanks around it nor a dot at its end.  Only the zone of an  *)
(* address can end in a dot; without it an address is left, whose zone may  *)
(* end in a blank, or an address with an empty zone, which is none.         *)
(****************************************************************************)
ASSUME StringAssumption ==
    /\ \A s \in Strings : TrimSpace(s) \in Strings /\ TrimSpace(TrimSpace(s)) = TrimSpace(s)
    /\ \A k \in Keywords : TrimSpace(k) = k /\ ToLower(k) = k
    /\ \A s \in Strings :
          IsDNS1123Subdomain(s) => TrimSpace(s) = s /\ TrimSuffixDot(s) = s
    /\ \A s \in Strings :
          LET t == TrimSuffixDot(s)
          IN  ParsesAsAddr(s) => ParsesAsAddr(t) \/ TrimSpace(t) = t

UpstreamSpecs ==
    [address : Strings, transport : Strings, port : Int, tlsServerName : Strings,
     weight : Int, preference : Int]

(* The types of a pool spec's fields, those of the domain filter left open. *)
IsPoolSpec(pool) ==
    /\ pool.upstreams \in Seq(UpstreamSpecs)
    /\ pool.workerThreads \in Int
    /\ pool.dnssec \in Strings

Unbound == INSTANCE UnboundRenderer
CoreDNS == INSTANCE CoreDNSRenderer
PowerDNS == INSTANCE PowerDNSRenderer

-----------------------------------------------------------------------------
(* What validateDNSUpstreamPool accepts. *)

(* Transports and DNSSEC modes, "unknown" if they are none. *)
parseUpstreamTransport(raw) ==
    LET t == ToLower(TrimSpace(raw))
    IN  CASE t \in {"", "dns"} -> "dns" [] t \in {"dot", "doh"} -> t [] OTHER -> "unknown"

parseDNSSECMode(raw) ==
    LET t == ToLower(TrimSpace(raw))
    IN  CASE t \in {"", "off"} -> "off" [] t \in {"process", "validate"} -> t
          [] OTHER -> "unknown"

portOfTransport(transport) ==
    CASE transport = "dot" -> 853 [] transport = "doh" -> 443 [] OTHER -> 53

isValidUpstreamAddress(address) ==
    LET t == TrimSpace(address)
    IN  /\ t # ""
        /\ ParsesAsAddr(t) \/ (~ LooksLikeIPv4(t) /\ IsDNS1123Subdomain(t))

validTLSServerName(name) ==
    LET t == TrimSuffixDot(name) IN t # "" /\ IsDNS1123Subdomain(ToLower(t))

maxPort == 65535

(* The port of an upstream, for its transport if it is not set. *)
upstreamPort(u) ==
    IF u.port = 0 THEN portOfTransport(parseUpstreamTransport(u.transport)) ELSE u.port

(* Faulty variant: duplicates are told by the ports as they are written. *)
BugRawPort(u) ==
    <<parseUpstreamTransport(u.transport), TrimSpace(u.address), u.port>>

(* What tells two upstreams apart. *)
upstreamKey(u) ==
    <<parseUpstreamTransport(u.transport), TrimSpace(u.address), upstreamPort(u)>>

(* The checks of one upstream. *)
validUpstream(u) ==
    LET transport == parseUpstreamTransport(u.transport)
        name == TrimSpace(u.tlsServerName)
    IN  /\ u.address = TrimSpace(u.address)
        /\ isValidUpstreamAddress(u.address)
        /\ transport # "unknown"
        /\ upstreamPort(u) \in 1 .. maxPort
        /\ name # "" => transport # "dns" /\ validTLSServerName(name)
        /\ u.weight \in 0 .. 100
        /\ u.preference \in 0 .. 1000

validateDNSUpstreamPool(pool) ==
    LET D == DOMAIN pool.upstreams
    IN  /\ pool.upstreams # <<>>
        /\ \A i \in D : validUpstream(pool.upstreams[i])
        /\ \A i, j \in D :
              upstreamKey(pool.upstreams[i]) = upstreamKey(pool.upstreams[j]) => i = j
        /\ pool.workerThreads \in 0 .. 256
        /\ parseDNSSECMode(pool.dnssec) # "unknown"

-----------------------------------------------------------------------------
(* Generate. *)

defaultUpstreamPortForTransport(transport) ==
    CASE transport = "dot" -> 853 [] transport = "doh" -> 443 [] OTHER -> 53

normalizeUpstreamTransport(transport) ==
    LET t == ToLower(TrimSpace(transport)) IN IF t \in {"dot", "doh"} THEN t ELSE "dns"

normalizeDNSSECMode(mode) ==
    LET t == ToLower(TrimSpace(mode)) IN IF t \in {"process", "validate"} THEN t ELSE "off"

normalizeUpstreamWeight(weight) == IF weight <= 0 THEN 1 ELSE weight

normalizeUpstreamPreference(preference) == IF preference <= 0 THEN 100 ELSE preference

normalizeDomainFilterAction(action) ==
    IF ToLower(TrimSpace(action)) = "nxdomain" THEN "nxdomain" ELSE "refused"

resolveWorkerThreads(value) ==
    LET n == IF value > 0 THEN value ELSE IF NumCPU > 0 THEN NumCPU ELSE 2
    IN  IF n > 256 THEN 256 ELSE n

defaultTLSServerName(address) ==
    LET t == TrimSuffixDot(TrimSpace(address)) IN IF ParsesAsAddr(t) THEN "" ELSE t

(* Faulty variant: values that are not set are compared as they are. *)
BugRawOrder(u, v) ==
    \/ u.preference < v.preference
    \/ u.preference = v.preference /\ u.weight > v.weight

(* The order of the upstreams: the lower preference, then the greater weight. *)
Precedes(u, v) ==
    LET left == normalizeUpstreamPreference(u.preference)
        right == normalizeUpstreamPreference(v.preference)
    IN  \/ left < right
        \/ /\ left = right
           /\ normalizeUpstreamWeight(u.weight) > normalizeUpstreamWeight(v.weight)

(* Upstream i comes before upstream j in a stable order. *)
Earlier(upstreams, i, j) ==
    \/ Precedes(upstreams[i], upstreams[j])
    \/ ~ Precedes(upstreams[j], upstreams[i]) /\ i < j

(* Where upstream i comes in that order. *)
Rank(upstreams, i) ==
    Cardinality({ j \in DOMAIN upstreams : Earlier(upstreams, j, i) }) + 1

(* The upstreams sorted, those that are equal as in the spec. *)
SliceStable(upstreams) ==
    [k \in DOMAIN upstreams |->
        upstreams[CHOOSE i \in DOMAIN upstreams : Rank(upstreams, i) = k]]

(* Faulty variant: a port that is not set is left to the renderer. *)
BugPortLeftOpen(u) ==
    [address |-> TrimSpace(u.address), transport |-> normalizeUpstreamTransport(u.transport),
     port |-> u.port, tlsServerName |-> TrimSpace(u.tlsServerName),
     weight |-> normalizeUpstreamWeight(u.weight),
     preference |-> normalizeUpstreamPreference(u.preference)]

(* The configuration of one upstream. *)
UpstreamConfig(u) ==
    LET transport == normalizeUpstreamTransport(u.transport)
        name == TrimSpace(u.tlsServerName)
    IN  [address |-> TrimSpace(u.address),
         transport |-> transport,
         port |-> IF u.port = 0 THEN defaultUpstreamPortForTransport(transport) ELSE u.port,
         tlsServerName |-> IF transport = "dns" THEN ""
                           ELSE IF name = "" THEN defaultTLSServerName(TrimSpace(u.address))
                           ELSE name,
         weight |-> normalizeUpstreamWeight(u.weight),
         preference |-> normalizeUpstreamPreference(u.preference)]

(* The domain filter; its action is only set where there is something to filter. *)
DomainFilter(pool) ==
    [allow |-> pool.allow, deny |-> pool.deny,
     action |-> IF pool.allow \cup pool.deny = {} THEN ""
                ELSE normalizeDomainFilterAction(pool.action)]

(* Generate succeeds. *)
Generates(pool) ==
    /\ pool.upstreams # <<>>
    /\ \A i \in DOMAIN pool.upstreams : TrimSpace(pool.upstreams[i].address) # ""

(* A field of the profile where it is set, or the default. *)
OrDefault(value, default) == IF value > 0 THEN value ELSE default

defaultCacheMaxEntries == 100000

(* The settings of the cache; of a profile only prefetch counts when it is not set. *)
CacheConfig(profile) ==
    IF profile = None
    THEN [maxEntries |-> defaultCacheMaxEntries, ttlMin |-> 60, ttlMax |-> 300, negativeTtl |-> 30,
          prefetch |-> TRUE, threshold |-> 10]
    ELSE [maxEntries |-> OrDefault(profile.maxEntries, defaultCacheMaxEntries),
          ttlMin |-> OrDefault(profile.ttlMin, 60),
          ttlMax |-> OrDefault(profile.ttlMax, 300),
          negativeTtl |-> OrDefault(profile.negativeTtl, 30),
          prefetch |-> profile.prefetch,
          threshold |-> OrDefault(profile.threshold, 10)]

(* What Generate makes of a pool and a profile. *)
Generate(pool, profile) ==
    LET sorted == SliceStable(pool.upstreams)
    IN  [upstreams |-> [i \in DOMAIN sorted |-> UpstreamConfig(sorted[i])],
         cache |-> CacheConfig(profile),
         filter |-> DomainFilter(pool),
         workerThreads |-> resolveWorkerThreads(pool.workerThreads),
         dnssec |-> normalizeDNSSECMode(pool.dnssec)]

-----------------------------------------------------------------------------
(* What holds of a pool and a profile. *)

(* The protocol, server and port of an upstream in a configuration. *)
Endpoint(c) == <<c.transport, c.address, c.port>>

(* The place of upstream u of a pool in a configuration. *)
Place(config, u) ==
    CHOOSE k \in DOMAIN config.upstreams :
        Endpoint(config.upstreams[k]) = Endpoint(UpstreamConfig(u))

(****************************************************************************)
(* Whatever validation accepts generates, with each of its upstreams once   *)
(* and no two that are the same server, port and protocol, with numbers     *)
(* that the engines take, and with a TLS server name for every encrypted    *)
(* upstream that is known by its host name, for no plain one.               *)
(****************************************************************************)
GeneratesWell(pool, profile) ==
    LET config == Generate(pool, profile)
        Endpoints == { Endpoint(config.upstreams[k]) : k \in DOMAIN config.upstreams }
    IN  /\ Generates(pool)
        /\ Cardinality(Endpoints) = Len(pool.upstreams)
        /\ config.workerThreads \in 1 .. 256
        /\ \A k \in DOMAIN config.upstreams :
              LET c == config.upstreams[k]
              IN  /\ c.port \in 1 .. maxPort
                  /\ c.transport = "dns" => c.tlsServerName = ""
                  /\ c.transport # "dns" /\ ~ ParsesAsAddr(c.address) => c.tlsServerName # ""

(****************************************************************************)
(* The upstreams come in the order of the preference and the weight that    *)
(* the configuration gives them, and in the order of the spec where these   *)
(* are the same.                                                            *)
(****************************************************************************)
InOrder(pool, profile) ==
    LET config == Generate(pool, profile)
        At(i) == Place(config, pool.upstreams[i])
        Of(i) == config.upstreams[At(i)]
    IN  \A i, j \in DOMAIN pool.upstreams :
            \/ Of(i).preference < Of(j).preference
            \/ /\ Of(i).preference = Of(j).preference
               /\ \/ Of(i).weight > Of(j).weight
                  \/ Of(i).weight = Of(j).weight /\ i < j
            => At(i) < At(j)

(****************************************************************************)
(* The renderers' own copies of the defaults find nothing to fill in: the   *)
(* configuration that Render checks, having normalised it, is the one that  *)
(* Generate made.                                                           *)
(****************************************************************************)
CheckedAsGenerated(pool, profile) ==
    LET config == Generate(pool, profile)
    IN  /\ Unbound!normalizeConfig(config) = config
        /\ CoreDNS!normalizeConfig(config) = config
        /\ PowerDNS!normalizeConfig(config) = config
=============================================================================
