---------------------------- MODULE MCUpstreamPool ----------------------------
(****************************************************************************)
(* UpstreamPoolController for TLC: pools a < b, in one namespace ns or in   *)
(* one each.  What validation and the build say of a spec is what module    *)
(* EngineConfig says of the pool that the spec stands for, with the Unbound *)
(* renderer: good1 and good2 build; dup, which the CRD schema admits, has a *)
(* duplicate upstream and would build; doh is valid and Unbound refuses it; *)
(* huge exceeds the ConfigMap.                                              *)
(****************************************************************************)
EXTENDS UpstreamPoolController

CONSTANTS a, b, ns

MCNameRank == [p \in Pools |-> IF p = a THEN 1 ELSE 2]

MCNamespaceOf == [p \in Pools |-> ns]

MCNamespaceEach == [p \in Pools |-> IF p = a THEN "ns-a" ELSE "ns-b"]

(* A pool as it was created, with the resource version and the stamp given. *)
PoolObject(irv, rv, s) ==
    [created |-> 1, rv |-> rv, irv |-> irv, gen |-> 1, spec |-> s, status |-> None]

(****************************************************************************)
(* The operator starts anew: it had been stopped after it stamped a, and b, *)
(* if there is one, was created in the same second while it was down, with  *)
(* another spec.                                                            *)
(****************************************************************************)
StartsWithPools ==
    /\ \E s \in Specs : \E t \in (Specs \ {s}) \cup {None} :
          api = [p \in Pools |-> CASE p = a -> PoolObject(1, 1, s)
                                   [] p = b /\ t = None -> None
                                   [] p = b /\ t # None -> PoolObject(0, 2, t)]
    /\ profile = [n \in Namespaces |-> None]
    /\ configMap = [c \in ConfigNamespaces |-> None]
    /\ revision = 2
    /\ now = 1
    /\ cache = api
    /\ poolWatch = <<>>
    /\ profCache = profile
    /\ profWatch = [n \in Namespaces |-> <<>>]
    /\ cmCache = configMap
    /\ cmWatch = [c \in ConfigNamespaces |-> <<>>]
    /\ queue = [p \in Pools |-> IF api[p] # None THEN "ready" ELSE "none"]
    /\ w = Idle
    /\ failures = [c \in ConfigNamespaces |-> 0]
    /\ circuitOpen = [c \in ConfigNamespaces |-> FALSE]
    /\ metric = [n \in Namespaces |-> None]
    /\ published = [c \in ConfigNamespaces |-> {}]
    /\ lives = [p \in Pools |-> IF api[p] # None THEN 1 ELSE 0]
    /\ ops = 0
    /\ faults = 0
    /\ restarts = 0

StartedFairSpec == StartsWithPools /\ [][Next]_vars /\ Fairness

-----------------------------------------------------------------------------
(* The addresses and transports below are trimmed and in lower case. *)
AsIs(s) == s

IsAddress(s) == s \in {"10.0.0.1", "10.0.0.2"}

Anything(config) == TRUE

Engine ==
    INSTANCE EngineConfig WITH
        Strings <- {"", "10.0.0.1", "10.0.0.2", "dns", "dot", "doh"},
        TrimSpace <- AsIs, ToLower <- AsIs, TrimSuffixDot <- AsIs,
        ParsesAsAddr <- IsAddress, LooksLikeIPv4 <- IsAddress,
        IsDNS1123Subdomain <- IsAddress, ValidateTemplateConfig <- Anything,
        NumCPU <- 4

Upstream(address, transport) ==
    [address |-> address, transport |-> transport, port |-> 0, tlsServerName |-> "",
     weight |-> 0, preference |-> 0]

UpstreamsOf(s) ==
    CASE s = "good2" -> <<Upstream("10.0.0.2", "dot")>>
      [] s = "dup" -> <<Upstream("10.0.0.1", ""), Upstream("10.0.0.1", "dns")>>
      [] s = "doh" -> <<Upstream("10.0.0.1", "doh")>>
      [] OTHER -> <<Upstream("10.0.0.1", "")>>

PoolOf(s) ==
    [upstreams |-> UpstreamsOf(s), workerThreads |-> 0, dnssec |-> "", allow |-> {},
     deny |-> {}, action |-> ""]

MCValidSpecs == Specs \ {"dup"}

MCBuildResult ==
    [s \in Specs |->
        CASE s = "huge" -> "ConfigTooLarge"
          [] s = "doh" -> "ValidationFailed"
          [] OTHER -> "ok"]

(* What the constants above say is what EngineConfig says; the size is not its business. *)
ASSUME EngineAgrees ==
    /\ MCValidSpecs = { s \in Specs : Engine!validateDNSUpstreamPool(PoolOf(s)) }
    /\ \A s \in Specs :
          /\ Engine!Generates(PoolOf(s))
          /\ MCBuildResult[s] = "ValidationFailed" <=>
                ~ Engine!Unbound!Renders(Engine!Generate(PoolOf(s), None))
=============================================================================
