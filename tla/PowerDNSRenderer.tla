------------------------- MODULE PowerDNSRenderer -------------------------
(****************************************************************************)
(* The PowerDNS renderer: its defaults, and what it can serve.              *)
(****************************************************************************)
EXTENDS Integers, Sequences, FiniteSets

CONSTANTS
    TrimSpace(_),               \* Go's strings.TrimSpace
    ToLower(_),                 \* strings.ToLower
    ValidateTemplateConfig(_),  \* what the template library accepts
    NumCPU                      \* runtime.NumCPU of the operator

defaultPortForTransport(transport) ==
    CASE transport = "dot" -> 853 [] transport = "doh" -> 443 [] OTHER -> 53

normalizeUpstreamTransport(transport) ==
    LET t == ToLower(TrimSpace(transport)) IN IF t \in {"dot", "doh"} THEN t ELSE "dns"

normalizeDNSSECMode(mode) ==
    LET t == ToLower(TrimSpace(mode)) IN IF t \in {"process", "validate"} THEN t ELSE "off"

normalizeWorkerThreads(value) ==
    LET n == IF value > 0 THEN value ELSE IF NumCPU > 0 THEN NumCPU ELSE 2
    IN  IF n > 256 THEN 256 ELSE n

(* The defaults for what an upstream leaves open. *)
normalizeUpstream(u) ==
    LET transport == normalizeUpstreamTransport(u.transport)
        name == TrimSpace(u.tlsServerName)
    IN  [address |-> u.address,
         transport |-> transport,
         port |-> IF u.port = 0 THEN defaultPortForTransport(transport) ELSE u.port,
         tlsServerName |-> IF transport = "dns" THEN "" ELSE name,
         weight |-> IF u.weight <= 0 THEN 1 ELSE u.weight,
         preference |-> IF u.preference <= 0 THEN 100 ELSE u.preference]

normalizeConfig(config) ==
    [config EXCEPT !.workerThreads = normalizeWorkerThreads(@),
                   !.dnssec = normalizeDNSSECMode(@),
                   !.upstreams = [i \in DOMAIN @ |-> normalizeUpstream(@[i])]]

(* Plain DNS only. *)
validatePowerDNSCompatibility(config) ==
    \A i \in DOMAIN config.upstreams : config.upstreams[i].transport = "dns"

(* Render succeeds; the text is a function of normalizeConfig(config). *)
Renders(config) ==
    LET normalized == normalizeConfig(config)
    IN  validatePowerDNSCompatibility(normalized) /\ ValidateTemplateConfig(normalized)
=============================================================================
