--------------------------- MODULE MCEngineConfig ---------------------------
(****************************************************************************)
(* CacheProfileController and EngineConfig for TLC.  The strings that occur *)
(* are listed with what Go's string functions make of them.  The schemas of *)
(* the chart's CRDs refuse some of the specs; the chart can be installed    *)
(* without its CRDs, so the code's own checks are taken by themselves.      *)
(****************************************************************************)
EXTENDS CacheProfileController

MCStrings ==
    {"", " ", ".", "10.0.0.1", "2001:db8::1", "999.0.0.1", "host", "host ", "host.", "Host",
     "u1", "u2", "u3", "dns", "dot", " dot", "DoT", "doh", "udp", "off", "validate", "strict"}

MCTrimSpace(s) ==
    CASE s = " dot" -> "dot" [] s = "host " -> "host" [] s = " " -> "" [] OTHER -> s

MCToLower(s) ==
    CASE s = "DoT" -> "dot" [] s = "Host" -> "host" [] s = "NXDomain" -> "nxdomain"
      [] OTHER -> s

MCTrimSuffixDot(s) == CASE s = "host." -> "host" [] s = "." -> "" [] OTHER -> s

MCParsesAsAddr(s) == s \in {"10.0.0.1", "2001:db8::1"}

MCLooksLikeIPv4(s) == s \in {"10.0.0.1", "999.0.0.1"}

MCIsDNS1123Subdomain(s) == s \in {"host", "10.0.0.1", "999.0.0.1", "dot", "u1", "u2", "u3"}

MCValidateTemplateConfig(config) == TRUE

Upstream(address, transport, port, name, weight, preference) ==
    [address |-> address, transport |-> transport, port |-> port, tlsServerName |-> name,
     weight |-> weight, preference |-> preference]

PoolOf(upstreams) ==
    [upstreams |-> upstreams, workerThreads |-> 0, dnssec |-> "", allow |-> {}, deny |-> {},
     action |-> ""]

(* Two servers with every way to write transport, port and TLS name. *)
Servers ==
    { Upstream(a, t, p, n, 0, 0) : a \in {"10.0.0.1", "host"}, t \in {"", "dns", "DoT", "doh"},
                                   p \in {0, 53, 853}, n \in {"", "Host", "10.0.0.1"} }
    \cup { Upstream("host ", "dns", 0, "", 0, 0), Upstream(" ", "dns", 0, "", 0, 0),
           Upstream("999.0.0.1", "dns", 0, "", 0, 0), Upstream("host", "udp", 0, "", 0, 0),
           Upstream("host", "dot", 65536, "", 0, 0), Upstream("host", "dot", 0, ".", 0, 0),
           Upstream("2001:db8::1", " dot", 0, "host.", 0, 0) }

ServerPools ==
    { PoolOf(<<u>>) : u \in Servers }
    \cup { PoolOf(<<u, Upstream("host", "dot", 0, "", 0, 0)>>) : u \in Servers }
    \cup { PoolOf(<<Upstream("10.0.0.1", "dns", 53, "", 0, 0), u>>) : u \in Servers }

(* Three servers with weights and preferences that are set, not set, or the default. *)
Ranked(address, r) == Upstream(address, "dns", 0, "", r[1], r[2])

RankedPools ==
    LET Ranks == {<<0, 0>>, <<1, 100>>, <<2, 0>>, <<0, 1>>, <<1, 101>>}
    IN  { PoolOf(<<Ranked("u1", r), Ranked("u2", s), Ranked("u3", t)>>) :
              r \in Ranks, s \in Ranks, t \in Ranks }

(* One server with the other settings of a pool. *)
OtherPools ==
    { [PoolOf(<<Upstream("host", "dns", 0, "", 0, 0)>>) EXCEPT
          !.workerThreads = k, !.dnssec = d, !.deny = f, !.action = "NXDomain"] :
          k \in {-1, 256, 257}, d \in {"off", "validate", "strict"}, f \in {{}, {"domain"}} }
    \cup { PoolOf(<<>>) }

OnePool == PoolOf(<<Upstream("host", "dot", 0, "", 0, 0)>>)

MCPoolSpecs == {OnePool} \cup ServerPools \cup RankedPools \cup OtherPools

Profile(min, max, negative) ==
    [maxEntries |-> 0, ttlMin |-> min, ttlMax |-> max, negativeTtl |-> negative,
     prefetch |-> FALSE, threshold |-> 0]

(* Ranges that are in order only with, or only without, the defaults of 60 and 300. *)
MCProfileSpecs ==
    { Profile(0, 0, 0), Profile(301, 0, 0), Profile(0, 59, 0), Profile(120, 60, 0),
      Profile(300, 0, -1) }

(****************************************************************************)
(* The pool and the profile meet in Generate only.  So the whole history of *)
(* a profile is explored beside one pool, and beside each of the others no  *)
(* profile, and each of them as it has been created.                        *)
(****************************************************************************)
HistoryBesideOnePool ==
    pool = OnePool \/ (ops <= 1 /\ cache = None /\ faults = 0 /\ restarts = 0)
=============================================================================
