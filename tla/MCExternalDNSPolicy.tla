------------------------ MODULE MCExternalDNSPolicy ------------------------
(****************************************************************************)
(* ExternalDNSPolicyController for TLC: policies that select the namespace  *)
(* n or both n and m, with or without a cache profile.                      *)
(****************************************************************************)
EXTENDS ExternalDNSPolicyController, TLC

CONSTANTS n, m, pool, profile

Plain(selector) ==
    [selector |-> selector, pool |-> pool, profile |-> None, flaw |-> None]

SpecsShared == { Plain({n}), Plain({m, n}) }

SpecsRefs == { Plain({n}), [Plain({n}) EXCEPT !.profile = profile],
               [Plain({n}) EXCEPT !.flaw = "cacheProfileRef"] }

Symmetry == Permutations(Policies)
=============================================================================
