\* Two policies, two namespaces: conflicts, edits, re-creations, failing calls, lagging caches.
SPECIFICATION Spec
SYMMETRY Symmetry
CONSTANTS
    n = n
    m = m
    pool = pool
    profile = profile
    None = None
    Policies = {p, q}
    Namespaces = {n, m}
    UpstreamPools = {pool}
    CacheProfiles = {}
    Specs <- SpecsShared
    MaxLives = 2
    MaxLag = 1
    MaxOps = 3
    MaxFaults = 1
    MaxRestarts = 0
INVARIANTS
    TypeOK
    SettledValidatedIsEnforced
    SettledFreePolicyValidated
    ClearedBeforeGone
CHECK_DEADLOCK FALSE
