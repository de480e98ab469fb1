\* A policy is deleted while the namespace cache does not show its annotation yet.
SPECIFICATION Spec
CONSTANTS
    n = n
    m = m
    pool = pool
    profile = profile
    None = None
    Policies = {p}
    Namespaces = {n, m}
    UpstreamPools = {pool}
    CacheProfiles = {}
    Specs <- SpecsShared
    MaxLives = 1
    MaxLag = 2
    MaxOps = 2
    MaxFaults = 0
    MaxRestarts = 0
INVARIANT
    SettledNoOrphan
CHECK_DEADLOCK FALSE
