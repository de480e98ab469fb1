\* Fair scheduling, a fault and a restart: no work is lost, deletions end, the operator rests.
SPECIFICATION FairSpec
CONSTANTS
    n = n
    m = m
    pool = pool
    profile = profile
    None = None
    Policies = {p, q}
    Namespaces = {n}
    UpstreamPools = {pool}
    CacheProfiles = {profile}
    Specs <- SpecsRefs
    MaxLives = 2
    MaxLag = 1
    MaxOps = 2
    MaxFaults = 1
    MaxRestarts = 1
INVARIANT
    NoLostWork
PROPERTIES
    DeletedPolicyGoes
    ComesToRest
CHECK_DEADLOCK FALSE
