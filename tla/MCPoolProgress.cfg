\* Fair scheduling, a fault and a restart: the storm of events, conflicts and retries ends.
\* Of two pools one builds and one is refused by the engine; one more user operation.
SPECIFICATION StartedFairSpec
CONSTANTS
    Pools = {a, b}
    a = a
    b = b
    ns = ns
    None = None
    NoKey = NoKey
    NameRank <- MCNameRank
    Namespaces = {ns}
    NamespaceOf <- MCNamespaceOf
    PodNamespace = None
    WebhookEnabled = FALSE
    Specs = {"good1", "doh"}
    ValidSpecs <- MCValidSpecs
    BuildResult <- MCBuildResult
    Profiles = {}
    Gaps = {0}
    MaxLives = 1
    MaxLag = 1
    ConfigMapLag = TRUE
    MaxOps = 1
    MaxFaults = 1
    MaxRestarts = 1
INVARIANT
    NoLostWork
PROPERTY
    ComesToRest
CHECK_DEADLOCK FALSE
