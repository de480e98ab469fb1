\* Same-second creations, re-creation and lagging caches of pools and ConfigMap.
SPECIFICATION Spec
CONSTANTS
    Pools = {a, b}
    a = a
    b = b
    ns = ns
    None = None
    NoKey = NoKey
    NameRank <- MCNameRank
    Namespaces = {ns}
    NamespaceOf <- MCNamespaceOf
    PodNamespace = None
    WebhookEnabled = FALSE
    Specs = {"good1", "good2"}
    ValidSpecs <- MCValidSpecs
    BuildResult <- MCBuildResult
    Profiles = {}
    Gaps = {0}
    MaxLives = 2
    MaxLag = 1
    ConfigMapLag = TRUE
    MaxOps = 3
    MaxFaults = 0
    MaxRestarts = 0
INVARIANTS
    TypeOK
    NoLostWork
    SettledReadyWasPublished
    SettledSolePoolReady
PROPERTY
    ImplementsBreaker
CHECK_DEADLOCK FALSE
