\* A pool is edited and edited back while the ConfigMap cache lags.
SPECIFICATION Spec
CONSTANTS
    Pools = {a}
    a = a
    b = b
    ns = ns
    None = None
    NoKey = NoKey
    NameRank <- MCNameRank
    Namespaces = {ns}
    NamespaceOf <- MCNamespaceOf
    PodNamespace = None
    WebhookEnabled = FALSE
    Specs = {"good1", "good2"}
    ValidSpecs <- MCValidSpecs
    BuildResult <- MCBuildResult
    Profiles = {}
    Gaps = {1}
    MaxLives = 1
    MaxLag = 1
    ConfigMapLag = TRUE
    MaxOps = 3
    MaxFaults = 0
    MaxRestarts = 0
INVARIANT
    SettledReadyIsServed
CHECK_DEADLOCK FALSE
