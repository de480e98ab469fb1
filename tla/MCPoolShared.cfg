\* As deployed, with POD_NAMESPACE: the pools of two namespaces share one ConfigMap.
SPECIFICATION Spec
CONSTANTS
    Pools = {a, b}
    a = a
    b = b
    ns = ns
    None = None
    NoKey = NoKey
    NameRank <- MCNameRank
    Namespaces = {"ns-a", "ns-b"}
    NamespaceOf <- MCNamespaceEach
    PodNamespace = "astradns-system"
    WebhookEnabled = TRUE
    Specs = {"good1", "good2"}
    ValidSpecs <- MCValidSpecs
    BuildResult <- MCBuildResult
    Profiles = {}
    Gaps = {1}
    MaxLives = 1
    MaxLag = 1
    ConfigMapLag = FALSE
    MaxOps = 3
    MaxFaults = 0
    MaxRestarts = 0
INVARIANT
    SettledReadyHasConfig
CHECK_DEADLOCK FALSE
