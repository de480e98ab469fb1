\* A pool is deleted and created anew while its key waits in the queue.
SPECIFICATION Spec
CONSTANTS
    Pools = {a, b}
    a = a
    b = b
    ns = ns
    None = None
    NoKey = NoKey
    NameRank <- MCNameRank
    Namespaces = {ns}
    NamespaceOf <- MCNamespaceOf
    PodNamespace = None
    WebhookEnabled = FALSE
    Specs = {"good1"}
    ValidSpecs <- MCValidSpecs
    BuildResult <- MCBuildResult
    Profiles = {}
    Gaps = {1}
    MaxLives = 2
    MaxLag = 2
    ConfigMapLag = FALSE
    MaxOps = 4
    MaxFaults = 0
    MaxRestarts = 0
INVARIANT
    SettledOldestIsActive
CHECK_DEADLOCK FALSE
