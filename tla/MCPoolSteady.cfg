\* Pools created in different seconds and once each, a ConfigMap cache that keeps up.
SPECIFICATION Spec
CONSTANTS
    Pools = {a, b}
    a = a
    b = b
    ns = ns
    None = None
    NoKey = NoKey
    NameRank <- MCNameRank
    Namespaces = {ns}
    NamespaceOf <- MCNamespaceOf
    PodNamespace = None
    WebhookEnabled = FALSE
    Specs = {"good1", "doh", "dup", "huge"}
    ValidSpecs <- MCValidSpecs
    BuildResult <- MCBuildResult
    Profiles = {"profile"}
    Gaps = {1}
    MaxLives = 1
    MaxLag = 1
    ConfigMapLag = FALSE
    MaxOps = 4
    MaxFaults = 0
    MaxRestarts = 0
INVARIANTS
    PublishedRenders
    SettledReadyIsValid
    SettledReadyIsServed
    SettledOldestIsActive
    SettledSupersededByActive
    SettledMetricIsTrue
    SettledNoPoolNoKey
CHECK_DEADLOCK FALSE
