\* Two pools are created within one second, past a webhook whose cache lags.
SPECIFICATION Spec
CONSTANTS
    Pools = {a, b}
    a = a
    b = b
    ns = ns
    None = None
    NoKey = NoKey
    NameRank <- MCNameRank
    Namespaces = {ns}
    NamespaceOf <- MCNamespaceOf
    PodNamespace = None
    WebhookEnabled = TRUE
    Specs = {"good1"}
    ValidSpecs <- MCValidSpecs
    BuildResult <- MCBuildResult
    Profiles = {}
    Gaps = {0}
    MaxLives = 1
    MaxLag = 1
    ConfigMapLag = FALSE
    MaxOps = 2
    MaxFaults = 0
    MaxRestarts = 0
INVARIANT
    SettledSupersededByActive
CHECK_DEADLOCK FALSE
