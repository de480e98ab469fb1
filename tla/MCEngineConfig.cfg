\* Every pool beside each profile, and one pool beside a profile that is edited and re-created.
SPECIFICATION Spec
CONSTANTS
    Strings <- MCStrings
    TrimSpace <- MCTrimSpace
    ToLower <- MCToLower
    TrimSuffixDot <- MCTrimSuffixDot
    ParsesAsAddr <- MCParsesAsAddr
    LooksLikeIPv4 <- MCLooksLikeIPv4
    IsDNS1123Subdomain <- MCIsDNS1123Subdomain
    ValidateTemplateConfig <- MCValidateTemplateConfig
    NumCPU = 4
    None = None
    PoolSpecs <- MCPoolSpecs
    ProfileSpecs <- MCProfileSpecs
    MaxLives = 2
    MaxLag = 1
    MaxOps = 3
    MaxFaults = 1
    MaxRestarts = 1
CONSTRAINT HistoryBesideOnePool
INVARIANTS
    TypeOK
    SettledActiveIsTrue
    ValidPoolGenerates
    ValidPoolInOrder
    CheckedIsPublished
CHECK_DEADLOCK FALSE
