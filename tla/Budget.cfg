SPECIFICATION Spec
CONSTANTS
    p1 = p1
    p2 = p2
    Never = Never
    Callers = {p1, p2}
    Hours = 2
    FetchTimeout = 1
    Limits <- TwoLimits
    Configs <- TwoConfigs
    Asks <- SomeAsks
    Catalogs <- SomeCatalogs
INVARIANTS
    ForwardedWithinCap
    CatalogFresh
PROPERTIES
    LogKept
    RecorderCatchesUp
