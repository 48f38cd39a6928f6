SPECIFICATION FairSpec
CONSTANTS
    r1 = r1
    r2 = r2
    s1 = s1
    Requests = {r1, r2}
    Sessions = {s1}
    SessionOf <- SharedSession
    KeyIds = {1, 2}
    MaxAge = 2
    Configs <- TwoConfigs
    KeyFiles <- ThreeFiles
INVARIANTS
    TypeOK
    LeasesAccounted
    NoLostWakeup
PROPERTIES
    GrantsWithinLimit
    StickyKept
    RequestAnswered
