SPECIFICATION GatewaySpec
CONSTANTS
    r1 = r1
    r2 = r2
    s1 = s1
    s2 = s2
    c1 = c1
    c2 = c2
    ck = ck
    Requests = {r1, r2}
    Sessions = {s1, s2}
    SessionOf <- OwnSession
    Clients = {c1, c2}
    ClientKeys = {ck}
    KeyOf <- SharedKey
    KeyIds = {1}
    MaxAge = 2
    Configs <- TwoLimits
    KeyFiles <- TwoModes
SYMMETRY AlikeClients
INVARIANTS
    LegacyAccounted
    LegacyNoLostWakeup
    NoLostWakeup
PROPERTIES
    ImplementsKeyUse
