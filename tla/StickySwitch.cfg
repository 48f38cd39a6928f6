SPECIFICATION StickySpec
CONSTANTS
    r1 = r1
    r2 = r2
    s1 = s1
    s2 = s2
    Requests = {r1, r2}
    Sessions = {s1, s2}
    SessionOf <- OwnSession
    KeyIds = {1, 2}
    MaxAge = 2
    Configs <- ShortWindow
    KeyFiles <- BothKeys
PROPERTIES
    WaitsBeforeSwitch
