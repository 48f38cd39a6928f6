SPECIFICATION FairSpec
CONSTANTS
    a1 = a1
    a2 = a2
    p1 = p1
    p2 = p2
    Admins = {a1, a2}
    Main = Main
    Passwords = {p1, p2}
    DefaultPassword = p1
    Absent = Absent
    Empty = Empty
    Torn = Torn
    Bad = Bad
    Edits <- HandEdits
    KeyIds = {1, 2}
    MaxSaves = 2
    MaxFaults = 1
INVARIANTS
    TypeOK
    WholeUnlessOverlapped
    StaleSessionsExplained
PROPERTIES
    KeysDroppedOnPurpose
    StoreCatchesUp
