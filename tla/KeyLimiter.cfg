SPECIFICATION FairSpec
CONSTANTS
    c1 = c1
    c2 = c2
    c3 = c3
    c4 = c4
    k1 = k1
    k2 = k2
    Calls = {c1, c2, c3, c4}
    Keys = {k1, k2}
    Limit = 2
INVARIANTS
    TypeOK
    SlotsAccounted
    NoIdleSlot
    DrainNeverBlocks
    BucketsExact
PROPERTIES
    ImplementsSlotPool
    AcquireReturns
