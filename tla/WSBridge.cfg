SPECIFICATION FairSpec
CONSTANTS
    r1 = r1
    r2 = r2
    r3 = r3
    i1 = i1
    i2 = i2
    None = None
    Requests = {r1, r2, r3}
    Objects = {r1, r2}
    Ids = {i1, i2}
    id <- TwoShareAnId
INVARIANTS
    TableExact
    ConfirmedOnce
PROPERTIES
    AbortReleases
\* The requests are served once each, and the process may end.
CHECK_DEADLOCK FALSE
