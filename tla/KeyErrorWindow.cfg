SPECIFICATION Spec
CONSTANTS
    MaxAge = 5
    Config <- FourInFour
INVARIANTS
    TypeOK
    TwoWindowsBound
PROPERTIES
    BackoffNeedsThreshold
    BackoffNotExtended
