SPECIFICATION Spec
CONSTANTS
    MaxAge = 5
    Config <- FourInFour
INVARIANTS
    RollingThreshold
