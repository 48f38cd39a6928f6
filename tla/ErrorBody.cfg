SPECIFICATION Spec
CONSTANTS
    Bytes = {"x", "y"}
    MaxBody = 5
    BodyLimit = 8
    CaptureLimit = 2
    Marker <- OneMark
    Spare = {0, 2}
CHECK_DEADLOCK FALSE
INVARIANTS
    ErrorBodyDelivered
