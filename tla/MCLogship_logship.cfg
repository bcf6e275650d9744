SPECIFICATION Spec
CONSTANTS
    Worker = {w1, w2}
    MaxFiles = 2
    MaxAge = 1
    MaxBytes = 2
    MaxTime = 2
    MaxShips = 2
    MaxCrashes = 1
INVARIANTS
    PublishedIsWhole
    RetentionHolds
    NothingStranded
PROPERTIES
    ShippingEnds
CHECK_DEADLOCK FALSE
