SPECIFICATION WakeupSpec
CONSTANTS
    NumPools = 2
    MaxSlotID = 2
    HostMax = 1
    MinRunners <- NoFloor
    MaxRunners <- OneEach
    Boots <- FreshOrCrowded
    Failing = {0}
    Dirty = {0}
    Gated = TRUE
    MaxWipes = 1
INVARIANTS
    Ceiling
PROPERTIES
    StaleTrimIsRevisited
    GrantsBelowCeiling
    DemandIsServed
    NoPoolStarves
    NudgesSuffice
