SPECIFICATION Spec
CONSTANTS
    NumPools = 2
    MaxSlotID = 2
    HostMax = 2
    MinRunners <- WarmFirst
    MaxRunners <- OneAndTwo
    Boots <- FreshOrCrowded
    Failing = {}
    Dirty = {}
    Gated = FALSE
    MaxWipes = 1
PROPERTIES
    StartsBelowCeiling
