SPECIFICATION WakeupSpec
CONSTANTS
    NumPools = 2
    MaxSlotID = 1
    HostMax = 2
    MinRunners <- NoFloor
    MaxRunners <- OneEach
    Boots <- Fresh
    Failing = {1}
    Dirty = {}
    Gated = FALSE
    MaxWipes = 1
PROPERTIES
    WakeupsSuffice
