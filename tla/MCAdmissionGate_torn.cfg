SPECIFICATION Spec
CONSTANTS
    Record <- Records
    PoolOf <- Pools
    RefOf <- Refs
    Peak <- Peaks
    Sampled <- Samples
    Size <- Sizes
    OnDisk <- Former
    RotateLines = 9
    ReplayWindow = 5
    MaxTears = 1
    Slot = {s1, s2}
    Samplings = {1}
    Limits = {9}
    MaxQueuedRefs = 2
    MaxHints = 2
    MaxTroubles = 1
INVARIANTS
    TornLineCostsNothing
SYMMETRY Places
