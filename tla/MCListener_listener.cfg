SPECIFICATION Spec
CONSTANTS
    p1 = p1
    p2 = p2
    Pool <- Pools
    Min <- MinRunners
    Max <- MaxRunners
    MaxAssigned = 2
    MaxChanges = 2
    MaxTroubles = 2
    MaxBoots = 2
INVARIANTS
    ReadyMeansConnected
    SessionsAreClosed
PROPERTIES
    DesiredFollows
    ReadyIsSent
    ShutdownEnds
CHECK_DEADLOCK FALSE
