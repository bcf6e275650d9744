SPECIFICATION Spec
CONSTANTS
    MaxLaunches = 2
    MaxInbox = 3
    InOrder = TRUE
INVARIANTS
    TypeOK
    OneGroup
PROPERTIES
    HonoursContract
    StopEnds
    ExitIsConfirmed
