SPECIFICATION Spec
CONSTANTS
    MaxSlotID = 2
    MaxGen = 2
    MaxRestarts = 1
INVARIANTS
    WorkersOwnTheirSlot
    NoWipeUnderRunner
    RunnerKeepsItsFiles
    RunnersAreTracked
    ExitedIsNotLive
    ClaimedStaysBusy
PROPERTIES
    StopSparesClaimed
CHECK_DEADLOCK TRUE
VIEW SafetyView
