SPECIFICATION Spec
CONSTANTS
    MaxSlotID = 1
    MaxGen = 1
    MaxRestarts = 0
INVARIANTS
    AcceptedClaimIsBusy
