SPECIFICATION FairSpec
CONSTANTS
    MaxSlotID = 1
    MaxGen = 1
    MaxRestarts = 2
INVARIANTS
    OneEndReported
PROPERTIES
    OneCompletionPerRunner
    EndedSlotIsFreed
