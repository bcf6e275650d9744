SPECIFICATION FairSpec
CONSTANTS
    Version <- OldAndNew
    Files <- SomeFiles
INVARIANTS
    ReadyIsWanted
    SlotIsWanted
    TemplateIsWhole
PROPERTIES
    TreeSurvives
    ErrorKeepsTemplate
    Recovers
