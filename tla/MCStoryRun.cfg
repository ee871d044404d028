CONSTANTS
    Modes <- TestedModes
    MaxRepair = 1
    MaxTokens = 1
    MaxDraw = 1
    MaxPasses = 2
    MaxBuilds = 2
SPECIFICATION FairSpec
INVARIANTS
    RecordsAreTrue
    NothingStale
    TokenOverrun
PROPERTIES
    StoryReturns
CHECK_DEADLOCK FALSE
