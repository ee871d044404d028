SPECIFICATION FairBlueprint
CONSTANTS
    f1 = f1
    f2 = f2
    Ids = {f1, f2}
    Ghost = 0
    MapPreview = 2
    None = None
    Graphs <- SomeGraphs
    Settings <- SomeSettings
    Drafts <- SomeDrafts
    Answers <- SomeAnswers
    MaxRuns = 2
CHECK_DEADLOCK FALSE
INVARIANTS
    SavedIsBest
    NothingDropped
PROPERTIES
    BlueprintEnds
