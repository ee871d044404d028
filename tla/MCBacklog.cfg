SPECIFICATION FairSpec
CONSTANTS
    r1 = r1
    r2 = r2
    r3 = r3
    s1 = s1
    T1 = T1
    T2 = T2
    p = p
    q = q
    ghost = ghost
    e1 = e1
    e2 = e2
    None = None
    TopUp = "top-up"
    IdPart <- Slugs
    Inputs <- AllInputs
    Settings <- SomeSettings
    StoryAnswers <- SomeStories
    WholeAnswers <- SomeWholes
    MinEpics = 3
    MaxConcurrency = 1
    MaxTopUps = 3
    NoProgressLimit = 2
    MaxRuns = 2
CHECK_DEADLOCK FALSE
INVARIANTS
    BacklogMatchesLedger
    RequirementsAreKept
PROPERTIES
    StageSpec
    RunSettles
