CONSTANTS
    s1 = s1
    s2 = s2
    s3 = s3
    s4 = s4
    Stories <- FourStories
    DependsOn <- Knot
    MaxAttempts = 3
    Pool = 4
    MaxDraw = 1
    MaxConcurrency = 2
    Resumes = {FALSE, TRUE}
    FlakyCommits = FALSE
    MaxJobs = 2
SPECIFICATION FairSpec
INVARIANTS
    DependencyOrder
    RetriesAreBounded
PROPERTIES
    DoneIsEarned
    BuildSettles
CHECK_DEADLOCK FALSE
