SPECIFICATION Spec
CONSTANTS
    A = A
    A2 = A2
    B = B
    f = f
    g = g
    p = p
    s1 = s1
    s2 = s2
    ghost = ghost
    None = None
    Names <- ThreeNames
    Resources <- TwoResources
    SlugOf <- Slugs
    Inputs <- SomeInputs
    Settings <- SomeSettings
    Answers <- SomeAnswers
    MaxConcurrency = 1
    MaxAttempts = 2
    Approvable <- DecidedGate
    MaxRuns = 2
CHECK_DEADLOCK FALSE
INVARIANTS
    DesignIsOfItsRun
    DoneIsWhole
    FallbackIsSound
