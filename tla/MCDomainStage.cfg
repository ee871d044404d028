SPECIFICATION FairSpec
CONSTANTS
    i1 = i1
    i2 = i2
    c1 = c1
    c2 = c2
    Inputs <- TwoInputs
    Contexts <- TwoContexts
    MaxConcurrency = 1
    MaxRuns = 2
CHECK_DEADLOCK FALSE
INVARIANTS
    GreenIsWhole
    DesignIsBacked
    StatusSurvives
PROPERTIES
    SettledStands
    RunSettles
