CONSTANTS
    c1 = c1
    c2 = c2
    k1 = k1
    Callers <- TwoCallers
    Keys <- OneKey
    MaxRuns = 3
    StaleAfter = 1
SPECIFICATION FairSpec
INVARIANTS
    OverlapOnlyWhenStale
PROPERTIES
    SlotSpec
    NeverWedged
