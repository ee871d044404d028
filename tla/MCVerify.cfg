SPECIFICATION Spec
CONSTANTS
    r1 = r1
    r2 = r2
    r3 = r3
    s1 = s1
    s2 = s2
    same = same
    differs = differs
    permuted = permuted
    left = left
    right = right
    Requests <- ThreeRequests
    Stories <- TwoStories
    Backlogs <- SomeBacklogs
    Bodies <- ThreeBodies
    Matching <- OnlySame
    Slices <- TwoSlices
    Parts <- SomeParts
    MaxRepair = 1
SYMMETRY Symmetry
CHECK_DEADLOCK FALSE
INVARIANTS
    WritesInTurn
    GreenIsMeasured
    SomeoneProceeds
