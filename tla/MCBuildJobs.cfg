SPECIFICATION FairBuilds
CONSTANTS
    s1 = s1
    s2 = s2
    a1 = a1
    Stories = {s1, s2}
    AcIds <- Criteria
    Modes = {"story", "legacy_slice"}
    Havings <- SomeHavings
    RepairAttempts = 1
    MaxPosts = 2
CHECK_DEADLOCK FALSE
INVARIANTS
    PassedIsReferenced
PROPERTIES
    NothingLost
    BuildEnds
