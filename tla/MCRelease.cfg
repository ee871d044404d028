SPECIFICATION MCSpec
CONSTANTS
    r1 = r1
    r2 = r2
    agent1 = agent1
    p1 = "P1"
    p2 = "P2"
    Contexts <- TheContexts
    Whole = Whole
    Filler = "FILLER"
    Runs = {r1, r2}
    Agents = {agent1}
    Percents = {50}
    Caps <- SomeCaps
    Healths <- SomeHealths
    Perfs <- SomePerfs
    Nobody = Nobody
    Human = Human
    MaxCharges = 3
SYMMETRY RunSymmetry
CHECK_DEADLOCK FALSE
INVARIANTS
    EveryVerdictIsSound
    RecordsSurvive
    TrafficIsWatched
    OverrunIsBounded
