SPECIFICATION Spec
CONSTANTS
    r1 = r1
    r2 = r2
    Programs <- ThePrograms
    Billing <- TheBilling
    ProgramOf <- OfProgram
    NoProgram = 0
    SlugOf <- TheSlug
    Coverage = 103
    NoEpic = 0
    Capability = 104
    Words <- TheWords
    Items = {1, 2, 3}
    Needs <- TheNeeds
    Shells = {1, 2, 3}
    InPackages <- ThePackages
    TestFile <- TheTests
    Settings <- TheSettings
    RepairCap = 1
    PassCap = 2
CHECK_DEADLOCK FALSE
INVARIANT RepairIsScoped
