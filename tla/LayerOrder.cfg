SPECIFICATION FairSpec
CONSTANTS
    Packages = {1, 2, 3, 4}
    SeedSets <- SomeSeeds
    Chains <- SomeChains
    MaxOthers = 1
INVARIANTS
    TypeOK
    ProvidersFirst
    TreeIsLayered
    EndsReal
PROPERTIES
    OrderEnds
CHECK_DEADLOCK FALSE
