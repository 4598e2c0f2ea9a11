SPECIFICATION FairSpec
CONSTANTS
    lib = lib
    tag1 = tag1
    dev = dev
    testing = testing
    stable = stable
    Names = {lib}
    MaxBuilds = 2
    PackageOf <- AllLib
    TagOf <- OneTag
    Tags = {tag1}
    Primary = {dev, testing, stable}
    Released <- AllReleased
    Rank <- ByPrefix
    MaxJobs = 2
    Routes <- SomeRoutes
    MaxEvents = 1
INVARIANTS
    TypeOK
PROPERTIES
    NamesKept
    PromotionsEnd
CHECK_DEADLOCK FALSE
