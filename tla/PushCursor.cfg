SPECIFICATION FairSpec
CONSTANTS
    main = main
    side = side
    a = a
    b = b
    c = c
    Branches = {main, side}
    Touches <- TwoAndOne
    Forced <- OnSide
    Hooked = {main}
    Unseen = {main}
    Backfill = 0
    JobCap = 2
    MaxFaults = 1
    NoBranch = NoBranch
INVARIANTS
    TypeOK
    NothingSkipped
    CapKept
PROPERTIES
    ChangesAreBuilt
CHECK_DEADLOCK FALSE
