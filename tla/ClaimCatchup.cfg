SPECIFICATION ClaimsSpec
CONSTANTS
    main = main
    side = side
    a = a
    b = b
    c = c
    Branches = {main}
    Touches <- TwoAndOne
    Forced = {}
    Hooked = {main}
    Unseen = {}
    Backfill = 0
    JobCap = 2
    MaxFaults = 1
    NoBranch = NoBranch
PROPERTY CatchupHandlesTheRest
CHECK_DEADLOCK FALSE
