SPECIFICATION FairSpec
CONSTANTS
    lib = lib
    mid = mid
    app = app
    tool = tool
    old = old
    Packages = {lib, mid, old, app}
    LayerOf <- ThreeLayers
    Depth = 3
    Providers <- AppNeedsLib
    Elsewhere = {old}
    Infected = {app}
    Lossy = TRUE
    Users = {u1, u2}
    MaxOps = 2
    MaxFaults = 1
    None = None
INVARIANTS
    TypeOK
    OpenedAfterPublished
    SuccessIsBuilt
PROPERTIES
    CancelIsKept
    PlanSettles
CHECK_DEADLOCK FALSE
