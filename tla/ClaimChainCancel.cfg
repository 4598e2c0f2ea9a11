SPECIFICATION Spec
CONSTANTS
    lib = lib
    mid = mid
    app = app
    tool = tool
    old = old
    Packages = {lib, mid}
    LayerOf <- TwoLayers
    Depth = 2
    Providers <- NoProviders
    Elsewhere = {}
    Infected = {}
    Lossy = TRUE
    Users = {u1}
    MaxOps = 1
    MaxFaults = 1
    None = None
INVARIANTS
    CancelStopsAllJobs
CHECK_DEADLOCK FALSE
