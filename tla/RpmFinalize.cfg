SPECIFICATION FairSpec
CONSTANTS
    Attempts = {a1, a2}
    MaxRuns = 3
    TtlFirst = TRUE
    MaxFaults = 1
    None = None
INVARIANTS
    TypeOK
    OneSigner
    RegisteredIsStored
PROPERTIES
    UploadsEnd
CHECK_DEADLOCK FALSE
