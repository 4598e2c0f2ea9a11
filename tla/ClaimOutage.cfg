SPECIFICATION FairSpec
CONSTANTS
    Attempts = {a1}
    MaxRuns = 2
    TtlFirst = FALSE
    MaxFaults = 1
    None = None
PROPERTY OutageIsSurvived
CHECK_DEADLOCK FALSE
