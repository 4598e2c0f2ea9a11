SPECIFICATION ClaimsSpec
CONSTANTS
    w1 = w1
    j1 = j1
    Jobs = {j1}
    Workers = {w1}
    Admins = {a1, a2}
    Sweeper = sweeper
    MaxAttempts = 2
    MaxParallel <- Capacity
    TwoPass = {}
    Wakes <- NoWakes
    MaxOps = 2
    MaxFaults = 1
    Verdicts <- Builds
    None = None
INVARIANT RepairRestoresSuccess
CHECK_DEADLOCK FALSE
