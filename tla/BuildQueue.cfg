SPECIFICATION MCSpec
CONSTANTS
    w1 = w1
    w2 = w2
    j1 = j1
    j2 = j2
    Jobs = {j1, j2}
    Workers = {w1, w2}
    Admins = {a1}
    Sweeper = sweeper
    MaxAttempts = 2
    MaxParallel <- TwoAndOne
    TwoPass = {j2}
    Verdicts <- MCVerdicts
    Wakes <- FirstWakesSecond
    MaxOps = 1
    MaxFaults = 1
    None = None
INVARIANTS
    TypeOK
    OneRunningAttempt
    WithinCapacity
    FinalizedHasEnded
    SuccessHasPackages
PROPERTIES
    ImplementsLeases
    EventuallySettled
    SuccessIsGated
CHECK_DEADLOCK FALSE
