SPECIFICATION MCSpec
CONSTANTS
    Jobs = {1}
    MaxAttempts = 2
    JobOf <- Rebuilt
    Files = {1, 2}
    NameOf <- OnePackage
    Infected = {1}
    ScanLimit = 1
    MaxFaults = 1
    None = None
INVARIANTS
    TypeOK
    SuccessIsPublished
    InfectedIsHeld
PROPERTIES
    SuccessIsFinal
    ImplementsPublication
    TasksEnd
    ScansEnd
CHECK_DEADLOCK FALSE
