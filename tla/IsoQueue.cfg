SPECIFICATION FairSpec
CONSTANTS
    i1 = i1
    i2 = i2
    dvd = dvd
    Isos = {i1, i2}
    NameOf <- OneName
    Workers = {w1, w2}
    Slots <- TwoSlots
    MaxBuilds = 3
    MaxCancels = 1
    MaxFaults = 1
    Nobody = Nobody
INVARIANTS
    TypeOK
    SuccessIsStored
PROPERTIES
    IsoEnds
CHECK_DEADLOCK FALSE
