SPECIFICATION FairSpec
CONSTANTS
    e1 = e1
    i1 = i1
    ann = ann
    moon = moon
    cli = cli
    m1 = m1
    NoClaim = NoClaim
    NoResult = NoResult
    NoPin = NoPin
    Idle = Idle
    Free = Free
    NoJob = NoJob
    NoRow = NoRow
    None = None
CHECK_DEADLOCK FALSE
PROPERTIES
    AbandonedClaimsFreed
    AppliedSettles
