SPECIFICATION Spec
CONSTANTS
    p1 = p1
    p2 = p2
    p3 = p3
    moon = moon
    sun = sun
    e1 = e1
    i1 = i1
    i2 = i2
    Entries = {e1}
    Ids = {i1, i2}
    Procs = {p1, p2, p3}
    Sessions = {moon, sun}
    SessionOf <- MCSessionOf
    Verdicts = {"confirmed"}
    MaxParallel = 1
    MaxClaims = 2
    Free = Free
    NoJob = NoJob
    NoRow = NoRow
    NoClaim = NoClaim
    None = None
SYMMETRY MCSymmetry
CHECK_DEADLOCK FALSE
INVARIANTS
    TypeOK
    SlotCeiling
    ReceiptsAgree
PROPERTIES
    EndsOwnClaimOnly
    CompletedStays
