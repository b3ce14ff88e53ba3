SPECIFICATION Spec
CONSTANTS
    e1 = e1
    ann = ann
    moon = moon
    cli = cli
    m1 = m1
    Entries = {e1}
    Actors = {ann, moon}
    Sessions = {cli, m1}
    SessionOf <- MCSessionOf
    Anonymous = {cli}
    Verdicts = {"confirmed"}
    TTL = 1
    ClaimTokens = TRUE
    LockExclusive = FALSE
    Mortal = {moon}
    MaxClaims = 2
    NoClaim = NoClaim
    NoResult = NoResult
    NoPin = NoPin
    Idle = Idle
INVARIANTS
    TypeOK
    RecordCoherent
    
PROPERTIES
    NoNewOrphans
    
    
