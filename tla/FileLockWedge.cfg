SPECIFICATION FairSpec
CONSTANTS
    p1 = p1
    p2 = p2
    p3 = p3
    alice = alice
    bob = bob
    Procs <- MCProcs
    Names <- MCNames
    HolderName <- MCHolderName
    Timeout = 1
    StaleAfter = 2
    MaxHold = 1
    MaxCrashes = 1
    NoFile = NoFile
PROPERTY CrashedLockRecovers
