SPECIFICATION Spec
CONSTANTS
    w1 = w1
    w2 = w2
    w3 = w3
    loop = loop
    cli = cli
    Writers <- MCTwoWriters
    Procs <- MCProcs
    ProcOf <- MCTwoProcOf
    MaxId = 3
    MaxOps = 1
    Filed = {1}
    NoRecord = NoRecord
    Unread = Unread
    Free = Free
CHECK_DEADLOCK FALSE
PROPERTY NoLostUpdate
