SPECIFICATION Spec
CONSTANTS
    w1 = w1
    w2 = w2
    w3 = w3
    loop = loop
    cli = cli
    Writers <- MCWriters
    Procs <- MCProcs
    ProcOf <- MCProcOf
    MaxId = 3
    MaxOps = 1
    Filed = {1}
    NoRecord = NoRecord
    Unread = Unread
    Free = Free
SYMMETRY MCSymmetry
CHECK_DEADLOCK FALSE
INVARIANTS
    TypeOK
    AckedEditsPersist
PROPERTIES
    NoLostUpdateUnrefreshed
    RefusalIsReal
