SPECIFICATION Spec
CONSTANTS
    p1 = p1
    p2 = p2
    slot = slot
    cmd = cmd
    Absent = Absent
    Idle = Idle
    None = None
    Torn = Torn
    Unpriced = Unpriced
    Root = Root
    Unheld = Unheld
    Unclaimed = Unclaimed
    Gone = Gone
    Nobody = Nobody
    Partial = Partial
    Fork = Fork
    Slots = {p1, p2}
    Debt = {p2}
    RunIds = {1}
    MaxTouches = 1
    MaxTricks = 1
    MaxRuns = 2
    Names = {slot}
    Pools = {p1, p2}
    Holder <- OneIteration
    MaxWork = 2
    SessionRows = {r1, r2}
    FileNames = {e1, m1}
    MemoPaths = {m1}
    MaxEdits = 2
    Dirs = {"a", "b"}
    MemoFiles = {"f"}
    Entries = {1, 2}
    Movers = {p1}
    MayOverlap = FALSE
    MaxMemos = 2
    MaxRev = 2
    Importers = {p1, p2}
    MaxTouched = 1
    EntryIds = {1, 2, 3}
    Procs = {p1, p2}
    MaxDepth = 2
    MaxChildren = 1
    Stagnation = 1
    MaxChanges = 1
    Projects = {"p"}
    MaxId = 2
    Foreign = 1
    Ingesters = {p1, p2}
    MaxReceived = 2
    Judged = {1}
    Lessons = {"s"}
    Distillers = {p1, p2}
    MaxTicks = 2
    MaxMoved = 2
    Resources = {"entries", "runs", "clock"}
    Docs = {"graph"}
    Reads <- DocReads
    Browsers = {slot}
    Servers = {p1, p2}
    Verbs = {cmd}
    LogSize = 1
    MaxWrites = 2
    Candidates = {1, 2, 3, 4}
    ParentOf <- Parents
    Derived = {}
    MechanismsOf <- Mechanisms
    Context <- Contexts
    Estimates <- Priced
    FiledAt <- AllLikely
    Remaining = 2
    MinCalibration = 1
    Risk = 3
    FanOuts = {1, 2, 3}
    MaxEvents = 2
    MaxVetoes = 1
    Unranked = Unranked
    Configs = {"a", "b"}
    Outside <- OutsideRuns
    Measurements <- AllRuns
    Target = 5
    Judges = {"p"}
    Grouped = TRUE
    GainFloor = 1
    Factor = 2
    Cap = 2
    ConfirmRuns = 2
    MaxRows = 3
    MaxEpoch = 1
    MaxPromoted = 1
    Classes = {"a", "b"}
    Prices = {1, 3}
    Ratios = {0, 1, 2}
    Needs = {1, 4}
    Rates = {0, 1}
    Hours = {0, 2}
    Ceilings = {1, 3}
    Memories = {2, 4}
    Threshold = 2
    Base = 1
    PerUnit = 1
    BoardNames = {"a", "b"}
    Yukon = {"b"}
    Bar = 0
    Loop = "loop"
    People = {"ann"}
    RefreshAge = 1
    Ttl = 1
    MaxClock = 2
    MaxMoves = 1
    MaxPush = 2
    Problems = {"v", "w"}
    Faults <- Validation
    Named = FALSE
    MaxHandEdits = 2
    Threads = {p1, p2}
    Commands = {cmd}
    Typesafe = ts
    SpendCeiling = 2
    MaxCost = 1
    Retries = 2
    MaxAsks = 5
    RuleLists = {{"a"}, {"b"}}
    Amounts = {1, 2}
    Currencies = {"USD", "EUR"}
    DefaultCurrency = "USD"
    Releases = {1, 2}
    Broken = Wrong
    TurnedDown = Denied
    Cards = {1, 2}
    Coords = {"a", "b"}
    Fanout = 2
    Spawns = 2
    Every = 2
    MaxN = 2
    MaxStamp = 2
    Single = "a"
    Shared = {1}
    MaxShared = 1
    Metered = {1, 2}
    MeteredRuns = {1, 2, 3}
    Owner <- RunOwner
    Appenders = {"p"}
    RunCeiling = 4
    ClaimCeiling = 3
    MoneyCeiling = 1
    MaxRecords = 1
    MaxUsage = 2
    MaxPaid = 1
    Hand = 0
CHECK_DEADLOCK FALSE
INVARIANTS
    TypeOK
    SiblingCapHeld
    
    NoDeadWork
    TotalsExact
    
    
    LedgerProven
    ReproducedStands
    
    
    UpgradeSafe
    
    TargetFollowsBoard
    ReadersCurrent
    RentsTheCheapestThatPays
    
PROPERTY OneVerdict
