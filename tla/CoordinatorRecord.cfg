SPECIFICATION CoordSpec
CONSTANTS
    Cards = {1, 2}
    Coords = {"a", "b"}
    Fanout = 2
    Spawns = 2
    Every = 2
    MaxN = 2
    MaxStamp = 2
    None = None
CHECK_DEADLOCK FALSE
PROPERTY RecordsKept
