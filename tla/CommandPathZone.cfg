SPECIFICATION Spec
CONSTANTS
    N = 2
    Zones = {1, 2}
    ZoneIds = {1, 2, 3}
    InboxCapacity = 1
    Threads = 2
    MaxMoves = 2
    NoZone = NoZone
    NoCommand = NoCommand
CHECK_DEADLOCK FALSE
INVARIANTS
    MovesReachOwnZone
