SPECIFICATION FairSpec
CONSTANTS
    N = 2
    Zones = {1, 2}
    ZoneIds = {1, 2}
    InboxCapacity = 1
    Threads = 2
    MaxMoves = 2
    NoZone = NoZone
    NoCommand = NoCommand
INVARIANTS
    IInv
    RevokedStaysOut
PROPERTIES
    PlayersMovesApply
    NoSendBlocksForever
CHECK_DEADLOCK FALSE
