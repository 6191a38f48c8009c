SPECIFICATION FairSpec
CONSTANTS
    N = 2
    Accounts = {a1, a2}
    ZoneIds = {z1, zx}
    Zones = {z1}
    InboxCapacity = 1
    NoAccount = NoAccount
    NoZone = NoZone
INVARIANTS
    IInv
    RegistrationExact
    OnePlayingSession
    ConnectedIsPlaced
PROPERTIES
    ImplementsAccountLock
    EveryWaitEnds
    LostSessionFreesAccount
    GhostLeavesZone
CHECK_DEADLOCK FALSE
