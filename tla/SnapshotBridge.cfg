SPECIFICATION FairSpec
CONSTANTS
    Capacity = 2
    MaxTick = 7
INVARIANTS
    IInv
PROPERTIES
    SentInOrder
    ZoneGoneEndsConnection
    NoThreadLeaks
    ImplementsBridge
CHECK_DEADLOCK FALSE
