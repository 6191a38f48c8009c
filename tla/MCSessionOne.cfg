SPECIFICATION Spec
CONSTANTS
    N = 2
    Accounts = {a1}
    ZoneIds = {z1}
    Zones = {z1}
    InboxCapacity = 1
    NoAccount = NoAccount
    NoZone = NoZone
INVARIANTS
    OneSessionPerAccount
CHECK_DEADLOCK FALSE
