SPECIFICATION FairSpec
CONSTANTS
    CellSize = 2
    PlayerIds = {1}
    ZoneId = 1
    Partition = 1000000
    MaxSpawned = 3
    Handles = {1, 2, 3}
    Reach = 9
    Area <- Row
    Entries <- Center
    Aoi = 1
    Directions <- Still
    Speeds = {1}
    MaxSpeed = 2
    NumSpawns = 2
    SpawnPos <- AtOrigin
    WanderRadius <- RadiusThree
    RespawnTicks <- TwoTicks
    MoveSpeed <- ThreeOrFour
    Wanders = {1, 2}
    Pauses = {2}
    Dt = 2
    NewTarget <- TargetSentinel
    NewPause <- PauseSentinel
    Arrival = 2
    Forever = Forever
    NoSpawn = NoSpawn
    NoTarget = NoTarget
INVARIANTS
    WanderersStayNear
    CreaturesKept
PROPERTIES
    DeadReturn
    WanderersArrive
    HungUpLeave
CHECK_DEADLOCK FALSE
