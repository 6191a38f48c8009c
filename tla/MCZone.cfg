SPECIFICATION Spec
CONSTANTS
    CellSize = 2
    PlayerIds = {2, 3}
    ZoneId = 1
    Partition = 1000000
    MaxSpawned = 2
    Handles = {1, 2, 3}
    Reach = 2
    Area <- Row
    Entries <- Row
    Aoi = 1
    Directions <- Axes
    Speeds = {1, 3}
    MaxSpeed = 2
    NumSpawns = 1
    SpawnPos <- AtOrigin
    WanderRadius <- RadiusZero
    RespawnTicks <- TwoTicks
    MoveSpeed <- SpeedTwo
    Wanders = {1}
    Pauses = {1}
    Dt = 2
    NewTarget <- TargetSentinel
    NewPause <- PauseSentinel
    Arrival = 2
    Forever = Forever
    NoSpawn = NoSpawn
    NoTarget = NoTarget
INVARIANTS
    IInv
    SnapshotExact
PROPERTIES
    ImplementsEntityTable
CHECK_DEADLOCK FALSE
