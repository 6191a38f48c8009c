SPECIFICATION FairSpec
CONSTANTS
    Configs <- MCConfigs
    Capacity = 3
    EntityInterval = 2
    MaxTicks = 2
    MaxPlayers = 1
INVARIANTS
    IInv
PROPERTIES
    FeedNeverGoesBack
    FeedCatchesUp
CHECK_DEADLOCK FALSE
