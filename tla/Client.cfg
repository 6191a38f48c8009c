SPECIFICATION FairSpec
CONSTANTS
    Modes = {"tui", "script"}
    MaxKeys = 4
    MaxLines = 2
    MaxId = 2
    MaxUntold = 1
    Nobody = Nobody
INVARIANTS
    IInv
PROPERTIES
    DeletedWasAsked
    ScriptGetsIn
    ScreenCatchesUp
CHECK_DEADLOCK FALSE
