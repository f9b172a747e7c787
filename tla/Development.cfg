SPECIFICATION Spec
CONSTANTS
    Contents <- MCContents
    MaxWrites = 2
    MaxLoads = 3
    MaxRunning = 2
    Texts <- MCTexts
    Tracked = {1}
    MaxEdits = 1
    MaxProcs = 3
CHECK_DEADLOCK FALSE
INVARIANTS
    ServedSound
    StatusHonest
    UserLinesKept
    
    NoRestartLoop
PROPERTIES
    ClosedStays
    EditsTakenUp
