SPECIFICATION FairSpec
CONSTANTS
    NumMessages = 3
    Patient = FALSE
    TurnsSucceed = TRUE
    ShowsStarting = FALSE
    MaxCalls = 4
    MaxLosses = 1
    MaxExpiries = 0
    MaxMoves = 0
    MaxSuspends = 0
    MaxExits = 0
    MaxCrashes = 0
PROPERTY QueueDrains
CHECK_DEADLOCK FALSE
