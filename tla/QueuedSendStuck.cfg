SPECIFICATION FairSpec
CONSTANTS
    NumMessages = 2
    Patient = TRUE
    TurnsSucceed = TRUE
    ShowsStarting = FALSE
    MaxCalls = 3
    MaxLosses = 0
    MaxExpiries = 1
    MaxMoves = 0
    MaxSuspends = 0
    MaxExits = 0
    MaxCrashes = 1
PROPERTY DispatchSettles
CHECK_DEADLOCK FALSE
