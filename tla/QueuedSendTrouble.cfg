SPECIFICATION Spec
CONSTANTS
    NumMessages = 2
    Patient = FALSE
    TurnsSucceed = FALSE
    ShowsStarting = TRUE
    MaxCalls = 3
    MaxLosses = 1
    MaxExpiries = 1
    MaxMoves = 1
    MaxSuspends = 1
    MaxExits = 1
    MaxCrashes = 1
INVARIANT TypeOK
INVARIANT NothingLost
CHECK_DEADLOCK FALSE
