SPECIFICATION Spec
CONSTANTS
    NumMessages = 2
    Patient = TRUE
    TurnsSucceed = TRUE
    ShowsStarting = FALSE
    MaxCalls = 3
    MaxLosses = 1
    MaxExpiries = 0
    MaxMoves = 0
    MaxSuspends = 0
    MaxExits = 0
    MaxCrashes = 0
INVARIANT OneTurnPerMessage
CHECK_DEADLOCK FALSE
