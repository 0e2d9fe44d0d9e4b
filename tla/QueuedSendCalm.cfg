SPECIFICATION Spec
CONSTANTS
    NumMessages = 4
    Patient = TRUE
    TurnsSucceed = FALSE
    ShowsStarting = FALSE
    MaxCalls = 4
    MaxLosses = 0
    MaxExpiries = 0
    MaxMoves = 1
    MaxSuspends = 0
    MaxExits = 1
    MaxCrashes = 0
INVARIANT OneTurnPerMessage
INVARIANT BarrierHolds
INVARIANT CancelledNeverRuns
INVARIANT NotOvertaken
CHECK_DEADLOCK FALSE
