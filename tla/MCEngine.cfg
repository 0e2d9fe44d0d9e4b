SPECIFICATION FairSpec
CONSTANTS
    p1 = p1
    t1 = t1
    None = None
    Projects = {p1}
    Threads = {t1}
    Plans = {}
    CommandIds = {"project.create", "thread.create", "thread.turn.start"}
    Body <- MCBody
    NumProjectors = 2
    ReadLimit = 4
    Transactional = TRUE
    MaxRequests = 4
    MaxFaults = 1
    MaxCrashes = 1
    MaxUpgrades = 1
INVARIANT TypeOK
INVARIANT ReceiptsMatchLog
INVARIANT AppliedAtMostOnce
INVARIANT TurnStartIsWhole
INVARIANT AcceptedAnswersAreDurable
INVARIANT ProjectionsComplete
PROPERTY ImplementsCommandLog
PROPERTY EveryDispatchSettles
CHECK_DEADLOCK FALSE
