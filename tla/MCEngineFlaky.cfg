SPECIFICATION Spec
CONSTANTS
    p1 = p1
    t1 = t1
    None = None
    Projects = {p1}
    Threads = {t1}
    Plans = {}
    CommandIds = {"project.create", "thread.create", "create again", "thread.turn.start",
                  "thread.archive", "thread.unarchive"}
    Body <- MCBody
    NumProjectors = 2
    ReadLimit = 2
    Transactional = FALSE
    MaxRequests = 4
    MaxFaults = 1
    MaxCrashes = 1
    MaxUpgrades = 0
INVARIANT ReadModelIsReplay
INVARIANT PublishedInLogOrder
INVARIANT LifecycleRespected
CHECK_DEADLOCK FALSE
