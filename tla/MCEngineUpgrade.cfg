SPECIFICATION Spec
CONSTANTS
    p1 = p1
    t1 = t1
    None = None
    Projects = {p1}
    Threads = {t1}
    Plans = {}
    CommandIds = {"project.create", "thread.create", "thread.turn.start"}
    Body <- MCBody
    NumProjectors = 2
    ReadLimit = 2
    Transactional = TRUE
    MaxRequests = 4
    MaxFaults = 0
    MaxCrashes = 1
    MaxUpgrades = 1
INVARIANT ProjectionsComplete
CHECK_DEADLOCK FALSE
