SPECIFICATION Spec
CONSTANTS
    None = None
    a1 = a1
    b1 = b1
    A = A
    B = B
    Terminals <- MCTerminals
    ThreadOf <- MCThreadOf
    MaxRetained = 1
    HistoryLimit = 1
    MaxOperations = 3
    MaxOutputs = 1
    MaxPolls = 1
    MaxDisposals = 1
    MaxFaults = 1
INVARIANT TypeOK
INVARIANT NoStrayProcess
INVARIANT RetentionBound
INVARIANT HistoryReachesDisk
INVARIANT BusyIsCurrent
SYMMETRY MCSymmetry
CHECK_DEADLOCK FALSE
CONSTRAINT FaultsAlone
