SPECIFICATION FairSpec
CONSTANTS
    MaxCommits = 2
    MaxLosses = 2
    MaxSuspends = 1
INVARIANT TypeOK
INVARIANT QuietIsFresh
PROPERTY ViewOnlyAdvances
PROPERTY KeepsUp
CHECK_DEADLOCK FALSE
