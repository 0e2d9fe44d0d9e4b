SPECIFICATION Spec
CONSTANTS
    MaxTurns = 2
    MaxEdits = 2
    MaxReverts = 1
    MaxTroubles = 1
    MaxBacklog = 1
    Outcome <- MCOutcome
INVARIANT TypeOK
INVARIANT CountsDistinct
INVARIANT CapturedHaveRefs
INVARIANT ProjectionsAgree
INVARIANT NothingLeftOpen
INVARIANT CapturesAreComplete
PROPERTY RevertIsWhole
CHECK_DEADLOCK FALSE
