SPECIFICATION Spec
CONSTANTS
    Threads = {k1, k2}
    MaxTurns = 2
    MaxPieces = 2
    MaxStops = 1
    MaxTroubles = 1
    MaxBacklog = 1
    BufferLimit = 1
SYMMETRY ThreadSymmetry
INVARIANT TypeOK
INVARIANT ShownIsTrue
INVARIANT StoppedIsLag
INVARIANT RepliesAreFaithful
INVARIANT RepliesArrive
INVARIANT RequestsAreAnswered
CHECK_DEADLOCK FALSE
CONSTRAINT StopsAlone
