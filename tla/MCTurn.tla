-------------------------------- MODULE MCTurn --------------------------------
(***************************************************************************)
(* TurnFlow for TLC: threads that need not be told apart, and a constraint *)
(* on what one run combines.                                               *)
(***************************************************************************)
EXTENDS TurnFlow, TLC

ThreadSymmetry == Permutations(Threads)

\* No session has told an error or a state.
NothingRemarked ==
    /\ past.claimed = {}
    /\ past.disowned = {}
    /\ \A k \in Threads : shown[k].status # "error"

\* Replies are buffered, and of at most one piece.
RepliesAreShort ==
    /\ ingestion.mode = "buffered"
    /\ \A i \in DOMAIN ingestion.modes : ingestion.modes[i] = "buffered"
    /\ \A t \in Turns : output[t].pieces < MaxPieces

\* A run with a stop has no error or state told; one that has a trouble too,
\* has short replies.
StopsAlone ==
    \/ budget.stops = MaxStops
    \/ NothingRemarked /\ (budget.troubles = MaxTroubles \/ RepliesAreShort)

=============================================================================
