----------------------------- MODULE MCCheckpoint -----------------------------
(***************************************************************************)
(* CheckpointFlow for TLC: a turn that ends well, and one that is          *)
(* interrupted.                                                            *)
(***************************************************************************)
EXTENDS CheckpointFlow

MCOutcome == <<"completed", "interrupted">>

=============================================================================
