-------------------------- MODULE MCEngineRefines --------------------------
(* The small instance of MCEngine, to be checked against CommandLog. *)
EXTENDS MCEngine, EngineRefinement
=============================================================================
