------------------------- MODULE EngineRefinement -------------------------
(***************************************************************************)
(* OrchestrationEngine over a transactional store implements CommandLog:   *)
(* the log and the answers are the same, a command is settled when its     *)
(* receipt reaches the disk, and the state is what the log on disk replays *)
(* to, whether or not a process is up that has it in memory.               *)
(***************************************************************************)
EXTENDS OrchestrationEngine

Abstract == INSTANCE CommandLog WITH
    state   <- Replay(Len(log)),
    settled <- [c \in CommandIds |->
                  IF receipts[c].status = "none" THEN "open" ELSE receipts[c].status]

\* Every step of the engine, through queue, transaction, failure, crash and
\* restart, is a step CommandLog allows or is invisible to it.
ImplementsCommandLog == Abstract!Spec
=============================================================================
