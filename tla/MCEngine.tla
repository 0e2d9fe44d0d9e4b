------------------------------ MODULE MCEngine ------------------------------
(***************************************************************************)
(* A small instance of OrchestrationEngine: one project, one thread, and   *)
(* commands that create them, start a turn (two events), archive and       *)
(* unarchive the thread, each of which may be sent in any order, again and *)
(* again.                                                                  *)
(***************************************************************************)
EXTENDS OrchestrationEngine

CONSTANTS p1, t1

MCCommand(type) ==
    [type |-> type, project |-> p1, thread |-> IF type = "project.create" THEN None ELSE t1,
     plan |-> None, sourceThread |-> None]

\* The command ids are named after the command they stand for; a second command
\* of a type has "again" for its id.
MCBody ==
    [c \in CommandIds |-> MCCommand(IF c = "create again" THEN "thread.create" ELSE c)]
=============================================================================
